---------------------------- MODULE MCKmsReport ----------------------------
(***************************************************************************)
(* An instance of KmsReport for TLC: a bound DS key, a key whose private   *)
(* half is gone, a row whose key is missing, and requests that bind, delete*)
(* and import certificates, register, retire and generate meanwhile.       *)
(***************************************************************************)
EXTENDS MCKms, KmsReport

ReportKeyPairs == {EcA, EcB, RsaC, [EcB EXCEPT !.params = "secp384r1", !.pub = "F"]}

ReportRegistry ==
  [k \in KeyIds |->
     CASE k = k1 -> RowFor(k1, "DS", i1, EcA, i1)
       [] k = k3 -> RowFor(k3, "DS", i3, EcB, None)
       [] OTHER  -> None]

ReportKeys ==
  [i \in Ids |-> CASE i = i1 -> [pair |-> EcA, private |-> FALSE]
                   [] i = i2 -> KeyAt(EcB) [] OTHER -> None]

Garbage == [DsB EXCEPT !.keyType = "garbage"]

ReportStoredCerts == {DsA, DsAnext, DsB, Odd, Repeated, Garbage}

\* Stored by another hand: what does not parse is not imported.
ReportCerts == [NoCerts EXCEPT ![i1] = <<DsA, Garbage>>, ![i2] = <<DsAnext>>]

ReportRequests ==
  {UpdateRequest(k1, i2), RetireRequest(k1),
   ImportRequest(i1, DsB), ImportRequest(i1, Odd), ImportRequest(i1, Repeated),
   ImportRequest(i1, Garbage),
   DeleteRequest(i1), DeleteRequest(i2),
   RegisterRequest(k2, "DS", i2, i1), RegisterRequest(k2, "DS", i2, i2),
   GenerateRequest(i3, "EC", "secp384r1"), GenerateRequest(i3, "RSA", "2048")}
=============================================================================
