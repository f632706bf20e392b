----------------------------- MODULE TokenStore -----------------------------
(***************************************************************************)
(* What the service takes the methods of hsm.HSM to be: operations on the  *)
(* token that each take effect at one instant.  gen_rsa and gen_ec put one *)
(* key pair under an id that no object has at that instant; import_cert    *)
(* adds a certificate, delete_cert takes one away.                         *)
(***************************************************************************)
EXTENDS Naturals

CONSTANT Ids   \* CKA_ID values

VARIABLES
  pairs,       \* key pairs on the token, by CKA_ID
  certificates \* certificates on the token, by CKA_ID

Init == pairs \in [Ids -> Nat] /\ certificates \in [Ids -> Nat]

Unused(i) == pairs[i] = 0 /\ certificates[i] = 0

Generate(i) ==
  /\ Unused(i)
  /\ pairs' = [pairs EXCEPT ![i] = 1]
  /\ UNCHANGED certificates

Import(i) ==
  /\ certificates' = [certificates EXCEPT ![i] = @ + 1]
  /\ UNCHANGED pairs

Delete(i) ==
  /\ certificates[i] > 0
  /\ certificates' = [certificates EXCEPT ![i] = @ - 1]
  /\ UNCHANGED pairs

Next == \E i \in Ids : Generate(i) \/ Import(i) \/ Delete(i)

Spec == Init /\ [][Next]_<<pairs, certificates>>
=============================================================================
