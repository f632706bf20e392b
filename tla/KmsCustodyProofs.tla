------------------------- MODULE KmsCustodyProofs -------------------------
(***************************************************************************)
(* Kms implements KeyCustody.  A step of a handler is a step of the        *)
(* custody of keys in four cases only: the INSERT of a registration, the   *)
(* UPDATE of a retirement or a new binding, the status check of            *)
(* validate_key, and hsm.sign.  Every other step gives up a grant or       *)
(* changes nothing the abstract specification sees.                        *)
(***************************************************************************)
EXTENDS KmsProofs

Granting == {"validateKey", "certificate", "crypto"}

\* The clients of the other handlers see nothing.
LEMMA OthersKeep ==
  ASSUME Inductive, NEW p \in Procs, Handle(p)
  PROVE  \A q \in Procs \ {p} :
           Granted(q)' = Granted(q) /\ SignedWith(q)' = SignedWith(q)
<1>1. TypeOK
  BY DEF Inductive
<1> QED
  BY <1>1, OthersStand DEF OthersStill, Still, Granted, SignedWith

\* The thread of a handler holds no grant after the step: it withdraws.
LEMMA Withdraws ==
  ASSUME Inductive, NEW p \in Procs, Handle(p),
         UNCHANGED <<registry, signed>>,
         pc'[p] \notin Granting \/ req'[p].op # "sign"
  PROVE  Custody!Next
<1>1. Granted(p)' = None
  BY DEF Granted, Granting
<1>2. \A q \in Procs : SignedWith(q)' = SignedWith(q)
  BY DEF SignedWith
<1>3. Custody!Withdraw({p})
  BY <1>1, <1>2, OthersKeep DEF Custody!Withdraw
<1> QED
  BY <1>3 DEF Custody!Next

\* The grant is the same after the step: a stutter.
LEMMA Keeps ==
  ASSUME Inductive, NEW p \in Procs, Handle(p),
         UNCHANGED <<registry, signed>>,
         Granted(p)' = Granted(p)
  PROVE  UNCHANGED Custody!vars
<1>1. \A q \in Procs : /\ Granted(q)' = Granted(q)
                       /\ SignedWith(q)' = SignedWith(q)
  BY OthersKeep DEF SignedWith
<1> QED
  BY <1>1 DEF Custody!vars

LEMMA StatusCheckGrants ==
  ASSUME Inductive, NEW p \in Procs, Validate_key(p)
  PROVE  [Custody!Next]_(Custody!vars)
<1>1. /\ Handle(p)
      /\ pc[p] = "validate"
      /\ UNCHANGED <<registry, req, signed>>
  BY DEF Validate_key, Handle, shared, history
<1>2. CASE req[p].op # "sign"
  BY <1>1, <1>2, Withdraws
<1>3. CASE pc'[p] = "done"
  BY <1>1, <1>3, Withdraws DEF Granting
<1>4. CASE req[p].op = "sign" /\ pc'[p] # "done"
  <2> DEFINE row == registry[entry[p].key]
  <2>1. /\ row.status = "ACTIVE"
        /\ entry' = [entry EXCEPT ![p] = row]
        /\ Goto(p, "validateKey")
    BY <1>4 DEF Validate_key, Reply, Refuse, Goto, Inductive, TypeOK
  <2>2. ThreadInv(p) /\ Crypting(p)
    BY <1>1, <1>4 DEF Inductive, Crypting
  <2>3. entry[p].key \in KeyIds /\ registry[entry[p].key] # None
    BY <1>1, <2>2 DEF ThreadInv, EntryInPlace, EntrySteps, Crypting, Row
  <2>4. row \in Row /\ row.key = entry[p].key
    BY <2>3, RowTyped
  <2>5. Granted(p)' = row.key
    BY <1>1, <1>4, <2>1, <2>4 DEF Granted, Goto, Inductive, TypeOK
  <2>6. Granted(p) = None /\ SignedWith(p) = None
    BY <1>1, <2>2 DEF Granted, SignedWith, ThreadInv, SignedInPlace
  <2>7. Custody!Grant(p, row.key)
    <3>1. \A q \in Procs : SignedWith(q)' = SignedWith(q)
      BY <1>1 DEF SignedWith
    <3> QED
      BY <1>1, <2>1, <2>3, <2>4, <2>5, <2>6, <3>1, OthersKeep DEF Custody!Grant
  <2> QED
    BY <2>3, <2>4, <2>7 DEF Custody!Next
<1> QED
  BY <1>2, <1>3, <1>4

\* A step of the checks after the status check: on, or refused.
LEMMA ChecksKeep ==
  ASSUME Inductive, NEW p \in Procs, ValidateKeyObject(p) \/ CheckCertificate(p)
  PROVE  [Custody!Next]_(Custody!vars)
<1>1. /\ Handle(p)
      /\ pc[p] \in Granting
      /\ UNCHANGED <<registry, req, signed>>
  BY DEF ValidateKeyObject, CheckCertificate, Handle, shared, history, Granting
<1>2. CASE pc'[p] \notin Granting \/ req[p].op # "sign"
  BY <1>1, <1>2, Withdraws
<1>3. CASE pc'[p] \in Granting /\ req[p].op = "sign"
  <2>1. UNCHANGED entry
    BY <1>3 DEF ValidateKeyObject, CheckCertificate, Reply, Refuse, NotFound, Fail, Goto,
       local, Granting, Inductive, TypeOK
  <2>2. Granted(p)' = Granted(p)
    BY <1>1, <1>3, <2>1 DEF Granted, Granting
  <2> QED
    BY <1>1, <2>2, Keeps
<1> QED
  BY <1>2, <1>3

LEMMA TokenSigns ==
  ASSUME Inductive, NEW p \in Procs, Crypto(p)
  PROVE  [Custody!Next]_(Custody!vars)
<1>1. /\ Handle(p)
      /\ pc[p] = "crypto"
      /\ UNCHANGED <<registry, req>>
      /\ pc'[p] \in {"finish", "done"}
  BY DEF Crypto, Handle, shared, Reply, NotFound, Fail, Goto, Inductive, TypeOK
<1>2. CASE UNCHANGED signed
  BY <1>1, <1>2, Withdraws DEF Granting
<1>3. CASE ~UNCHANGED signed
  <2> DEFINE sig == [key |-> entry[p].key, cert |-> entry[p].cert,
                     pair |-> keys[req[p].id].pair]
  <2>1. /\ req[p].op = "sign"
        /\ signed' = [signed EXCEPT ![p] = sig]
        /\ keys[req[p].id] # None
    BY <1>3 DEF Crypto
  <2>2. ThreadInv(p) /\ Crypting(p)
    BY <2>1 DEF Inductive, Crypting
  <2>3. /\ entry[p] \in Row
        /\ entry[p].object = req[p].id
        /\ keys[req[p].id] \in KeyObject
    BY <1>1, <2>1, <2>2 DEF ThreadInv, EntryInPlace, EntrySteps, Crypting,
       Inductive, TypeOK, KeyStore, Row
  <2>4. sig # None
    BY <2>3, SignatureAssumption DEF Signature, Row, KeyObject
  <2>5. /\ Granted(p) = entry[p].key
        /\ Granted(p) # None
        /\ SignedWith(p) = None
    BY <1>1, <2>1, <2>2, <2>3, NoneAssumption
       DEF Granted, SignedWith, ThreadInv, SignedInPlace, Row
  <2>6. /\ Granted(p)' = None
        /\ SignedWith(p)' = entry[p].key
    BY <1>1, <2>1, <2>4 DEF Granted, SignedWith, Inductive, TypeOK
  <2>7. Custody!Sign(p)
    BY <1>1, <2>5, <2>6, OthersKeep DEF Custody!Sign
  <2> QED
    BY <2>7 DEF Custody!Next
<1> QED
  BY <1>2, <1>3

LEMMA InsertRegisters ==
  ASSUME Inductive, NEW p \in Procs, Insert(p)
  PROVE  [Custody!Next]_(Custody!vars)
<1>1. /\ Handle(p)
      /\ pc[p] = "insert"
      /\ UNCHANGED <<req, signed>>
  BY DEF Insert, Handle, history
<1>2. /\ ThreadInv(p)
      /\ req[p].op = "register"
      /\ req[p].key \in KeyIds
      /\ req[p].id \in Ids
      /\ req[p].role \in Role
      /\ req[p].cert \in Ids \cup {None}
  BY <1>1, AtWork DEF InHandler
<1>3. CASE UNCHANGED registry
  BY <1>1, <1>2, <1>3, Withdraws
<1>4. CASE ~UNCHANGED registry
  <2> DEFINE k == req[p].key
  <2>1. /\ registry[k] = None
        /\ ~Registered(req[p].id)
        /\ registry' = [registry EXCEPT ![k] = NewRow(p)]
    BY <1>4 DEF Insert, ViolatesSchema
  <2>2. NewRow(p) \in Row
    <3>1. hkey[p].pair \in KeyPairs
      BY <1>1, <1>2 DEF ThreadInv, KeyHeld, KeyObject
    <3>2. hkey[p].pair.alg \in KeyAlgorithm /\ hkey[p].pair.params \in Params
      BY <3>1, KeyPairsAssumption DEF Params
    <3> QED
      BY <1>2, <3>2 DEF NewRow, Row
  <2>3. /\ NewRow(p).key = k
        /\ NewRow(p).status = "ACTIVE"
        /\ NewRow(p).object = req[p].id
    BY DEF NewRow
  <2>4. req[p].id \notin Custody!ObjectsInUse
    BY <2>1 DEF Custody!ObjectsInUse, Registered, Rows
  <2>5. \A q \in Procs : Granted(q)' = Granted(q) /\ SignedWith(q)' = SignedWith(q)
    <3>1. Granted(p)' = Granted(p) /\ SignedWith(p)' = SignedWith(p)
      BY <1>1, <1>2 DEF Granted, SignedWith
    <3> QED
      BY <1>1, <3>1, OthersKeep
  <2>6. Custody!Register(k)
    BY <2>1, <2>2, <2>3, <2>4, <2>5 DEF Custody!Register
  <2> QED
    BY <1>2, <2>6 DEF Custody!Next
<1> QED
  BY <1>3, <1>4

LEMMA CommitRetiresOrRebinds ==
  ASSUME Inductive, NEW p \in Procs, Commit(p)
  PROVE  [Custody!Next]_(Custody!vars)
<1>1. /\ Handle(p)
      /\ pc[p] = "commit"
      /\ UNCHANGED <<req, signed>>
  BY DEF Commit, Handle, history
<1>2. /\ ThreadInv(p)
      /\ req[p].op \in {"retire", "update"}
      /\ req[p].key \in KeyIds
      /\ req[p].op = "update" => req[p].cert \in Ids
  BY <1>1, AtWork DEF InHandler
<1> DEFINE k == req[p].key
<1>3. registry[k] # None
  BY <1>1, <1>2 DEF ThreadInv, EntryInPlace, EntrySteps, Crypting
<1>4. \A q \in Procs : Granted(q)' = Granted(q) /\ SignedWith(q)' = SignedWith(q)
  <2>1. Granted(p)' = Granted(p) /\ SignedWith(p)' = SignedWith(p)
    BY <1>1, <1>2 DEF Granted, SignedWith
  <2> QED
    BY <1>1, <2>1, OthersKeep
<1>5. CASE req[p].op = "retire"
  <2>1. Custody!Retire(k)
    BY <1>3, <1>4, <1>5 DEF Custody!Retire, Commit
  <2> QED
    BY <1>2, <2>1 DEF Custody!Next
<1>6. CASE req[p].op = "update"
  <2>1. registry' = [registry EXCEPT ![k].cert = req[p].cert]
    BY <1>6 DEF Commit
  <2>2. Custody!Rebind(k)
    BY <1>2, <1>3, <1>4, <1>6, <2>1 DEF Custody!Rebind
  <2> QED
    BY <1>2, <2>2 DEF Custody!Next
<1> QED
  BY <1>2, <1>5, <1>6

\* Every other step of a handler holds no grant after it.
LEMMA OtherStepsWithdraw ==
  ASSUME Inductive, NEW p \in Procs,
         \/ Receive(p) \/ Lookup(p) \/ Unauthorized(p)
         \/ RegisterKeyObject(p) \/ SelectKeyId(p) \/ SelectObject(p)
         \/ GetKey(p) \/ UpdateKeyObject(p) \/ SelectStatus(p)
         \/ FindReferences(p) \/ ReadCert(p) \/ Destroy(p) \/ Create(p) \/ Generate(p)
         \/ Finish(p) \/ AccessFails(p)
  PROVE  Custody!Next
<1> USE DEF Goto, Reply, Refuse, NotFound, Fail, shared, tokenVars, history, Granting
<1>1. Handle(p) /\ TypeOK
  BY DEF Handle, Inductive
<1>2. UNCHANGED <<registry, signed>>
  BY DEF Receive, Lookup, Unauthorized, RegisterKeyObject, SelectKeyId, SelectObject, GetKey,
     UpdateKeyObject, SelectStatus, FindReferences, ReadCert, Destroy, Create, Generate,
     Finish, AccessFails
<1>3. CASE Receive(p)
  <2>1. PICK r \in Request : Goto(p, FirstStep(r.op))
    BY <1>3, RequestsAssumption DEF Receive
  <2>2. FirstStep(r.op) \notin Granting
    <3>1. r.op \in {"sign", "verify", "retire", "update", "register",
                    "delete", "import", "generate"}
      BY RequestFields
    <3> QED
      BY <3>1 DEF FirstStep
  <2>3. pc'[p] \notin Granting
    BY <1>1, <2>1, <2>2 DEF TypeOK
  <2> QED
    BY <1>1, <1>2, <2>3, Withdraws
<1>4. CASE \/ RegisterKeyObject(p) \/ SelectKeyId(p) \/ SelectObject(p)
           \/ GetKey(p) \/ UpdateKeyObject(p) \/ SelectStatus(p)
           \/ FindReferences(p) \/ ReadCert(p) \/ Destroy(p) \/ Create(p) \/ Generate(p)
  <2>1. /\ pc[p] \in {"registerKey", "selectKeyId", "selectObject", "getKey", "updateKey",
                      "selectStatus", "findReferences", "readCert", "destroy", "create",
                      "generate"}
        /\ UNCHANGED req
    BY <1>4 DEF RegisterKeyObject, SelectKeyId, SelectObject, GetKey, UpdateKeyObject,
       SelectStatus, FindReferences, ReadCert, Destroy, Create, Generate
  <2>2. req'[p].op # "sign"
    BY <2>1, AtWork DEF InHandler
  <2> QED
    BY <1>1, <1>2, <2>2, Withdraws
<1>5. CASE Lookup(p) \/ Unauthorized(p) \/ Finish(p) \/ AccessFails(p)
  <2>1. pc'[p] \notin Granting
    <3>1. CASE Lookup(p) \/ Unauthorized(p)
      BY <1>1, <3>1 DEF TypeOK, Lookup, Unauthorized
    <3>2. CASE Finish(p) \/ AccessFails(p)
      BY <1>1, <3>2 DEF TypeOK, Finish, AccessFails
    <3> QED
      BY <1>5, <3>1, <3>2
  <2> QED
    BY <1>1, <1>2, <2>1, Withdraws
<1> QED
  BY <1>3, <1>4, <1>5

LEMMA EveryStepMaps ==
  ASSUME Inductive, [Next]_vars
  PROVE  [Custody!Next]_(Custody!vars)
<1>1. ASSUME NEW p \in Procs, Handle(p) PROVE [Custody!Next]_(Custody!vars)
  <2>1. CASE Validate_key(p)
    BY <2>1, StatusCheckGrants
  <2>2. CASE ValidateKeyObject(p) \/ CheckCertificate(p)
    BY <2>2, ChecksKeep
  <2>3. CASE Crypto(p)
    BY <2>3, TokenSigns
  <2>4. CASE Insert(p)
    BY <2>4, InsertRegisters
  <2>5. CASE Commit(p)
    BY <2>5, CommitRetiresOrRebinds
  <2>6. CASE ~(\/ Validate_key(p) \/ ValidateKeyObject(p) \/ CheckCertificate(p)
               \/ Crypto(p) \/ Insert(p) \/ Commit(p))
    BY <1>1, <2>6, OtherStepsWithdraw DEF Handle
  <2> QED
    BY <2>1, <2>2, <2>3, <2>4, <2>5, <2>6
<1>2. CASE Tick \/ Quiescent \/ UNCHANGED vars
  BY <1>2 DEF Tick, Quiescent, vars, shared, local, history, Custody!vars, Granted, SignedWith
<1> QED
  BY <1>1, <1>2 DEF Next

LEMMA CustodyInitially == Init => Custody!Init
<1> SUFFICES ASSUME Init PROVE Custody!Init
  OBVIOUS
<1>1. registry \in [KeyIds -> Row \cup {None}]
  BY InitAssumption DEF Init, Registry
<1>2. \A p \in Procs : Granted(p) = None /\ SignedWith(p) = None
  BY DEF Init, Granted, SignedWith
<1> QED
  BY <1>1, <1>2 DEF Custody!Init

(***************************************************************************)
(* The service, with all its handlers running at once, keeps the promise   *)
(* of KeyCustody: identities are only added, bound and retired, and every  *)
(* signature is made under a grant that was given while the key was ACTIVE.*)
(***************************************************************************)
THEOREM KeepsCustody == Spec => CustodySpec
<1>1. Inductive /\ [Next]_vars => [Custody!Next]_(Custody!vars)
  BY EveryStepMaps
<1> QED
  BY <1>1, CustodyInitially, InvariantHolds, PTL DEF Spec, CustodySpec, Custody!Spec
===========================================================================
