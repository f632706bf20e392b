----------------------------- MODULE KeyCustody -----------------------------
(***************************************************************************)
(* What the service promises about the custody of its keys, without its    *)
(* handlers, its two stores or its threads.  A ledger of identities only   *)
(* grows; an identity never changes but for the certificate it is bound to *)
(* and its one way from ACTIVE to RETIRED.  A client signs under a grant,  *)
(* given while the key is ACTIVE; a grant outlives the key's retirement,   *)
(* it is never given after.                                                *)
(***************************************************************************)
CONSTANTS Clients, KeyIds, Identities, Certificates, None

VARIABLES
  ledger,      \* identity or None, by key_id
  grant,       \* per client: the key it may sign with, or None
  signatures   \* per client: the key it has signed with, or None

vars == <<ledger, grant, signatures>>

Init ==
  /\ ledger \in [KeyIds -> Identities \cup {None}]
  /\ grant = [c \in Clients |-> None]
  /\ signatures = [c \in Clients |-> None]

ObjectsInUse == {ledger[k].object : k \in {j \in KeyIds : ledger[j] # None}}

Register(k) ==
  /\ ledger[k] = None
  /\ \E id \in Identities :
       /\ id.key = k
       /\ id.status = "ACTIVE"
       /\ id.object \notin ObjectsInUse
       /\ ledger' = [ledger EXCEPT ![k] = id]
  /\ UNCHANGED <<grant, signatures>>

Retire(k) ==
  /\ ledger[k] # None
  /\ ledger' = [ledger EXCEPT ![k].status = "RETIRED"]
  /\ UNCHANGED <<grant, signatures>>

Rebind(k) ==
  /\ ledger[k] # None
  /\ \E c \in Certificates : ledger' = [ledger EXCEPT ![k].cert = c]
  /\ UNCHANGED <<grant, signatures>>

Grant(c, k) ==
  /\ ledger[k] # None
  /\ ledger[k].status = "ACTIVE"
  /\ grant[c] = None
  /\ signatures[c] = None
  /\ grant' = [grant EXCEPT ![c] = k]
  /\ UNCHANGED <<ledger, signatures>>

\* Several at once when the service goes down.
Withdraw(S) ==
  /\ grant' = [c \in Clients |-> IF c \in S THEN None ELSE grant[c]]
  /\ UNCHANGED <<ledger, signatures>>

Sign(c) ==
  /\ grant[c] # None
  /\ signatures[c] = None
  /\ signatures' = [signatures EXCEPT ![c] = grant[c]]
  /\ grant' = [grant EXCEPT ![c] = None]
  /\ UNCHANGED ledger

Next ==
  \/ \E k \in KeyIds : Register(k) \/ Retire(k) \/ Rebind(k)
  \/ \E c \in Clients : Sign(c) \/ \E k \in KeyIds : Grant(c, k)
  \/ \E S \in SUBSET Clients : Withdraw(S)

Spec == Init /\ [][Next]_vars
=============================================================================
