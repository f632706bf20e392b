-------------------------- MODULE EnrollmentProofs --------------------------
(***************************************************************************)
(* The safety of the enrollment script for every number of failing         *)
(* requests and of deletions.  A step is of the script, which moves it on  *)
(* and may have one request carried out; or of the world around it, which  *)
(* leaves the script where it is.                                          *)
(***************************************************************************)
EXTENDS Enrollment, TLAPS

LEMMA Named ==
  /\ ENTITIES[1] = "CSCA" /\ ENTITIES[2] = "DS" /\ ENTITIES[3] = "CVCA"
  /\ \A n \in 1..3 : ENTITIES[n] \in Entity
BY DEF ENTITIES, Entity

\* What the run gets behind it by a step.
LEMMA BehindKept ==
  ASSUME AtCertificates, UNCHANGED cur, AtCertificates', NEW e
  PROVE  Behind(e)' => Behind(e)
BY DEF Behind, AtCertificates

LEMMA BehindNone ==
  ASSUME step' # "enrolled", ~AtCertificates' \/ cur' = 1, NEW e
  PROVE  ~Behind(e)'
BY DEF Behind

LEMMA BehindNext ==
  ASSUME cur \in 1..3, AtCertificates, NextEntity, NEW e \in Entity
  PROVE  Behind(e)' => Behind(e) \/ e = here
<1>1. CASE cur < 3
  <2>1. cur' = cur + 1 /\ step' = "build"
    BY <1>1 DEF NextEntity, Goto
  <2>2. Behind(e)' => \E n \in 1..cur : e = ENTITIES[n]
    BY <2>1 DEF Behind
  <2>3. \A n \in 1..cur : n \in 1..(cur - 1) \/ n = cur
    OBVIOUS
  <2> QED
    BY <2>2, <2>3 DEF Behind, here
<1>2. CASE cur = 3
  <2>1. \E n \in 1..3 : e = ENTITIES[n]
    BY Named DEF Entity
  <2> QED
    BY <1>2, <2>1 DEF Behind, here
<1> QED
  BY <1>1, <1>2

----------------------------------------------------------------------------
\* What the server carries out adds at most the certificate it was asked for.

LEMMA Carried ==
  ASSUME TypeOK, NEW op \in Whole, NEW e \in Entity, Accepts(op, e), Apply(op, e)
  PROVE  /\ keys' \in [Entity -> BOOLEAN]
         /\ certs' \in [Entity -> Nat]
         /\ rows' = rows
         /\ \A f \in Entity :
              /\ keys[f] => keys'[f]
              /\ certs'[f] = IF op = "import" /\ f = e THEN certs[f] + 1 ELSE certs[f]
<1>1. CASE op = "generate"
  BY <1>1 DEF Apply, Accepts, TypeOK
<1>2. CASE op = "import"
  BY <1>2 DEF Apply, TypeOK
<1> QED
  BY <1>1, <1>2 DEF Whole

\* No claim is new, and what backs the old ones is still there.
LEMMA ClaimsKept ==
  ASSUME Claims, UNCHANGED <<deleting, overlapped>>,
         \A f \in Entity :
           /\ keys[f] => keys'[f]
           /\ certs[f] > 0 => certs'[f] > 0
           /\ Claimed(f)' => Claimed(f)
  PROVE  Claims'
BY DEF Claims

\* A step that neither validates nor commits makes no claim.
LEMMA NoClaim ==
  ASSUME UNCHANGED <<rows, validated>>, step' # "commit"
  PROVE  \A f \in Entity : Claimed(f)' => Claimed(f)
BY DEF Claimed, Registering

LEMMA ClaimStays ==
  ASSUME UNCHANGED <<rows, validated, step, cur>>
  PROVE  \A f \in Entity : Claimed(f)' <=> Claimed(f)
BY DEF Claimed, Registering, here

\* A validation makes the claim good, or the entity one of the overlapped.
LEMMA ClaimMade ==
  ASSUME TypeOK, Claims, NEW e \in Entity, Validated(e), UNCHANGED <<stores, deleting>>,
         \A f \in Entity : Claimed(f)' => Claimed(f) \/ f = e
  PROVE  Claims' /\ overlapped' \subseteq Entity
<1>1. keys[e] /\ certs[e] > 0 /\ (deleting[e] > 0 => e \in overlapped')
  BY DEF Validated, Valid
<1>2. deleting[e] \in Nat /\ overlapped \subseteq overlapped' /\ overlapped' \subseteq Entity
  BY DEF TypeOK, Validated
<1>3. deleting[e] > 0 \/ deleting[e] = 0
  BY <1>2
<1> QED
  BY <1>1, <1>2, <1>3 DEF Claims, stores

\* A commit turns one claim into another.
LEMMA Commits ==
  ASSUME TypeOK, Claims, NEW e \in Entity, Claimed(e), Committed(e),
         UNCHANGED <<deleting, overlapped>>,
         \A f \in Entity : Registering(f)' => Registering(f)
  PROVE  /\ Claims'
         /\ rows' \in [Entity -> {"none", "ACTIVE", "RETIRED"}]
         /\ rows'[e] # "none"
         /\ \A f \in Entity : rows[f] # "none" => rows'[f] # "none"
<1>1. rows' = [rows EXCEPT ![e] = "ACTIVE"] /\ UNCHANGED <<keys, certs>>
  BY DEF Committed
<1>2. \A f \in Entity : Claimed(f)' => Claimed(f)
  BY <1>1 DEF Claimed, TypeOK
<1>3. Claims'
  BY <1>1, <1>2, ClaimsKept
<1> QED
  BY <1>1, <1>3 DEF TypeOK

----------------------------------------------------------------------------
\* The script.  A step leaves the counts in order when what is about to be
\* sent grows by no more than the failures, and nothing else grows.

LEMMA HereIs == ASSUME cur \in 1..3 PROVE here \in Entity
BY Named DEF here

LEMMA Preserved ==
  ASSUME Inductive, TypeOK', Claims', Settled',
         \A e \in Entity :
           /\ certs'[e] + pending'["import"][e] + About(e)' - faults'
                <= certs[e] + pending["import"][e] + About(e) - faults
           /\ pending'["import"][e] - faults' <= pending["import"][e] - faults
  PROVE  Inductive'
<1> SUFFICES ASSUME NEW e \in Entity
             PROVE  /\ certs'[e] + pending'["import"][e] + About(e)' <= 1 + faults'
                    /\ pending'["import"][e] <= faults'
  BY DEF Inductive, Counted
<1>1. /\ certs[e] \in Nat /\ pending["import"][e] \in Nat /\ faults \in Nat
      /\ About(e) \in {0, 1}
  BY DEF Inductive, TypeOK, Post, Whole, About
<1>2. /\ certs'[e] \in Nat /\ pending'["import"][e] \in Nat /\ faults' \in Nat
      /\ About(e)' \in {0, 1}
  BY DEF TypeOK, Post, Whole, About
<1>3. /\ certs[e] + pending["import"][e] + About(e) <= 1 + faults
      /\ pending["import"][e] <= faults
  BY DEF Inductive, Counted
<1> QED
  BY <1>1, <1>2, <1>3

\* A step that asks, or fails, and sends nothing.
LEMMA Asked ==
  ASSUME Inductive, TypeOK', Settled', UNCHANGED <<stores, server>>, step' # "commit",
         faults' \in {faults, faults + 1}, \A e \in Entity : About(e)' = 0
  PROVE  Inductive'
<1>1. TypeOK /\ Claims
  BY DEF Inductive
<1>2. Claims'
  BY <1>1, NoClaim, ClaimsKept DEF stores, server
<1>3. \A e \in Entity :
        /\ certs[e] \in Nat /\ pending["import"][e] \in Nat /\ faults \in Nat
        /\ About(e) \in {0, 1}
  BY <1>1 DEF TypeOK, Post, Whole, About
<1> QED
  BY <1>2, <1>3, Preserved DEF stores, server

LEMMA RunStep == Inductive /\ Run => Inductive'
<1> SUFFICES ASSUME Inductive, Run PROVE Inductive'
  OBVIOUS
<1>1. step' = "findKey" /\ cur' = 1 /\ UNCHANGED <<stores, server, faults>>
  BY DEF Run, Goto
<1>2. TypeOK'
  BY DEF Inductive, TypeOK, Run, Goto, Step, stores, server
<1>3. Settled'
  BY <1>1, BehindNone DEF Settled, AtCertificates
<1>4. \A e \in Entity : About(e)' = 0
  BY <1>1 DEF About
<1> QED
  BY <1>1, <1>2, <1>3, <1>4, Asked

LEMMA Died ==
  ASSUME Die
  PROVE  /\ step' = "failed" /\ cur' = 1 /\ Settled'
         /\ \A e \in Entity : About(e)' = 0
<1>1. step' = "failed" /\ cur' = 1
  BY DEF Die, Goto
<1> QED
  BY <1>1, BehindNone DEF Settled, About, AtCertificates

LEMMA FaultIs ==
  ASSUME TypeOK, Fault
  PROVE  faults' = faults + 1 /\ faults' \in 0..MaxFaults
BY BoundsAssumption DEF TypeOK, Fault

LEMMA FindKeyStep == Inductive /\ FindKey => Inductive'
<1> SUFFICES ASSUME Inductive, FindKey PROVE Inductive'
  OBVIOUS
<1>1. TypeOK /\ Claims /\ here \in Entity
  BY HereIs DEF Inductive, TypeOK
<1>2. UNCHANGED <<stores, server, deletes>> /\ step = "findKey"
  BY DEF FindKey
<1>3. CASE keys[here] /\ described' = [described EXCEPT ![here] = "der"]
           /\ NextKey /\ UNCHANGED faults
  <2>1. step' \in {"findKey", "build"} /\ cur' \in 1..3 /\ (step' = "build" => cur' = 1)
    BY <1>1, <1>3 DEF NextKey, Goto, TypeOK
  <2>2. TypeOK'
    BY <1>1, <1>2, <1>3, <2>1 DEF TypeOK, stores, server, Step
  <2>3. Settled' /\ \A e \in Entity : About(e)' = 0
    BY <2>1, BehindNone DEF Settled, About, AtCertificates
  <2> QED
    BY <1>2, <1>3, <2>1, <2>2, <2>3, Asked
<1>4. CASE Goto("generate") /\ UNCHANGED <<cur, described, faults>>
  <2>1. TypeOK'
    BY <1>1, <1>2, <1>4 DEF TypeOK, stores, server, Step, Goto
  <2>2. Settled' /\ \A e \in Entity : About(e)' = 0
    BY <1>4, BehindNone DEF Settled, About, AtCertificates, Goto
  <2> QED
    BY <1>2, <1>4, <2>1, <2>2, Asked DEF Goto
<1>5. CASE Fault /\ Die /\ UNCHANGED described
  <2>1. TypeOK'
    BY <1>1, <1>2, <1>5, Died, FaultIs DEF TypeOK, stores, server, Step
  <2> QED
    BY <1>1, <1>2, <1>5, <2>1, Died, FaultIs, Asked
<1> QED
  BY <1>3, <1>4, <1>5 DEF FindKey

LEMMA BuildStep == Inductive /\ Build => Inductive'
<1> SUFFICES ASSUME Inductive, Build PROVE Inductive'
  OBVIOUS
<1>1. TypeOK /\ Claims /\ Settled
  BY DEF Inductive
<1>2. UNCHANGED <<stores, described, server, deletes>> /\ step = "build"
  BY DEF Build
<1>3. CASE Goto("findCert") /\ UNCHANGED <<cur, faults>>
  <2>1. TypeOK'
    BY <1>1, <1>2, <1>3 DEF TypeOK, stores, server, Step, Goto
  <2>2. Settled'
    BY <1>1, <1>2, <1>3, BehindKept DEF Settled, stores, Goto, AtCertificates
  <2>3. \A e \in Entity : About(e)' = 0
    BY <1>3 DEF About, Goto
  <2> QED
    BY <1>2, <1>3, <2>1, <2>2, <2>3, Asked DEF Goto
<1>4. CASE Die /\ (UNCHANGED faults \/ Fault)
  <2>1. faults' \in {faults, faults + 1} /\ faults' \in 0..MaxFaults
    BY <1>1, <1>4, FaultIs DEF TypeOK
  <2>2. TypeOK'
    BY <1>1, <1>2, <1>4, <2>1, Died DEF TypeOK, stores, server, Step
  <2> QED
    BY <1>2, <1>4, <2>1, <2>2, Died, Asked
<1> QED
  BY <1>3, <1>4 DEF Build

\* Asked in vain, the script imports the first certificate; a request that
\* failed pays for one too many.
LEMMA FindCertStep == Inductive /\ FindCert => Inductive'
<1> SUFFICES ASSUME Inductive, FindCert PROVE Inductive'
  OBVIOUS
<1>1. TypeOK /\ Claims /\ Settled /\ Counted
  BY DEF Inductive
<1>2. UNCHANGED <<stores, cur, described, server, deletes>> /\ step = "findCert"
  BY DEF FindCert
<1>3. step' \in {"findRow", "import"}
  BY DEF FindCert, Goto
<1>4. faults' \in {faults, faults + 1} /\ faults' \in 0..MaxFaults
  BY <1>1, FaultIs DEF FindCert, TypeOK
<1>5. TypeOK'
  BY <1>1, <1>2, <1>3, <1>4 DEF TypeOK, stores, server, Step
<1>6. Settled'
  BY <1>1, <1>2, <1>3, BehindKept DEF Settled, stores, AtCertificates
<1>7. Claims'
  BY <1>1, <1>2, <1>3, NoClaim, ClaimsKept DEF stores, server
<1>8. Counted'
  <2> SUFFICES ASSUME NEW e \in Entity
               PROVE  /\ certs'[e] + pending'["import"][e] + About(e)' <= 1 + faults'
                      /\ pending'["import"][e] <= faults'
    BY DEF Counted
  <2>1. /\ certs[e] \in Nat /\ pending["import"][e] \in Nat /\ faults \in Nat
        /\ About(e)' \in {0, 1} /\ About(e) = 0
    BY <1>1, <1>2 DEF TypeOK, Post, Whole, About
  <2>2. /\ certs[e] + pending["import"][e] <= 1 + faults
        /\ pending["import"][e] <= faults
    BY <1>1, <2>1 DEF Counted
  <2>3. certs'[e] = certs[e] /\ pending'["import"][e] = pending["import"][e]
    BY <1>2 DEF stores, server
  <2>4. About(e)' = 1 => certs[e] = 0 \/ faults' = faults + 1
    BY <1>1, <1>2, FaultIs DEF About, FindCert, Goto, here
  <2> QED
    BY <1>4, <2>1, <2>2, <2>3, <2>4
<1> QED
  BY <1>5, <1>6, <1>7, <1>8 DEF Inductive

LEMMA FindRowStep == Inductive /\ FindRow => Inductive'
<1> SUFFICES ASSUME Inductive, FindRow PROVE Inductive'
  OBVIOUS
<1>1. TypeOK /\ Claims /\ Settled
  BY DEF Inductive
<1>2. UNCHANGED <<stores, described, server, deletes>> /\ step = "findRow"
  BY DEF FindRow
<1>3. CASE rows[here] # "none" /\ NextEntity /\ UNCHANGED faults
  <2>1. step' \in {"build", "enrolled"} /\ cur' \in 1..3
    BY <1>1, <1>3 DEF NextEntity, Goto, TypeOK
  <2>2. TypeOK'
    BY <1>1, <1>2, <1>3, <2>1 DEF TypeOK, stores, server, Step
  <2>3. Settled'
    BY <1>1, <1>2, <1>3, BehindNext DEF Settled, stores, AtCertificates, TypeOK
  <2>4. \A e \in Entity : About(e)' = 0
    BY <2>1 DEF About
  <2> QED
    BY <1>2, <1>3, <2>1, <2>2, <2>3, <2>4, Asked
<1>4. CASE Goto("register") /\ UNCHANGED cur /\ (UNCHANGED faults \/ Fault)
  <2>1. faults' \in {faults, faults + 1} /\ faults' \in 0..MaxFaults
    BY <1>1, <1>4, FaultIs DEF TypeOK
  <2>2. TypeOK'
    BY <1>1, <1>2, <1>4, <2>1 DEF TypeOK, stores, server, Step, Goto
  <2>3. Settled'
    BY <1>1, <1>2, <1>4, BehindKept DEF Settled, stores, AtCertificates, Goto
  <2>4. \A e \in Entity : About(e)' = 0
    BY <1>4 DEF About, Goto
  <2> QED
    BY <1>2, <1>4, <2>1, <2>2, <2>3, <2>4, Asked DEF Goto
<1> QED
  BY <1>3, <1>4 DEF FindRow

----------------------------------------------------------------------------
\* Requests.

\* However a request ends badly, the counts stay in order: what it had done
\* or left behind was about to be sent, and it failed.
LEMMA SendBadly ==
  ASSUME Inductive, NEW op \in Whole, step = op, Die,
         UNCHANGED <<described, validated, deleting, overlapped, deletes>>,
         \/ UNCHANGED <<stores, pending, faults>>
         \/ /\ Fault
            /\ \/ UNCHANGED <<stores, pending>>
               \/ Accepts(op, here) /\ Apply(op, here) /\ UNCHANGED pending
               \/ LeavePending(op, here) /\ UNCHANGED stores
  PROVE  Inductive'
<1>1. TypeOK /\ Claims /\ here \in Entity
  BY HereIs DEF Inductive, TypeOK
<1>2. step' = "failed" /\ cur' = 1 /\ Settled' /\ \A e \in Entity : About(e)' = 0
  BY Died
<1>3. \A e \in Entity :
        /\ certs[e] \in Nat /\ pending["import"][e] \in Nat /\ faults \in Nat
        /\ About(e) \in {0, 1}
  BY <1>1 DEF TypeOK, Post, Whole, About
<1>4. CASE UNCHANGED <<stores, pending>> /\ (UNCHANGED faults \/ Fault)
  <2>1. faults' \in {faults, faults + 1} /\ faults' \in 0..MaxFaults
    BY <1>1, <1>4, FaultIs DEF TypeOK
  <2>2. TypeOK'
    BY <1>1, <1>2, <1>4, <2>1 DEF TypeOK, stores, Step
  <2> QED
    BY <1>2, <1>4, <2>1, <2>2, Died, Asked DEF server
<1>5. CASE Fault /\ Accepts(op, here) /\ Apply(op, here) /\ UNCHANGED pending
  <2>1. faults' = faults + 1 /\ faults' \in 0..MaxFaults
    BY <1>1, <1>5, FaultIs
  <2>2. TypeOK'
    BY <1>1, <1>2, <1>5, <2>1, Carried DEF TypeOK, Step
  <2>3. /\ rows' = rows
        /\ \A e \in Entity : (keys[e] => keys'[e]) /\ certs'[e] \in {certs[e], certs[e] + 1}
    BY <1>1, <1>5, Carried
  <2>4. \A e \in Entity : certs[e] > 0 => certs'[e] > 0
    BY <1>3, <2>3
  <2>5. Claims'
    BY <1>1, <1>2, <2>3, <2>4, NoClaim, ClaimsKept
  <2> QED
    BY <1>2, <1>3, <1>5, <2>1, <2>2, <2>3, <2>5, Preserved
<1>6. CASE Fault /\ LeavePending(op, here) /\ UNCHANGED stores
  <2>1. faults' = faults + 1 /\ faults' \in 0..MaxFaults
    BY <1>1, <1>6, FaultIs
  <2>2. TypeOK'
    BY <1>1, <1>2, <1>6, <2>1 DEF TypeOK, stores, Step, LeavePending, Post
  <2>3. Claims'
    BY <1>1, <1>2, <1>6, NoClaim, ClaimsKept DEF stores
  <2>4. \A e \in Entity :
          /\ pending'["import"][e] \in {pending["import"][e], pending["import"][e] + 1}
          /\ certs'[e] = certs[e]
    BY <1>1, <1>6 DEF TypeOK, Post, Whole, stores, LeavePending
  <2> QED
    BY <1>2, <1>3, <2>1, <2>2, <2>3, <2>4, Preserved
<1> QED
  BY <1>4, <1>5, <1>6

LEMMA PostGenerateStep == Inductive /\ PostGenerate => Inductive'
<1> SUFFICES ASSUME Inductive, PostGenerate PROVE Inductive'
  OBVIOUS
<1>1. TypeOK /\ Claims /\ here \in Entity /\ "generate" \in Whole
  BY HereIs DEF Inductive, TypeOK, Whole
<1>2. CASE /\ Accepts("generate", here) /\ Apply("generate", here) /\ NextKey
           /\ described' = [described EXCEPT ![here] = "base64"]
           /\ UNCHANGED <<pending, faults, validated, deleting, overlapped, deletes>>
  <2>1. step' \in {"findKey", "build"} /\ cur' \in 1..3 /\ (step' = "build" => cur' = 1)
    BY <1>1, <1>2 DEF NextKey, Goto, TypeOK
  <2>2. rows' = rows /\ \A e \in Entity : (keys[e] => keys'[e]) /\ certs'[e] = certs[e]
    BY <1>1, <1>2, Carried
  <2>3. TypeOK'
    BY <1>1, <1>2, <2>1, Carried DEF TypeOK, Step
  <2>4. Settled' /\ \A e \in Entity : About(e)' = 0
    BY <2>1, BehindNone DEF Settled, About, AtCertificates
  <2>5. Claims'
    BY <1>1, <1>2, <2>1, <2>2, NoClaim, ClaimsKept
  <2>6. \A e \in Entity :
          /\ certs[e] \in Nat /\ pending["import"][e] \in Nat /\ faults \in Nat
          /\ About(e) \in {0, 1}
    BY <1>1 DEF TypeOK, Post, Whole, About
  <2> QED
    BY <1>2, <2>2, <2>3, <2>4, <2>5, <2>6, Preserved
<1> QED
  BY <1>1, <1>2, SendBadly DEF PostGenerate, Send

LEMMA PostImportStep == Inductive /\ PostImport => Inductive'
<1> SUFFICES ASSUME Inductive, PostImport PROVE Inductive'
  OBVIOUS
<1>1. TypeOK /\ Claims /\ Settled /\ here \in Entity /\ "import" \in Whole
  BY HereIs DEF Inductive, TypeOK, Whole
<1>2. CASE /\ Accepts("import", here) /\ Apply("import", here) /\ Goto("findRow")
           /\ UNCHANGED <<cur, described, pending, faults, validated, deleting, overlapped,
                          deletes>>
  <2>1. step = "import" /\ step' = "findRow"
    BY <1>2 DEF PostImport, Send, Goto
  <2>2. TypeOK'
    BY <1>1, <1>2, <2>1, Carried DEF TypeOK, Step
  <2>3. Settled'
    BY <1>1, <1>2, <2>1, BehindKept, Carried DEF Settled, AtCertificates
  <2>4. \A e \in Entity :
          /\ About(e)' = 0
          /\ About(e) = IF e = here THEN 1 ELSE 0
          /\ keys[e] => keys'[e]
          /\ certs'[e] = IF e = here THEN certs[e] + 1 ELSE certs[e]
    BY <1>1, <1>2, <2>1, Carried DEF About
  <2>5. \A e \in Entity :
          certs[e] \in Nat /\ pending["import"][e] \in Nat /\ faults \in Nat
    BY <1>1 DEF TypeOK, Post
  <2>6. \A e \in Entity : certs[e] > 0 => certs'[e] > 0
    BY <2>4, <2>5
  <2>7. Claims'
    BY <1>1, <1>2, <2>1, <2>4, <2>6, Carried, NoClaim, ClaimsKept
  <2> QED
    BY <1>2, <2>2, <2>3, <2>4, <2>5, <2>7, Preserved
<1> QED
  BY <1>1, <1>2, SendBadly DEF PostImport, Send

\* The validation, which makes a claim.
LEMMA PostRegisterStep == Inductive /\ PostRegister => Inductive'
<1> SUFFICES ASSUME Inductive, PostRegister PROVE Inductive'
  OBVIOUS
<1>1. TypeOK /\ Claims /\ Settled /\ here \in Entity /\ cur \in 1..3
  BY HereIs DEF Inductive, TypeOK
<1>2. step = "register" /\ UNCHANGED <<stores, described, validated, deleting, deletes>>
  BY DEF PostRegister
<1>3. \A e \in Entity :
        /\ certs[e] \in Nat /\ pending["import"][e] \in Nat /\ faults \in Nat
        /\ About(e) = 0
  BY <1>1, <1>2 DEF TypeOK, Post, Whole, About
<1>4. CASE Validated(here) /\ Goto("commit") /\ UNCHANGED <<cur, pending, faults>>
  <2>1. step' = "commit" /\ here' = here
    BY <1>4 DEF Goto, here
  <2>2. \A f \in Entity : Claimed(f)' => Claimed(f) \/ f = here
    BY <1>2, <2>1 DEF Claimed, Registering, stores
  <2>3. Claims' /\ overlapped' \subseteq Entity
    BY <1>1, <1>2, <1>4, <2>2, ClaimMade
  <2>4. TypeOK'
    BY <1>1, <1>2, <1>4, <2>1, <2>3 DEF TypeOK, stores, Step
  <2>5. Settled'
    BY <1>1, <1>2, <1>4, <2>1, BehindKept DEF Settled, stores, AtCertificates
  <2>6. \A e \in Entity : About(e)' = 0
    BY <2>1 DEF About
  <2> QED
    BY <1>2, <1>3, <1>4, <2>3, <2>4, <2>5, <2>6, Preserved DEF stores
<1>5. CASE Die /\ UNCHANGED <<pending, overlapped>> /\ (UNCHANGED faults \/ Fault)
  <2>1. faults' \in {faults, faults + 1} /\ faults' \in 0..MaxFaults
    BY <1>1, <1>5, FaultIs DEF TypeOK
  <2>2. TypeOK'
    BY <1>1, <1>2, <1>5, <2>1, Died DEF TypeOK, stores, Step
  <2> QED
    BY <1>2, <1>5, <2>1, <2>2, Died, Asked DEF server
<1>6. CASE Fault /\ Die /\ UNCHANGED overlapped /\ LeavePending("register", here)
  <2>1. faults' = faults + 1 /\ faults' \in 0..MaxFaults
    BY <1>1, <1>6, FaultIs
  <2>2. TypeOK'
    BY <1>1, <1>2, <1>6, <2>1, Died DEF TypeOK, stores, Step, LeavePending, Post
  <2>3. Claims'
    BY <1>1, <1>2, <1>6, Died, NoClaim, ClaimsKept DEF stores
  <2>4. \A e \in Entity : pending'["import"][e] = pending["import"][e] /\ certs'[e] = certs[e]
    BY <1>1, <1>2, <1>6 DEF TypeOK, Post, Whole, stores, LeavePending
  <2> QED
    BY <1>3, <1>6, <2>1, <2>2, <2>3, <2>4, Died, Preserved
<1> QED
  BY <1>4, <1>5, <1>6 DEF PostRegister

\* The commit, which makes it good; or leaves the claim to the server.
LEMMA CommitStep == Inductive /\ Commit => Inductive'
<1> SUFFICES ASSUME Inductive, Commit PROVE Inductive'
  OBVIOUS
<1>1. TypeOK /\ Claims /\ Settled /\ here \in Entity /\ cur \in 1..3
  BY HereIs DEF Inductive, TypeOK
<1>2. step = "commit" /\ UNCHANGED <<described, pending, deleting, overlapped, deletes>>
  BY DEF Commit
<1>3. \A e \in Entity :
        /\ certs[e] \in Nat /\ pending["import"][e] \in Nat /\ faults \in Nat
        /\ About(e) = 0
  BY <1>1, <1>2 DEF TypeOK, Post, Whole, About
<1>4. Claimed(here)
  BY <1>2 DEF Claimed, Registering
<1>5. CASE Committed(here) /\ NextEntity /\ UNCHANGED <<validated, faults>>
  <2>1. step' \in {"build", "enrolled"} /\ cur' \in 1..3
    BY <1>1, <1>5 DEF NextEntity, Goto
  <2>2. \A f \in Entity : Registering(f)' => Registering(f)
    BY <1>5, <2>1 DEF Registering
  <2>3. /\ Claims' /\ rows' \in [Entity -> {"none", "ACTIVE", "RETIRED"}]
        /\ rows'[here] # "none"
        /\ \A f \in Entity : rows[f] # "none" => rows'[f] # "none"
    BY <1>1, <1>2, <1>4, <1>5, <2>2, Commits
  <2>4. TypeOK'
    BY <1>1, <1>2, <1>5, <2>1, <2>3 DEF TypeOK, Step, Committed
  <2>5. Settled'
    BY <1>1, <1>2, <1>5, <2>3, BehindNext DEF Settled, AtCertificates
  <2>6. \A e \in Entity : About(e)' = 0
    BY <2>1 DEF About
  <2> QED
    BY <1>2, <1>3, <1>5, <2>3, <2>4, <2>5, <2>6, Preserved DEF Committed
<1>6. CASE Die /\ UNCHANGED <<stores, validated>> /\ (UNCHANGED faults \/ Fault)
  <2>1. faults' \in {faults, faults + 1} /\ faults' \in 0..MaxFaults
    BY <1>1, <1>6, FaultIs DEF TypeOK
  <2>2. TypeOK'
    BY <1>1, <1>2, <1>6, <2>1, Died DEF TypeOK, stores, Step
  <2> QED
    BY <1>2, <1>6, <2>1, <2>2, Died, Asked DEF server
<1>7. CASE Fault /\ Die /\ Committed(here) /\ UNCHANGED validated
  <2>1. faults' = faults + 1 /\ faults' \in 0..MaxFaults
    BY <1>1, <1>7, FaultIs
  <2>2. \A f \in Entity : Registering(f)' => Registering(f)
    BY <1>7, Died DEF Registering
  <2>3. Claims' /\ rows' \in [Entity -> {"none", "ACTIVE", "RETIRED"}]
    BY <1>1, <1>2, <1>4, <1>7, <2>2, Commits
  <2>4. TypeOK'
    BY <1>1, <1>2, <1>7, <2>1, <2>3, Died DEF TypeOK, Step, Committed
  <2> QED
    BY <1>2, <1>3, <1>7, <2>1, <2>3, <2>4, Died, Preserved DEF Committed
<1>8. CASE /\ Fault /\ Die /\ UNCHANGED stores
           /\ validated' = [validated EXCEPT ![here] = @ + 1]
  <2>1. faults' = faults + 1 /\ faults' \in 0..MaxFaults
    BY <1>1, <1>8, FaultIs
  <2>2. TypeOK'
    BY <1>1, <1>2, <1>8, <2>1, Died DEF TypeOK, stores, Step
  <2>3. \A f \in Entity : Claimed(f)' => Claimed(f)
    BY <1>1, <1>4, <1>8, Died DEF TypeOK, Claimed, Registering, stores
  <2>4. Claims'
    BY <1>1, <1>2, <1>8, <2>3, ClaimsKept DEF stores
  <2> QED
    BY <1>2, <1>3, <1>8, <2>1, <2>2, <2>4, Died, Preserved DEF stores
<1> QED
  BY <1>5, <1>6, <1>7, <1>8 DEF Commit

----------------------------------------------------------------------------
\* The world around the script, which does not move it.

LEMMA BehindStays ==
  ASSUME UNCHANGED <<step, cur>>, NEW e
  PROVE  Behind(e)' <=> Behind(e)
BY DEF Behind, AtCertificates

\* What such a step does to the counts.
LEMMA AroundKeeps ==
  ASSUME Inductive, TypeOK', Claims', UNCHANGED <<step, cur, faults>>,
         \A f \in Entity :
           /\ rows[f] # "none" => rows'[f] # "none"
           /\ certs'[f] + pending'["import"][f] <= certs[f] + pending["import"][f]
           /\ pending'["import"][f] <= pending["import"][f]
  PROVE  Inductive'
<1>1. \A f \in Entity :
        /\ certs[f] \in Nat /\ pending["import"][f] \in Nat /\ faults \in Nat
        /\ certs'[f] \in Nat /\ pending'["import"][f] \in Nat
        /\ About(f) \in {0, 1} /\ About(f)' = About(f)
  BY DEF Inductive, TypeOK, Post, Whole, About, here
<1>2. Settled'
  BY BehindStays DEF Inductive, Settled
<1> QED
  BY <1>1, <1>2, Preserved

\* Taking a request off the pending ones.
LEMMA Taken ==
  ASSUME TypeOK, NEW op \in Post, NEW e \in Entity, TakePending(op, e)
  PROVE  /\ pending' \in [Post -> [Entity -> Nat]]
         /\ \A f \in Entity :
              /\ pending["import"][f] \in Nat
              /\ pending'["import"][f] = IF op = "import" /\ f = e
                                         THEN pending["import"][f] - 1
                                         ELSE pending["import"][f]
<1>1. pending[op][e] \in Nat /\ pending[op][e] - 1 \in Nat
  BY DEF TypeOK, TakePending
<1> QED
  BY <1>1 DEF TypeOK, TakePending, Post, Whole

LEMMA LateStep ==
  ASSUME Inductive, NEW op \in Whole, NEW e \in Entity, Late(op, e)
  PROVE  Inductive'
<1>1. TypeOK /\ Claims /\ op \in Post
  BY DEF Inductive, Post
<1>2. /\ UNCHANGED <<step, cur, described, validated, deleting, overlapped, faults, deletes>>
      /\ TakePending(op, e)
  BY DEF Late, script
<1>3. /\ pending' \in [Post -> [Entity -> Nat]]
      /\ \A f \in Entity :
           /\ certs[f] \in Nat /\ pending["import"][f] \in Nat
           /\ pending'["import"][f] = IF op = "import" /\ f = e
                                      THEN pending["import"][f] - 1
                                      ELSE pending["import"][f]
  BY <1>1, <1>2, Taken DEF TypeOK
<1>4. CASE Accepts(op, e) /\ Apply(op, e)
  <2>1. /\ keys' \in [Entity -> BOOLEAN] /\ certs' \in [Entity -> Nat] /\ rows' = rows
        /\ \A f \in Entity :
             /\ keys[f] => keys'[f]
             /\ certs'[f] = IF op = "import" /\ f = e THEN certs[f] + 1 ELSE certs[f]
    BY <1>1, <1>4, Carried
  <2>2. TypeOK'
    BY <1>1, <1>2, <1>3, <2>1 DEF TypeOK
  <2>3. \A f \in Entity : certs[f] > 0 => certs'[f] > 0
    BY <1>3, <2>1
  <2>4. Claims'
    BY <1>1, <1>2, <2>1, <2>3, ClaimStays, ClaimsKept
  <2> QED
    BY <1>2, <1>3, <2>1, <2>2, <2>4, AroundKeeps
<1>5. CASE UNCHANGED stores
  <2>1. TypeOK'
    BY <1>1, <1>2, <1>3, <1>5 DEF TypeOK, stores
  <2>2. Claims'
    BY <1>1, <1>2, <1>5, ClaimStays, ClaimsKept DEF stores
  <2> QED
    BY <1>2, <1>3, <1>5, <2>1, <2>2, AroundKeeps DEF stores
<1> QED
  BY <1>4, <1>5 DEF Late

LEMMA LateValidateStep ==
  ASSUME Inductive, NEW e \in Entity, LateValidate(e)
  PROVE  Inductive'
<1>1. TypeOK /\ Claims /\ "register" \in Post
  BY DEF Inductive, Post
<1>2. /\ UNCHANGED <<stores, step, cur, described, deleting, faults, deletes>>
      /\ TakePending("register", e)
  BY DEF LateValidate, script
<1>3. /\ pending' \in [Post -> [Entity -> Nat]]
      /\ \A f \in Entity : certs[f] \in Nat /\ pending["import"][f] \in Nat
                           /\ pending'["import"][f] = pending["import"][f]
  BY <1>1, <1>2, Taken DEF TypeOK
<1>4. CASE Validated(e) /\ validated' = [validated EXCEPT ![e] = @ + 1]
  <2>1. \A f \in Entity : Claimed(f)' => Claimed(f) \/ f = e
    BY <1>1, <1>2, <1>4 DEF Claimed, Registering, TypeOK, stores, here
  <2>2. Claims' /\ overlapped' \subseteq Entity
    BY <1>1, <1>2, <1>4, <2>1, ClaimMade
  <2>3. TypeOK'
    BY <1>1, <1>2, <1>3, <1>4, <2>2 DEF TypeOK, stores
  <2> QED
    BY <1>2, <1>3, <2>2, <2>3, AroundKeeps DEF stores
<1>5. CASE UNCHANGED <<validated, overlapped>>
  <2>1. TypeOK'
    BY <1>1, <1>2, <1>3, <1>5 DEF TypeOK, stores
  <2>2. Claims'
    BY <1>1, <1>2, <1>5, ClaimStays, ClaimsKept DEF stores
  <2> QED
    BY <1>2, <1>3, <2>1, <2>2, AroundKeeps DEF stores
<1> QED
  BY <1>4, <1>5 DEF LateValidate

LEMMA LateCommitStep ==
  ASSUME Inductive, NEW e \in Entity, LateCommit(e)
  PROVE  Inductive'
<1>1. TypeOK /\ Claims
  BY DEF Inductive
<1>2. /\ UNCHANGED <<step, cur, described, pending, deleting, overlapped, faults, deletes>>
      /\ validated[e] > 0 /\ validated' = [validated EXCEPT ![e] = @ - 1]
  BY DEF LateCommit, script
<1>3. validated[e] \in Nat /\ validated[e] - 1 \in Nat
  BY <1>1, <1>2 DEF TypeOK
<1>4. \A f \in Entity : certs[f] \in Nat /\ pending["import"][f] \in Nat
  BY <1>1 DEF TypeOK, Post, Whole
<1>5. Claimed(e) /\ \A f \in Entity : Registering(f)' => Registering(f)
  BY <1>1, <1>2, <1>3 DEF Claimed, Registering, TypeOK, here
<1>6. CASE Committed(e)
  <2>1. /\ Claims' /\ rows' \in [Entity -> {"none", "ACTIVE", "RETIRED"}]
        /\ \A f \in Entity : rows[f] # "none" => rows'[f] # "none"
    BY <1>1, <1>2, <1>5, <1>6, Commits
  <2>2. TypeOK'
    BY <1>1, <1>2, <1>3, <1>6, <2>1 DEF TypeOK, Committed
  <2> QED
    BY <1>2, <1>4, <1>6, <2>1, <2>2, AroundKeeps DEF Committed
<1>7. CASE UNCHANGED stores
  <2>1. TypeOK'
    BY <1>1, <1>2, <1>3, <1>7 DEF TypeOK, stores
  <2>2. \A f \in Entity : Claimed(f)' => Claimed(f)
    BY <1>5, <1>7 DEF Claimed, stores
  <2>3. Claims'
    BY <1>1, <1>2, <1>7, <2>2, ClaimsKept DEF stores
  <2> QED
    BY <1>2, <1>4, <1>7, <2>1, <2>3, AroundKeeps DEF stores
<1> QED
  BY <1>6, <1>7 DEF LateCommit

LEMMA RetireStep ==
  ASSUME Inductive, NEW e \in Entity, Retire(e)
  PROVE  Inductive'
<1>1. TypeOK /\ Claims
  BY DEF Inductive
<1>2. /\ UNCHANGED <<keys, certs, step, cur, described, pending, validated, deleting,
                     overlapped, faults, deletes>>
      /\ rows[e] = "ACTIVE" /\ rows' = [rows EXCEPT ![e] = "RETIRED"]
  BY DEF Retire, script, server
<1>3. TypeOK' /\ \A f \in Entity : rows'[f] # "none" <=> rows[f] # "none"
  BY <1>1, <1>2 DEF TypeOK
<1>4. \A f \in Entity : Claimed(f)' => Claimed(f)
  BY <1>2, <1>3 DEF Claimed, Registering, here
<1>5. Claims'
  BY <1>1, <1>2, <1>4, ClaimsKept
<1>6. \A f \in Entity : certs[f] \in Nat /\ pending["import"][f] \in Nat
  BY <1>1 DEF TypeOK, Post, Whole
<1> QED
  BY <1>2, <1>3, <1>5, <1>6, AroundKeeps

\* Nothing is registered when a deletion goes on; what is on its way there
\* becomes one of the overlapped.
LEMMA FindReferencesStep ==
  ASSUME Inductive, NEW e \in Entity, FindReferences(e)
  PROVE  Inductive'
<1>1. TypeOK /\ Claims
  BY DEF Inductive
<1>2. /\ UNCHANGED <<stores, step, cur, described, pending, validated, faults>>
      /\ rows[e] = "none" /\ deletes < MaxDeletes /\ deletes' = deletes + 1
      /\ deleting' = [deleting EXCEPT ![e] = @ + 1]
      /\ overlapped' = IF Registering(e) THEN overlapped \cup {e} ELSE overlapped
  BY DEF FindReferences, Pursue, script
<1>3. deletes' \in 0..MaxDeletes
  BY <1>1, <1>2, BoundsAssumption DEF TypeOK
<1>4. TypeOK'
  BY <1>1, <1>2, <1>3 DEF TypeOK, stores
<1>5. Claims'
  <2>1. \A f \in Entity : Claimed(f)' <=> Claimed(f)
    BY <1>2, ClaimStays DEF stores
  <2>2. Claimed(e) => e \in overlapped'
    BY <1>2 DEF Claimed
  <2>3. overlapped \subseteq overlapped' /\ \A f \in Entity \ {e} : deleting'[f] = deleting[f]
    BY <1>1, <1>2 DEF TypeOK
  <2> QED
    BY <1>1, <1>2, <2>1, <2>2, <2>3 DEF Claims, stores
<1>6. \A f \in Entity : certs[f] \in Nat /\ pending["import"][f] \in Nat
  BY <1>1 DEF TypeOK, Post, Whole
<1> QED
  BY <1>2, <1>4, <1>5, <1>6, AroundKeeps DEF stores

\* A deletion past its check takes the certificate of overlapped claims only.
LEMMA DestroyStep ==
  ASSUME Inductive, NEW e \in Entity, Destroy(e)
  PROVE  Inductive'
<1>1. TypeOK /\ Claims
  BY DEF Inductive
<1>2. /\ UNCHANGED <<keys, rows, step, cur, described, pending, validated, overlapped, faults,
                     deletes>>
      /\ deleting[e] > 0 /\ deleting' = [deleting EXCEPT ![e] = @ - 1]
      /\ \/ certs[e] > 0 /\ certs' = [certs EXCEPT ![e] = @ - 1]
         \/ certs[e] = 0 /\ UNCHANGED certs
  BY DEF Destroy, script
<1>3. \A f \in Entity : certs[f] \in Nat /\ pending["import"][f] \in Nat /\ deleting[f] \in Nat
  BY <1>1 DEF TypeOK, Post, Whole
<1>4. deleting[e] - 1 \in Nat /\ (certs[e] > 0 => certs[e] - 1 \in Nat)
  BY <1>2, <1>3
<1>5. TypeOK'
  BY <1>1, <1>2, <1>4 DEF TypeOK
<1>6. Claims'
  <2>1. \A f \in Entity : Claimed(f)' <=> Claimed(f)
    BY <1>2, ClaimStays
  <2>2. Claimed(e) => keys[e] /\ e \in overlapped
    BY <1>1, <1>2, <1>3 DEF Claims
  <2>3. \A f \in Entity \ {e} : deleting'[f] = deleting[f] /\ certs'[f] = certs[f]
    BY <1>1, <1>2 DEF TypeOK
  <2> QED
    BY <1>1, <1>2, <2>1, <2>2, <2>3 DEF Claims
<1>7. \A f \in Entity : certs'[f] \in {certs[f], certs[f] - 1}
  BY <1>1, <1>2 DEF TypeOK
<1> QED
  BY <1>2, <1>3, <1>5, <1>6, <1>7, AroundKeeps

----------------------------------------------------------------------------
\* The theorems.

LEMMA InitInductive == Init => Inductive
<1> SUFFICES ASSUME Init PROVE Inductive
  OBVIOUS
<1>1. TypeOK
  BY BoundsAssumption DEF Init, TypeOK, Step
<1>2. \A e \in Entity : ~Claimed(e) /\ ~Behind(e)
  BY DEF Init, Claimed, Registering, Behind, AtCertificates
<1>3. \A e \in Entity : /\ certs[e] = 0 /\ pending["import"][e] = 0 /\ About(e) = 0
                        /\ faults = 0
  BY DEF Init, About, Post, Whole
<1>4. Counted
  BY <1>3 DEF Counted
<1> QED
  BY <1>1, <1>2, <1>4 DEF Inductive, Claims, Settled

LEMMA NextInductive == Inductive /\ [Next]_vars => Inductive'
<1> SUFFICES ASSUME Inductive, [Next]_vars PROVE Inductive'
  OBVIOUS
<1>1. CASE Run
  BY <1>1, RunStep
<1>2. CASE Script
  BY <1>2, FindKeyStep, PostGenerateStep, BuildStep, FindCertStep, PostImportStep,
     FindRowStep, PostRegisterStep, CommitStep DEF Script
<1>3. ASSUME NEW e \in Entity, Around(e) PROVE Inductive'
  BY <1>3, LateStep, LateValidateStep, LateCommitStep, RetireStep, FindReferencesStep,
     DestroyStep DEF Around
<1>4. CASE UNCHANGED vars
  BY <1>4 DEF vars, stores, script, server, Inductive, TypeOK, Claims, Claimed, Registering,
     Settled, Counted, Behind, AtCertificates, About, here
<1> QED
  BY <1>1, <1>2, <1>3, <1>4 DEF Next

(***************************************************************************)
(* The invariant holds of every run of the script, whatever fails and      *)
(* wherever deletions and late registrations come between.                 *)
(***************************************************************************)
THEOREM InvariantHolds == Spec => []Inductive
BY InitInductive, NextInductive, PTL DEF Spec

(***************************************************************************)
(* Type correctness.                                                       *)
(***************************************************************************)
THEOREM TypeCorrect == Spec => []TypeOK
<1>1. Inductive => TypeOK
  BY DEF Inductive
<1> QED
  BY <1>1, InvariantHolds, PTL

(***************************************************************************)
(* When the script announces that all is enrolled, every entity has its    *)
(* row and its key pair; and a certificate, unless a deletion that had not *)
(* seen its registration, nor the registration it, took it.                *)
(***************************************************************************)
THEOREM Announced == Spec => []AnnouncedMeansEnrolled
<1>1. Inductive => AnnouncedMeansEnrolled
  BY DEF Inductive, AnnouncedMeansEnrolled, Settled, Claims, Claimed, Enrolled, Behind
<1> QED
  BY <1>1, InvariantHolds, PTL

(***************************************************************************)
(* No failure leaves a row without its key pair, and none but a deletion   *)
(* that overlapped with a registration leaves one without its certificate. *)
(***************************************************************************)
THEOREM Backed == Spec => []RowsBacked
<1>1. Inductive => RowsBacked
  BY DEF Inductive, RowsBacked, Claims, Claimed, Enrolled
<1> QED
  BY <1>1, InvariantHolds, PTL

(***************************************************************************)
(* Certificates under one id beyond the first number at most the requests  *)
(* that failed.                                                            *)
(***************************************************************************)
THEOREM DuplicatesBounded == Spec => []DuplicatesFromFaults
<1>1. Inductive => DuplicatesFromFaults
  <2> SUFFICES ASSUME Inductive, NEW e \in Entity PROVE certs[e] <= 1 + faults
    BY DEF DuplicatesFromFaults
  <2>1. /\ certs[e] \in Nat /\ pending["import"][e] \in Nat /\ faults \in Nat
        /\ About(e) \in {0, 1}
    BY DEF Inductive, TypeOK, Post, Whole, About
  <2>2. certs[e] + pending["import"][e] + About(e) <= 1 + faults
    BY DEF Inductive, Counted
  <2> QED
    BY <2>1, <2>2
<1> QED
  BY <1>1, InvariantHolds, PTL
=============================================================================
