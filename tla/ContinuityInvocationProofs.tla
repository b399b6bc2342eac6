--------------------- MODULE ContinuityInvocationProofs ---------------------
(***************************************************************************)
(* Proofs about ContinuityInvocation, for any credentials, targets,        *)
(* runways, invocations and requests.                                      *)
(*                                                                         *)
(* The inductive invariant has four parts: the runways of a target keep    *)
(* its register; a request in flight holds a target its credential may     *)
(* read, and a context taken from a runway that may stand in for it; what  *)
(* receipts record was such a context; an invocation that says changed has *)
(* its candidate.                                                          *)
(***************************************************************************)
EXTENDS ContinuityInvocation, TLAPS

-----------------------------------------------------------------------------
(* The inductive invariant.                                                *)

\* Once true, it stays: the row of a runway never loses its target, nor the
\* time of its publication.
Stood(r, t) == rows[r].wasPublished /\ rows[r].target = t

StoodNext(r, t) == rows'[r].wasPublished /\ rows'[r].target = t

RowOK(r) ==
    /\ rows[r].wasPublished <=>
          rows[r].state \in {"published", "superseded", "invalidated"}
    /\ rows[r].state = "published" => heads[rows[r].target] = r
    /\ rows[r].predecessor # NoRunway =>
          Stood(rows[r].predecessor, rows[r].target)

RegisterOK ==
    /\ \A r \in Runways : RowOK(r)
    /\ \A t \in Targets : heads[t] # NoRunway => Stood(heads[t], t)

\* The projects a context for t may come from.
Reach(t) == {t.project} \union (IF GlobalFallback THEN {Global} ELSE {})

\* A context that c may be given for t: quarantined, empty, or of a runway
\* that was published for t, or for a target that may stand in for it.
ContextOK(c, t, context) ==
    /\ c \in Credentials /\ Authorized(c, t)
    /\ context.status \in EligibleStatuses /\ context.runway # NoRunway =>
          LET r == context.runway IN
          /\ rows[r].wasPublished
          /\ rows[r].target.tenant = t.tenant
          /\ rows[r].target.identity = t.identity
          /\ rows[r].target.project \in Reach(t)
          /\ context.status # "DEGRADED_CONTEXT" => rows[r].target = t

\* Where the resolver is between its first check and its last step.
Resolving == {"exact_row", "default_head", "default_row", "genesis",
              "global_head", "global_row", "backfill", "persist"}

HeadRead == {"exact_row", "default_row", "global_row"}

HasCandidate(t) ==
    \E r \in Runways : rows[r].state # "absent" /\ rows[r].target = t

\* The invocation was read, and the credential checked against it.
MayComplete(l) ==
    LET row == invocations[l.invocation] IN
    /\ l.credential \in Credentials /\ Authorized(l.credential, l.target)
    /\ l.invocation \in Invocations
    /\ row.state # "absent" /\ row.target = l.target
    /\ l.credential \in Specialists => row.credential = l.credential

LocalOK(l) ==
    /\ l.pc # "idle" => l.credential \in Credentials
    /\ l.pc \in Resolving => Authorized(l.credential, l.target)
    /\ l.pc \in HeadRead => l.head \in Runways
    /\ l.pc \in {"global_head", "global_row"} => GlobalFallback
    /\ l.pc = "persist" => ContextOK(l.credential, l.target, l.context)
    /\ l.pc = "bind" => l.invocation \in Invocations
    /\ l.pc \in {"create", "complete"} => MayComplete(l)
    /\ l.pc = "complete" /\ l.outcome = "changed" => HasCandidate(l.target)

ReceiptOK(id) ==
    receipts[id].issued =>
        ContextOK(receipts[id].credential, receipts[id].target,
                  receipts[id].context)

InvocationOK(i) ==
    /\ invocations[i].state = "absent" => invocations[i].outcome = "none"
    /\ invocations[i].outcome = "changed" => HasCandidate(invocations[i].target)

IInv ==
    /\ TypeOK
    /\ RegisterOK
    /\ \A w \in Workers : LocalOK(local[w])
    /\ \A id \in Receipts : ReceiptOK(id)
    /\ \A i \in Invocations : InvocationOK(i)

LEMMA SomeTargetIs == SomeTarget \in Targets
  BY ConstantsAssumption DEF SomeTarget

LEMMA IdleType ==
    /\ Idle \in Local
    /\ Idle.pc = "idle" /\ Idle.context = NoContext /\ Idle.head = NoRunway
    /\ Idle.receipt = NoReceipt
  BY SomeTargetIs DEF Idle, Local, Steps, NoContext, Context, ContextStatuses

LEMMA InitEstablishes == Init => IInv
  <1> SUFFICES ASSUME Init PROVE IInv
    OBVIOUS
  <1> USE SomeTargetIs
  <1>1. TypeOK
    <2>1. NoContext \in Context
      BY DEF NoContext, Context, ContextStatuses
    <2>2. [state |-> "absent", target |-> SomeTarget, predecessor |-> NoRunway,
           generation |-> 0, wasPublished |-> FALSE, intact |-> TRUE] \in Row
      BY DEF Row
    <2>3. [state |-> "absent", target |-> SomeTarget, credential |-> NoCredential,
           runway |-> NoRunway, receipt |-> NoReceipt, outcome |-> "none"]
             \in Invocation
      BY DEF Invocation
    <2>4. [issued |-> FALSE, target |-> SomeTarget, credential |-> NoCredential,
           context |-> NoContext] \in Receipt
      BY <2>1 DEF Receipt
    <2> QED
      BY <2>2, <2>3, <2>4, IdleType DEF Init, TypeOK
  <1>2. RegisterOK
    BY DEF Init, RegisterOK, RowOK
  <1>3. \A w \in Workers : LocalOK(local[w])
    BY IdleType DEF Init, LocalOK, Resolving, HeadRead
  <1>4. \A id \in Receipts : ReceiptOK(id)
    BY DEF Init, ReceiptOK
  <1>5. \A i \in Invocations : InvocationOK(i)
    BY DEF Init, InvocationOK
  <1> QED
    BY <1>1, <1>2, <1>3, <1>4, <1>5 DEF IInv

-----------------------------------------------------------------------------
(* The register of a target.                                               *)

\* What later steps may rely on.
Grows ==
    /\ \A r \in Runways :
          /\ rows[r].state # "absent" => /\ rows'[r].state # "absent"
                                         /\ rows'[r].target = rows[r].target
          /\ rows[r].wasPublished => rows'[r].wasPublished
    /\ \A i \in Invocations :
          invocations[i].state # "absent" =>
             /\ invocations'[i].state # "absent"
             /\ invocations'[i].target = invocations[i].target
             /\ invocations'[i].credential = invocations[i].credential

\* createCandidateCheckpoint over a key that is not in use.
LEMMA CreatedKeeps ==
    ASSUME IInv, NEW r \in Runways, NEW t \in Targets,
           rows[r].state = "absent", rows' = Created(r, t), UNCHANGED heads
    PROVE  /\ rows' \in [Runways -> Row]
           /\ RegisterOK'
           /\ \A q \in Runways \ {r} : rows'[q] = rows[q]
           /\ rows'[r].state = "candidate" /\ rows'[r].target = t
           /\ rows'[r].predecessor = heads[t] /\ ~rows'[r].wasPublished
  <1>1. rows \in [Runways -> Row] /\ heads \in [Targets -> Runways \union {NoRunway}]
    BY DEF IInv, TypeOK
  <1> DEFINE new ==
        [state |-> "candidate", target |-> t, predecessor |-> heads[t],
         generation |-> IF heads[t] = NoRunway THEN 1
                        ELSE rows[heads[t]].generation + 1,
         wasPublished |-> FALSE, intact |-> TRUE]
  <1>2. (IF heads[t] = NoRunway THEN 1 ELSE rows[heads[t]].generation + 1) \in Nat
    BY <1>1 DEF Row
  <1>3. new \in Row
    BY <1>1, <1>2 DEF Row
  <1>4. rows' = [rows EXCEPT ![r] = new]
    BY DEF Created
  <1>5. /\ rows' \in [Runways -> Row]
        /\ \A q \in Runways \ {r} : rows'[q] = rows[q]
        /\ rows'[r] = new
    BY <1>1, <1>3, <1>4
  <1>6. ~rows[r].wasPublished
    BY DEF IInv, RegisterOK, RowOK
  <1>7. \A q \in Runways, u \in Targets : Stood(q, u) => StoodNext(q, u)
    BY <1>5, <1>6 DEF Stood, StoodNext
  <1>8. \A u \in Targets : heads[u] # NoRunway => StoodNext(heads[u], u)
    BY <1>1, <1>7 DEF IInv, RegisterOK
  <1>9. RowOK(r)'
    BY <1>5, <1>8 DEF RowOK, Stood, StoodNext
  <1>10. \A q \in Runways \ {r} : RowOK(q)'
    <2> SUFFICES ASSUME NEW q \in Runways \ {r} PROVE RowOK(q)'
      OBVIOUS
    <2>1. RowOK(q) /\ rows[q] \in Row
      BY <1>1 DEF IInv, RegisterOK
    <2>2. rows[q].predecessor # NoRunway =>
             StoodNext(rows[q].predecessor, rows[q].target)
      BY <1>7, <2>1 DEF RowOK, Row
    <2> QED
      BY <1>5, <2>1, <2>2 DEF RowOK, Stood, StoodNext
  <1> QED
    BY <1>5, <1>8, <1>9, <1>10 DEF RegisterOK, Stood, StoodNext

\* Rows that keep their target and publication keep what rests on them.
LEMMA StoodStays ==
    ASSUME IInv, Grows, NEW r \in Runways, NEW t, Stood(r, t)
    PROVE  StoodNext(r, t)
  BY DEF IInv, RegisterOK, RowOK, Grows, Stood, StoodNext

\* The lineage of a row, whatever happens to its state.
LEMMA LineageStays ==
    ASSUME IInv, Grows, NEW r \in Runways, rows[r].state # "absent",
           rows'[r].predecessor = rows[r].predecessor
    PROVE  rows'[r].predecessor # NoRunway =>
              StoodNext(rows'[r].predecessor, rows'[r].target)
  <1>1. RowOK(r) /\ rows[r] \in Row /\ rows'[r].target = rows[r].target
    BY DEF IInv, RegisterOK, TypeOK, Grows
  <1>2. ASSUME rows[r].predecessor # NoRunway
        PROVE  StoodNext(rows[r].predecessor, rows[r].target)
    <2>1. PICK p \in Runways, t \in Targets :
             p = rows[r].predecessor /\ t = rows[r].target
      BY <1>1, <1>2 DEF Row
    <2>2. StoodNext(p, t)
      BY <1>1, <1>2, <2>1, StoodStays DEF RowOK
    <2> QED
      BY <2>1, <2>2 DEF Stood, StoodNext
  <1> QED
    BY <1>1, <1>2 DEF Stood, StoodNext

LEMMA PublishKeeps ==
    ASSUME IInv, NEW r \in Runways, Publish(r)
    PROVE  /\ rows' \in [Runways -> Row]
           /\ heads' \in [Targets -> Runways \union {NoRunway}]
           /\ Grows
           /\ RegisterOK'
           /\ \A q \in Runways :
                 /\ rows'[q].predecessor = rows[q].predecessor
                 /\ rows'[q].state = "invalidated" <=> rows[q].state = "invalidated"
                 /\ rows'[q].wasPublished <=> (q = r \/ rows[q].wasPublished)
                 /\ rows'[q].target = rows[q].target
                 /\ rows'[q].state # "absent" <=> rows[q].state # "absent"
  <1> DEFINE t == rows[r].target
  <1>1. /\ rows \in [Runways -> Row]
        /\ heads \in [Targets -> Runways \union {NoRunway}]
        /\ invocations' = invocations
    BY DEF IInv, TypeOK, Publish
  <1>2. t \in Targets /\ rows[r].state = "candidate"
        /\ heads' = [heads EXCEPT ![t] = r]
    BY <1>1 DEF Row, Publish
  <1>3. ASSUME NEW q \in Runways
        PROVE  /\ rows'[q] \in Row
               /\ rows'[q].target = rows[q].target
               /\ rows'[q].predecessor = rows[q].predecessor
               /\ rows'[q].wasPublished <=> (q = r \/ rows[q].wasPublished)
               /\ rows'[q].state =
                     IF q = r THEN "published"
                     ELSE IF q = heads[t] /\ rows[q].state = "published"
                          THEN "superseded" ELSE rows[q].state
    <2>1. PICK old \in Row : old = rows[q]
      BY <1>1
    <2>2. rows'[q] = IF q = r
                     THEN [old EXCEPT !.state = "published", !.wasPublished = TRUE]
                     ELSE IF q = heads[t] /\ old.state = "published"
                          THEN [old EXCEPT !.state = "superseded"]
                          ELSE old
      BY <2>1 DEF Publish
    <2>3. PICK new : new = rows'[q]
      OBVIOUS
    <2>4. CASE q = r
      <3>1. new = [old EXCEPT !.state = "published", !.wasPublished = TRUE]
        BY <2>2, <2>3, <2>4
      <3>2. /\ new \in Row /\ new.target = old.target
            /\ new.predecessor = old.predecessor
            /\ new.wasPublished /\ new.state = "published"
        BY <3>1 DEF Row
      <3> QED
        BY <2>1, <2>3, <2>4, <3>2
    <2>5. CASE q # r /\ q = heads[t] /\ old.state = "published"
      <3>1. new = [old EXCEPT !.state = "superseded"]
        BY <2>2, <2>3, <2>5
      <3>2. /\ new \in Row /\ new.target = old.target
            /\ new.predecessor = old.predecessor
            /\ new.wasPublished = old.wasPublished /\ new.state = "superseded"
        BY <3>1 DEF Row
      <3> QED
        BY <2>1, <2>3, <2>5, <3>2
    <2>6. CASE q # r /\ ~(q = heads[t] /\ old.state = "published")
      BY <2>1, <2>2, <2>6
    <2> QED
      BY <2>4, <2>5, <2>6
  <1>4. rows' \in [Runways -> Row]
    <2>1. rows' = [q \in Runways |-> rows'[q]]
      BY DEF Publish
    <2> QED
      BY <1>3, <2>1
  <1>5. Grows
    BY <1>1, <1>2, <1>3 DEF Grows
  <1>6. \A u \in Targets : heads'[u] # NoRunway => StoodNext(heads'[u], u)
    <2> SUFFICES ASSUME NEW u \in Targets, heads'[u] # NoRunway
                 PROVE  StoodNext(heads'[u], u)
      OBVIOUS
    <2>1. CASE u = t
      BY <1>1, <1>2, <1>3, <2>1 DEF Stood, StoodNext
    <2>2. CASE u # t
      <3>1. heads'[u] = heads[u] /\ heads[u] \in Runways
        BY <1>1, <1>2, <2>2
      <3> QED
        BY <1>3, <3>1 DEF IInv, RegisterOK, Stood, StoodNext
    <2> QED
      BY <2>1, <2>2
  <1>7. ASSUME NEW q \in Runways PROVE RowOK(q)'
    <2>1. RowOK(q)
      BY DEF IInv, RegisterOK
    <2>2. rows'[q].wasPublished <=>
             rows'[q].state \in {"published", "superseded", "invalidated"}
      BY <1>2, <1>3, <2>1 DEF RowOK
    <2>3. rows'[q].state = "published" => heads'[rows'[q].target] = q
      <3>1. CASE q = r
        BY <1>1, <1>2, <1>3, <3>1
      <3>2. CASE q # r /\ rows'[q].state = "published"
        <4>1. q # heads[t] /\ rows[q].state = "published"
          BY <1>3, <3>2
        <4>2. rows[q].target # t /\ rows[q].target \in Targets
          BY <1>1, <2>1, <4>1 DEF RowOK, Row
        <4> QED
          BY <1>1, <1>2, <1>3, <2>1, <4>1, <4>2 DEF RowOK
      <3> QED
        BY <3>1, <3>2
    <2>4. rows'[q].predecessor # NoRunway =>
             StoodNext(rows'[q].predecessor, rows'[q].target)
      <3>1. ASSUME rows[q].predecessor # NoRunway
            PROVE  StoodNext(rows[q].predecessor, rows[q].target)
        <4>1. rows[q].predecessor \in Runways
          BY <1>1, <3>1 DEF Row
        <4> QED
          BY <1>3, <2>1, <3>1, <4>1 DEF RowOK, Stood, StoodNext
      <3> QED
        BY <1>3, <3>1 DEF Stood, StoodNext
    <2> QED
      BY <2>2, <2>3, <2>4 DEF RowOK, Stood, StoodNext
  <1>8. heads' \in [Targets -> Runways \union {NoRunway}]
    BY <1>1, <1>2
  <1> QED
    BY <1>2, <1>3, <1>4, <1>5, <1>6, <1>7, <1>8
       DEF RegisterOK, Stood, StoodNext

LEMMA InvalidateKeeps ==
    ASSUME IInv, NEW r \in Runways, Invalidate(r)
    PROVE  /\ rows' \in [Runways -> Row]
           /\ heads' \in [Targets -> Runways \union {NoRunway}]
           /\ Grows
           /\ RegisterOK'
           /\ \A q \in Runways :
                 /\ rows'[q].predecessor = rows[q].predecessor
                 /\ rows'[q].state = "invalidated" <=>
                       q = r \/ rows[q].state = "invalidated"
                 /\ rows'[q].wasPublished <=> rows[q].wasPublished
                 /\ rows'[q].target = rows[q].target
                 /\ rows'[q].state # "absent" <=> rows[q].state # "absent"
  <1> DEFINE t == rows[r].target
             p == rows[r].predecessor
  <1>1. /\ rows \in [Runways -> Row]
        /\ heads \in [Targets -> Runways \union {NoRunway}]
        /\ invocations' = invocations
    BY DEF IInv, TypeOK, Invalidate
  <1>2. /\ t \in Targets /\ rows[r].state \in {"published", "superseded"}
        /\ p \in Runways \union {NoRunway}
        /\ heads' = IF heads[t] = r THEN [heads EXCEPT ![t] = p] ELSE heads
    BY <1>1 DEF Row, Invalidate
  <1>3. ASSUME NEW q \in Runways
        PROVE  /\ rows'[q] \in Row
               /\ rows'[q].target = rows[q].target
               /\ rows'[q].predecessor = rows[q].predecessor
               /\ rows'[q].wasPublished = rows[q].wasPublished
               /\ rows'[q].state =
                     IF q = r THEN "invalidated"
                     ELSE IF heads[t] = r /\ q = p /\ rows[q].state = "superseded"
                          THEN "published" ELSE rows[q].state
    <2>1. PICK old \in Row : old = rows[q]
      BY <1>1
    <2>2. rows'[q] = IF q = r
                     THEN [old EXCEPT !.state = "invalidated"]
                     ELSE IF heads[t] = r /\ q = p /\ old.state = "superseded"
                          THEN [old EXCEPT !.state = "published"]
                          ELSE old
      BY <2>1 DEF Invalidate
    <2> QED
      BY <2>1, <2>2 DEF Row
  <1>4. rows' \in [Runways -> Row]
    <2>1. rows' = [q \in Runways |-> rows'[q]]
      BY DEF Invalidate
    <2> QED
      BY <1>3, <2>1
  <1>5. Grows
    BY <1>1, <1>2, <1>3 DEF Grows
  <1>6. ASSUME NEW q \in Runways, NEW u, Stood(q, u)
        PROVE  StoodNext(q, u)
    BY <1>3, <1>6 DEF Stood, StoodNext
  <1>7. RowOK(r)
    BY DEF IInv, RegisterOK
  <1>8. \A u \in Targets : heads'[u] # NoRunway => StoodNext(heads'[u], u)
    <2> SUFFICES ASSUME NEW u \in Targets, heads'[u] # NoRunway
                 PROVE  StoodNext(heads'[u], u)
      OBVIOUS
    <2>1. CASE heads'[u] = heads[u]
      BY <1>1, <1>6, <2>1 DEF IInv, RegisterOK
    <2>2. CASE u = t /\ heads'[u] = p
      BY <1>2, <1>6, <1>7, <2>2 DEF RowOK
    <2> QED
      BY <1>1, <1>2, <2>1, <2>2
  <1>9. ASSUME NEW q \in Runways PROVE RowOK(q)'
    <2>1. RowOK(q)
      BY DEF IInv, RegisterOK
    <2>2. rows'[q].wasPublished <=>
             rows'[q].state \in {"published", "superseded", "invalidated"}
      BY <1>2, <1>3, <2>1 DEF RowOK
    <2>3. rows'[q].state = "published" => heads'[rows'[q].target] = q
      <3>1. CASE rows[q].state = "published" /\ q # r
        <4>1. heads[rows[q].target] = q /\ rows[q].target \in Targets
          BY <1>1, <2>1, <3>1 DEF RowOK, Row
        <4> QED
          BY <1>1, <1>2, <1>3, <3>1, <4>1
      <3>2. CASE heads[t] = r /\ q = p
        <4>1. rows[q].target = t
          BY <1>2, <1>7, <3>2, ConstantsAssumption DEF RowOK, Stood
        <4> QED
          BY <1>1, <1>2, <1>3, <3>2, <4>1
      <3> QED
        BY <1>3, <3>1, <3>2
    <2>4. rows'[q].predecessor # NoRunway =>
             StoodNext(rows'[q].predecessor, rows'[q].target)
      <3>1. rows[q].predecessor # NoRunway => rows[q].predecessor \in Runways
        BY <1>1 DEF Row
      <3> QED
        BY <1>3, <1>6, <2>1, <3>1 DEF RowOK
    <2> QED
      BY <2>2, <2>3, <2>4 DEF RowOK, Stood, StoodNext
  <1>10. heads' \in [Targets -> Runways \union {NoRunway}]
    BY <1>1, <1>2
  <1> QED
    BY <1>2, <1>3, <1>4, <1>5, <1>8, <1>9, <1>10
       DEF RegisterOK, Stood, StoodNext

LEMMA DamageKeeps ==
    ASSUME IInv, NEW r \in Runways, Damage(r)
    PROVE  /\ rows' \in [Runways -> Row]
           /\ Grows
           /\ RegisterOK'
           /\ \A q \in Runways :
                 /\ rows'[q].predecessor = rows[q].predecessor
                 /\ rows'[q].state = rows[q].state
                 /\ rows'[q].wasPublished = rows[q].wasPublished
                 /\ rows'[q].target = rows[q].target
  <1>1. rows \in [Runways -> Row]
    BY DEF IInv, TypeOK
  <1>2. PICK old \in Row : old = rows[r]
    BY <1>1
  <1>3. rows' = [rows EXCEPT ![r] = [old EXCEPT !.intact = FALSE]]
    BY <1>1, <1>2 DEF Damage
  <1>4. [old EXCEPT !.intact = FALSE] \in Row
    BY DEF Row
  <1>5. ASSUME NEW q \in Runways
        PROVE  /\ rows'[q].predecessor = rows[q].predecessor
               /\ rows'[q].state = rows[q].state
               /\ rows'[q].wasPublished = rows[q].wasPublished
               /\ rows'[q].target = rows[q].target
    BY <1>1, <1>2, <1>3 DEF Row
  <1>6. UNCHANGED <<heads, invocations>>
    BY DEF Damage
  <1>7. Grows
    BY <1>5, <1>6 DEF Grows
  <1>8. ASSUME NEW q \in Runways, NEW u PROVE Stood(q, u) => StoodNext(q, u)
    BY <1>5 DEF Stood, StoodNext
  <1>9. ASSUME NEW q \in Runways PROVE RowOK(q)'
    <2>1. RowOK(q) /\ rows[q] \in Row
      BY <1>1 DEF IInv, RegisterOK
    <2>2. rows[q].predecessor # NoRunway =>
             StoodNext(rows[q].predecessor, rows[q].target)
      BY <1>8, <2>1 DEF RowOK, Row
    <2> QED
      BY <1>5, <1>6, <2>1, <2>2 DEF RowOK, Stood, StoodNext
  <1>10. \A u \in Targets : heads'[u] # NoRunway => StoodNext(heads'[u], u)
    BY <1>6, <1>8 DEF IInv, RegisterOK, TypeOK
  <1> QED
    BY <1>1, <1>3, <1>4, <1>5, <1>7, <1>9, <1>10
       DEF RegisterOK, Stood, StoodNext

-----------------------------------------------------------------------------
(* What requests, receipts and invocations hold stays true.                *)

LEMMA ContextStays ==
    ASSUME IInv, Grows, NEW c, NEW t, NEW context \in Context,
           ContextOK(c, t, context)
    PROVE  ContextOK(c, t, context)'
  <1>1. context.runway # NoRunway => context.runway \in Runways
    BY DEF Context
  <1>2. \A r \in Runways : rows[r].wasPublished =>
           /\ rows'[r].wasPublished
           /\ rows'[r].target = rows[r].target
    BY DEF IInv, RegisterOK, RowOK, Grows
  <1> QED
    BY <1>1, <1>2 DEF ContextOK

LEMMA CandidateStays ==
    ASSUME Grows, NEW t, HasCandidate(t)
    PROVE  HasCandidate(t)'
  BY DEF Grows, HasCandidate

LEMMA LocalStays ==
    ASSUME IInv, Grows, NEW l \in Local, LocalOK(l)
    PROVE  LocalOK(l)'
  <1>1. ASSUME l.pc = "persist"
        PROVE  ContextOK(l.credential, l.target, l.context)'
    <2>1. l.context \in Context
      BY DEF Local
    <2> QED
      BY <1>1, <2>1, ContextStays DEF LocalOK
  <1>2. ASSUME l.pc \in {"create", "complete"} PROVE MayComplete(l)'
    BY <1>2 DEF LocalOK, MayComplete, Grows
  <1>3. ASSUME l.pc = "complete" /\ l.outcome = "changed"
        PROVE  HasCandidate(l.target)'
    BY <1>3, CandidateStays DEF LocalOK
  <1> QED
    BY <1>1, <1>2, <1>3 DEF LocalOK

LEMMA ReceiptStays ==
    ASSUME IInv, Grows, NEW id \in Receipts, receipts'[id] = receipts[id]
    PROVE  ReceiptOK(id)'
  <1>1. PICK receipt \in Receipt : receipt = receipts[id]
    BY DEF IInv, TypeOK
  <1>2. receipt.context \in Context
    BY DEF Receipt
  <1>3. receipt.issued => ContextOK(receipt.credential, receipt.target,
                                    receipt.context)'
    BY <1>1, <1>2, ContextStays DEF IInv, ReceiptOK
  <1> QED
    BY <1>1, <1>3 DEF ReceiptOK, ContextOK

LEMMA InvocationStays ==
    ASSUME IInv, Grows, NEW i \in Invocations, invocations'[i] = invocations[i]
    PROVE  InvocationOK(i)'
  <1>1. InvocationOK(i)
    BY DEF IInv
  <1>2. PICK t : t = invocations[i].target
    OBVIOUS
  <1>3. invocations[i].outcome = "changed" => HasCandidate(t)'
    BY <1>1, <1>2, CandidateStays DEF InvocationOK
  <1> QED
    BY <1>1, <1>2, <1>3 DEF InvocationOK, HasCandidate

\* The request of w goes on with locals it may have.
Moves(w) ==
    \E l \in Local : /\ LocalOK(l)
                     /\ local' = [local EXCEPT ![w] = l]

\* What holds of a value holds of the request that has it.
LEMMA LocalNext ==
    ASSUME NEW v, NEW k, k = local'[v], LocalOK(k)'
    PROVE  LocalOK(local[v])'
  <1>1. ContextOK(k.credential, k.target, k.context)' =>
           ContextOK(local[v].credential, local[v].target, local[v].context)'
    BY DEF ContextOK
  <1>2. MayComplete(k)' => MayComplete(local[v])'
    BY DEF MayComplete
  <1>3. HasCandidate(k.target)' => HasCandidate(local[v].target)'
    BY DEF HasCandidate
  <1> QED
    BY <1>1, <1>2, <1>3 DEF LocalOK

LEMMA SetKeeps ==
    ASSUME IInv, Grows, NEW w \in Workers, NEW l \in Local, LocalOK(l)',
           local' = [local EXCEPT ![w] = l]
    PROVE  /\ local' \in [Workers -> Local]
           /\ \A v \in Workers : LocalOK(local[v])'
  <1>1. local \in [Workers -> Local]
    BY DEF IInv, TypeOK
  <1>2. local'[w] = l /\ \A v \in Workers \ {w} : local'[v] = local[v]
    BY <1>1
  <1>3. LocalOK(local[w])'
    BY <1>2, LocalNext
  <1>4. ASSUME NEW v \in Workers \ {w} PROVE LocalOK(local[v])'
    <2>1. PICK k \in Local : k = local[v]
      BY <1>1
    <2>2. LocalOK(k)'
      BY <2>1, LocalStays DEF IInv
    <2> QED
      BY <1>2, <2>1, <2>2, LocalNext
  <1> QED
    BY <1>1, <1>3, <1>4

LEMMA MovesKeep ==
    ASSUME IInv, Grows, NEW w \in Workers, Moves(w)
    PROVE  /\ local' \in [Workers -> Local]
           /\ \A v \in Workers : LocalOK(local[v])'
  <1>1. PICK l \in Local : LocalOK(l) /\ local' = [local EXCEPT ![w] = l]
    BY DEF Moves
  <1>2. LocalOK(l)'
    BY <1>1, LocalStays
  <1> QED
    BY <1>1, <1>2, SetKeeps

LEMMA LocalsKeep ==
    ASSUME IInv, Grows, UNCHANGED local
    PROVE  /\ local' \in [Workers -> Local]
           /\ \A v \in Workers : LocalOK(local[v])'
  <1>1. local \in [Workers -> Local]
    BY DEF IInv, TypeOK
  <1>2. ASSUME NEW v \in Workers PROVE LocalOK(local[v])'
    <2>1. PICK k \in Local : k = local[v]
      BY <1>1
    <2>2. LocalOK(k)'
      BY <2>1, LocalStays DEF IInv
    <2> QED
      BY <2>1, <2>2 DEF LocalOK, ContextOK, MayComplete, HasCandidate
  <1> QED
    BY <1>1, <1>2

\* A step of the runways alone.
LEMMA RunwaysKeep ==
    ASSUME IInv, Grows, RegisterOK', rows' \in [Runways -> Row],
           heads' \in [Targets -> Runways \union {NoRunway}],
           UNCHANGED <<invocations, receipts>>,
           UNCHANGED local \/ \E w \in Workers : Moves(w)
    PROVE  IInv'
  <1>1. /\ local' \in [Workers -> Local]
        /\ \A v \in Workers : LocalOK(local[v])'
    BY LocalsKeep, MovesKeep
  <1>2. /\ \A id \in Receipts : ReceiptOK(id)'
        /\ \A i \in Invocations : InvocationOK(i)'
    BY ReceiptStays, InvocationStays
  <1>3. TypeOK'
    BY <1>1 DEF IInv, TypeOK
  <1> QED
    BY <1>1, <1>2, <1>3 DEF IInv

LEMMA Quiet ==
    ASSUME IInv, UNCHANGED <<rows, heads>>
    PROVE  /\ RegisterOK' /\ rows' \in [Runways -> Row]
           /\ heads' \in [Targets -> Runways \union {NoRunway}]
           /\ UNCHANGED invocations => Grows
  BY DEF IInv, TypeOK, RegisterOK, RowOK, Stood, Grows

\* A step of one request alone.
LEMMA MoveKeeps ==
    ASSUME IInv, NEW w \in Workers, Moves(w),
           UNCHANGED <<rows, heads, invocations, receipts>>
    PROVE  IInv'
  BY Quiet, RunwaysKeep

-----------------------------------------------------------------------------
(* The moves of a request.                                                 *)

LEMMA ReturnMoves ==
    ASSUME IInv, NEW w \in Workers, Return(w)
    PROVE  Moves(w) /\ local'[w] = Idle
  <1>1. LocalOK(Idle)
    BY IdleType DEF LocalOK, Resolving, HeadRead
  <1> QED
    BY <1>1, IdleType DEF Return, Moves, IInv, TypeOK

LEMMA GotoMoves ==
    ASSUME IInv, NEW w \in Workers, NEW step \in Steps, Goto(w, step),
           \A l \in Local :
              /\ l.pc = step
              /\ l.credential = local[w].credential /\ l.target = local[w].target
              /\ l.invocation = local[w].invocation
              /\ l.outcome = local[w].outcome
              => LocalOK(l)
    PROVE  Moves(w) /\ local'[w].pc = step
  <1>1. PICK old \in Local : old = local[w]
    BY DEF IInv, TypeOK
  <1>2. PICK l : l = [old EXCEPT !.pc = step]
    OBVIOUS
  <1>3. /\ l \in Local /\ l.pc = step
        /\ l.credential = old.credential /\ l.target = old.target
        /\ l.invocation = old.invocation /\ l.outcome = old.outcome
    BY <1>2 DEF Local
  <1>4. local' = [local EXCEPT ![w] = l]
    BY <1>1, <1>2 DEF Goto
  <1>5. LocalOK(l)
    BY <1>1, <1>3
  <1> QED
    BY <1>3, <1>4, <1>5 DEF Moves, IInv, TypeOK

LEMMA BeginMoves ==
    ASSUME IInv, NEW w \in Workers, NEW step \in Steps, NEW c \in Credentials,
           NEW t \in Targets, NEW i \in Invocations \union {NoInvocation},
           NEW outcome \in Outcomes \union {"none"},
           Begin(w, step, c, t, i, outcome),
           \A l \in Local :
              /\ l.pc = step /\ l.credential = c /\ l.target = t
              /\ l.invocation = i /\ l.outcome = outcome
              => LocalOK(l)
    PROVE  Moves(w)
  <1>1. PICK idle \in Local : idle = Idle
    BY IdleType
  <1>2. PICK l : l = [idle EXCEPT !.pc = step, !.credential = c, !.target = t,
                                  !.invocation = i, !.outcome = outcome]
    OBVIOUS
  <1>3. /\ l \in Local /\ l.pc = step /\ l.credential = c /\ l.target = t
        /\ l.invocation = i /\ l.outcome = outcome
    BY <1>2 DEF Local
  <1>4. local' = [local EXCEPT ![w] = l]
    BY <1>1, <1>2 DEF Begin
  <1> QED
    BY <1>3, <1>4 DEF Moves

\* The target a resolver works for, and who it works for.
LEMMA ResolverHolds ==
    ASSUME IInv, NEW w \in Workers, local[w].pc \in Resolving
    PROVE  /\ local[w] \in Local
           /\ local[w].credential \in Credentials
           /\ local[w].target \in Targets
           /\ Authorized(local[w].credential, local[w].target)
           /\ local[w].pc \in HeadRead => local[w].head \in Runways
           /\ local[w].pc \in {"global_head", "global_row"} => GlobalFallback
  BY DEF IInv, TypeOK, Local, LocalOK, Resolving

LEMMA SelectMoves ==
    ASSUME IInv, NEW w \in Workers, NEW r \in Runways \union {NoRunway},
           NEW status \in ContextStatuses, local[w].pc \in Resolving,
           Select(w, r, status),
           ContextOK(local[w].credential, local[w].target,
                     [status |-> status, runway |-> r])
    PROVE  /\ Moves(w)
           /\ local'[w].pc = "persist"
           /\ local'[w].context.status = status /\ local'[w].context.runway = r
  <1>1. PICK old \in Local : old = local[w]
    BY DEF IInv, TypeOK
  <1>2. PICK context \in Context :
           /\ context = [status |-> status, runway |-> r]
           /\ context.status = status /\ context.runway = r
    <2>1. [status |-> status, runway |-> r] \in Context
      BY DEF Context
    <2> QED
      BY <2>1
  <1>3. PICK l : l = [old EXCEPT !.pc = "persist", !.head = NoRunway,
                                 !.context = context]
    OBVIOUS
  <1>4. /\ l \in Local /\ l.pc = "persist" /\ l.context = context
        /\ l.credential = old.credential /\ l.target = old.target
    BY <1>3 DEF Local, Steps
  <1>5. local' = [local EXCEPT ![w] = l]
    BY <1>1, <1>2, <1>3 DEF Select
  <1>6. LocalOK(l)
    BY <1>1, <1>2, <1>4, ResolverHolds DEF LocalOK, HeadRead
  <1> QED
    BY <1>2, <1>4, <1>5, <1>6 DEF Moves, IInv, TypeOK

LEMMA ReadHeadMoves ==
    ASSUME IInv, NEW w \in Workers, NEW t \in Targets,
           NEW row \in HeadRead, NEW miss \in Resolving \ (HeadRead \union {"persist"}),
           row = "global_row" \/ miss = "global_head" => GlobalFallback,
           local[w].credential \in Credentials,
           Authorized(local[w].credential, local[w].target),
           ReadHead(w, t, row, miss)
    PROVE  Moves(w) /\ local'[w].pc \in {row, miss}
  <1>1. PICK old \in Local : old = local[w]
    BY DEF IInv, TypeOK
  <1>2. PICK head \in Runways \union {NoRunway} : head = heads[t]
    BY DEF IInv, TypeOK
  <1>3. PICK step : step = IF head = NoRunway THEN miss ELSE row
    OBVIOUS
  <1>4. /\ step \in Steps /\ step \in {row, miss}
        /\ step \in HeadRead => head \in Runways
        /\ step \in {"global_head", "global_row"} => GlobalFallback
        /\ step \notin {"idle", "persist", "bind", "create", "complete"}
    BY <1>2, <1>3 DEF Steps, HeadRead, Resolving
  <1>5. PICK l : l = [old EXCEPT !.pc = step, !.head = head]
    OBVIOUS
  <1>6. /\ l \in Local /\ l.pc = step /\ l.head = head
        /\ l.credential = old.credential /\ l.target = old.target
    BY <1>4, <1>5 DEF Local
  <1>7. local' = [local EXCEPT ![w] = l]
    BY <1>1, <1>2, <1>3, <1>5 DEF ReadHead
  <1>8. LocalOK(l)
    BY <1>1, <1>4, <1>6 DEF LocalOK
  <1> QED
    BY <1>4, <1>6, <1>7, <1>8 DEF Moves, IInv, TypeOK

-----------------------------------------------------------------------------
(* The resolver.                                                           *)

LEMMA FallbackTargets ==
    ASSUME NEW t \in Targets
    PROVE  /\ DefaultOf(t) \in Targets
           /\ DefaultOf(t).tenant = t.tenant
           /\ DefaultOf(t).identity = t.identity
           /\ DefaultOf(t).project = t.project
           /\ GlobalOf(t) \in Targets
           /\ GlobalOf(t).tenant = t.tenant
           /\ GlobalOf(t).identity = t.identity
           /\ GlobalOf(t).project = Global
           /\ \A s \in Scopes : LET u == [t EXCEPT !.scope = s] IN
                 /\ u \in Targets /\ u.tenant = t.tenant
                 /\ u.identity = t.identity /\ u.project = t.project
  BY ConstantsAssumption DEF Targets, DefaultOf, GlobalOf

\* What a fallback takes was published for a target that may stand in.
LEMMA TakeFallbackMoves ==
    ASSUME IInv, NEW w \in Workers, NEW r \in Runways, NEW t \in Targets,
           local[w].pc \in Resolving,
           t.tenant = local[w].target.tenant,
           t.identity = local[w].target.identity,
           t.project \in Reach(local[w].target),
           TakeFallback(w, r, t)
    PROVE  Moves(w) /\ local'[w].pc = "persist"
  <1>1. /\ local[w].credential \in Credentials
        /\ Authorized(local[w].credential, local[w].target)
    BY ResolverHolds
  <1>2. CASE FallbackState(r) /\ Verifies(r, t)
    <2>1. rows[r].wasPublished /\ rows[r].target = t
      BY <1>2 DEF FallbackState, Verifies, IInv, RegisterOK, RowOK
    <2>2. ContextOK(local[w].credential, local[w].target,
                    [status |-> "DEGRADED_CONTEXT", runway |-> r])
      BY <1>1, <2>1 DEF ContextOK
    <2> QED
      BY <1>2, <2>2, SelectMoves DEF TakeFallback, FallbackStatus, ContextStatuses
  <1>3. CASE ~(FallbackState(r) /\ Verifies(r, t))
    <2>1. ContextOK(local[w].credential, local[w].target,
                    [status |-> "QUARANTINED_CONTEXT", runway |-> r])
      BY <1>1 DEF ContextOK, EligibleStatuses
    <2> QED
      BY <1>3, <2>1, SelectMoves DEF TakeFallback, ContextStatuses
  <1> QED
    BY <1>2, <1>3

\* The steps of resolveLatestRunway that only read.
Reads(w) ==
    \/ ResolveExactHead(w) \/ ResolveExactRow(w)
    \/ ResolveDefaultHead(w) \/ ResolveDefaultRow(w)
    \/ ResolveGenesis(w)
    \/ ResolveGlobalHead(w) \/ ResolveGlobalRow(w)
    \/ ResolveBackfilled(w)

LEMMA ExactRowMoves ==
    ASSUME IInv, NEW w \in Workers, ResolveExactRow(w)
    PROVE  /\ Moves(w)
           /\ \/ local'[w].context.status = "QUARANTINED_CONTEXT"
              \/ /\ local'[w].context.runway = local[w].head
                 /\ ExactState(local[w].head)
                 /\ Verifies(local[w].head, local[w].target)
  <1> DEFINE r == local[w].head
             t == local[w].target
  <1>1. /\ local[w].pc = "exact_row" /\ local[w].pc \in Resolving
        /\ r \in Runways /\ t \in Targets
        /\ local[w].credential \in Credentials
        /\ Authorized(local[w].credential, t)
    BY ResolverHolds DEF ResolveExactRow, At, Resolving, HeadRead
  <1>2. CASE ExactState(r) /\ Verifies(r, t)
    <2>1. rows[r].wasPublished /\ rows[r].target = t
      BY <1>1, <1>2 DEF ExactState, Verifies, IInv, RegisterOK, RowOK
    <2>2. Freshness(r) \in ContextStatuses
      BY DEF Freshness, ContextStatuses
    <2>3. ContextOK(local[w].credential, t,
                    [status |-> Freshness(r), runway |-> r])
      BY <1>1, <2>1 DEF ContextOK, Reach
    <2> QED
      BY <1>1, <1>2, <2>2, <2>3, SelectMoves DEF ResolveExactRow
  <1>3. CASE ~(ExactState(r) /\ Verifies(r, t))
    <2>1. ContextOK(local[w].credential, t,
                    [status |-> "QUARANTINED_CONTEXT", runway |-> r])
      BY <1>1 DEF ContextOK, EligibleStatuses
    <2> QED
      BY <1>1, <1>3, <2>1, SelectMoves DEF ResolveExactRow, ContextStatuses
  <1> QED
    BY <1>2, <1>3

LEMMA ReadsMove ==
    ASSUME IInv, NEW w \in Workers, Reads(w)
    PROVE  Moves(w)
  <1> DEFINE t == local[w].target
  <1>0. ASSUME local[w].pc \in Resolving
        PROVE  /\ t \in Targets /\ local[w].credential \in Credentials
               /\ Authorized(local[w].credential, t)
    BY <1>0, ResolverHolds
  <1>1. CASE ResolveExactHead(w)
    <2>1. local[w].credential \in Credentials /\ t \in Targets
      BY <1>1 DEF ResolveExactHead, At, IInv, LocalOK, TypeOK, Local
    <2>2. AfterExactMiss(t) \in {"genesis", "default_head"}
      BY DEF AfterExactMiss
    <2>3. CASE Authorized(local[w].credential, t)
      BY <1>1, <2>1, <2>2, <2>3, ReadHeadMoves
         DEF ResolveExactHead, HeadRead, Resolving
    <2> QED
      BY <1>1, <2>3, ReturnMoves DEF ResolveExactHead
  <1>2. CASE ResolveExactRow(w)
    BY <1>2, ExactRowMoves
  <1>3. CASE ResolveDefaultHead(w)
    <2>1. local[w].pc \in Resolving
      BY <1>3 DEF ResolveDefaultHead, At, Resolving
    <2> QED
      BY <1>0, <1>3, <2>1, FallbackTargets, ReadHeadMoves
         DEF ResolveDefaultHead, HeadRead, Resolving
  <1>4. CASE ResolveDefaultRow(w)
    <2>1. local[w].pc \in Resolving /\ local[w].pc \in HeadRead
      BY <1>4 DEF ResolveDefaultRow, At, Resolving, HeadRead
    <2>2. /\ DefaultOf(t) \in Targets /\ DefaultOf(t).tenant = t.tenant
          /\ DefaultOf(t).identity = t.identity
          /\ DefaultOf(t).project \in Reach(t)
          /\ local[w].head \in Runways
      BY <1>0, <2>1, FallbackTargets, ResolverHolds DEF Reach
    <2> QED
      BY <1>4, <2>1, <2>2, TakeFallbackMoves DEF ResolveDefaultRow
  <1>5. CASE ResolveGenesis(w)
    <2>1. local[w].pc \in Resolving
      BY <1>5 DEF ResolveGenesis, At, Resolving
    <2>2. CASE Goto(w, AfterGenesisMiss)
      <3>1. PICK step \in {"global_head", "backfill"} :
               /\ step = AfterGenesisMiss
               /\ step = "global_head" => GlobalFallback
        BY DEF AfterGenesisMiss
      <3>2. step \in Steps /\ Goto(w, step)
        BY <2>2, <3>1 DEF Steps
      <3>3. \A l \in Local :
               /\ l.pc = step /\ l.credential = local[w].credential
               /\ l.target = t
               => LocalOK(l)
        BY <1>0, <2>1, <3>1 DEF LocalOK, HeadRead
      <3> QED
        BY <3>2, <3>3, GotoMoves
    <2>3. ASSUME NEW r \in GenesisOf(t), TakeFallback(w, r, rows[r].target)
          PROVE  Moves(w)
      <3>1. PICK s \in Scopes : rows[r].target = [t EXCEPT !.scope = s]
        BY <2>3 DEF GenesisOf
      <3>2. PICK u : u = [t EXCEPT !.scope = s]
        OBVIOUS
      <3>3. /\ u \in Targets /\ u.tenant = t.tenant
            /\ u.identity = t.identity /\ u.project = t.project
        BY <1>0, <2>1, <3>2, FallbackTargets
      <3>4. r \in Runways /\ TakeFallback(w, r, u)
        BY <2>3, <3>1, <3>2 DEF GenesisOf
      <3>5. u.project \in Reach(t)
        BY <3>3 DEF Reach
      <3> QED
        BY <2>1, <3>3, <3>4, <3>5, TakeFallbackMoves
    <2> QED
      BY <1>5, <2>2, <2>3 DEF ResolveGenesis
  <1>6. CASE ResolveGlobalHead(w)
    <2>1. local[w].pc \in Resolving /\ GlobalFallback
      BY <1>6, ResolverHolds DEF ResolveGlobalHead, At, Resolving
    <2> QED
      BY <1>0, <1>6, <2>1, FallbackTargets, ReadHeadMoves
         DEF ResolveGlobalHead, HeadRead, Resolving
  <1>7. CASE ResolveGlobalRow(w)
    <2>1. local[w].pc \in Resolving /\ local[w].pc \in HeadRead
          /\ local[w].pc = "global_row"
      BY <1>7 DEF ResolveGlobalRow, At, Resolving, HeadRead
    <2>2. GlobalFallback /\ local[w].head \in Runways
      BY <2>1, ResolverHolds
    <2>3. /\ GlobalOf(t) \in Targets /\ GlobalOf(t).tenant = t.tenant
          /\ GlobalOf(t).identity = t.identity
          /\ GlobalOf(t).project \in Reach(t)
      BY <1>0, <2>1, <2>2, FallbackTargets DEF Reach
    <2> QED
      BY <1>7, <2>1, <2>2, <2>3, TakeFallbackMoves DEF ResolveGlobalRow
  <1>8. CASE ResolveBackfilled(w)
    <2>1. local[w].pc \in Resolving
      BY <1>8 DEF ResolveBackfilled, At, Resolving
    <2>2. CASE Select(w, NoRunway, "NO_CONTEXT")
      <3>1. ContextOK(local[w].credential, t,
                      [status |-> "NO_CONTEXT", runway |-> NoRunway])
        BY <1>0, <2>1 DEF ContextOK
      <3> QED
        BY <2>1, <2>2, <3>1, SelectMoves DEF ContextStatuses
    <2>3. ASSUME NEW r \in BackfilledOf(t), TakeFallback(w, r, t)
          PROVE  Moves(w)
      <3>1. r \in Runways /\ t.project \in Reach(t)
        BY ConstantsAssumption DEF BackfilledOf, Reach
      <3> QED
        BY <1>0, <2>1, <2>3, <3>1, TakeFallbackMoves
    <2> QED
      BY <1>8, <2>2, <2>3 DEF ResolveBackfilled
  <1> QED
    BY <1>1, <1>2, <1>3, <1>4, <1>5, <1>6, <1>7, <1>8 DEF Reads

LEMMA ReadsKeep ==
    ASSUME IInv, NEW w \in Workers, Reads(w)
    PROVE  IInv' /\ UNCHANGED <<rows, heads, invocations, receipts>>
  <1>1. UNCHANGED <<rows, heads, invocations, receipts>>
    BY DEF Reads, ResolveExactHead, ResolveExactRow, ResolveDefaultHead,
           ResolveDefaultRow, ResolveGenesis, ResolveGlobalHead,
           ResolveGlobalRow, ResolveBackfilled
  <1> QED
    BY <1>1, ReadsMove, MoveKeeps

-----------------------------------------------------------------------------
(* The steps that write.                                                   *)

LEMMA ResolveKeeps ==
    ASSUME IInv, NEW w \in Workers, NEW c \in Credentials, NEW t \in Requested,
           Resolve(w, c, t)
    PROVE  IInv'
  <1>1. Moves(w)
    BY BeginMoves, ConstantsAssumption
       DEF Resolve, Steps, LocalOK, Resolving, HeadRead
  <1> QED
    BY <1>1, MoveKeeps DEF Resolve

LEMMA RehydrateKeeps ==
    ASSUME IInv, NEW w \in Workers, NEW c \in Credentials, NEW t \in Requested,
           NEW i \in Invocations, Rehydrate(w, c, t, i)
    PROVE  IInv' /\ Grows
  <1>1. Moves(w)
    BY BeginMoves, ConstantsAssumption
       DEF Rehydrate, Steps, LocalOK, Resolving, HeadRead
  <1>2. PICK new \in Invocation :
           /\ new = [state |-> "opened", target |-> t, credential |-> c,
                     runway |-> NoRunway, receipt |-> NoReceipt,
                     outcome |-> "none"]
           /\ new.state = "opened" /\ new.outcome = "none"
    <2>1. [state |-> "opened", target |-> t, credential |-> c,
           runway |-> NoRunway, receipt |-> NoReceipt, outcome |-> "none"]
             \in Invocation
      BY ConstantsAssumption DEF Invocation
    <2> QED
      BY <2>1
  <1>3. /\ invocations \in [Invocations -> Invocation]
        /\ UNCHANGED <<rows, heads, receipts>>
        /\ \/ /\ invocations[i].state = "absent"
              /\ invocations' = [invocations EXCEPT ![i] = new]
           \/ UNCHANGED invocations
    BY <1>2 DEF Rehydrate, InsertTakes, IInv, TypeOK
  <1>4. /\ invocations' \in [Invocations -> Invocation]
        /\ \A j \in Invocations \ {i} : invocations'[j] = invocations[j]
        /\ \/ invocations'[i] = invocations[i]
           \/ invocations[i].state = "absent" /\ invocations'[i] = new
    BY <1>2, <1>3
  <1>5. Grows
    BY <1>2, <1>3, <1>4 DEF Grows
  <1>6. InvocationOK(i)'
    BY <1>2, <1>4, <1>5, InvocationStays DEF InvocationOK
  <1>7. \A j \in Invocations : InvocationOK(j)'
    BY <1>4, <1>5, <1>6, InvocationStays
  <1>8. /\ local' \in [Workers -> Local]
        /\ \A v \in Workers : LocalOK(local[v])'
    BY <1>1, <1>5, MovesKeep
  <1>9. \A id \in Receipts : ReceiptOK(id)'
    BY <1>3, <1>5, ReceiptStays
  <1>10. TypeOK'
    BY <1>3, <1>4, <1>8 DEF IInv, TypeOK
  <1> QED
    BY <1>3, <1>5, <1>7, <1>8, <1>9, <1>10, Quiet DEF IInv

LEMMA PersistKeeps ==
    ASSUME IInv, NEW w \in Workers, PersistResolution(w)
    PROVE  IInv'
  <1>1. PICK id \in Receipts :
           /\ receipts' = [receipts EXCEPT ![id] =
                 [issued |-> TRUE, target |-> local[w].target,
                  credential |-> local[w].credential,
                  context |-> local[w].context]]
           /\ IF local[w].invocation = NoInvocation
              THEN Return(w)
              ELSE local' = [local EXCEPT ![w].pc = "bind", ![w].receipt = id]
    BY DEF PersistResolution
  <1>2. PICK old \in Local : old = local[w]
    BY DEF IInv, TypeOK
  <1>3. UNCHANGED <<rows, heads, invocations>>
    BY DEF PersistResolution
  <1>4. /\ old.pc = "persist" /\ LocalOK(old)
        /\ ContextOK(old.credential, old.target, old.context)
    BY <1>2 DEF PersistResolution, At, IInv, LocalOK
  <1>5. Moves(w)
    <2>1. CASE old.invocation # NoInvocation
      <3>1. PICK l : l = [old EXCEPT !.pc = "bind", !.receipt = id]
        OBVIOUS
      <3>2. /\ l \in Local /\ l.pc = "bind"
            /\ l.credential = old.credential /\ l.invocation = old.invocation
        BY <3>1 DEF Local, Steps
      <3>3. local' = [local EXCEPT ![w] = l]
        BY <1>1, <1>2, <2>1, <3>1
      <3>4. LocalOK(l)
        BY <1>4, <2>1, <3>2, <1>2 DEF LocalOK, Resolving, HeadRead, Local
      <3> QED
        BY <3>2, <3>3, <3>4 DEF Moves
    <2> QED
      BY <1>1, <1>2, <2>1, ReturnMoves
  <1>6. PICK new \in Receipt :
           /\ new = [issued |-> TRUE, target |-> old.target,
                     credential |-> old.credential, context |-> old.context]
           /\ new.target = old.target /\ new.credential = old.credential
           /\ new.context = old.context
    <2>1. [issued |-> TRUE, target |-> old.target,
           credential |-> old.credential, context |-> old.context] \in Receipt
      BY DEF Local, Receipt
    <2> QED
      BY <2>1
  <1>7. /\ receipts' \in [Receipts -> Receipt]
        /\ \A j \in Receipts \ {id} : receipts'[j] = receipts[j]
        /\ receipts'[id] = new
    BY <1>1, <1>2, <1>6 DEF IInv, TypeOK
  <1>8. /\ Grows /\ RegisterOK' /\ rows' \in [Runways -> Row]
        /\ heads' \in [Targets -> Runways \union {NoRunway}]
    BY <1>3, Quiet
  <1>9. ContextOK(old.credential, old.target, old.context)'
    BY <1>3, <1>4 DEF ContextOK
  <1>10. ReceiptOK(id)'
    BY <1>6, <1>7, <1>9 DEF ReceiptOK, ContextOK
  <1>11. \A j \in Receipts : ReceiptOK(j)'
    BY <1>7, <1>8, <1>10, ReceiptStays
  <1>12. /\ local' \in [Workers -> Local]
         /\ \A v \in Workers : LocalOK(local[v])'
    BY <1>5, <1>8, MovesKeep
  <1>13. \A i \in Invocations : InvocationOK(i)'
    BY <1>3, <1>8, InvocationStays
  <1>14. TypeOK'
    BY <1>3, <1>7, <1>8, <1>12 DEF IInv, TypeOK
  <1> QED
    BY <1>8, <1>11, <1>12, <1>13, <1>14 DEF IInv

LEMMA BindKeeps ==
    ASSUME IInv, NEW w \in Workers, BindInvocation(w)
    PROVE  IInv' /\ Grows
           /\ \A i \in Invocations :
                 /\ invocations'[i].target = invocations[i].target
                 /\ invocations'[i].credential = invocations[i].credential
                 /\ invocations'[i].outcome = invocations[i].outcome
  <1>1. /\ local[w].invocation \in Invocations
        /\ local[w].context.runway \in Runways \union {NoRunway}
        /\ local[w].receipt \in Receipts \union {NoReceipt}
    BY DEF BindInvocation, At, IInv, LocalOK, TypeOK, Local, Context
  <1>2. PICK i \in Invocations, old \in Invocation :
           i = local[w].invocation /\ old = invocations[i]
    BY <1>1 DEF IInv, TypeOK
  <1>3. PICK new : new = [old EXCEPT !.state = "rehydrated",
                                     !.runway = local[w].context.runway,
                                     !.receipt = local[w].receipt]
    OBVIOUS
  <1>4. /\ new \in Invocation /\ new.state = "rehydrated"
        /\ new.target = old.target /\ new.credential = old.credential
        /\ new.outcome = old.outcome
    BY <1>1, <1>3 DEF Invocation
  <1>5. /\ UNCHANGED <<rows, heads, receipts>> /\ Moves(w)
        /\ \/ invocations' = [invocations EXCEPT ![i] = new]
           \/ UNCHANGED invocations
    BY <1>2, <1>3, ReturnMoves DEF BindInvocation
  <1>6. /\ invocations' \in [Invocations -> Invocation]
        /\ \A j \in Invocations \ {i} : invocations'[j] = invocations[j]
        /\ invocations'[i] = invocations[i] \/ invocations'[i] = new
    BY <1>4, <1>5 DEF IInv, TypeOK
  <1>7. Grows
    BY <1>2, <1>4, <1>5, <1>6 DEF Grows
  <1>8. InvocationOK(i)'
    <2>1. CASE invocations'[i] = new
      BY <1>2, <1>4, <1>5, <2>1 DEF IInv, InvocationOK, HasCandidate
    <2> QED
      BY <1>6, <1>7, <2>1, InvocationStays
  <1>9. \A j \in Invocations : InvocationOK(j)'
    BY <1>6, <1>7, <1>8, InvocationStays
  <1>10. /\ local' \in [Workers -> Local]
         /\ \A v \in Workers : LocalOK(local[v])'
    BY <1>5, <1>7, MovesKeep
  <1>11. \A id \in Receipts : ReceiptOK(id)'
    BY <1>5, <1>7, ReceiptStays
  <1>12. TypeOK'
    BY <1>5, <1>6, <1>10 DEF IInv, TypeOK
  <1> QED
    BY <1>2, <1>4, <1>5, <1>6, <1>7, <1>9, <1>10, <1>11, <1>12, Quiet DEF IInv

LEMMA CompleteKeeps ==
    ASSUME IInv, NEW w \in Workers, NEW c \in Credentials, NEW i \in Invocations,
           NEW outcome \in OutcomesSent, Complete(w, c, i, outcome)
    PROVE  IInv'
  <1>1. /\ invocations[i].target \in Targets /\ outcome \in Outcomes
        /\ outcome # "none"
    BY ConstantsAssumption DEF IInv, TypeOK, Invocation, Outcomes
  <1>2. PICK t \in Targets, step \in {"create", "complete"} :
           /\ t = invocations[i].target
           /\ step = IF outcome = "changed" THEN "create" ELSE "complete"
    BY <1>1
  <1>3. /\ Begin(w, step, c, t, i, outcome)
        /\ UNCHANGED <<rows, heads, invocations, receipts>>
    BY <1>2 DEF Complete
  <1>4. \A l \in Local :
           /\ l.pc = step /\ l.credential = c /\ l.target = t
           /\ l.invocation = i /\ l.outcome = outcome
           => LocalOK(l)
    BY <1>2 DEF Complete, LocalOK, MayComplete, Resolving, HeadRead
  <1>5. Moves(w)
    BY <1>1, <1>2, <1>3, <1>4, BeginMoves DEF Steps
  <1> QED
    BY <1>3, <1>5, MoveKeeps

\* The locals of a request that goes on from "create" to "complete".
LEMMA ToComplete ==
    ASSUME IInv, NEW w \in Workers, At(w, "create"), Goto(w, "complete")
    PROVE  \E l \in Local :
              /\ l.pc = "complete" /\ l.target = local[w].target
              /\ MayComplete(l)
              /\ local' = [local EXCEPT ![w] = l]
  <1>1. PICK old \in Local : old = local[w]
    BY DEF IInv, TypeOK
  <1>2. PICK l : l = [old EXCEPT !.pc = "complete"]
    OBVIOUS
  <1>3. /\ l \in Local /\ l.pc = "complete" /\ l.target = old.target
        /\ l.credential = old.credential /\ l.invocation = old.invocation
    BY <1>2 DEF Local, Steps
  <1>4. MayComplete(old)
    BY <1>1 DEF At, IInv, LocalOK
  <1>5. MayComplete(l)
    BY <1>3, <1>4 DEF MayComplete
  <1>6. local' = [local EXCEPT ![w] = l]
    BY <1>1, <1>2 DEF Goto
  <1> QED
    BY <1>1, <1>3, <1>5, <1>6

LEMMA CompleteCreateKeeps ==
    ASSUME IInv, NEW w \in Workers, CompleteCreate(w)
    PROVE  IInv' /\ Grows
  <1>1. /\ local[w].target \in Targets /\ At(w, "create")
        /\ UNCHANGED <<heads, invocations, receipts>>
    BY DEF IInv, TypeOK, Local, CompleteCreate
  <1>2. PICK r \in Runways :
           \/ /\ rows[r].state = "absent"
              /\ rows' = Created(r, local[w].target)
              /\ Goto(w, "complete")
           \/ /\ rows[r].state # "absent" /\ UNCHANGED rows
              /\ rows[r].target = local[w].target /\ Goto(w, "complete")
           \/ Return(w) /\ UNCHANGED rows
    BY DEF CompleteCreate, ReplayFits
  <1>3. CASE /\ rows[r].state = "absent"
             /\ rows' = Created(r, local[w].target)
             /\ Goto(w, "complete")
    <2>1. PICK t \in Targets : t = local[w].target
      BY <1>1
    <2>2. /\ rows' \in [Runways -> Row]
          /\ RegisterOK'
          /\ \A q \in Runways \ {r} : rows'[q] = rows[q]
          /\ rows'[r].state = "candidate" /\ rows'[r].target = t
      BY <1>1, <1>3, <2>1, CreatedKeeps
    <2>3. ~rows[r].wasPublished
      BY <1>3 DEF IInv, RegisterOK, RowOK
    <2>4. Grows
      BY <1>1, <1>3, <2>2, <2>3 DEF Grows
    <2>5. PICK l \in Local :
             /\ l.pc = "complete" /\ l.target = t
             /\ MayComplete(l)
             /\ local' = [local EXCEPT ![w] = l]
      BY <1>1, <1>3, <2>1, ToComplete
    <2>6. LocalOK(l)'
      <3>1. HasCandidate(l.target)'
        BY <2>2, <2>5 DEF HasCandidate
      <3>2. MayComplete(l)'
        BY <1>1, <2>5 DEF MayComplete
      <3> QED
        BY <2>5, <3>1, <3>2 DEF LocalOK, MayComplete, Resolving, HeadRead
    <2>7. /\ local' \in [Workers -> Local]
          /\ \A v \in Workers : LocalOK(local[v])'
      BY <2>4, <2>5, <2>6, SetKeeps
    <2>8. /\ \A id \in Receipts : ReceiptOK(id)'
          /\ \A i \in Invocations : InvocationOK(i)'
      BY <1>1, <2>4, ReceiptStays, InvocationStays
    <2>9. TypeOK'
      BY <1>1, <2>2, <2>7 DEF IInv, TypeOK
    <2> QED
      BY <2>2, <2>4, <2>7, <2>8, <2>9 DEF IInv
  <1>4. CASE /\ rows[r].state # "absent" /\ UNCHANGED rows
             /\ rows[r].target = local[w].target /\ Goto(w, "complete")
    <2>1. PICK l \in Local :
             /\ l.pc = "complete" /\ l.target = local[w].target
             /\ MayComplete(l)
             /\ local' = [local EXCEPT ![w] = l]
      BY <1>1, <1>4, ToComplete
    <2>2. HasCandidate(l.target)
      BY <1>4, <2>1 DEF HasCandidate
    <2>3. LocalOK(l)
      BY <2>1, <2>2 DEF LocalOK, MayComplete, Resolving, HeadRead
    <2>4. Moves(w)
      BY <2>1, <2>3 DEF Moves
    <2> QED
      BY <1>1, <1>4, <2>4, MoveKeeps, Quiet
  <1>5. CASE Return(w) /\ UNCHANGED rows
    BY <1>1, <1>5, ReturnMoves, MoveKeeps, Quiet
  <1> QED
    BY <1>2, <1>3, <1>4, <1>5

LEMMA CompleteRecordKeeps ==
    ASSUME IInv, NEW w \in Workers, CompleteRecord(w)
    PROVE  IInv' /\ Grows
           /\ \A j \in Invocations :
                 invocations'[j].outcome # invocations[j].outcome =>
                    j = local[w].invocation
  <1>1. PICK l \in Local : l = local[w]
    BY DEF IInv, TypeOK
  <1>2. /\ MayComplete(l)
        /\ l.outcome = "changed" => HasCandidate(l.target)
    BY <1>1 DEF CompleteRecord, At, IInv, LocalOK
  <1>3. PICK i \in Invocations, old \in Invocation :
           i = l.invocation /\ old = invocations[i]
    BY <1>2 DEF MayComplete, IInv, TypeOK
  <1>4. PICK new : new = [old EXCEPT !.state = StateAfter(l.outcome),
                                     !.outcome = l.outcome]
    OBVIOUS
  <1>5. /\ new \in Invocation /\ new.state # "absent"
        /\ new.target = old.target /\ new.credential = old.credential
        /\ new.outcome = l.outcome
    BY <1>4 DEF Invocation, StateAfter, Local
  <1>6. /\ invocations' = [invocations EXCEPT ![i] = new]
        /\ UNCHANGED <<rows, heads, receipts>> /\ Moves(w)
    BY <1>1, <1>3, <1>4, ReturnMoves DEF CompleteRecord
  <1>7. /\ invocations' \in [Invocations -> Invocation]
        /\ \A j \in Invocations \ {i} : invocations'[j] = invocations[j]
        /\ invocations'[i] = new
    BY <1>5, <1>6 DEF IInv, TypeOK
  <1>8. Grows
    BY <1>3, <1>5, <1>6, <1>7 DEF Grows
  <1>9. InvocationOK(i)'
    BY <1>2, <1>3, <1>5, <1>6, <1>7 DEF InvocationOK, HasCandidate, MayComplete
  <1>10. \A j \in Invocations : InvocationOK(j)'
    BY <1>7, <1>8, <1>9, InvocationStays
  <1>11. /\ local' \in [Workers -> Local]
         /\ \A v \in Workers : LocalOK(local[v])'
    BY <1>6, <1>8, MovesKeep
  <1>12. \A id \in Receipts : ReceiptOK(id)'
    BY <1>6, <1>8, ReceiptStays
  <1>13. TypeOK'
    BY <1>6, <1>7, <1>11 DEF IInv, TypeOK
  <1> QED
    BY <1>1, <1>3, <1>6, <1>7, <1>8, <1>10, <1>11, <1>12, <1>13, Quiet DEF IInv

LEMMA LifecycleKeeps ==
    ASSUME IInv, Lifecycle
    PROVE  IInv' /\ Grows /\ UNCHANGED <<invocations, receipts, local>>
  <1>1. ASSUME NEW r \in Runways, NEW t \in Proposed, Propose(r, t)
        PROVE  IInv' /\ Grows
    <2>1. /\ rows[r].state = "absent" /\ rows' = Created(r, t)
          /\ UNCHANGED <<heads, invocations, receipts, local>>
          /\ t \in Targets
      BY <1>1, ConstantsAssumption DEF Propose
    <2>2. /\ rows' \in [Runways -> Row]
          /\ RegisterOK'
          /\ \A q \in Runways \ {r} : rows'[q] = rows[q]
          /\ rows'[r].state = "candidate"
      BY <2>1, CreatedKeeps
    <2>3. ~rows[r].wasPublished
      BY <2>1 DEF IInv, RegisterOK, RowOK
    <2>4. Grows
      BY <2>1, <2>2, <2>3 DEF Grows
    <2> QED
      BY <2>1, <2>2, <2>4, RunwaysKeep DEF IInv, TypeOK
  <1>2. ASSUME NEW r \in Runways, Publish(r) PROVE IInv' /\ Grows
    BY <1>2, PublishKeeps, RunwaysKeep DEF Publish
  <1>3. ASSUME NEW r \in Runways, Invalidate(r) PROVE IInv' /\ Grows
    BY <1>3, InvalidateKeeps, RunwaysKeep DEF Invalidate
  <1>4. ASSUME NEW r \in Runways, Damage(r) PROVE IInv' /\ Grows
    BY <1>4, DamageKeeps, RunwaysKeep DEF Damage, IInv, TypeOK
  <1>5. UNCHANGED <<invocations, receipts, local>>
    BY DEF Lifecycle, Propose, Publish, Invalidate, Damage
  <1> QED
    BY <1>1, <1>2, <1>3, <1>4, <1>5 DEF Lifecycle

-----------------------------------------------------------------------------
(* All steps.                                                              *)

\* An outcome is only written by a request that read the invocation, and
\* changes no other.
OutcomeBy(w) ==
    /\ CompleteRecord(w)
    /\ \A i \in Invocations :
          invocations'[i].outcome # invocations[i].outcome =>
             i = local[w].invocation

OutcomesStay ==
    \A i \in Invocations : invocations'[i].outcome = invocations[i].outcome

LEMMA RequestKeeps ==
    ASSUME IInv, NEW w \in Workers, Request(w)
    PROVE  IInv' /\ Grows /\ OutcomesStay
  <1>1. ASSUME NEW c \in Credentials, NEW t \in Requested, Resolve(w, c, t)
        PROVE  IInv' /\ Grows /\ OutcomesStay
    BY <1>1, ResolveKeeps, Quiet DEF Resolve, OutcomesStay
  <1>2. ASSUME NEW c \in Credentials, NEW t \in Requested,
               NEW i \in Invocations, Rehydrate(w, c, t, i)
        PROVE  IInv' /\ Grows /\ OutcomesStay
    <2>1. OutcomesStay
      <3>1. invocations \in [Invocations -> Invocation] /\ InvocationOK(i)
        BY DEF IInv, TypeOK
      <3>2. PICK new : new = [state |-> "opened", target |-> t,
                              credential |-> c, runway |-> NoRunway,
                              receipt |-> NoReceipt, outcome |-> "none"]
        OBVIOUS
      <3>4. new.outcome = "none"
        BY <3>2
      <3>3. \/ UNCHANGED invocations
            \/ /\ invocations[i].state = "absent"
               /\ invocations' = [invocations EXCEPT ![i] = new]
        BY <1>2, <3>2 DEF Rehydrate, InsertTakes
      <3> QED
        BY <3>1, <3>3, <3>4 DEF OutcomesStay, InvocationOK
    <2> QED
      BY <1>2, <2>1, RehydrateKeeps
  <1>3. ASSUME NEW c \in Credentials, NEW i \in Invocations,
               NEW outcome \in OutcomesSent, Complete(w, c, i, outcome)
        PROVE  IInv' /\ Grows /\ OutcomesStay
    BY <1>3, CompleteKeeps, Quiet DEF Complete, OutcomesStay
  <1> QED
    BY <1>1, <1>2, <1>3 DEF Request

LEMMA ProceedKeeps ==
    ASSUME IInv, NEW w \in Workers, Proceed(w)
    PROVE  IInv' /\ Grows /\ (OutcomesStay \/ OutcomeBy(w))
  <1>1. CASE Reads(w)
    BY <1>1, ReadsKeep, Quiet DEF OutcomesStay
  <1>2. CASE PersistResolution(w)
    BY <1>2, PersistKeeps, Quiet DEF PersistResolution, OutcomesStay
  <1>3. CASE BindInvocation(w)
    BY <1>3, BindKeeps DEF OutcomesStay
  <1>4. CASE CompleteCreate(w)
    BY <1>4, CompleteCreateKeeps DEF CompleteCreate, OutcomesStay
  <1>5. CASE CompleteRecord(w)
    BY <1>5, CompleteRecordKeeps DEF OutcomeBy
  <1> QED
    BY <1>1, <1>2, <1>3, <1>4, <1>5 DEF Proceed, Reads

LEMMA StepKeeps ==
    ASSUME IInv, [Next]_vars
    PROVE  IInv' /\ Grows /\ (OutcomesStay \/ \E w \in Workers : OutcomeBy(w))
  <1>1. CASE UNCHANGED vars
    <2>1. UNCHANGED <<rows, heads, invocations, receipts, local>>
      BY <1>1 DEF vars
    <2> QED
      BY <2>1, Quiet, RunwaysKeep DEF OutcomesStay
  <1>2. CASE Lifecycle
    BY <1>2, LifecycleKeeps DEF OutcomesStay
  <1>3. ASSUME NEW w \in Workers, Crash(w)
        PROVE  IInv' /\ Grows /\ OutcomesStay
    BY <1>3, ReturnMoves, MoveKeeps, Quiet DEF Crash, OutcomesStay
  <1> QED
    BY <1>1, <1>2, <1>3, RequestKeeps, ProceedKeeps DEF Next

LEMMA IInvStep == IInv /\ [Next]_vars => IInv'
  BY StepKeeps

\* The tables and the locals of requests hold what the handlers put there.
THEOREM ContinuityTypeCorrect == Spec => []TypeOK
  <1>1. IInv => TypeOK
    BY DEF IInv
  <1> QED
    BY <1>1, InitEstablishes, IInvStep, PTL DEF Spec

LEMMA AdmittedBelongs == IInv => AdmittedContextBelongs
  <1> SUFFICES ASSUME IInv, NEW c \in Credentials, NEW identity \in Identities,
                      NEW id \in Receipts, Admits(c, identity, id)
               PROVE  LET r == receipts[id].context.runway
                          t == receipts[id].target IN
                      /\ Authorized(c, t)
                      /\ r # NoRunway =>
                            /\ rows[r].wasPublished
                            /\ rows[r].target.tenant = TenantOf[c]
                            /\ rows[r].target.identity = identity
                            /\ rows[r].target.project \in Reach(t)
                            /\ receipts[id].context.status # "DEGRADED_CONTEXT" =>
                                  rows[r].target = t
    BY DEF AdmittedContextBelongs, Reach
  <1>1. ContextOK(receipts[id].credential, receipts[id].target,
                  receipts[id].context)
    BY DEF IInv, ReceiptOK, Admits
  <1> QED
    BY <1>1 DEF ContextOK, Admits

\* A receipt that admits an invocation names a context its credential may
\* read, of a runway that was published for that target or may stand in for
\* it, whatever happened to the runways since it was resolved.
THEOREM AdmittedBelongsAlways == Spec => []AdmittedContextBelongs
  BY AdmittedBelongs, InitEstablishes, IInvStep, PTL DEF Spec

\* An invocation that says it changed something has a candidate for its
\* target, whoever completed it and however often it was retried.
THEOREM ChangesHaveCandidates == Spec => []ChangedHasCandidate
  <1>1. IInv => ChangedHasCandidate
    BY DEF IInv, InvocationOK, HasCandidate, ChangedHasCandidate
  <1> QED
    BY <1>1, InitEstablishes, IInvStep, PTL DEF Spec

\* No step takes an invocation from its target or its credential, and none
\* records an outcome but for a request allowed to write that target.
THEOREM OwnersAreKept == Spec => InvocationKeepsOwner
  <1> DEFINE Kept ==
        \A i \in Invocations :
          /\ invocations[i].state # "absent" =>
                /\ invocations'[i].target = invocations[i].target
                /\ invocations'[i].credential = invocations[i].credential
          /\ invocations'[i].outcome # invocations[i].outcome =>
                \E w \in Workers :
                    LET c == local[w].credential IN
                    /\ At(w, "complete")
                    /\ Authorized(c, invocations[i].target)
                    /\ c \in Specialists => c = invocations[i].credential
  <1>1. ASSUME IInv, [Next]_vars PROVE Kept
    <2>1. Grows /\ (OutcomesStay \/ \E w \in Workers : OutcomeBy(w))
      BY <1>1, StepKeeps
    <2>2. ASSUME NEW w \in Workers, OutcomeBy(w)
          PROVE  LET i == local[w].invocation
                     c == local[w].credential IN
                 /\ At(w, "complete")
                 /\ Authorized(c, invocations[i].target)
                 /\ c \in Specialists => c = invocations[i].credential
      BY <1>1, <2>2
         DEF OutcomeBy, CompleteRecord, At, IInv, LocalOK, MayComplete
    <2> QED
      BY <2>1, <2>2 DEF Grows, OutcomesStay, OutcomeBy
  <1> QED
    BY <1>1, InitEstablishes, IInvStep, PTL DEF Spec, InvocationKeepsOwner

-----------------------------------------------------------------------------
(* What is current.                                                        *)

\* A worker's step leaves the locals of the others alone.
LEMMA OthersWait ==
    ASSUME IInv, NEW v \in Workers, Request(v) \/ Proceed(v) \/ Crash(v),
           NEW w \in Workers \ {v}
    PROVE  local'[w] = local[w]
  <1>1. local \in [Workers -> Local]
    BY DEF IInv, TypeOK
  <1> USE DEF Return, Goto, Begin, Select, ReadHead, TakeFallback
  <1>2. CASE Request(v)
    BY <1>1, <1>2 DEF Request, Resolve, Rehydrate, Complete
  <1>3. CASE Reads(v)
    BY <1>1, <1>3 DEF Reads, ResolveExactHead, ResolveExactRow,
         ResolveDefaultHead, ResolveDefaultRow, ResolveGenesis,
         ResolveGlobalHead, ResolveGlobalRow, ResolveBackfilled
  <1>4. CASE PersistResolution(v)
    BY <1>1, <1>4 DEF PersistResolution
  <1>5. CASE BindInvocation(v) \/ CompleteCreate(v) \/ CompleteRecord(v)
             \/ Crash(v)
    BY <1>1, <1>5 DEF BindInvocation, CompleteCreate, CompleteRecord, Crash
  <1> QED
    BY <1>2, <1>3, <1>4, <1>5 DEF Proceed, Reads

\* From the read of an exact head only one step leads to a context.
LEMMA ExactRowIsRead ==
    ASSUME IInv, [Next]_vars, NEW w \in Workers, At(w, "exact_row"),
           local'[w].pc = "persist"
    PROVE  ResolveExactRow(w)
  <1>1. local'[w] # local[w]
    BY DEF At
  <1>2. ~Lifecycle /\ ~UNCHANGED vars
    BY <1>1, LifecycleKeeps DEF vars
  <1>3. PICK v \in Workers : Request(v) \/ Proceed(v) \/ Crash(v)
    BY <1>2 DEF Next
  <1>4. v = w
    BY <1>1, <1>3, OthersWait
  <1>5. ~Crash(w)
    BY ReturnMoves, IdleType DEF Crash
  <1>6. ~Request(w)
    BY DEF Request, Resolve, Rehydrate, Complete, Begin, At
  <1> QED
    BY <1>3, <1>4, <1>5, <1>6
       DEF Proceed, ResolveExactHead, ResolveDefaultHead, ResolveDefaultRow,
           ResolveGenesis, ResolveGlobalHead, ResolveGlobalRow,
           ResolveBackfilled, PersistResolution, BindInvocation,
           CompleteCreate, CompleteRecord, At

\* What a resolver calls current is the head of the target at that moment,
\* although the head was read in an earlier statement than the row.
THEOREM CurrentIsTheHead == Spec => CurrentIsHead
  <1> DEFINE Current ==
        \A w \in Workers :
          /\ At(w, "exact_row")
          /\ local'[w].pc = "persist"
          /\ local'[w].context.status # "QUARANTINED_CONTEXT"
          => LET r == local'[w].context.runway IN
             /\ heads[local[w].target] = r
             /\ rows[r].intact
  <1>1. ASSUME IInv, [Next]_vars PROVE Current
    <2> SUFFICES ASSUME NEW w \in Workers, At(w, "exact_row"),
                        local'[w].pc = "persist",
                        local'[w].context.status # "QUARANTINED_CONTEXT"
                 PROVE  LET r == local'[w].context.runway IN
                        /\ heads[local[w].target] = r
                        /\ rows[r].intact
      OBVIOUS
    <2>1. ResolveExactRow(w)
      BY <1>1, ExactRowIsRead
    <2>2. /\ local'[w].context.runway = local[w].head
          /\ ExactState(local[w].head)
          /\ Verifies(local[w].head, local[w].target)
      BY <1>1, <2>1, ExactRowMoves
    <2>3. local[w].head \in Runways
      BY <1>1, <2>1, ResolverHolds DEF ResolveExactRow, At, Resolving, HeadRead
    <2> QED
      BY <1>1, <2>2, <2>3 DEF ExactState, Verifies, IInv, RegisterOK, RowOK
  <1> QED
    BY <1>1, InitEstablishes, IInvStep, PTL DEF Spec, CurrentIsHead

=============================================================================
