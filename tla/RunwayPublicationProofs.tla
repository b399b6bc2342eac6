---------------------- MODULE RunwayPublicationProofs -----------------------
(***************************************************************************)
(* More about RunwayLifecycle: what the record of a publication attempt    *)
(* says, the quality gates, and what holds of every runway whose row was   *)
(* not overwritten, up to the register the handlers implement.             *)
(***************************************************************************)
EXTENDS RunwayLifecycleProofs

-----------------------------------------------------------------------------
(* Locals.                                                                 *)

LEMMA ReturnFacts ==
    ASSUME TypeOK, NEW w \in Workers, Return(w)
    PROVE  local'[w] = Idle
  BY DEF TypeOK, Return

LEMMA GotoFacts ==
    ASSUME TypeOK, NEW w \in Workers, NEW s, Goto(w, s)
    PROVE  /\ local'[w].pc = s
           /\ local'[w].runway = local[w].runway
           /\ local'[w].state = local[w].state
           /\ local'[w].attempt = local[w].attempt
           /\ local'[w].failure = local[w].failure
  <1>1. PICK old \in Local : old = local[w]
    BY DEF TypeOK
  <1>2. local'[w] = [old EXCEPT !.pc = s]
    BY <1>1 DEF TypeOK, Goto
  <1> QED
    BY <1>1, <1>2 DEF Local

LEMMA FailFacts ==
    ASSUME TypeOK, NEW w \in Workers, NEW f, Fail(w, f)
    PROVE  /\ local'[w].pc = "fail_runway"
           /\ local'[w].runway = local[w].runway
           /\ local'[w].state = local[w].state
           /\ local'[w].attempt = local[w].attempt
           /\ local'[w].failure = f
  <1>1. PICK old \in Local : old = local[w]
    BY DEF TypeOK
  <1>2. local'[w] = [old EXCEPT !.pc = "fail_runway", !.failure = f]
    BY <1>1 DEF TypeOK, Fail
  <1> QED
    BY <1>1, <1>2 DEF Local

LEMMA IdleFacts ==
    /\ Idle \in Local /\ Idle.pc = "idle" /\ Idle.runway = NoRunway
    /\ Idle.attempt = NoAttempt
  BY DEF Idle, NoHead, Local, Head, Steps, States, RunwayRefs

LEMMA BeginFacts ==
    ASSUME TypeOK, NEW w \in Workers, NEW r \in Runways, NEW s, Begin(w, r, s)
    PROVE  /\ local'[w].pc = s
           /\ local'[w].runway = r
           /\ local'[w].state = rows[r].state
           /\ local'[w].attempt = NoAttempt
  <1>1. PICK start \in Local : start = Idle
    BY IdleFacts
  <1>2. local'[w] = [start EXCEPT !.pc = s, !.runway = r, !.state = rows[r].state]
    BY <1>1 DEF TypeOK, Begin
  <1> QED
    BY <1>1, <1>2, IdleFacts DEF Local

\* A request to publish draws an identifier that nobody holds.
LEMMA PublishReadFacts ==
    ASSUME TypeOK, NEW w \in Workers, NEW r \in Runways, PublishReadRow(w, r)
    PROVE  /\ local'[w].pc = "publish_head"
           /\ local'[w].runway = r
           /\ local'[w].state = rows[r].state
           /\ local'[w].attempt \in Attempts
           /\ attempts[local'[w].attempt].status = "unused"
           /\ \A v \in Workers : local[v].attempt # local'[w].attempt
  <1>1. PICK a \in Attempts :
          /\ attempts[a].status = "unused"
          /\ \A v \in Workers : local[v].attempt # a
          /\ local' = [local EXCEPT ![w] = [Idle EXCEPT
                !.pc = "publish_head", !.runway = r,
                !.state = rows[r].state, !.attempt = a]]
    BY DEF PublishReadRow
  <1>2. PICK start \in Local : start = Idle
    BY IdleFacts
  <1>3. local'[w] = [start EXCEPT !.pc = "publish_head", !.runway = r,
                                  !.state = rows[r].state, !.attempt = a]
    BY <1>1, <1>2 DEF TypeOK
  <1>4. local'[w].attempt = a
    BY <1>3 DEF Local
  <1> QED
    BY <1>1, <1>3, <1>4 DEF Local

LEMMA HeadFacts ==
    ASSUME TypeOK, NEW w \in Workers,
           CreateReadHead(w) \/ InvalidateReadHead(w)
    PROVE  \/ local'[w] = Idle
           \/ /\ CreateReadHead(w) => local'[w].pc = "create_insert"
              /\ InvalidateReadHead(w) => local'[w].pc = "invalidate_write"
              /\ local'[w].pc \in {"create_insert", "invalidate_write"}
              /\ local'[w].runway = local[w].runway
              /\ local'[w].attempt = local[w].attempt
              /\ local'[w].head = head
  <1>1. PICK old \in Local : old = local[w]
    BY DEF TypeOK
  <1>2. CASE CreateReadHead(w) /\ Return(w)
    BY <1>2, ReturnFacts
  <1>3. CASE CreateReadHead(w) /\ ~Return(w)
    <2>1. local'[w] = [old EXCEPT !.pc = "create_insert", !.head = head]
      BY <1>1, <1>3 DEF CreateReadHead, TypeOK
    <2>2. ~InvalidateReadHead(w)
      BY <1>3 DEF CreateReadHead, InvalidateReadHead, At
    <2> QED
      BY <1>1, <2>1, <2>2 DEF Local, TypeOK
  <1>4. CASE InvalidateReadHead(w)
    <2>1. local'[w] = [old EXCEPT !.pc = "invalidate_write", !.head = head]
      BY <1>1, <1>4 DEF InvalidateReadHead, TypeOK
    <2>2. ~CreateReadHead(w)
      BY <1>4 DEF CreateReadHead, InvalidateReadHead, At
    <2> QED
      BY <1>1, <2>1, <2>2 DEF Local
  <1> QED
    BY <1>2, <1>3, <1>4

-----------------------------------------------------------------------------
(* What an attempt says.                                                   *)

Failing == {"fail_runway", "fail_attempt"}

Publishing == {"publish_head", "publish_validation", "publish_attempt"}
                \union TryBlock \union Failing

\* Where a request is, its attempt is: drawn, started, and moved by the
\* compare-and-swap of this request or not.
AttemptDuty(w) ==
    LET l == local[w]
        a == attempts[l.attempt] IN
    /\ l.pc \in Publishing <=> l.attempt \in Attempts
    /\ l.pc \in {"publish_head", "publish_validation", "publish_attempt"} =>
          a.status = "unused"
    /\ l.pc \in TryBlock \union Failing => a.status = "started"
    /\ l.pc \in TryBlock => (a.advanced <=> l.pc = "publish_record")
    /\ l.pc \in Failing => l.failure \in {"failed", "conflict"}
    /\ l.pc \in Failing /\ l.failure = "conflict" => ~a.advanced

OwnAttempt ==
    \A v, w \in Workers : v # w /\ local[v].attempt \in Attempts =>
        local[v].attempt # local[w].attempt

AttemptInv ==
    /\ \A w \in Workers : AttemptDuty(w)
    /\ OwnAttempt
    /\ AttemptOutcomes

LEMMA AttemptInit == Init => AttemptInv
  <1> SUFFICES ASSUME Init PROVE AttemptInv
    OBVIOUS
  <1>1. \A w \in Workers : local[w].pc = "idle" /\ local[w].attempt = NoAttempt
    BY IdleFacts DEF Init
  <1>2. \A w \in Workers : AttemptDuty(w)
    BY <1>1, ConstantsAssumption DEF AttemptDuty, Publishing, TryBlock, Failing
  <1>3. OwnAttempt /\ AttemptOutcomes
    BY <1>1, ConstantsAssumption DEF Init, OwnAttempt, AttemptOutcomes
  <1> QED
    BY <1>2, <1>3 DEF AttemptInv

\* How a request changes the record of its attempt.
LEMMA WritesAttempt ==
    ASSUME TypeOK, NEW a \in Attempts,
           NEW f, f \in [runway: RunwayRefs, advanced: BOOLEAN,
                         status: {"unused", "started", "succeeded", "failed", "conflict"}],
           attempts' = [attempts EXCEPT ![a] = f]
    PROVE  /\ attempts'[a] = f
           /\ \A b \in Attempts : b # a => attempts'[b] = attempts[b]
  BY DEF TypeOK

\* A step that changes no attempt but the requester's own, whose request and
\* record fit afterwards.
LEMMA AttemptFrame ==
    ASSUME IInv, AttemptInv, NEW w \in Workers, Acts(w),
           AttemptDuty(w)',
           \A b \in Attempts : b = local[w].attempt \/ attempts'[b] = attempts[b],
           \/ local'[w].attempt \in {local[w].attempt, NoAttempt}
           \/ \A v \in Workers : local[v].attempt # local'[w].attempt,
           local[w].attempt \in Attempts =>
              LET a == attempts'[local[w].attempt] IN
              /\ a.status = "succeeded" => a.advanced
              /\ a.status = "conflict" => ~a.advanced
    PROVE  AttemptInv'
  <1>1. \A v \in Workers \ {w} : local'[v] = local[v]
    BY LocalFrame DEF IInv
  <1>2. ASSUME NEW v \in Workers \ {w} PROVE AttemptDuty(v)'
    <2>1. AttemptDuty(v) /\ local'[v] = local[v]
      BY <1>1 DEF AttemptInv
    <2>2. local[v].attempt \in Attempts =>
            attempts'[local[v].attempt] = attempts[local[v].attempt]
      BY DEF AttemptInv, OwnAttempt
    <2> QED
      BY <2>1, <2>2 DEF AttemptDuty, Publishing
  <1>3. OwnAttempt'
    BY <1>1, ConstantsAssumption DEF AttemptInv, OwnAttempt
  <1>4. AttemptOutcomes'
    BY DEF AttemptInv, AttemptOutcomes
  <1> QED
    BY <1>2, <1>3, <1>4 DEF AttemptInv

\* A step that writes no attempt.
LEMMA AttemptQuiet ==
    ASSUME IInv, AttemptInv, NEW w \in Workers, Acts(w), UNCHANGED attempts,
           AttemptDuty(w)',
           \/ local'[w].attempt \in {local[w].attempt, NoAttempt}
           \/ \A v \in Workers : local[v].attempt # local'[w].attempt
    PROVE  AttemptInv'
  BY AttemptFrame DEF AttemptInv, AttemptOutcomes

LEMMA IdleDuty ==
    ASSUME NEW w \in Workers, local'[w] = Idle
    PROVE  AttemptDuty(w)' /\ local'[w].attempt = NoAttempt
  BY IdleFacts, ConstantsAssumption
     DEF AttemptDuty, Publishing, TryBlock, Failing

LEMMA AttemptStep ==
    ASSUME IInv, AttemptInv, NEW w \in Workers, Acts(w)
    PROVE  AttemptInv'
  <1> DEFINE l == local[w]
             a == l.attempt
  <1>0. TypeOK /\ AttemptDuty(w)
    BY DEF IInv, AttemptInv
  <1>1. CASE UNCHANGED attempts /\ local'[w] = Idle
    BY <1>1, IdleDuty, AttemptQuiet
  <1>2. CASE UNCHANGED <<attempts, local>>
    BY <1>0, <1>2, AttemptQuiet DEF AttemptDuty
  <1>3. ASSUME NEW r \in Runways, NEW s \in {"create_head", "validate_write", "invalidate_head"},
               Begin(w, r, s), UNCHANGED attempts
        PROVE  AttemptInv'
    <2>1. local'[w].pc = s /\ local'[w].attempt = NoAttempt
      BY <1>0, <1>3, BeginFacts
    <2>2. AttemptDuty(w)'
      BY <2>1, ConstantsAssumption DEF AttemptDuty, Publishing, TryBlock, Failing
    <2> QED
      BY <1>3, <2>1, <2>2, AttemptQuiet
  <1>4. CASE Request(w)
    <2>1. PICK r \in Runways : \/ CreateReadKey(w, r) \/ ValidateRead(w, r)
                               \/ PublishReadRow(w, r) \/ InvalidateRead(w, r)
      BY <1>4 DEF Request
    <2>2. CASE PublishReadRow(w, r)
      <3>1. UNCHANGED attempts
        BY <2>2 DEF PublishReadRow, tables
      <3>2. AttemptDuty(w)'
        BY <1>0, <2>2, <3>1, PublishReadFacts
           DEF AttemptDuty, Publishing, TryBlock, Failing
      <3> QED
        BY <1>0, <2>2, <3>1, <3>2, PublishReadFacts, AttemptQuiet
    <2> QED
      BY <1>2, <1>3, <2>1, <2>2
         DEF CreateReadKey, ValidateRead, InvalidateRead, tables
  <1>5. CASE CreateReadHead(w) \/ InvalidateReadHead(w)
    <2>1. UNCHANGED attempts
      BY <1>5 DEF CreateReadHead, InvalidateReadHead, tables
    <2>2. CASE local'[w] # Idle
      <3>1. a \notin Attempts
        BY <1>0, <1>5 DEF CreateReadHead, InvalidateReadHead, At, AttemptDuty,
             Publishing, TryBlock, Failing
      <3>2. /\ local'[w].pc \in {"create_insert", "invalidate_write"}
            /\ local'[w].attempt = a
        BY <1>0, <1>5, <2>2, HeadFacts
      <3>3. AttemptDuty(w)'
        BY <3>1, <3>2 DEF AttemptDuty, Publishing, TryBlock, Failing
      <3> QED
        BY <2>1, <3>2, <3>3, AttemptQuiet
    <2> QED
      BY <1>1, <2>1, <2>2
  <1>6. CASE \/ CreateInsert(w) \/ ValidateWrite(w) \/ InvalidateWrite(w)
             \/ InvalidateAborts(w) \/ Crash(w)
    <2>1. Return(w) /\ UNCHANGED attempts
      BY <1>6 DEF CreateInsert, ValidateWrite, InvalidateWrite,
           InvalidateAborts, Crash, tables
    <2> QED
      BY <1>0, <1>1, <2>1, ReturnFacts
  \* A step of a publication that writes no attempt.
  <1>7. ASSUME NEW s \in Publishing, Goto(w, s), UNCHANGED attempts,
               l.pc \in Publishing,
               \/ /\ l.pc \in {"publish_head", "publish_validation"}
                  /\ s \in {"publish_validation", "publish_attempt"}
               \/ /\ l.pc \in TryBlock \ {"publish_record"}
                  /\ s \in TryBlock \ {"publish_record"}
               \/ l.pc = "fail_runway" /\ s = "fail_attempt"
        PROVE  AttemptInv'
    <2>1. /\ local'[w].pc = s /\ local'[w].attempt = a
          /\ local'[w].failure = l.failure
      BY <1>0, <1>7, GotoFacts
    <2>2. AttemptDuty(w)'
      BY <1>0, <1>7, <2>1 DEF AttemptDuty, Publishing, TryBlock, Failing
    <2> QED
      BY <1>7, <2>1, <2>2, AttemptQuiet
  <1>8. CASE PublishReadHead(w) \/ PublishReadValidation(w)
    <2>1. CASE Return(w)
      BY <1>0, <1>1, <1>8, <2>1, ReturnFacts
         DEF PublishReadHead, PublishReadValidation, tables
    <2>2. CASE ~Return(w)
      BY <1>7, <1>8, <2>2
         DEF PublishReadHead, PublishReadValidation, tables, At, Publishing
    <2> QED
      BY <2>1, <2>2
  <1>9. CASE PublishInsertAttempt(w)
    <2>1. l.pc = "publish_attempt" /\ a \in Attempts
      BY <1>0, <1>9 DEF PublishInsertAttempt, At, AttemptDuty, Publishing
    <2>2. PICK f : f = [runway |-> l.runway, advanced |-> FALSE, status |-> "started"]
      OBVIOUS
    <2>3. l.runway \in RunwayRefs
      BY <1>0 DEF TypeOK, Local
    <2>4. /\ f \in Attempt /\ f.status = "started" /\ ~f.advanced
      BY <2>2, <2>3 DEF Attempt
    <2>5. /\ attempts'[a] = f
          /\ \A b \in Attempts : b # a => attempts'[b] = attempts[b]
      BY <1>0, <1>9, <2>1, <2>2, <2>4, WritesAttempt DEF PublishInsertAttempt, Attempt
    <2>6. local'[w].pc = "publish_seal" /\ local'[w].attempt = a
      BY <1>0, <1>9, GotoFacts DEF PublishInsertAttempt
    <2>7. AttemptDuty(w)'
      BY <2>1, <2>4, <2>5, <2>6 DEF AttemptDuty, Publishing, TryBlock, Failing
    <2> QED
      BY <2>4, <2>5, <2>6, <2>7, AttemptFrame
  <1>10. ASSUME NEW f \in {"failed", "conflict"}, Fail(w, f), UNCHANGED attempts,
                l.pc \in TryBlock, f = "conflict" => l.pc # "publish_record"
         PROVE  AttemptInv'
    <2>1. /\ local'[w].pc = "fail_runway" /\ local'[w].attempt = a
          /\ local'[w].failure = f
      BY <1>0, <1>10, FailFacts
    <2>2. AttemptDuty(w)'
      BY <1>0, <1>10, <2>1 DEF AttemptDuty, Publishing, TryBlock, Failing
    <2> QED
      BY <1>10, <2>1, <2>2, AttemptQuiet
  <1>11. CASE \/ PublishSeal(w) \/ PublishArtifact(w) \/ PublishIndex(w)
              \/ PublishSetIndexed(w) \/ PublishHeadCasConflict(w)
              \/ CallFails(w) \/ FailRunway(w)
    <2>1. UNCHANGED attempts
      BY <1>11 DEF PublishSeal, PublishArtifact, PublishIndex, PublishSetIndexed,
           PublishHeadCasConflict, CallFails, FailRunway, tables
    <2>2. CASE \E f \in {"failed", "conflict"} : Fail(w, f)
               /\ ~(FailRunway(w) \/ PublishArtifact(w) \/ PublishIndex(w)
                    \/ PublishSetIndexed(w))
      <3>1. CASE CallFails(w)
        BY <1>10, <2>1, <3>1, ConstantsAssumption DEF CallFails
      <3>2. CASE PublishSeal(w) /\ Fail(w, "failed")
        BY <1>10, <2>1, <3>2 DEF PublishSeal, At, TryBlock
      <3>3. CASE PublishHeadCasConflict(w)
        BY <1>10, <2>1, <3>3 DEF PublishHeadCasConflict, ZeroChanges, At, TryBlock
      <3>4. CASE PublishSeal(w) /\ ~Fail(w, "failed")
        BY <1>7, <2>1, <3>4 DEF PublishSeal, AfterSeal, AfterArtifact, At,
             TryBlock, Publishing
      <3> QED
        BY <1>11, <2>2, <3>1, <3>2, <3>3, <3>4
    <2>3. CASE \/ PublishArtifact(w) \/ PublishIndex(w)
               \/ PublishSetIndexed(w) \/ FailRunway(w)
      BY <1>7, <2>1, <2>3 DEF PublishArtifact, PublishIndex, PublishSetIndexed,
           FailRunway, AfterArtifact, At, TryBlock, Publishing, Failing
    <2>4. CASE PublishSeal(w) /\ ~Fail(w, "failed")
      BY <1>7, <2>1, <2>4 DEF PublishSeal, AfterSeal, AfterArtifact, At,
           TryBlock, Publishing
    <2> QED
      BY <1>10, <1>11, <2>1, <2>2, <2>3, <2>4, ConstantsAssumption
         DEF PublishSeal, CallFails, PublishHeadCasConflict, ZeroChanges, At, TryBlock
  <1>12. CASE PublishHeadCas(w)
    <2>1. l.pc = "publish_cas" /\ a \in Attempts /\ attempts[a].status = "started"
      BY <1>0, <1>12 DEF PublishHeadCas, At, AttemptDuty, Publishing, TryBlock
    <2>2. PICK old \in Attempt : old = attempts[a]
      BY <1>0, <2>1 DEF TypeOK
    <2>3. PICK f : f = [old EXCEPT !.advanced = TRUE]
      OBVIOUS
    <2>4. f \in Attempt /\ f.status = "started" /\ f.advanced
      BY <2>1, <2>2, <2>3 DEF Attempt
    <2>5. /\ attempts'[a] = f
          /\ \A b \in Attempts : b # a => attempts'[b] = attempts[b]
      BY <1>0, <1>12, <2>1, <2>2, <2>3, <2>4, WritesAttempt DEF PublishHeadCas, Attempt
    <2>6. local'[w].pc = "publish_record" /\ local'[w].attempt = a
      BY <1>0, <1>12, GotoFacts DEF PublishHeadCas
    <2>7. AttemptDuty(w)'
      BY <2>1, <2>4, <2>5, <2>6 DEF AttemptDuty, Publishing, TryBlock, Failing
    <2> QED
      BY <2>4, <2>5, <2>6, <2>7, AttemptFrame
  <1>13. CASE PublishRecord(w) \/ FailAttempt(w)
    <2>1. PICK status \in {"succeeded", "failed", "conflict"} :
            /\ attempts' = [attempts EXCEPT ![a].status = status]
            /\ Return(w)
            /\ a \in Attempts
            /\ status = "succeeded" => attempts[a].advanced
            /\ status = "conflict" => ~attempts[a].advanced
      <3>1. CASE PublishRecord(w)
        BY <1>0, <3>1 DEF PublishRecord, At, AttemptDuty, Publishing, TryBlock
      <3>2. CASE FailAttempt(w)
        BY <1>0, <3>2 DEF FailAttempt, At, AttemptDuty, Publishing, Failing
      <3> QED
        BY <1>13, <3>1, <3>2
    <2>2. PICK old \in Attempt : old = attempts[a]
      BY <1>0, <2>1 DEF TypeOK
    <2>3. PICK f : f = [old EXCEPT !.status = status]
      OBVIOUS
    <2>4. f \in Attempt /\ f.status = status /\ f.advanced = old.advanced
      BY <2>2, <2>3 DEF Attempt
    <2>5. /\ attempts'[a] = f
          /\ \A b \in Attempts : b # a => attempts'[b] = attempts[b]
      BY <1>0, <2>1, <2>2, <2>3, <2>4, WritesAttempt DEF Attempt
    <2>6. local'[w] = Idle
      BY <1>0, <2>1, ReturnFacts
    <2> QED
      BY <2>1, <2>2, <2>4, <2>5, <2>6, IdleDuty, AttemptFrame
  <1> QED
    BY <1>4, <1>5, <1>6, <1>8, <1>9, <1>11, <1>12, <1>13 DEF Acts, Proceed

LEMMA AttemptInvStep == IInv /\ AttemptInv /\ [Next]_vars => AttemptInv'
  <1> SUFFICES ASSUME IInv, AttemptInv, [Next]_vars PROVE AttemptInv'
    OBVIOUS
  <1>1. CASE UNCHANGED vars
    BY <1>1 DEF vars, AttemptInv, AttemptDuty, OwnAttempt, AttemptOutcomes
  <1> QED
    BY <1>1, AttemptStep DEF Next, Acts

\* However requests interleave, fail and stop: an attempt is recorded as
\* succeeded only if its own compare-and-swap moved the head, and as a
\* conflict only if it did not.
THEOREM AttemptsAreTruthful == Spec => []AttemptOutcomes
  <1>1. AttemptInv => AttemptOutcomes
    BY DEF AttemptInv
  <1> QED
    BY <1>1, InitEstablishes, IInvStep, AttemptInit, AttemptInvStep, PTL DEF Spec

-----------------------------------------------------------------------------
(* Rows.                                                                   *)

LEMMA SetState ==
    ASSUME TypeOK, NEW r \in Runways, NEW s,
           rows' = [rows EXCEPT ![r].state = s]
    PROVE  /\ rows'[r].state = s
           /\ rows'[r].publishedAt = rows[r].publishedAt
           /\ rows'[r].predecessor = rows[r].predecessor
           /\ rows'[r].artifact = rows[r].artifact
           /\ \A x \in Runways \ {r} : rows'[x] = rows[x]
  BY DEF TypeOK, Row

LEMMA PromotedFacts ==
    ASSUME NEW row \in Row, NEW from
    PROVE  /\ Promoted(row, from) \in Row
           /\ Promoted(row, from).artifact = row.artifact
           /\ row.state \in from => /\ Promoted(row, from).state = "published"
                                    /\ Promoted(row, from).publishedAt
           /\ row.state \notin from => Promoted(row, from) = row
  <1>1. PICK new : new = [row EXCEPT !.state = "published", !.publishedAt = TRUE]
    OBVIOUS
  <1>2. new \in Row /\ new.artifact = row.artifact
        /\ new.state = "published" /\ new.publishedAt
    BY <1>1 DEF Row, States, History
  <1> QED
    BY <1>1, <1>2 DEF Promoted

LEMMA SupersededFacts ==
    ASSUME NEW row \in Row
    PROVE  /\ Superseded(row) \in Row
           /\ Superseded(row).artifact = row.artifact
           /\ Superseded(row).publishedAt = row.publishedAt
           /\ row.state = "published" => Superseded(row).state = "superseded"
           /\ row.state # "published" => Superseded(row) = row
  <1>1. PICK new : new = [row EXCEPT !.state = "superseded"]
    OBVIOUS
  <1>2. new \in Row /\ new.artifact = row.artifact
        /\ new.state = "superseded" /\ new.publishedAt = row.publishedAt
    BY <1>1 DEF Row, States, History
  <1> QED
    BY <1>1, <1>2 DEF Superseded

\* What the invalidation statement itself writes.
LEMMA InvalidatedFacts ==
    ASSUME TypeOK, NEW r \in Runways
    PROVE  /\ Invalidated(r) \in [Runways -> Row]
           /\ Invalidated(r)[r].state = "invalidated"
           /\ Invalidated(r)[r].artifact = rows[r].artifact
           /\ Invalidated(r)[r].publishedAt = rows[r].publishedAt
           /\ \A x \in Runways \ {r} : Invalidated(r)[x] = rows[x]
  BY DEF TypeOK, Row, Invalidated, States, History

LEMMA TriggersKeepArtifact ==
    ASSUME NEW table \in [Runways -> Row], NEW new \in Runways, NEW old,
           NEW x \in Runways
    PROVE  /\ HeadsPublishInsert(table, new)[x].artifact = table[x].artifact
           /\ HeadsPublishUpdate(table, old, new)[x].artifact = table[x].artifact
  BY PromotedFacts, SupersededFacts DEF HeadsPublishInsert, HeadsPublishUpdate

\* A step of a handler, by what it does to the tables of runways.
RowsQuiet(w) ==
    \/ Request(w) \/ Crash(w) \/ CreateReadHead(w) \/ PublishReadHead(w)
    \/ PublishReadValidation(w) \/ PublishInsertAttempt(w) \/ PublishIndex(w)
    \/ PublishHeadCasConflict(w) \/ PublishRecord(w) \/ CallFails(w)
    \/ FailAttempt(w) \/ InvalidateReadHead(w) \/ InvalidateAborts(w)

LEMMA QuietRows ==
    ASSUME NEW w \in Workers, RowsQuiet(w)
    PROVE  UNCHANGED <<rows, head, validations>>
  BY DEF RowsQuiet, Request, Crash, CreateReadKey, ValidateRead, PublishReadRow,
     InvalidateRead, CreateReadHead, PublishReadHead, PublishReadValidation,
     PublishInsertAttempt, PublishIndex, PublishHeadCasConflict, PublishRecord,
     CallFails, FailAttempt, InvalidateReadHead, InvalidateAborts, tables

LEMMA InvalidateCases ==
    ASSUME NEW w \in Workers, InvalidateWrite(w)
    PROVE  LET r == local[w].runway
               p == rows[r].predecessor IN
           \/ rows' = Invalidated(r)
           \/ /\ p # NoRunway
              /\ rows[p].publishedAt
              /\ rows' = HeadsPublishUpdate(Invalidated(r), r, p)
  BY DEF InvalidateWrite

-----------------------------------------------------------------------------
(* The quality gates.                                                      *)

\* The steps after the first gate and before the compare-and-swap.
Gated == {"publish_index", "publish_indexed", "publish_cas"}

\* What a request that is past a gate has left behind.
GateDuty(w) ==
    LET r == local[w].runway IN
    /\ ArtifactRequired /\ local[w].pc \in Gated => rows[r].artifact
    /\ local[w].pc = "publish_indexed" => r \in vectors
    /\ local[w].pc = "publish_cas" /\ IndexRequired => r \in vectors

GateInv == \A w \in Workers : GateDuty(w)

\* No step takes an artifact reference back.
LEMMA ArtifactsStay ==
    ASSUME IInv, NEW w \in Workers, Acts(w), NEW x \in Runways, rows[x].artifact
    PROVE  rows'[x].artifact
  <1> DEFINE r == local[w].runway
  <1>0. TypeOK /\ (~At(w, "idle") => r \in Runways)
    BY DEF IInv, LocalOK
  <1>1. CASE RowsQuiet(w)
    BY <1>1, QuietRows
  <1>2. ASSUME NEW s, rows' = [rows EXCEPT ![r].state = s], r \in Runways
        PROVE  rows'[x].artifact
    BY <1>0, <1>2, SetState
  <1>3. CASE ValidateWrite(w) \/ PublishSeal(w) \/ PublishSetIndexed(w) \/ FailRunway(w)
    BY <1>0, <1>2, <1>3 DEF ValidateWrite, PublishSeal, PublishSetIndexed,
         FailRunway, At
  <1>4. CASE CreateInsert(w)
    <2>1. CASE rows' = rows
      BY <2>1
    <2>2. ASSUME NEW y \in Runways, NEW h \in Head,
                 rows' = [rows EXCEPT ![y] = [@ EXCEPT
                            !.state = "candidate", !.predecessor = h.runway,
                            !.generation = h.generation + 1]]
          PROVE  rows'[x].artifact
      BY <1>0, <2>2 DEF TypeOK, Row
    <2> QED
      BY <1>4, <2>1, <2>2, CreateStep
  <1>5. CASE PublishArtifact(w)
    BY <1>0, <1>5 DEF PublishArtifact, At, TypeOK, Row
  <1>6. CASE PublishHeadCas(w)
    <2>1. r \in Runways
      BY <1>0, <1>6 DEF PublishHeadCas, At
    <2> QED
      BY <1>0, <1>6, <2>1, TriggersKeepArtifact DEF PublishHeadCas, TypeOK
  <1>7. CASE InvalidateWrite(w)
    <2>1. r \in Runways
      BY <1>0, <1>7 DEF InvalidateWrite, At
    <2>2. rows[r].predecessor \in RunwayRefs
      BY <1>0, <2>1 DEF TypeOK, Row
    <2>3. Invalidated(r)[x].artifact
      BY <1>0, <2>1, InvalidatedFacts
    <2> QED
      BY <1>0, <1>7, <2>1, <2>2, <2>3, InvalidateCases, InvalidatedFacts,
         TriggersKeepArtifact DEF RunwayRefs
  <1> QED
    BY <1>1, <1>3, <1>4, <1>5, <1>6, <1>7 DEF Acts, Proceed, RowsQuiet

LEMMA VectorsStay ==
    ASSUME NEW w \in Workers, Acts(w)
    PROVE  vectors \subseteq vectors'
  BY DEF Acts, Proceed, Request, Crash, CreateReadKey, ValidateRead,
     PublishReadRow, InvalidateRead, CreateReadHead, CreateInsert,
     ValidateWrite, PublishReadHead, PublishReadValidation,
     PublishInsertAttempt, PublishSeal, PublishArtifact, PublishIndex,
     PublishSetIndexed, PublishHeadCas, PublishHeadCasConflict, PublishRecord,
     CallFails, FailRunway, FailAttempt, InvalidateReadHead, InvalidateWrite,
     InvalidateAborts, tables

\* A step that passes no gate stays before them or leaves them.
LEMMA LeavesGates ==
    ASSUME TypeOK, NEW w \in Workers, Acts(w),
           ~PublishSeal(w), ~PublishArtifact(w), ~PublishIndex(w),
           ~PublishSetIndexed(w)
    PROVE  local'[w] = local[w] \/ local'[w].pc \notin Gated
  <1>1. CASE Return(w)
    BY <1>1, ReturnFacts, IdleFacts DEF Gated
  <1>2. ASSUME NEW f, Fail(w, f) PROVE local'[w].pc \notin Gated
    BY <1>2, FailFacts DEF Gated
  <1>3. ASSUME NEW s, s \notin Gated, Goto(w, s) PROVE local'[w].pc \notin Gated
    BY <1>3, GotoFacts
  <1>4. CASE Request(w)
    <2>1. PICK r \in Runways : \/ CreateReadKey(w, r) \/ ValidateRead(w, r)
                               \/ PublishReadRow(w, r) \/ InvalidateRead(w, r)
      BY <1>4 DEF Request
    <2>2. ASSUME NEW s \in {"create_head", "validate_write", "invalidate_head"},
                 Begin(w, r, s)
          PROVE  local'[w].pc \notin Gated
      BY <2>2, BeginFacts DEF Gated
    <2> QED
      BY <2>1, <2>2, PublishReadFacts
         DEF CreateReadKey, ValidateRead, InvalidateRead, Gated
  <1>5. CASE CreateReadHead(w) \/ InvalidateReadHead(w)
    BY <1>5, HeadFacts, IdleFacts DEF Gated
  <1>6. CASE \/ CreateInsert(w) \/ ValidateWrite(w) \/ PublishRecord(w)
             \/ FailAttempt(w) \/ InvalidateWrite(w) \/ InvalidateAborts(w)
             \/ Crash(w)
    BY <1>1, <1>6 DEF CreateInsert, ValidateWrite, PublishRecord, FailAttempt,
         InvalidateWrite, InvalidateAborts, Crash
  <1>7. CASE \/ PublishReadHead(w) \/ PublishReadValidation(w)
             \/ PublishInsertAttempt(w) \/ PublishHeadCas(w) \/ FailRunway(w)
    BY <1>1, <1>3, <1>7 DEF PublishReadHead, PublishReadValidation,
         PublishInsertAttempt, PublishHeadCas, FailRunway, Gated
  <1>8. CASE PublishHeadCasConflict(w) \/ CallFails(w)
    BY <1>2, <1>8 DEF PublishHeadCasConflict, ZeroChanges, CallFails
  <1> QED
    BY <1>4, <1>5, <1>6, <1>7, <1>8 DEF Acts, Proceed

LEMMA GateStep ==
    ASSUME IInv, GateInv, NEW w \in Workers, Acts(w)
    PROVE  GateInv'
  <1> DEFINE l == local[w]
             r == l.runway
  <1>0. TypeOK /\ vectors \subseteq vectors'
    BY VectorsStay DEF IInv
  <1>1. ASSUME NEW v \in Workers, local'[v] = local[v] PROVE GateDuty(v)'
    <2>1. local[v].pc \in Gated => local[v].runway \in Runways
      BY DEF IInv, LocalOK, At, Gated
    <2>2. local[v].pc \in Gated /\ rows[local[v].runway].artifact =>
            rows'[local[v].runway].artifact
      BY <2>1, ArtifactsStay
    <2> QED
      BY <1>0, <1>1, <2>2 DEF GateInv, GateDuty, Gated
  <1>2. ASSUME NEW s, Goto(w, s), At(w, "publish_seal") \/ At(w, "publish_artifact"),
               s = AfterArtifact, ArtifactRequired => rows'[r].artifact
        PROVE  GateDuty(w)'
    <2>1. local'[w].pc = s /\ local'[w].runway = r
      BY <1>0, <1>2, GotoFacts
    <2> QED
      BY <1>2, <2>1 DEF AfterArtifact, GateDuty, Gated
  <1>3. ASSUME PublishSeal(w) PROVE GateDuty(w)'
    <2>1. ASSUME NEW f, Fail(w, f) PROVE GateDuty(w)'
      BY <1>0, <2>1, FailFacts DEF GateDuty, Gated
    <2>2. CASE Goto(w, AfterSeal)
      <3>1. CASE ArtifactRequired
        BY <1>0, <2>2, <3>1, GotoFacts DEF AfterSeal, GateDuty, Gated
      <3>2. CASE ~ArtifactRequired
        BY <1>2, <1>3, <2>2, <3>2 DEF AfterSeal, PublishSeal
      <3> QED
        BY <3>1, <3>2
    <2> QED
      BY <1>3, <2>1, <2>2 DEF PublishSeal
  <1>4. ASSUME PublishArtifact(w) PROVE GateDuty(w)'
    <2>1. r \in Runways
      BY <1>4 DEF IInv, LocalOK, At, PublishArtifact
    <2>2. rows'[r].artifact
      BY <1>0, <1>4, <2>1 DEF PublishArtifact, TypeOK, Row
    <2> QED
      BY <1>2, <1>4, <2>2 DEF PublishArtifact
  <1>5. ASSUME PublishIndex(w) \/ PublishSetIndexed(w) PROVE GateDuty(w)'
    <2>1. /\ local'[w].pc \in {"publish_indexed", "publish_cas"}
          /\ local'[w].runway = r
      BY <1>0, <1>5, GotoFacts DEF PublishIndex, PublishSetIndexed
    <2>2. l.pc \in {"publish_index", "publish_indexed"} /\ r \in Runways
      BY <1>5 DEF IInv, LocalOK, At, PublishIndex, PublishSetIndexed
    <2>3. ArtifactRequired => rows'[r].artifact
      BY <2>2, ArtifactsStay DEF GateInv, GateDuty, Gated
    <2>4. r \in vectors'
      BY <1>0, <1>5, <2>2 DEF PublishIndex, PublishSetIndexed, At, GateInv, GateDuty, Gated
    <2> QED
      BY <2>1, <2>3, <2>4 DEF GateDuty, Gated
  <1>6. GateDuty(w)'
    <2>1. ASSUME local'[w] = l PROVE GateDuty(w)'
      BY <1>1, <2>1
    <2>2. ASSUME local'[w].pc \notin Gated PROVE GateDuty(w)'
      BY <2>2 DEF GateDuty, Gated
    <2> QED
      BY <1>0, <1>3, <1>4, <1>5, <2>1, <2>2, LeavesGates
  <1>7. \A v \in Workers \ {w} : local'[v] = local[v]
    BY <1>0, LocalFrame
  <1> QED
    BY <1>1, <1>6, <1>7 DEF GateInv

LEMMA GateInit == Init => GateInv
  BY IdleFacts DEF Init, GateInv, GateDuty, Gated

LEMMA GateInvStep == IInv /\ GateInv /\ [Next]_vars => GateInv'
  <1> SUFFICES ASSUME IInv, GateInv, [Next]_vars PROVE GateInv'
    OBVIOUS
  <1>1. CASE UNCHANGED vars
    BY <1>1 DEF vars, GateInv, GateDuty, Gated
  <1> QED
    BY <1>1, GateStep DEF Next, Acts

\* Only the compare-and-swap moves the head up; a restoration moves it down.
LEMMA AdvanceIsCas ==
    ASSUME IInv, NEW w \in Workers, Acts(w), Advances
    PROVE  PublishHeadCas(w)
  <1> DEFINE r == local[w].runway
             p == rows[r].predecessor
  <1>1. CASE InvalidateWrite(w)
    <2>1. /\ RestoresHead(r) /\ p # NoRunway
          /\ head' = RestoredHead(p) /\ r \in Runways
      BY <1>1, ConstantsAssumption DEF Advances, InvalidateWrite, NoHead, At, IInv, LocalOK
    <2>2. head # NoHead /\ rows[r].state # "absent" /\ head.runway = r
      BY <2>1, ConstantsAssumption DEF RestoresHead, NoHead
    <2>3. /\ rows[r].generation = head.generation
          /\ rows[r].generation = rows[p].generation + 1
      BY <2>1, <2>2 DEF IInv, LineageSound
    <2>4. p \in Runways /\ rows[p].generation \in Nat
      BY <2>1 DEF IInv, TypeOK, Row, RunwayRefs
    <2>5. head'.generation = rows[p].generation
      BY <2>1 DEF RestoredHead
    <2>6. head.generation < head'.generation
      BY <2>2 DEF Advances
    <2> QED
      BY <2>3, <2>4, <2>5, <2>6
  <1>2. CASE RowsQuiet(w)
    BY <1>2, QuietRows DEF Advances
  <1> QED
    BY <1>1, <1>2 DEF Advances, Acts, Proceed, RowsQuiet, CreateInsert,
         ValidateWrite, PublishSeal, PublishArtifact, PublishSetIndexed, FailRunway

\* However requests interleave, fail and stop, and whichever gates are on: the
\* head never advances to a runway whose artifact or vector is missing.
THEOREM GatesHold == Spec => QualityGates
  <1>1. IInv /\ GateInv /\ [Next]_vars =>
          [Advances => /\ ArtifactRequired => rows[head'.runway].artifact
                       /\ IndexRequired => head'.runway \in vectors]_vars
    <2>1. ASSUME IInv, GateInv, NEW w \in Workers, Acts(w), Advances
          PROVE  /\ ArtifactRequired => rows[head'.runway].artifact
                 /\ IndexRequired => head'.runway \in vectors
      <3>1. PublishHeadCas(w)
        BY <2>1, AdvanceIsCas
      <3>2. head'.runway = local[w].runway /\ local[w].pc = "publish_cas"
        BY <3>1 DEF PublishHeadCas, At
      <3> QED
        BY <2>1, <3>2 DEF GateInv, GateDuty, Gated
    <2> QED
      BY <2>1 DEF Next, Acts
  <1> QED
    BY <1>1, InitEstablishes, IInvStep, GateInit, GateInvStep, PTL
       DEF Spec, QualityGates

-----------------------------------------------------------------------------
(* The runways that were not overwritten.                                  *)

SealedBy(w, x) == local[w].runway = x /\ local[w].pc \in Sealing

\* A request between the seal and the compare-and-swap has its runway sealed
\* and is alone there.
SealedAlone ==
    \A w \in Workers : \A x \in Runways \ overwritten : SealedBy(w, x) =>
        /\ rows[x].state = "sealed"
        /\ \A v \in Workers \ {w} : ~SealedBy(v, x)

\* What is validated, sealed or history passed its latest validation, and
\* exactly the runways with a published_at are history.
Verdicts ==
    \A x \in Runways \ overwritten :
        /\ rows[x].state \in {"validated", "sealed"} \union History =>
              validations[x] = "passed"
        /\ rows[x].publishedAt <=> rows[x].state \in History

\* What a request read earlier and still relies on.
Reads ==
    \A w \in Workers :
        LET l == local[w] IN
        /\ l.pc \in {"invalidate_head", "invalidate_write"} =>
              l.runway \in overwritten \/ rows[l.runway].state \in History
        /\ l.pc = "create_insert" =>
              \/ l.head.runway \in overwritten \union {NoRunway}
              \/ rows[l.head.runway].state \in History

\* A runway the restore trigger may have fallen back to.
Uncovered(r) ==
    /\ rows[r].state = "invalidated"
    /\ \E x \in Runways : /\ rows[x].predecessor = r
                          /\ rows[x].state = "invalidated" \/ x \in overwritten

HeadSettled ==
    head # NoHead /\ head.runway \notin overwritten =>
        rows[head.runway].state = "published" \/ Uncovered(head.runway)

OrderInv ==
    /\ \A x \in overwritten : rows[x].state # "absent"
    /\ SealedAlone
    /\ Verdicts
    /\ Reads
    /\ HeadSettled

LEMMA OrderInit == Init => OrderInv
  <1> SUFFICES ASSUME Init PROVE OrderInv
    OBVIOUS
  <1>1. \A w \in Workers : local[w].pc = "idle"
    BY IdleFacts DEF Init
  <1>2. \A x \in Runways : rows[x].state = "absent" /\ ~rows[x].publishedAt
    BY DEF Init
  <1>3. SealedAlone /\ Reads
    BY <1>1 DEF SealedAlone, SealedBy, Sealing, Reads
  <1>4. Verdicts
    BY <1>2 DEF Verdicts, History
  <1> QED
    BY <1>3, <1>4 DEF Init, OrderInv, HeadSettled

LEMMA OverwrittenGrows ==
    ASSUME TypeOK, NEW w \in Workers, NoteOverwrites(w)
    PROVE  /\ overwritten \subseteq overwritten'
           /\ local[w].pc \notin Unguarded => overwritten' = overwritten
           /\ \A x \in overwritten' \ overwritten : x = local[w].runway
  BY DEF NoteOverwrites, Overwrites

\* A statement that spares its runway keeps the state, or found it outside
\* history with no request before the compare-and-swap.
LEMMA Spared ==
    ASSUME NEW w \in Workers, NoteOverwrites(w), local[w].pc \in Unguarded,
           NEW r \in Runways, r = local[w].runway, r \notin overwritten'
    PROVE  \/ rows'[r].state = rows[r].state
           \/ /\ rows[r].state \notin History
              /\ \A v \in Workers \ {w} : ~SealedBy(v, r)
  BY DEF NoteOverwrites, Overwrites, SealedBy

\* The row of a runway, its published_at and its verdict.
Same(x) ==
    /\ rows'[x].state = rows[x].state
    /\ rows'[x].publishedAt = rows[x].publishedAt
    /\ validations'[x] = validations[x]

\* A state outside history that no publication rests on is replaced.
Judged(x) ==
    /\ rows[x].state \notin History
    /\ rows'[x].state \notin History \union {"sealed"}
    /\ rows'[x].publishedAt = rows[x].publishedAt
    /\ rows'[x].state = "validated" => validations'[x] = "passed"
    /\ \A v \in Workers : ~SealedBy(v, x)

Moved(x, from, to) ==
    /\ rows[x].state = from
    /\ rows'[x].state = to
    /\ rows'[x].publishedAt = rows[x].publishedAt
    /\ validations'[x] = validations[x]

Advanced(w, x) ==
    /\ PublishHeadCas(w)
    /\ SealedBy(w, x)
    /\ rows[x].state = "sealed"
    /\ rows'[x].state = "published"
    /\ rows'[x].publishedAt
    /\ validations'[x] = validations[x]

\* What a step of w does to a runway that was not overwritten.
Move(w, x) ==
    \/ Same(x)
    \/ Judged(x)
    \/ Moved(x, "validated", "sealed")
    \/ Advanced(w, x)
    \/ PublishHeadCas(w) /\ Moved(x, "published", "superseded")
    \/ InvalidateWrite(w) /\ Moved(x, "superseded", "published")
    \/ InvalidateWrite(w) /\ \E s \in History : Moved(x, s, "invalidated")

\* Advancing the head publishes the sealed runway on top of the old one.
LEMMA CasFacts ==
    ASSUME IInv, OrderInv, NEW w \in Workers, PublishHeadCas(w)
    PROVE  LET r == local[w].runway IN
           /\ r \in Runways
           /\ r \notin overwritten => Advanced(w, r)
           /\ head' # NoHead /\ head'.runway = r
           /\ head = NoHead \/ head.runway = rows[r].predecessor
           /\ \A x \in Runways \ {r} : Same(x) \/ Moved(x, "published", "superseded")
  <1> DEFINE r == local[w].runway
  <1>1. r \in Runways /\ rows \in [Runways -> Row]
    BY DEF PublishHeadCas, At, IInv, LocalOK, TypeOK
  <1>2. SealedBy(w, r) /\ (r \notin overwritten => rows[r].state = "sealed")
    BY <1>1 DEF PublishHeadCas, At, OrderInv, SealedAlone, SealedBy, Sealing
  <1>3. PICK from \in {{"sealed", "indexing"}, {"sealed", "indexing", "superseded"}} :
          /\ rows'[r] = Promoted(rows[r], from)
          /\ \A x \in Runways \ {r} : rows'[x] \in {rows[x], Superseded(rows[x])}
    BY <1>1 DEF PublishHeadCas, HeadsPublishInsert, HeadsPublishUpdate
  <1>4. rows[r].state = "sealed" => rows'[r].state = "published" /\ rows'[r].publishedAt
    BY <1>1, <1>3, PromotedFacts
  <1>5. head' # NoHead /\ head'.runway = r
    BY <1>1, ConstantsAssumption DEF PublishHeadCas, NoHead
  <1>6. validations' = validations
    BY DEF PublishHeadCas
  <1>7. ASSUME NEW x \in Runways \ {r}
        PROVE  Same(x) \/ Moved(x, "published", "superseded")
    BY <1>1, <1>3, <1>6, SupersededFacts DEF Same, Moved
  <1>8. r \notin overwritten => Advanced(w, r)
    BY <1>2, <1>4, <1>6 DEF Advanced
  <1>9. head = NoHead \/ head.runway = rows[r].predecessor
    BY DEF PublishHeadCas, CasMatches
  <1> QED
    BY <1>1, <1>5, <1>7, <1>8, <1>9

\* What the restore trigger makes of a row that was published.
LEMMA RestoredRow ==
    ASSUME NEW row \in Row, row.publishedAt, row.state \in History
    PROVE  LET new == Promoted(row, {"sealed", "indexing", "superseded"}) IN
           /\ new.publishedAt
           /\ new.state \in {"published", "invalidated"}
           /\ \/ new.state = row.state
              \/ row.state = "superseded" /\ new.state = "published"
  BY PromotedFacts DEF History

\* An invalidation that restores a predecessor.
Restores(r, p) ==
    /\ RestoresHead(r)
    /\ p = rows[r].predecessor
    /\ p \in Runways
    /\ rows[p].publishedAt
    /\ head'.runway = p

\* Invalidating the head falls back to its predecessor; invalidating another
\* runway touches nothing else.
LEMMA InvalidateFacts ==
    ASSUME IInv, OrderInv, NEW w \in Workers, InvalidateWrite(w)
    PROVE  LET r == local[w].runway
               p == rows[r].predecessor IN
           /\ r \in Runways
           /\ p # r
           /\ rows'[r].state = "invalidated"
           /\ rows'[r].publishedAt = rows[r].publishedAt
           /\ validations' = validations
           /\ r \notin overwritten => rows[r].state \in History
           /\ \/ /\ ~RestoresHead(r) /\ head' = head
                 /\ \A x \in Runways \ {r} : rows'[x] = rows[x]
              \/ /\ RestoresHead(r) /\ p = NoRunway /\ head' = NoHead
                 /\ \A x \in Runways \ {r} : rows'[x] = rows[x]
              \/ /\ Restores(r, p)
                 /\ rows'[p] = Promoted(rows[p], {"sealed", "indexing", "superseded"})
                 /\ \A x \in Runways \ {r, p} : rows'[x] = rows[x]
  <1> DEFINE r == local[w].runway
             p == rows[r].predecessor
             t == Invalidated(r)
  <1>1. r \in Runways /\ rows \in [Runways -> Row] /\ TypeOK
    BY DEF InvalidateWrite, At, IInv, LocalOK, TypeOK
  <1>2. rows[r].state # "absent"
    BY DEF InvalidateWrite, At, IInv, LocalOK
  <1>3. r \notin overwritten => rows[r].state \in History
    BY DEF InvalidateWrite, At, OrderInv, Reads
  <1>4. p \in RunwayRefs
    BY <1>1 DEF Row
  <1>5. p # r
    <2>1. PICK q : q = p
      OBVIOUS
    <2>2. q \in Runways => /\ rows[r].generation = rows[q].generation + 1
                           /\ rows[q].generation \in Nat
      BY <1>1, <1>2, <2>1, ConstantsAssumption DEF IInv, LineageSound, Row
    <2> QED
      BY <1>1, <2>1, <2>2
  <1>6. /\ t[r].state = "invalidated"
        /\ t[r].publishedAt = rows[r].publishedAt
        /\ \A x \in Runways \ {r} : t[x] = rows[x]
        /\ t \in [Runways -> Row]
    BY <1>1, InvalidatedFacts
  <1>7. validations' = validations
    BY DEF InvalidateWrite
  <1>8. CASE ~RestoresHead(r)
    <2>1. rows' = t /\ head' = head
      BY <1>8 DEF InvalidateWrite
    <2> QED
      BY <1>1, <1>3, <1>5, <1>6, <1>7, <1>8, <2>1
  <1>9. CASE RestoresHead(r) /\ p = NoRunway
    <2>1. rows' = t /\ head' = NoHead
      BY <1>9 DEF InvalidateWrite
    <2> QED
      BY <1>1, <1>3, <1>5, <1>6, <1>7, <1>9, <2>1
  <1>10. CASE RestoresHead(r) /\ p # NoRunway
    <2> DEFINE from == {"sealed", "indexing", "superseded"}
    <2>1. /\ rows' = HeadsPublishUpdate(t, r, p) /\ rows[p].publishedAt
          /\ head' = RestoredHead(p)
      BY <1>10 DEF InvalidateWrite
    <2>2. p \in Runways /\ head'.runway = p
      BY <1>4, <1>10, <2>1 DEF RunwayRefs, RestoredHead
    <2>3. /\ rows'[p] = Promoted(t[p], from)
          /\ \A x \in Runways \ {p, r} : rows'[x] = t[x]
          /\ rows'[r] = Superseded(t[r])
      BY <1>1, <1>5, <2>1, <2>2 DEF HeadsPublishUpdate
    <2>4. rows'[r] = t[r]
      BY <1>1, <1>6, <2>3, SupersededFacts
    <2>5. t[p] = rows[p]
      BY <1>5, <1>6, <2>2
    <2>6. Restores(r, p)
      BY <1>10, <2>1, <2>2 DEF Restores
    <2>7. \A x \in Runways \ {r, p} : rows'[x] = rows[x]
      BY <1>6, <2>3
    <2> QED
      BY <1>1, <1>3, <1>5, <1>6, <1>7, <2>3, <2>4, <2>5, <2>6, <2>7
  <1> QED
    BY <1>8, <1>9, <1>10

LEMMA InvalidateMoves ==
    ASSUME IInv, OrderInv, NEW w \in Workers, InvalidateWrite(w),
           NEW x \in Runways \ overwritten
    PROVE  \/ Same(x) \/ Moved(x, "superseded", "published")
           \/ \E s \in History : Moved(x, s, "invalidated")
  <1> DEFINE r == local[w].runway
             p == rows[r].predecessor
  <1>1. CASE x = r
    BY <1>1, InvalidateFacts DEF Moved
  <1>2. CASE x # r /\ rows'[x] = rows[x]
    BY <1>2, InvalidateFacts DEF Same
  <1>3. CASE /\ x = p /\ rows[x].publishedAt
             /\ rows'[x] = Promoted(rows[x], {"sealed", "indexing", "superseded"})
    <2>1. PICK old \in Row : old = rows[x]
      BY DEF IInv, TypeOK
    <2>2. PICK new : new = rows'[x]
      OBVIOUS
    <2>3. old.publishedAt /\ old.state \in History
      BY <1>3, <2>1 DEF OrderInv, Verdicts
    <2>4. new = Promoted(old, {"sealed", "indexing", "superseded"})
      BY <1>3, <2>1, <2>2
    <2>5. /\ new.publishedAt
          /\ \/ new.state = old.state
             \/ old.state = "superseded" /\ new.state = "published"
      BY <2>3, <2>4, RestoredRow
    <2>6. old.publishedAt = TRUE /\ new.publishedAt = TRUE
      BY <2>1, <2>3, <2>4, <2>5, PromotedFacts DEF Row
    <2> QED
      BY <2>1, <2>2, <2>5, <2>6, InvalidateFacts DEF Same, Moved
  <1> QED
    BY <1>1, <1>2, <1>3, InvalidateFacts DEF Restores

\* A statement that sets the state of its runway and writes no other column.
LEMMA SetMoves ==
    ASSUME IInv, OrderInv, NEW w \in Workers, NoteOverwrites(w),
           local[w].pc \in Unguarded,
           NEW r \in Runways, r = local[w].runway,
           NEW s, s \notin History \union {"sealed"},
           rows' = [rows EXCEPT ![r].state = s],
           s = "validated" => validations'[r] = "passed",
           local[w].pc \notin Sealing,
           \A x \in Runways \ {r} : validations'[x] = validations[x],
           NEW x \in Runways \ overwritten'
    PROVE  Same(x) \/ Judged(x)
  <1>0. TypeOK
    BY DEF IInv
  <1>1. CASE x # r
    BY <1>0, <1>1, SetState DEF Same
  <1>2. CASE x = r
    <2>1. rows'[r].state = s /\ rows'[r].publishedAt = rows[r].publishedAt
      BY <1>0 DEF TypeOK, Row
    <2>2. x \notin overwritten
      BY <1>0, OverwrittenGrows
    <2>3. ~SealedBy(w, x)
      BY DEF SealedBy
    <2>4. CASE rows'[r].state = rows[r].state
      <3>1. \A v \in Workers : ~SealedBy(v, x)
        BY <1>2, <2>1, <2>2, <2>4 DEF OrderInv, SealedAlone
      <3> QED
        BY <1>2, <2>1, <2>4, <3>1 DEF Judged
    <2>5. CASE rows'[r].state # rows[r].state
      <3>1. /\ rows[r].state \notin History
            /\ \A v \in Workers \ {w} : ~SealedBy(v, r)
        BY <1>2, <2>5, Spared
      <3> QED
        BY <1>2, <2>1, <2>3, <3>1 DEF Judged
    <2> QED
      BY <2>4, <2>5
  <1> QED
    BY <1>1, <1>2

LEMMA RowMoves ==
    ASSUME IInv, OrderInv, NEW w \in Workers, Acts(w), NoteOverwrites(w),
           NEW x \in Runways \ overwritten'
    PROVE  Move(w, x)
  <1> DEFINE r == local[w].runway
  <1>0. /\ TypeOK /\ rows \in [Runways -> Row]
        /\ validations \in [Runways -> Statuses \union {"none"}]
        /\ ~At(w, "idle") => r \in Runways
    BY DEF IInv, LocalOK, TypeOK
  <1>a. x \in Runways \ overwritten
    BY <1>0, OverwrittenGrows
  <1>1. CASE RowsQuiet(w)
    BY <1>1, QuietRows DEF Move, Same
  <1>2. CASE CreateInsert(w)
    <2>1. r \in Runways /\ validations' = validations
      BY <1>0, <1>2 DEF CreateInsert, At
    <2>2. CASE rows' = rows
      BY <2>1, <2>2 DEF Move, Same
    <2>3. CASE rows' # rows
      <3>1. rows[r].state = "absent"
        BY <1>2, <2>3 DEF CreateInsert
      <3>2. PICK old \in Row : old = rows[r]
        BY <1>0, <2>1
      <3>3. PICK new : new = [old EXCEPT
                        !.state = "candidate",
                        !.predecessor = local[w].head.runway,
                        !.generation = local[w].head.generation + 1]
        OBVIOUS
      <3>4. new.state = "candidate" /\ new.publishedAt = rows[r].publishedAt
        BY <3>2, <3>3 DEF Row
      <3>5. rows' = [rows EXCEPT ![r] = new]
        BY <1>2, <3>1, <3>2, <3>3 DEF CreateInsert
      <3>6. rows'[r] = new /\ \A y \in Runways \ {r} : rows'[y] = rows[y]
        BY <1>0, <2>1, <3>5
      <3>7. CASE x # r
        BY <2>1, <3>6, <3>7 DEF Move, Same
      <3>8. CASE x = r
        <4>1. \A v \in Workers : ~SealedBy(v, x)
          BY <1>a, <3>1, <3>8 DEF OrderInv, SealedAlone
        <4> QED
          BY <3>1, <3>4, <3>6, <3>8, <4>1 DEF Move, Judged, History
      <3> QED
        BY <3>7, <3>8
    <2> QED
      BY <2>2, <2>3
  <1>3. CASE ValidateWrite(w)
    <2>1. /\ r \in Runways /\ local[w].pc \in Unguarded
          /\ local[w].pc \notin Sealing
      BY <1>0, <1>3 DEF ValidateWrite, At, Unguarded, Sealing
    <2>2. PICK status \in Statuses :
            /\ validations' = [validations EXCEPT ![r] = status]
            /\ rows' = [rows EXCEPT ![r].state = StateAfter[status]]
      BY <1>3, ConstantsAssumption DEF ValidateWrite
    <2>3. /\ StateAfter[status] \notin History \union {"sealed"}
          /\ StateAfter[status] = "validated" => status = "passed"
      BY DEF StateAfter, Statuses, History
    <2>4. /\ \A y \in Runways \ {r} : validations'[y] = validations[y]
          /\ validations'[r] = status
      BY <1>0, <2>1, <2>2
    <2> QED
      BY <2>1, <2>2, <2>3, <2>4, SetMoves DEF Move
  <1>4. CASE FailRunway(w)
    <2>1. /\ r \in Runways /\ local[w].pc \in Unguarded
          /\ local[w].pc \notin Sealing /\ UNCHANGED validations
      BY <1>0, <1>4 DEF FailRunway, At, Unguarded, Sealing
    <2>2. CASE rows' = rows
      BY <2>1, <2>2 DEF Move, Same
    <2>3. CASE rows' = [rows EXCEPT ![r].state = "publication_failed"]
      <3>1. "publication_failed" \notin History \union {"sealed", "validated"}
        BY DEF History
      <3>2. Same(x) \/ Judged(x)
        BY <2>1, <2>3, <3>1, SetMoves
      <3> QED
        BY <3>2 DEF Move
    <2> QED
      BY <1>4, <2>2, <2>3 DEF FailRunway
  <1>5. CASE PublishSetIndexed(w)
    <2>1. r \in Runways /\ UNCHANGED validations /\ SealedBy(w, r)
      BY <1>0, <1>5 DEF PublishSetIndexed, At, SealedBy, Sealing
    <2>2. rows' = [rows EXCEPT ![r].state = "sealed"]
      BY <1>5 DEF PublishSetIndexed
    <2>3. x = r => rows[r].state = "sealed"
      BY <1>a, <2>1 DEF OrderInv, SealedAlone
    <2> QED
      BY <1>0, <2>1, <2>2, <2>3, SetState DEF Move, Same
  <1>6. CASE PublishSeal(w)
    <2>1. r \in Runways /\ UNCHANGED validations
      BY <1>0, <1>6 DEF PublishSeal, At
    <2>2. CASE rows' = rows
      BY <2>1, <2>2 DEF Move, Same
    <2>3. CASE /\ rows[r].state = "validated"
               /\ rows' = [rows EXCEPT ![r].state = "sealed"]
      BY <1>0, <2>1, <2>3, SetState DEF Move, Same, Moved
    <2> QED
      BY <1>6, <2>2, <2>3 DEF PublishSeal
  <1>7. CASE PublishArtifact(w)
    <2>1. Same(x)
      BY <1>0, <1>7 DEF PublishArtifact, Row, Same
    <2> QED
      BY <2>1 DEF Move
  <1>8. CASE PublishHeadCas(w)
    BY <1>8, <1>a, CasFacts DEF Move
  <1>9. CASE InvalidateWrite(w)
    BY <1>9, <1>a, InvalidateMoves DEF Move
  <1> QED
    BY <1>1, <1>2, <1>3, <1>4, <1>5, <1>6, <1>7, <1>8, <1>9
       DEF Acts, Proceed, RowsQuiet

\* History is never left, and its withdrawn part only grows.
LEMMA HistoryLasts ==
    ASSUME IInv, OrderInv, NEW w \in Workers, Acts(w), NoteOverwrites(w),
           NEW x \in Runways \ overwritten'
    PROVE  /\ rows[x].state \in History => rows'[x].state \in History
           /\ rows[x].state = "invalidated" => rows'[x].state = "invalidated"
  BY RowMoves DEF Move, Same, Judged, Moved, Advanced, History

LEMMA VerdictsStep ==
    ASSUME IInv, OrderInv, NEW w \in Workers, Acts(w), NoteOverwrites(w)
    PROVE  Verdicts'
  <1> SUFFICES ASSUME NEW x \in Runways \ overwritten'
               PROVE  /\ rows'[x].state \in {"validated", "sealed"} \union History =>
                            validations'[x] = "passed"
                      /\ rows'[x].publishedAt <=> rows'[x].state \in History
    BY DEF Verdicts
  <1>1. x \in Runways \ overwritten
    BY OverwrittenGrows DEF IInv
  <1>2. /\ rows[x].state \in {"validated", "sealed"} \union History =>
              validations[x] = "passed"
        /\ rows[x].publishedAt <=> rows[x].state \in History
    BY <1>1 DEF OrderInv, Verdicts
  <1>3. Move(w, x)
    BY RowMoves
  <1>4. CASE Same(x)
    BY <1>2, <1>4 DEF Same
  <1>5. CASE Judged(x)
    BY <1>2, <1>5 DEF Judged, History
  <1>6. ASSUME NEW from, NEW to, Moved(x, from, to),
               from \in {"validated"} \union History,
               to \in {"sealed"} \union History,
               from \in History <=> to \in History
        PROVE  /\ rows'[x].state \in {"validated", "sealed"} \union History =>
                     validations'[x] = "passed"
               /\ rows'[x].publishedAt <=> rows'[x].state \in History
    BY <1>2, <1>6 DEF Moved
  <1>7. CASE Advanced(w, x)
    BY <1>2, <1>7 DEF Advanced, History
  <1> QED
    BY <1>3, <1>4, <1>5, <1>6, <1>7 DEF Move, History

\* A request gets between the seal and the compare-and-swap by sealing, and
\* stays with its runway there.
LEMMA EntersSealing ==
    ASSUME TypeOK, NEW w \in Workers, Acts(w), NEW x \in Runways, SealedBy(w, x)'
    PROVE  /\ x = local[w].runway
           /\ \/ SealedBy(w, x) /\ ~PublishHeadCas(w)
              \/ rows[x].state = "validated" /\ rows'[x].state = "sealed"
  <1>0. local'[w].pc \in Sealing /\ local'[w].runway = x
    BY DEF SealedBy
  <1>1. CASE local'[w] = local[w]
    BY <1>0, <1>1, GotoFacts DEF SealedBy, PublishHeadCas, Sealing
  <1>2. ~Return(w)
    BY <1>0, ReturnFacts, IdleFacts DEF Sealing
  <1>3. \A f : ~Fail(w, f)
    BY <1>0, FailFacts DEF Sealing
  <1>4. \A s : s \notin Sealing => ~Goto(w, s)
    BY <1>0, GotoFacts
  <1>5. CASE Request(w)
    <2>1. PICK r \in Runways : \/ CreateReadKey(w, r) \/ ValidateRead(w, r)
                               \/ PublishReadRow(w, r) \/ InvalidateRead(w, r)
      BY <1>5 DEF Request
    <2>2. \A s \in {"create_head", "validate_write", "invalidate_head"} :
            ~Begin(w, r, s)
      BY <1>0, BeginFacts DEF Sealing
    <2>3. ~PublishReadRow(w, r)
      BY <1>0, PublishReadFacts DEF Sealing
    <2> QED
      BY <1>1, <2>1, <2>2, <2>3 DEF CreateReadKey, ValidateRead, InvalidateRead
  <1>6. CASE CreateReadHead(w) \/ InvalidateReadHead(w)
    BY <1>0, <1>6, HeadFacts, IdleFacts DEF Sealing
  <1>7. CASE PublishSeal(w)
    <2>1. /\ Goto(w, AfterSeal) /\ rows[local[w].runway].state = "validated"
          /\ rows' = [rows EXCEPT ![local[w].runway].state = "sealed"]
      BY <1>3, <1>7 DEF PublishSeal
    <2>2. x = local[w].runway
      BY <1>0, <2>1, GotoFacts
    <2> QED
      BY <2>1, <2>2, SetState
  <1>8. CASE PublishArtifact(w) \/ PublishIndex(w) \/ PublishSetIndexed(w)
    <2>1. local[w].pc \in Sealing /\ ~PublishHeadCas(w)
      BY <1>8 DEF PublishArtifact, PublishIndex, PublishSetIndexed,
         PublishHeadCas, At, Sealing
    <2>2. local'[w].runway = local[w].runway
      BY <1>8, GotoFacts DEF PublishArtifact, PublishIndex, PublishSetIndexed
    <2> QED
      BY <1>0, <2>1, <2>2 DEF SealedBy
  <1>9. CASE \/ PublishReadHead(w) \/ PublishReadValidation(w)
             \/ PublishInsertAttempt(w) \/ PublishHeadCas(w) \/ FailRunway(w)
    BY <1>2, <1>4, <1>9 DEF PublishReadHead, PublishReadValidation,
       PublishInsertAttempt, PublishHeadCas, FailRunway, Sealing
  <1>10. CASE \/ CreateInsert(w) \/ ValidateWrite(w) \/ PublishRecord(w)
              \/ FailAttempt(w) \/ InvalidateWrite(w) \/ InvalidateAborts(w)
              \/ Crash(w)
    BY <1>2, <1>10 DEF CreateInsert, ValidateWrite, PublishRecord, FailAttempt,
       InvalidateWrite, InvalidateAborts, Crash
  <1>11. CASE PublishHeadCasConflict(w) \/ CallFails(w)
    BY <1>3, <1>11 DEF PublishHeadCasConflict, ZeroChanges, CallFails
  <1> QED
    BY <1>5, <1>6, <1>7, <1>8, <1>9, <1>10, <1>11 DEF Acts, Proceed

LEMMA SealedStep ==
    ASSUME IInv, OrderInv, NEW w \in Workers, Acts(w), NoteOverwrites(w)
    PROVE  SealedAlone'
  <1> SUFFICES ASSUME NEW u \in Workers, NEW x \in Runways \ overwritten',
                      SealedBy(u, x)'
               PROVE  /\ rows'[x].state = "sealed"
                      /\ \A v \in Workers \ {u} : ~SealedBy(v, x)'
    BY DEF SealedAlone
  <1>1. \A v \in Workers \ {w} : SealedBy(v, x)' <=> SealedBy(v, x)
    BY LocalFrame DEF SealedBy, IInv
  <1>2. x \in Runways \ overwritten
    BY OverwrittenGrows DEF IInv
  <1>3. \A v \in Workers : SealedBy(v, x) =>
          /\ rows[x].state = "sealed"
          /\ \A y \in Workers \ {v} : ~SealedBy(y, x)
    BY <1>2 DEF OrderInv, SealedAlone
  <1>4. Move(w, x)
    BY RowMoves
  <1>5. SealedBy(w, x)' =>
          \/ SealedBy(w, x) /\ ~PublishHeadCas(w)
          \/ rows[x].state = "validated" /\ rows'[x].state = "sealed"
    BY EntersSealing DEF IInv
  <1>6. \/ SealedBy(u, x)
        \/ u = w /\ rows[x].state = "validated" /\ rows'[x].state = "sealed"
    BY <1>1, <1>5
  <1>7. CASE SealedBy(u, x)
    <2>1. /\ rows[x].state = "sealed"
          /\ \A v \in Workers \ {u} : ~SealedBy(v, x)
      BY <1>3, <1>7
    <2>2. \A v \in Workers \ {u} : ~SealedBy(v, x)'
      BY <1>1, <1>5, <2>1
    <2>3. Same(x) \/ Advanced(w, x)
      BY <1>4, <1>7, <2>1 DEF Move, Judged, Moved, History
    <2>4. ~Advanced(w, x)
      BY <1>5, <1>7, <2>1 DEF Advanced
    <2> QED
      BY <2>1, <2>2, <2>3, <2>4 DEF Same
  <1>8. CASE u = w /\ rows[x].state = "validated" /\ rows'[x].state = "sealed"
    BY <1>1, <1>3, <1>8
  <1> QED
    BY <1>6, <1>7, <1>8

\* Who starts or goes on with an invalidation works on a runway of history.
LEMMA EntersInvalidation ==
    ASSUME IInv, OrderInv, NEW w \in Workers, Acts(w), local'[w] # local[w],
           local'[w].pc \in {"invalidate_head", "invalidate_write"}
    PROVE  LET x == local'[w].runway IN
           /\ x \in Runways
           /\ x \in overwritten \/ rows[x].state \in History
  <1> DEFINE steps == {"invalidate_head", "invalidate_write"}
  <1>0. TypeOK
    BY DEF IInv
  <1>1. CASE Request(w)
    <2>1. PICK r \in Runways : \/ CreateReadKey(w, r) \/ ValidateRead(w, r)
                               \/ PublishReadRow(w, r) \/ InvalidateRead(w, r)
      BY <1>1 DEF Request
    <2>2. \A s \in {"create_head", "validate_write"} : ~Begin(w, r, s)
      BY <1>0, BeginFacts
    <2>3. ~PublishReadRow(w, r)
      BY <1>0, PublishReadFacts
    <2>4. Begin(w, r, "invalidate_head") /\ rows[r].state \in {"published", "superseded"}
      BY <2>1, <2>2, <2>3 DEF CreateReadKey, ValidateRead, InvalidateRead
    <2>5. local'[w].runway = r
      BY <1>0, <2>4, BeginFacts
    <2> QED
      BY <2>4, <2>5 DEF History
  <1>2. CASE CreateReadHead(w) \/ InvalidateReadHead(w)
    <2>1. InvalidateReadHead(w) /\ local'[w].runway = local[w].runway
      BY <1>0, <1>2, HeadFacts, IdleFacts
    <2>2. local[w].pc = "invalidate_head"
      BY <2>1 DEF InvalidateReadHead, At
    <2> QED
      BY <2>1, <2>2 DEF IInv, LocalOK, At, OrderInv, Reads
  <1>3. CASE ~Request(w) /\ ~CreateReadHead(w) /\ ~InvalidateReadHead(w)
    <2>1. Return(w) \/ (\E s \in Steps \ steps : Goto(w, s)) \/ (\E f : Fail(w, f))
      BY <1>3 DEF Acts, Proceed, Crash, CreateInsert, ValidateWrite, PublishReadHead,
         PublishReadValidation, PublishInsertAttempt, PublishSeal, AfterSeal,
         AfterArtifact, PublishArtifact, PublishIndex, PublishSetIndexed,
         PublishHeadCas, PublishHeadCasConflict, ZeroChanges, PublishRecord,
         CallFails, FailRunway, FailAttempt, InvalidateWrite, InvalidateAborts,
         Steps, TryBlock
    <2> QED
      BY <1>0, <2>1, ReturnFacts, IdleFacts, GotoFacts, FailFacts
  <1> QED
    BY <1>1, <1>2, <1>3

\* A candidate is about to be inserted over the head its request just read.
LEMMA EntersInsertion ==
    ASSUME TypeOK, NEW w \in Workers, Acts(w), local'[w] # local[w],
           local'[w].pc = "create_insert"
    PROVE  local'[w].head = head
  <1>1. CASE Request(w)
    <2>1. PICK r \in Runways : \/ CreateReadKey(w, r) \/ ValidateRead(w, r)
                               \/ PublishReadRow(w, r) \/ InvalidateRead(w, r)
      BY <1>1 DEF Request
    <2>2. \A s \in {"create_head", "validate_write", "invalidate_head"} :
            ~Begin(w, r, s)
      BY BeginFacts
    <2>3. ~PublishReadRow(w, r)
      BY PublishReadFacts
    <2> QED
      BY <2>1, <2>2, <2>3 DEF CreateReadKey, ValidateRead, InvalidateRead
  <1>2. CASE CreateReadHead(w) \/ InvalidateReadHead(w)
    BY <1>2, HeadFacts, IdleFacts
  <1>3. CASE ~Request(w) /\ ~CreateReadHead(w) /\ ~InvalidateReadHead(w)
    <2>1. Return(w) \/ (\E s \in Steps \ {"create_insert"} : Goto(w, s))
            \/ (\E f : Fail(w, f))
      BY <1>3 DEF Acts, Proceed, Crash, CreateInsert, ValidateWrite, PublishReadHead,
         PublishReadValidation, PublishInsertAttempt, PublishSeal, AfterSeal,
         AfterArtifact, PublishArtifact, PublishIndex, PublishSetIndexed,
         PublishHeadCas, PublishHeadCasConflict, ZeroChanges, PublishRecord,
         CallFails, FailRunway, FailAttempt, InvalidateWrite, InvalidateAborts,
         Steps, TryBlock
    <2> QED
      BY <2>1, ReturnFacts, IdleFacts, GotoFacts, FailFacts
  <1> QED
    BY <1>1, <1>2, <1>3

LEMMA CreatedStays ==
    ASSUME IInv, NEW w \in Workers, Acts(w), NEW x \in Runways,
           rows[x].state # "absent"
    PROVE  /\ rows'[x].state # "absent"
           /\ rows'[x].predecessor = rows[x].predecessor
  <1>1. CASE ~CreateInsert(w)
    BY <1>1, RowStep DEF KeepsLineage
  <1>2. CASE CreateInsert(w)
    BY <1>2, CreateStep DEF IInv, TypeOK
  <1> QED
    BY <1>1, <1>2

LEMMA OverwrittenCreated ==
    ASSUME IInv, OrderInv, NEW w \in Workers, Acts(w), NoteOverwrites(w)
    PROVE  \A x \in overwritten' : x \in Runways /\ rows'[x].state # "absent"
  <1> SUFFICES ASSUME NEW x \in overwritten'
               PROVE  x \in Runways /\ rows'[x].state # "absent"
    OBVIOUS
  <1>1. x \in overwritten \/ (x = local[w].runway /\ local[w].pc \in Unguarded)
    BY DEF NoteOverwrites, Overwrites
  <1>2. x \in Runways /\ rows[x].state # "absent"
    BY <1>1 DEF IInv, TypeOK, LocalOK, At, Unguarded, OrderInv
  <1> QED
    BY <1>2, CreatedStays

LEMMA ReadsStep ==
    ASSUME IInv, OrderInv, NEW w \in Workers, Acts(w), NoteOverwrites(w)
    PROVE  Reads'
  <1> DEFINE Covered(x) == x \in overwritten \/ rows[x].state \in History
  <1>0. TypeOK
    BY DEF IInv
  <1>1. ASSUME NEW x \in Runways, Covered(x) PROVE Covered(x)'
    BY <1>0, <1>1, HistoryLasts, OverwrittenGrows
  <1>2. ASSUME NEW v \in Workers,
               local'[v].pc \in {"invalidate_head", "invalidate_write"}
        PROVE  Covered(local[v].runway)'
    <2>1. CASE local'[v] = local[v]
      <3>1. local[v].runway \in Runways /\ Covered(local[v].runway)
        BY <1>2, <2>1 DEF IInv, LocalOK, At, OrderInv, Reads
      <3>2. PICK x \in Runways : x = local[v].runway
        BY <3>1
      <3>3. local'[v].runway = x
        BY <2>1, <3>2
      <3> QED
        BY <1>1, <3>1, <3>2, <3>3
    <2>2. CASE local'[v] # local[v]
      <3>1. v = w
        BY <1>0, <2>2, LocalFrame
      <3>2. PICK x : x = local'[w].runway
        OBVIOUS
      <3>3. x \in Runways /\ Covered(x)
        BY <1>2, <2>2, <3>1, <3>2, EntersInvalidation
      <3> QED
        BY <1>1, <3>1, <3>2, <3>3
    <2> QED
      BY <2>1, <2>2
  <1>3. ASSUME NEW v \in Workers, local'[v].pc = "create_insert"
        PROVE  \/ local'[v].head.runway = NoRunway
               \/ Covered(local[v].head.runway)'
    <2>1. PICK x : x = local'[v].head.runway
      OBVIOUS
    <2>2. CASE local'[v] = local[v]
      <3>1. x \in RunwayRefs /\ (x = NoRunway \/ Covered(x))
        BY <1>0, <1>3, <2>1, <2>2 DEF OrderInv, Reads, TypeOK, Local, Head
      <3> QED
        BY <1>1, <2>1, <3>1 DEF RunwayRefs
    <2>3. CASE local'[v] # local[v]
      <3>1. v = w
        BY <1>0, <2>3, LocalFrame
      <3>2. x = head.runway
        BY <1>0, <1>3, <2>1, <2>3, <3>1, EntersInsertion
      <3>3. x = NoRunway \/ (x \in Runways /\ Covered(x))
        BY <3>2 DEF OrderInv, HeadSettled, Uncovered, History, IInv, Snapshot, NoHead
      <3> QED
        BY <1>1, <2>1, <3>3
    <2> QED
      BY <2>2, <2>3
  <1> QED
    BY <1>2, <1>3 DEF Reads

LEMMA UncoveredStays ==
    ASSUME IInv, OrderInv, NEW w \in Workers, Acts(w), NoteOverwrites(w),
           NEW r \in Runways \ overwritten', Uncovered(r)
    PROVE  Uncovered(r)'
  <1>1. rows'[r].state = "invalidated"
    BY HistoryLasts DEF Uncovered
  <1>2. PICK x \in Runways : /\ rows[x].predecessor = r
                             /\ rows[x].state = "invalidated" \/ x \in overwritten
    BY DEF Uncovered
  <1>3. rows[x].state # "absent"
    BY <1>2 DEF OrderInv
  <1>4. rows'[x].predecessor = r
    BY <1>2, <1>3, CreatedStays
  <1>5. x \in overwritten' \/ rows'[x].state = "invalidated"
    BY <1>2, HistoryLasts, OverwrittenGrows DEF IInv
  <1> QED
    BY <1>1, <1>4, <1>5 DEF Uncovered

LEMMA HeadSettledStep ==
    ASSUME IInv, OrderInv, NEW w \in Workers, Acts(w), NoteOverwrites(w)
    PROVE  HeadSettled'
  <1> SUFFICES ASSUME head' # NoHead, head'.runway \notin overwritten'
               PROVE  rows'[head'.runway].state = "published" \/ Uncovered(head.runway)'
    BY DEF HeadSettled
  <1>1. PICK q : q = head'.runway
    OBVIOUS
  <1> SUFFICES rows'[q].state = "published" \/ Uncovered(q)'
    BY <1>1 DEF Uncovered
  <1>2. q \notin overwritten' /\ q \notin overwritten
    BY <1>1, OverwrittenGrows DEF IInv
  <1>3. head' = head => /\ q \in Runways
                        /\ rows[q].state = "published" \/ Uncovered(q)
    BY <1>1, <1>2 DEF OrderInv, HeadSettled, IInv, Snapshot
  <1>4. ASSUME head' = head, Uncovered(q) PROVE Uncovered(q)'
    BY <1>2, <1>3, <1>4, UncoveredStays
  <1>5. CASE PublishHeadCas(w)
    BY <1>1, <1>2, <1>5, CasFacts DEF Advanced
  <1>6. CASE InvalidateWrite(w)
    <2> DEFINE r == local[w].runway
               p == rows[r].predecessor
    <2>1. /\ r \in Runways /\ p # r /\ rows'[r].state = "invalidated"
          /\ r \notin overwritten => rows[r].state \in History
      BY <1>6, InvalidateFacts
    <2>2. CASE /\ ~RestoresHead(r) /\ head' = head
               /\ \A x \in Runways \ {r} : rows'[x] = rows[x]
      <3>1. q = r => Uncovered(q)
        BY <1>1, <1>3, <2>2 DEF RestoresHead
      <3> QED
        BY <1>3, <1>4, <2>2, <3>1
    <2>3. CASE /\ Restores(r, p)
               /\ rows'[p] = Promoted(rows[p], {"sealed", "indexing", "superseded"})
      <3>1. q = p /\ q \in Runways /\ rows[q].publishedAt
        BY <1>1, <2>3 DEF Restores
      <3>2. rows[q].state \in History
        BY <1>2, <3>1 DEF OrderInv, Verdicts
      <3>3. PICK old \in Row : old = rows[q]
        BY <3>1 DEF IInv, TypeOK
      <3>4. PICK new : new = rows'[q]
        OBVIOUS
      <3>5. new = Promoted(old, {"sealed", "indexing", "superseded"})
        BY <2>3, <3>1, <3>3, <3>4
      <3>6. new.state \in {"published", "invalidated"}
        BY <3>1, <3>2, <3>3, <3>5, RestoredRow
      <3>7. rows[r].state # "absent"
        BY <1>6 DEF InvalidateWrite, At, IInv, LocalOK
      <3>8. rows'[r].predecessor = q
        BY <2>1, <3>1, <3>7, CreatedStays
      <3> QED
        BY <2>1, <3>4, <3>6, <3>8 DEF Uncovered
    <2> QED
      BY <1>6, <2>2, <2>3, InvalidateFacts
  <1>7. CASE ~PublishHeadCas(w) /\ ~InvalidateWrite(w)
    <2>1. head' = head
      BY <1>7, QuietRows DEF Acts, Proceed, RowsQuiet, CreateInsert,
         ValidateWrite, PublishSeal, PublishArtifact, PublishSetIndexed, FailRunway
    <2>2. rows[q].state = "published" => rows'[q].state = "published"
      BY <1>2, <1>3, <1>7, <2>1, RowMoves DEF Move, Same, Judged, Moved, Advanced, History
    <2> QED
      BY <1>3, <1>4, <2>1, <2>2
  <1> QED
    BY <1>5, <1>6, <1>7

LEMMA OrderInvStep == IInv /\ OrderInv /\ [Next]_vars => OrderInv'
  <1> SUFFICES ASSUME IInv, OrderInv, [Next]_vars PROVE OrderInv'
    OBVIOUS
  <1>1. CASE UNCHANGED vars
    BY <1>1 DEF vars, OrderInv, SealedAlone, SealedBy, Verdicts, Reads,
       HeadSettled, Uncovered
  <1>2. ASSUME NEW w \in Workers, Acts(w), NoteOverwrites(w) PROVE OrderInv'
    BY <1>2, OverwrittenCreated, SealedStep, VerdictsStep, ReadsStep,
       HeadSettledStep DEF OrderInv
  <1> QED
    BY <1>1, <1>2 DEF Next, Acts

\* Whatever is called, delivered twice, failing or cut off: unless its row was
\* overwritten, the head's runway is published and passed its validation, or
\* was invalidated before a successor of it was.
THEOREM HeadIsSound == Spec => []HeadSound
  <1>1. IInv /\ OrderInv => HeadSound
    BY DEF IInv, Snapshot, OrderInv, HeadSettled, Uncovered, Verdicts, HeadSound,
       History
  <1> QED
    BY <1>1, InitEstablishes, IInvStep, OrderInit, OrderInvStep, PTL DEF Spec

\* No publication or restoration revives an invalidated runway, in any
\* interleaving; only a statement that overwrites its row does.
THEOREM InvalidatedStays == Spec => InvalidatedIsFinal
  <1>1. IInv /\ OrderInv /\ [Next]_vars =>
          [\A r \in Runways \ overwritten' : rows[r].state = "invalidated" =>
                                rows'[r].state = "invalidated"]_vars
    BY HistoryLasts DEF Next, Acts
  <1> QED
    BY <1>1, InitEstablishes, IInvStep, OrderInit, OrderInvStep, PTL
       DEF Spec, InvalidatedIsFinal

-----------------------------------------------------------------------------
(* Refinement: the handlers implement a register with atomic operations.   *)

Parents == [r \in Runways |-> rows[r].predecessor]
Created == {r \in Runways : rows[r].state # "absent"}
Histories == {r \in Runways \ overwritten : rows[r].state \in History}
Withdrawals == {r \in Runways \ overwritten : rows[r].state = "invalidated"}

LEMMA InitRegister == Init => Register!Init
  <1> SUFFICES ASSUME Init PROVE Register!Init
    OBVIOUS
  <1>1. /\ Created = {} /\ Histories = {} /\ Withdrawals = {}
        /\ Parents = [r \in Runways |-> NoRunway]
        /\ head.runway = NoRunway /\ overwritten = {}
    BY DEF Init, Created, Histories, Withdrawals, Parents, History, NoHead
  <1> QED
    BY <1>1 DEF Register!Init, Created, Histories, Withdrawals, Parents

\* A step that leaves the head, the lineage and the states of history alone
\* is a stutter of the register.
LEMMA RegisterStutters ==
    ASSUME head'.runway = head.runway, overwritten' = overwritten,
           KeepsLineage,
           \A x \in Runways \ overwritten :
              /\ rows'[x].state \in History <=> rows[x].state \in History
              /\ rows'[x].state = "invalidated" <=> rows[x].state = "invalidated"
    PROVE  UNCHANGED Register!vars
  <1>1. Parents' = Parents /\ Created' = Created
        /\ Histories' = Histories /\ Withdrawals' = Withdrawals
    BY DEF Parents, Created, Histories, Withdrawals, KeepsLineage
  <1> QED
    BY <1>1 DEF Register!vars, Parents, Created, Histories, Withdrawals

LEMMA CreateRefines ==
    ASSUME IInv, OrderInv, NEW w \in Workers, CreateInsert(w), rows' # rows,
           NoteOverwrites(w)
    PROVE  Register!Next
  <1> DEFINE p == local[w].head.runway
  <1>0. PICK r \in Runways : r = local[w].runway
    BY DEF CreateInsert, At, IInv, LocalOK
  <1>a. overwritten' = overwritten
    BY OverwrittenGrows DEF CreateInsert, At, Unguarded, IInv
  <1>1. /\ rows \in [Runways -> Row] /\ p \in RunwayRefs
        /\ \/ p \in overwritten \union {NoRunway}
           \/ rows[p].state \in History
    BY DEF CreateInsert, At, IInv, TypeOK, Local, Head, OrderInv, Reads
  <1>2. rows[r].state = "absent"
    BY <1>0 DEF CreateInsert
  <1>3. PICK old \in Row : old = rows[r]
    BY <1>1
  <1>4. PICK new : new = [old EXCEPT !.state = "candidate", !.predecessor = p,
                            !.generation = local[w].head.generation + 1]
    OBVIOUS
  <1>5. new.state = "candidate" /\ new.predecessor = p
    BY <1>4 DEF Row
  <1>6. rows' = [rows EXCEPT ![r] = new] /\ head' = head
    BY <1>0, <1>2, <1>3, <1>4 DEF CreateInsert
  <1>7. rows'[r] = new /\ \A x \in Runways \ {r} : rows'[x] = rows[x]
    BY <1>1, <1>6
  <1>8. Created' = Created \union {r} /\ r \notin Created
    BY <1>1, <1>2, <1>5, <1>7 DEF Created
  <1>9. Histories' = Histories /\ Withdrawals' = Withdrawals
    BY <1>a, <1>1, <1>2, <1>5, <1>7 DEF Histories, Withdrawals, History
  <1>10. Parents' = [Parents EXCEPT ![r] = p]
    BY <1>1, <1>5, <1>7 DEF Parents
  <1>11. p \in Histories \union overwritten \union {NoRunway}
    BY <1>1 DEF Histories, RunwayRefs
  <1>12. Register!Propose(r)
    BY <1>a, <1>6, <1>8, <1>9, <1>10, <1>11
       DEF Register!Propose, Parents, Created, Histories, Withdrawals
  <1> QED
    BY <1>12 DEF Register!Next

LEMMA CasRefines ==
    ASSUME IInv, OrderInv, NEW w \in Workers, PublishHeadCas(w), NoteOverwrites(w)
    PROVE  Register!Next
  <1>0. PICK r \in Runways : r = local[w].runway
    BY CasFacts
  <1>a. Acts(w) /\ ~CreateInsert(w)
    BY DEF Acts, Proceed, PublishHeadCas, CreateInsert, At
  <1>b. overwritten' = overwritten
    BY OverwrittenGrows DEF PublishHeadCas, At, Unguarded, IInv
  <1>1. KeepsLineage
    BY <1>a, RowStep
  <1>2. /\ r \notin overwritten => /\ rows[r].state = "sealed"
                                   /\ rows'[r].state = "published"
        /\ head'.runway = r /\ head.runway \in {rows[r].predecessor, NoRunway}
    BY <1>0, CasFacts DEF NoHead, Advanced
  <1>3. \A x \in Runways \ {r} :
           \/ rows'[x].state = rows[x].state
           \/ rows[x].state = "published" /\ rows'[x].state = "superseded"
    BY <1>0, CasFacts DEF Same, Moved
  <1>4. Parents' = Parents /\ Created' = Created
    BY <1>1 DEF Parents, Created, KeepsLineage
  <1>5. rows[r].state # "absent"
    BY <1>0 DEF PublishHeadCas, At, IInv, LocalOK
  <1>6. Histories' = Histories \union ({r} \ overwritten)
    BY <1>b, <1>2, <1>3 DEF Histories, History
  <1>7. r \in Created \ Histories
    BY <1>2, <1>5 DEF Created, Histories, History
  <1>8. Withdrawals' = Withdrawals
    BY <1>b, <1>2, <1>3 DEF Withdrawals
  <1>9. head.runway \in {Parents[r], NoRunway}
    BY <1>2 DEF Parents
  <1>10. Register!Publish(r)
    BY <1>b, <1>2, <1>4, <1>6, <1>7, <1>8, <1>9
       DEF Register!Publish, Parents, Created, Histories, Withdrawals
  <1> QED
    BY <1>10 DEF Register!Next

LEMMA InvalidateRefines ==
    ASSUME IInv, OrderInv, NEW w \in Workers, InvalidateWrite(w), NoteOverwrites(w)
    PROVE  Register!Next \/ UNCHANGED Register!vars
  <1>0. PICK r \in Runways : r = local[w].runway
    BY InvalidateFacts
  <1>a. Acts(w) /\ ~CreateInsert(w)
    BY DEF Acts, Proceed, InvalidateWrite, CreateInsert, At
  <1>b. overwritten' = overwritten
    BY OverwrittenGrows DEF InvalidateWrite, At, Unguarded, IInv
  <1>1. KeepsLineage
    BY <1>a, RowStep
  <1>2. /\ rows'[r].state = "invalidated"
        /\ r \notin overwritten => rows[r].state \in History
    BY <1>0, InvalidateFacts
  <1>3. head'.runway = IF RestoresHead(r) THEN rows[r].predecessor ELSE head.runway
    BY <1>0, InvalidateFacts DEF Restores, NoHead
  <1>4. \A x \in Runways \ (overwritten \union {r}) :
           \/ rows'[x].state = rows[x].state
           \/ rows[x].state = "superseded" /\ rows'[x].state = "published"
    <2> SUFFICES ASSUME NEW x \in Runways \ overwritten, x # r
                 PROVE  \/ rows'[x].state = rows[x].state
                        \/ rows[x].state = "superseded" /\ rows'[x].state = "published"
      OBVIOUS
    <2>1. CASE rows'[x] = rows[x]
      BY <2>1
    <2>2. CASE ~(rows'[x] = rows[x])
      <3>1. x = rows[r].predecessor /\ Restores(r, x)
            /\ rows'[x] = Promoted(rows[x], {"sealed", "indexing", "superseded"})
        BY <1>0, <2>2, InvalidateFacts
      <3>2. PICK old \in Row : old = rows[x]
        BY DEF IInv, TypeOK
      <3>3. old.publishedAt /\ old.state \in History
        BY <3>1, <3>2 DEF Restores, OrderInv, Verdicts
      <3>4. PICK new : new = rows'[x]
        OBVIOUS
      <3>5. new = Promoted(old, {"sealed", "indexing", "superseded"})
        BY <3>1, <3>2, <3>4
      <3>6. \/ new.state = old.state
            \/ old.state = "superseded" /\ new.state = "published"
        BY <3>3, <3>5, RestoredRow
      <3> QED
        BY <3>2, <3>4, <3>6
    <2> QED
      BY <2>1, <2>2
  <1>5. Parents' = Parents /\ Created' = Created /\ Parents[r] = rows[r].predecessor
    BY <1>1 DEF Parents, Created, KeepsLineage
  <1>6. Histories' = Histories
    BY <1>b, <1>2, <1>4 DEF Histories, History
  <1>7. Withdrawals' = Withdrawals \union ({r} \ overwritten)
    BY <1>b, <1>2, <1>4 DEF Withdrawals
  <1>8. CASE \/ r \in overwritten /\ RestoresHead(r)
             \/ r \notin overwritten /\ rows[r].state # "invalidated"
    <2>1. r \in (Histories \ Withdrawals) \union overwritten
      BY <1>2, <1>8 DEF Histories, Withdrawals
    <2>2. RestoresHead(r) <=> head.runway = r
      <3>1. head.runway = r => head # NoHead
        BY ConstantsAssumption DEF NoHead
      <3>2. head.runway = r /\ r \notin overwritten =>
               rows[r].state = "published" \/ rows[r].state = "invalidated"
        BY <3>1 DEF OrderInv, HeadSettled, Uncovered
      <3> QED
        BY <1>8, <3>2 DEF RestoresHead
    <2>3. head'.runway = IF head.runway = r THEN Parents[r] ELSE head.runway
      BY <1>3, <1>5, <2>2
    <2>4. Register!Withdraw(r)
      BY <1>b, <1>5, <1>6, <1>7, <2>1, <2>3
         DEF Register!Withdraw, Parents, Created, Histories, Withdrawals
    <2> QED
      BY <2>4 DEF Register!Next
  <1>9. CASE \/ r \in overwritten /\ ~RestoresHead(r)
             \/ r \notin overwritten /\ rows[r].state = "invalidated"
    <2>1. ~RestoresHead(r)
      BY <1>9 DEF RestoresHead
    <2>2. head'.runway = head.runway
      BY <1>3, <2>1
    <2>3. \A x \in Runways \ overwritten :
             /\ rows'[x].state \in History <=> rows[x].state \in History
             /\ rows'[x].state = "invalidated" <=> rows[x].state = "invalidated"
      BY <1>2, <1>4, <1>9 DEF History
    <2> QED
      BY <1>b, <1>1, <2>2, <2>3, RegisterStutters
  <1> QED
    BY <1>8, <1>9

\* The other statements keep what is history as it is, or overwrite a runway.
LEMMA StatusRefines ==
    ASSUME IInv, OrderInv, NEW w \in Workers, Acts(w), NoteOverwrites(w),
           ~CreateInsert(w), ~PublishHeadCas(w), ~InvalidateWrite(w)
    PROVE  Register!Next \/ UNCHANGED Register!vars
  <1>0. /\ TypeOK /\ KeepsLineage
        /\ overwritten \subseteq overwritten'
        /\ \A x \in overwritten' \ overwritten : x = local[w].runway
    BY RowStep, OverwrittenGrows DEF IInv
  <1>1. head' = head
    BY QuietRows DEF Acts, Proceed, RowsQuiet,
       ValidateWrite, PublishSeal, PublishArtifact, PublishSetIndexed, FailRunway
  <1>2. \A x \in Runways \ overwritten' :
           /\ rows'[x].state \in History <=> rows[x].state \in History
           /\ rows'[x].state = "invalidated" <=> rows[x].state = "invalidated"
    BY RowMoves DEF Move, Same, Judged, Moved, Advanced, History
  <1>3. CASE overwritten' = overwritten
    BY <1>0, <1>1, <1>2, <1>3, RegisterStutters
  <1>4. CASE overwritten' # overwritten
    <2>1. PICK r \in overwritten' \ overwritten : r = local[w].runway
      BY <1>0, <1>4
    <2>2. overwritten' = overwritten \union {r}
      BY <1>0, <2>1
    <2>3. r \in Runways /\ rows'[r].state # "absent"
      BY <2>1, OverwrittenCreated
    <2>4. r \in Created \ overwritten
      BY <1>0, <2>1, <2>3 DEF Created, KeepsLineage
    <2>5. Parents' = Parents /\ Created' = Created
      BY <1>0 DEF Parents, Created, KeepsLineage
    <2>6. Histories' = Histories \ {r} /\ Withdrawals' = Withdrawals \ {r}
      BY <1>2, <2>2 DEF Histories, Withdrawals
    <2>7. Register!Overwrite(r)
      BY <1>1, <2>2, <2>4, <2>5, <2>6
         DEF Register!Overwrite, Parents, Created, Histories, Withdrawals
    <2> QED
      BY <2>3, <2>7 DEF Register!Next
  <1> QED
    BY <1>3, <1>4

LEMMA StepRegister ==
    IInv /\ OrderInv /\ [Next]_vars => [Register!Next]_Register!vars
  <1> SUFFICES ASSUME IInv, OrderInv, [Next]_vars
               PROVE  Register!Next \/ UNCHANGED Register!vars
    OBVIOUS
  <1>1. CASE UNCHANGED <<rows, head, overwritten>>
    BY <1>1, RegisterStutters DEF KeepsLineage
  <1>2. ASSUME NEW w \in Workers, Acts(w), NoteOverwrites(w)
        PROVE  Register!Next \/ UNCHANGED Register!vars
    <2>1. CASE CreateInsert(w)
      <3>1. CASE rows' = rows
        BY <1>1, <1>2, <2>1, <3>1 DEF CreateInsert, NoteOverwrites, Overwrites
      <3> QED
        BY <1>2, <2>1, <3>1, CreateRefines
    <2> QED
      BY <1>2, <2>1, CasRefines, InvalidateRefines, StatusRefines
  <1> QED
    BY <1>1, <1>2 DEF Next, Acts, vars

\* The handlers, split at every await, delivered twice and cut off anywhere,
\* implement a register whose operations are atomic; a runway whose row is
\* overwritten is let go, and nothing else is lost.
THEOREM LifecycleImplementsRegister == Spec => RefinesHeadRegister
  <1> QED
    BY InitRegister, StepRegister, InitEstablishes, IInvStep, OrderInit,
       OrderInvStep, PTL DEF Spec, RefinesHeadRegister, Register!Spec

=============================================================================
