----------------------- MODULE RunwayLifecycleProofs -----------------------
(***************************************************************************)
(* Type correctness of RunwayLifecycle, the soundness of its lineage and   *)
(* of its history, for any number of runways, workers and attempts, with   *)
(* or without crashes and failing calls.                                   *)
(***************************************************************************)
EXTENDS RunwayLifecycle, TLAPS

\* A head row as some request read it: none, or a runway that exists with the
\* generation it has.
Snapshot(h) ==
    h = NoHead \/ /\ h.runway \in Runways
                  /\ rows[h.runway].state # "absent"
                  /\ rows[h.runway].generation = h.generation

\* What the locals of a request say about the tables at each step.
LocalOK ==
    \A w \in Workers :
        /\ ~At(w, "idle") => local[w].runway \in Runways
        /\ local[w].pc \in {"fail_runway", "fail_attempt"} =>
              local[w].failure # "none"
        /\ local[w].pc \notin {"idle", "create_head", "create_insert"} =>
              rows[local[w].runway].state # "absent"
        /\ At(w, "create_insert") => Snapshot(local[w].head)

AbsentIsBlank ==
    \A r \in Runways : rows[r].state = "absent" =>
        rows[r].predecessor = NoRunway

\* The inductive invariant.
IInv ==
    /\ TypeOK
    /\ LocalOK
    /\ AbsentIsBlank
    /\ Snapshot(head)
    /\ LineageSound
    /\ HistoryIsChain

LEMMA InitEstablishes == Init => IInv
  <1> SUFFICES ASSUME Init PROVE IInv
    OBVIOUS
  <1> USE DEF Init, NoHead, Idle
  <1>1. TypeOK
    BY DEF TypeOK, Row, Head, Attempt, Local, Steps, States, RunwayRefs
  <1>2. LocalOK /\ AbsentIsBlank /\ Snapshot(head)
    BY DEF LocalOK, AbsentIsBlank, Snapshot, At
  <1>3. LineageSound /\ HistoryIsChain
    BY DEF LineageSound, HistoryIsChain
  <1> QED
    BY <1>1, <1>2, <1>3 DEF IInv

-----------------------------------------------------------------------------
(* Types.                                                                  *)

LEMMA TriggerTypes ==
    ASSUME NEW table \in [Runways -> Row], NEW new \in Runways
    PROVE  /\ HeadsPublishInsert(table, new) \in [Runways -> Row]
           /\ \A old : HeadsPublishUpdate(table, old, new) \in [Runways -> Row]
  <1>1. \A row \in Row : Superseded(row) \in Row
    BY DEF Superseded, Row, States, History
  <1>2. \A row \in Row : \A from : Promoted(row, from) \in Row
    BY DEF Promoted, Row, States, History
  <1> QED
    BY <1>1, <1>2 DEF HeadsPublishInsert, HeadsPublishUpdate

LEMMA TypeStep == IInv /\ [Next]_vars => TypeOK'
  <1> SUFFICES ASSUME IInv, [Next]_vars PROVE TypeOK'
    OBVIOUS
  <1> USE DEF IInv
  <1>o. overwritten' \subseteq Runways
    <2>1. CASE UNCHANGED vars
      BY <2>1 DEF vars, TypeOK
    <2>2. ASSUME NEW w \in Workers, NoteOverwrites(w)
          PROVE  overwritten' \subseteq Runways
      <3>1. Overwrites(w) => local[w].runway \in Runways
        BY DEF Overwrites, Unguarded, LocalOK, At
      <3> QED
        BY <2>2, <3>1 DEF NoteOverwrites, TypeOK
    <2> QED
      BY <2>1, <2>2 DEF Next
  <1> USE <1>o
  <1>0. CASE UNCHANGED vars
    BY <1>0 DEF vars, TypeOK
  <1>1. ASSUME NEW w \in Workers, NEW r \in Runways,
               CreateReadKey(w, r) \/ ValidateRead(w, r)
                   \/ PublishReadRow(w, r) \/ InvalidateRead(w, r)
        PROVE  TypeOK'
    <2>b. Idle \in Local /\ rows[r].state \in States
      BY DEF Idle, NoHead, Local, Head, Steps, States, RunwayRefs, TypeOK, Row
    <2>c. ASSUME NEW step \in Steps, Begin(w, r, step)
          PROVE  local' \in [Workers -> Local]
      <3>1. [Idle EXCEPT !.pc = step, !.runway = r, !.state = rows[r].state]
              \in Local
        BY <2>b DEF Local, RunwayRefs
      <3> QED
        BY <2>c, <3>1 DEF Begin, TypeOK
    <2>d. ASSUME PublishReadRow(w, r) PROVE local' \in [Workers -> Local]
      <3>1. \A a \in Attempts :
              [Idle EXCEPT !.pc = "publish_head", !.runway = r,
                           !.state = rows[r].state, !.attempt = a] \in Local
        BY <2>b DEF Local, RunwayRefs, Steps
      <3> QED
        BY <2>d, <3>1 DEF PublishReadRow, TypeOK
    <2>1. local' \in [Workers -> Local]
      BY <1>1, <2>c, <2>d DEF CreateReadKey, ValidateRead, InvalidateRead,
           TypeOK, Steps
    <2> QED
      BY <1>1, <2>1 DEF CreateReadKey, ValidateRead, PublishReadRow,
           InvalidateRead, tables, TypeOK
  <1>2. ASSUME NEW w \in Workers, Proceed(w)
        PROVE  TypeOK'
    <2> DEFINE r == local[w].runway
    <2>a. ~At(w, "idle") => r \in Runways
      BY DEF LocalOK
    <2>b. Idle \in Local
      BY DEF Idle, NoHead, Local, Head, Steps, States, RunwayRefs
    <2>c. Return(w) => local' \in [Workers -> Local]
      BY <2>b DEF Return, TypeOK
    <2>d. ASSUME NEW s \in Steps, Goto(w, s) PROVE local' \in [Workers -> Local]
      BY <2>d DEF Goto, TypeOK, Local
    <2>e. ASSUME NEW f \in {"failed", "conflict"}, Fail(w, f)
          PROVE  local' \in [Workers -> Local]
      <3>1. [local[w] EXCEPT !.pc = "fail_runway", !.failure = f] \in Local
        BY DEF TypeOK, Local, Steps
      <3> QED
        BY <2>e, <3>1 DEF Fail, TypeOK
    <2>f. [local[w] EXCEPT !.pc = "create_insert", !.head = head] \in Local
      BY DEF TypeOK, Local, Steps
    <2>g. [local[w] EXCEPT !.pc = "invalidate_write", !.head = head] \in Local
      BY DEF TypeOK, Local, Steps
    <2>1. CASE CreateReadHead(w)
      <3>1. local' \in [Workers -> Local]
        <4>1. CASE Return(w)
          BY <4>1, <2>c
        <4>2. CASE local' = [local EXCEPT ![w].pc = "create_insert",
                                          ![w].head = head]
          BY <4>2, <2>f DEF TypeOK
        <4> QED
          BY <2>1, <4>1, <4>2 DEF CreateReadHead
      <3> QED
        BY <2>1, <3>1 DEF CreateReadHead, tables, TypeOK
    <2>2. CASE CreateInsert(w)
      <3>1. r \in Runways
        BY <2>2, <2>a DEF CreateInsert, At
      <3>2. rows' \in [Runways -> Row]
        <4>1. local[w].head \in Head /\ rows[r] \in Row
          BY <3>1 DEF TypeOK, Local
        <4>2. /\ local[w].head.runway \in RunwayRefs
              /\ local[w].head.generation + 1 \in Nat
              /\ "candidate" \in States
          BY <4>1 DEF Head, States
        <4>3. \A p \in RunwayRefs, g \in Nat, st \in States :
                [rows[r] EXCEPT !.state = st, !.predecessor = p,
                                !.generation = g] \in Row
          BY <4>1 DEF Row
        <4> QED
          BY <2>2, <3>1, <4>2, <4>3 DEF CreateInsert, TypeOK
      <3> QED
        BY <2>2, <3>2, <2>c DEF CreateInsert, TypeOK
    <2>3. CASE ValidateWrite(w)
      <3>1. r \in Runways
        BY <2>3, <2>a DEF ValidateWrite, At
      <3>2. rows' \in [Runways -> Row] /\ validations' \in [Runways -> Statuses \union {"none"}]
        BY <2>3, <3>1, ConstantsAssumption
           DEF ValidateWrite, TypeOK, Row, States, StateAfter, Statuses
      <3> QED
        BY <2>3, <3>2, <2>c DEF ValidateWrite, TypeOK
    <2>4. CASE PublishReadHead(w)
      BY <2>4, <2>c, <2>d DEF PublishReadHead, tables, TypeOK, Steps
    <2>5. CASE PublishReadValidation(w)
      BY <2>5, <2>c, <2>d DEF PublishReadValidation, tables, TypeOK, Steps
    <2>6. CASE PublishInsertAttempt(w)
      <3>1. local' \in [Workers -> Local]
        BY <2>6, <2>d DEF PublishInsertAttempt, Steps, TryBlock
      <3>2. attempts' \in [Attempts -> Attempt]
        BY <2>6 DEF PublishInsertAttempt, TypeOK, Attempt, Local
      <3> QED
        BY <2>6, <3>1, <3>2 DEF PublishInsertAttempt, TypeOK
    <2>7. CASE PublishSeal(w)
      <3>1. r \in Runways
        BY <2>7, <2>a DEF PublishSeal, At
      <3>2. rows' \in [Runways -> Row]
        BY <2>7, <3>1 DEF PublishSeal, TypeOK, Row, States
      <3>3. local' \in [Workers -> Local]
        BY <2>7, <2>d, <2>e DEF PublishSeal, AfterSeal, AfterArtifact, Steps, TryBlock
      <3> QED
        BY <2>7, <3>2, <3>3 DEF PublishSeal, TypeOK
    <2>8. CASE PublishArtifact(w)
      <3>1. r \in Runways
        BY <2>8, <2>a DEF PublishArtifact, At
      <3>2. rows' \in [Runways -> Row]
        BY <2>8, <3>1 DEF PublishArtifact, TypeOK, Row
      <3>3. local' \in [Workers -> Local]
        BY <2>8, <2>d DEF PublishArtifact, AfterArtifact, Steps, TryBlock
      <3> QED
        BY <2>8, <3>2, <3>3 DEF PublishArtifact, TypeOK
    <2>9. CASE PublishIndex(w)
      <3>1. r \in Runways
        BY <2>9, <2>a DEF PublishIndex, At
      <3>2. local' \in [Workers -> Local]
        BY <2>9, <2>d DEF PublishIndex, Steps, TryBlock
      <3> QED
        BY <2>9, <3>1, <3>2 DEF PublishIndex, TypeOK
    <2>19. CASE PublishSetIndexed(w)
      <3>1. r \in Runways
        BY <2>19, <2>a DEF PublishSetIndexed, At
      <3>2. rows' \in [Runways -> Row]
        BY <2>19, <3>1 DEF PublishSetIndexed, TypeOK, Row, States
      <3>3. local' \in [Workers -> Local]
        BY <2>19, <2>d DEF PublishSetIndexed, Steps, TryBlock
      <3> QED
        BY <2>19, <3>2, <3>3 DEF PublishSetIndexed, TypeOK
    <2>10. CASE PublishHeadCas(w)
      <3>1. r \in Runways
        BY <2>10, <2>a DEF PublishHeadCas, At
      <3>2. rows' \in [Runways -> Row]
        BY <2>10, <3>1, TriggerTypes DEF PublishHeadCas, TypeOK
      <3>3. head' \in Head
        BY <2>10, <3>1 DEF PublishHeadCas, TypeOK, Row, Head, RunwayRefs
      <3>4. local' \in [Workers -> Local]
        BY <2>10, <2>d DEF PublishHeadCas, Steps, TryBlock
      <3>5. attempts' \in [Attempts -> Attempt]
        BY <2>10 DEF PublishHeadCas, TypeOK, Attempt
      <3> QED
        BY <2>10, <3>2, <3>3, <3>4, <3>5 DEF PublishHeadCas, TypeOK
    <2>11. CASE PublishHeadCasConflict(w)
      BY <2>11, <2>e DEF PublishHeadCasConflict, ZeroChanges, tables, TypeOK
    <2>12. CASE PublishRecord(w)
      <3>1. attempts' \in [Attempts -> Attempt]
        BY <2>12 DEF PublishRecord, TypeOK, Attempt
      <3> QED
        BY <2>12, <3>1, <2>c DEF PublishRecord, TypeOK
    <2>13. CASE CallFails(w)
      BY <2>13, <2>e DEF CallFails, tables, TypeOK
    <2>14. CASE FailRunway(w)
      <3>1. r \in Runways
        BY <2>14, <2>a DEF FailRunway, At
      <3>2. rows' \in [Runways -> Row]
        BY <2>14, <3>1 DEF FailRunway, TypeOK, Row, States
      <3>3. local' \in [Workers -> Local]
        BY <2>14, <2>d DEF FailRunway, Steps
      <3> QED
        BY <2>14, <3>2, <3>3 DEF FailRunway, TypeOK
    <2>15. CASE FailAttempt(w)
      <3>1. local[w].failure \in {"failed", "conflict"}
        BY <2>15 DEF FailAttempt, LocalOK, At, TypeOK, Local
      <3>2. attempts' \in [Attempts -> Attempt]
        BY <2>15, <3>1 DEF FailAttempt, TypeOK, Attempt
      <3> QED
        BY <2>15, <3>2, <2>c DEF FailAttempt, TypeOK
    <2>16. CASE InvalidateReadHead(w)
      <3>1. local' \in [Workers -> Local]
        BY <2>16, <2>g DEF InvalidateReadHead, TypeOK
      <3> QED
        BY <2>16, <3>1 DEF InvalidateReadHead, tables, TypeOK
    <2>17. CASE InvalidateWrite(w)
      <3>1. r \in Runways
        BY <2>17, <2>a DEF InvalidateWrite, At
      <3>2. rows[r].predecessor \in RunwayRefs
        BY <3>1 DEF TypeOK, Row
      <3>3. Invalidated(r) \in [Runways -> Row]
        BY <3>1 DEF Invalidated, TypeOK, Row, States, History
      <3>4. rows' \in [Runways -> Row]
        BY <2>17, <3>2, <3>3, TriggerTypes DEF InvalidateWrite, RunwayRefs
      <3>5. head' \in Head
        BY <2>17, <3>2 DEF InvalidateWrite, RestoredHead, NoHead, TypeOK,
             Row, Head, RunwayRefs
      <3>6. receipts' \subseteq Receipt
        <4>1. local[w].head.runway \in RunwayRefs
          BY DEF TypeOK, Local, Head
        <4>2. InvalidationReceipt(r, local[w].head) \in Receipt
          BY <3>1, <3>2, <4>1 DEF InvalidationReceipt, Receipt, RunwayRefs
        <4>3. receipts' = receipts \union {InvalidationReceipt(r, local[w].head)}
          BY <2>17 DEF InvalidateWrite
        <4> QED
          BY <4>2, <4>3 DEF TypeOK
      <3> QED
        BY <2>17, <3>4, <3>5, <3>6, <2>c DEF InvalidateWrite, TypeOK
    <2>18. CASE InvalidateAborts(w)
      BY <2>18, <2>c DEF InvalidateAborts, tables, TypeOK
    <2> QED
      BY <1>2, <2>1, <2>2, <2>3, <2>4, <2>5, <2>6, <2>7, <2>8, <2>9, <2>10,
         <2>11, <2>12, <2>13, <2>14, <2>15, <2>16, <2>17, <2>18, <2>19 DEF Proceed
  <1>3. ASSUME NEW w \in Workers, Crash(w)
        PROVE  TypeOK'
    BY <1>3 DEF Crash, Return, tables, TypeOK, Idle, NoHead, Local, Head, Steps,
         States, RunwayRefs
  <1> QED
    BY <1>0, <1>1, <1>2, <1>3 DEF Next, Request

-----------------------------------------------------------------------------
(* Lineage.                                                                *)

\* A step that leaves lineage alone: it creates no runway and renames none.
KeepsLineage ==
    \A x \in Runways :
        /\ rows'[x].predecessor = rows[x].predecessor
        /\ rows'[x].generation = rows[x].generation
        /\ rows'[x].state = "absent" <=> rows[x].state = "absent"

Acts(w) == Request(w) \/ Proceed(w) \/ Crash(w)

LEMMA TriggersKeepLineage ==
    ASSUME NEW table \in [Runways -> Row], NEW new \in Runways, NEW old,
           NEW x \in Runways,
           NEW t \in {HeadsPublishInsert(table, new),
                      HeadsPublishUpdate(table, old, new)}
    PROVE  /\ t[x].predecessor = table[x].predecessor
           /\ t[x].generation = table[x].generation
           /\ t[x].state = "absent" <=> table[x].state = "absent"
  <1> DEFINE Same(row, old_row) == /\ row.predecessor = old_row.predecessor
                                   /\ row.generation = old_row.generation
                                   /\ row.state = "absent" <=> old_row.state = "absent"
  <1>1. \A row \in Row : Same(Superseded(row), row)
    BY DEF Superseded, Row
  <1>2. \A row \in Row :
           /\ Same(Promoted(row, {"sealed", "indexing"}), row)
           /\ Same(Promoted(row, {"sealed", "indexing", "superseded"}), row)
    BY DEF Promoted, Row
  <1>3. table[x] \in Row /\ Same(table[x], table[x])
    OBVIOUS
  <1>4. Same(HeadsPublishInsert(table, new)[x], table[x])
    <2> HIDE DEF Same
    <2> QED BY <1>1, <1>2, <1>3 DEF HeadsPublishInsert
  <1>5. Same(HeadsPublishUpdate(table, old, new)[x], table[x])
    <2> HIDE DEF Same
    <2> QED BY <1>1, <1>2, <1>3 DEF HeadsPublishUpdate
  <1> QED
    BY <1>4, <1>5

LEMMA SetStateKeepsLineage ==
    ASSUME TypeOK, NEW r \in Runways, NEW s, s # "absent",
           rows[r].state # "absent", rows' = [rows EXCEPT ![r].state = s]
    PROVE  KeepsLineage
  BY DEF TypeOK, Row, KeepsLineage

LEMMA RowStep ==
    ASSUME IInv, NEW w \in Workers, Acts(w), ~CreateInsert(w)
    PROVE  KeepsLineage
  <1> DEFINE r == local[w].runway
  <1> USE DEF IInv
  <1>1. CASE rows' = rows
    BY <1>1 DEF KeepsLineage
  <1>2. ASSUME ~At(w, "idle"), ~At(w, "create_head"), ~At(w, "create_insert")
        PROVE  r \in Runways /\ rows[r].state # "absent"
    BY <1>2 DEF LocalOK, At
  <1>3. CASE ValidateWrite(w)
    <2>1. \A s \in Statuses : StateAfter[s] # "absent"
      BY DEF StateAfter, Statuses
    <2> QED
      BY <1>2, <1>3, <2>1, SetStateKeepsLineage, ConstantsAssumption
         DEF ValidateWrite, At
  <1>4. CASE PublishSeal(w)
    BY <1>1, <1>2, <1>4, SetStateKeepsLineage DEF PublishSeal, At
  <1>5. CASE PublishArtifact(w)
    BY <1>2, <1>5 DEF PublishArtifact, At, TypeOK, Row, KeepsLineage
  <1>6. CASE PublishSetIndexed(w)
    BY <1>2, <1>6, SetStateKeepsLineage DEF PublishSetIndexed, At
  <1>7. CASE PublishHeadCas(w)
    <2>1. r \in Runways /\ rows \in [Runways -> Row]
      BY <1>2, <1>7 DEF PublishHeadCas, At, TypeOK
    <2>2. rows' \in {HeadsPublishInsert(rows, r),
                     HeadsPublishUpdate(rows, head.runway, r)}
      BY <1>7 DEF PublishHeadCas
    <2> QED
      BY <2>1, <2>2, TriggersKeepLineage DEF KeepsLineage
  <1>8. CASE FailRunway(w)
    BY <1>1, <1>2, <1>8, SetStateKeepsLineage DEF FailRunway, At
  <1>9. CASE InvalidateWrite(w)
    <2>1. r \in Runways /\ rows[r].state # "absent"
      BY <1>2, <1>9 DEF InvalidateWrite, At
    <2>2. Invalidated(r) \in [Runways -> Row]
      BY <2>1 DEF Invalidated, TypeOK, Row, States, History
    <2>3. \A x \in Runways :
            /\ Invalidated(r)[x].predecessor = rows[x].predecessor
            /\ Invalidated(r)[x].generation = rows[x].generation
            /\ Invalidated(r)[x].state = "absent" <=> rows[x].state = "absent"
      BY <2>1 DEF Invalidated, TypeOK, Row
    <2>4. CASE rows' = Invalidated(r)
      BY <2>3, <2>4 DEF KeepsLineage
    <2>5. CASE /\ rows[r].predecessor # NoRunway
               /\ rows' = HeadsPublishUpdate(Invalidated(r), r,
                                             rows[r].predecessor)
      <3>1. rows[r].predecessor \in Runways
        BY <2>1, <2>5 DEF TypeOK, Row, RunwayRefs
      <3> QED
        BY <2>2, <2>3, <2>5, <3>1, TriggersKeepLineage DEF KeepsLineage
    <2> QED
      BY <1>9, <2>4, <2>5 DEF InvalidateWrite
  <1>10. CASE Request(w) \/ Crash(w)
    BY <1>1, <1>10 DEF Request, Crash, CreateReadKey, ValidateRead,
         PublishReadRow, InvalidateRead, tables
  <1>11. CASE \/ CreateReadHead(w) \/ PublishReadHead(w)
              \/ PublishReadValidation(w) \/ PublishInsertAttempt(w)
              \/ PublishIndex(w) \/ PublishHeadCasConflict(w)
              \/ PublishRecord(w) \/ CallFails(w) \/ FailAttempt(w)
              \/ InvalidateReadHead(w) \/ InvalidateAborts(w)
    BY <1>1, <1>11 DEF CreateReadHead, PublishReadHead, PublishReadValidation,
         PublishInsertAttempt, PublishIndex, PublishHeadCasConflict,
         PublishRecord, CallFails, FailAttempt, InvalidateReadHead, InvalidateAborts, tables
  <1> QED
    BY <1>3, <1>4, <1>5, <1>6, <1>7, <1>8, <1>9, <1>10, <1>11
       DEF Acts, Proceed

\* What creation does: the candidate rests on the head its request read.
LEMMA CreateStep ==
    ASSUME IInv, NEW w \in Workers, CreateInsert(w)
    PROVE  \/ rows' = rows
           \/ \E r \in Runways, h \in Head :
                /\ Snapshot(h)
                /\ rows[r].state = "absent"
                /\ rows' = [rows EXCEPT ![r] = [@ EXCEPT
                              !.state = "candidate", !.predecessor = h.runway,
                              !.generation = h.generation + 1]]
  <1>1. local[w].runway \in Runways /\ Snapshot(local[w].head)
    BY DEF IInv, LocalOK, CreateInsert, At
  <1>2. local[w].head \in Head
    BY DEF IInv, TypeOK, Local
  <1> QED
    BY <1>1, <1>2 DEF CreateInsert

\* Neither creation nor any other step forgets a runway or changes its lineage.
Extends ==
    \A x \in Runways : rows[x].state # "absent" =>
        /\ rows'[x].state # "absent"
        /\ rows'[x].predecessor = rows[x].predecessor
        /\ rows'[x].generation = rows[x].generation

LEMMA ExtendsStep ==
    ASSUME IInv, NEW w \in Workers, Acts(w)
    PROVE  Extends
  <1>1. CASE CreateInsert(w)
    <2>1. CASE rows' = rows
      BY <2>1 DEF Extends
    <2>2. ASSUME NEW r \in Runways, NEW h \in Head, rows[r].state = "absent",
                 rows' = [rows EXCEPT ![r] = [@ EXCEPT
                            !.state = "candidate", !.predecessor = h.runway,
                            !.generation = h.generation + 1]]
          PROVE  Extends
      BY <2>2 DEF IInv, TypeOK, Extends
    <2> QED
      BY <1>1, <2>1, <2>2, CreateStep
  <1>2. CASE ~CreateInsert(w)
    BY <1>2, RowStep DEF KeepsLineage, Extends
  <1> QED
    BY <1>1, <1>2

\* A head that was read stays a fact about the tables.
LEMMA SnapshotStable ==
    ASSUME Extends, NEW h, Snapshot(h)
    PROVE  h = NoHead \/ /\ h.runway \in Runways
                         /\ rows'[h.runway].state # "absent"
                         /\ rows'[h.runway].generation = h.generation
  BY DEF Extends, Snapshot

LEMMA HeadStep ==
    ASSUME IInv, NEW w \in Workers, Acts(w)
    PROVE  Snapshot(head)'
  <1> DEFINE r == local[w].runway
  <1> USE DEF IInv
  <1>0. Extends
    BY ExtendsStep
  <1>1. CASE head' = head
    BY <1>0, <1>1, SnapshotStable DEF Snapshot
  <1>2. CASE PublishHeadCas(w)
    <2>1. r \in Runways /\ rows[r].state # "absent"
      BY <1>2 DEF PublishHeadCas, At, LocalOK
    <2>2. head' = [runway |-> r, generation |-> rows[r].generation]
      BY <1>2 DEF PublishHeadCas
    <2> QED
      BY <1>0, <2>1, <2>2 DEF Extends, Snapshot
  <1>3. CASE InvalidateWrite(w)
    <2>1. r \in Runways /\ rows[r].state # "absent"
      BY <1>3 DEF InvalidateWrite, At, LocalOK
    <2>2. CASE rows[r].predecessor # NoRunway /\ head' = RestoredHead(rows[r].predecessor)
      <3>1. /\ rows[r].predecessor \in Runways
            /\ rows[rows[r].predecessor].state # "absent"
        BY <2>1, <2>2 DEF LineageSound, TypeOK, Row, RunwayRefs
      <3> QED
        BY <1>0, <2>2, <3>1 DEF RestoredHead, Extends, Snapshot
    <2>3. CASE head' = NoHead
      BY <2>3 DEF Snapshot, NoHead
    <2> QED
      BY <1>1, <1>3, <2>2, <2>3 DEF InvalidateWrite
  <1> QED
    BY <1>1, <1>2, <1>3 DEF Acts, Proceed, Request, Crash, CreateReadKey,
         ValidateRead, PublishReadRow, InvalidateRead, CreateReadHead,
         CreateInsert, ValidateWrite, PublishReadHead, PublishReadValidation,
         PublishInsertAttempt, PublishSeal, PublishArtifact, PublishIndex,
         PublishSetIndexed,
         PublishHeadCasConflict, PublishRecord, CallFails, FailRunway,
         FailAttempt, InvalidateReadHead, InvalidateAborts, tables

LEMMA LineageStep ==
    ASSUME IInv, NEW w \in Workers, Acts(w)
    PROVE  AbsentIsBlank' /\ LineageSound'
  <1> USE DEF IInv
  <1>0. Snapshot(head)'
    BY HeadStep
  <1>1. head' # NoHead => /\ head'.runway \in Runways
                          /\ rows'[head'.runway].generation = head'.generation
    BY <1>0 DEF Snapshot, NoHead
  <1>2. CASE KeepsLineage
    <2>1. AbsentIsBlank'
      BY <1>2 DEF KeepsLineage, AbsentIsBlank
    <2>2. ASSUME NEW x \in Runways, rows'[x].state # "absent"
          PROVE  IF rows'[x].predecessor = NoRunway
                 THEN rows'[x].generation = 1
                 ELSE /\ rows'[rows'[x].predecessor].state # "absent"
                      /\ rows'[x].generation =
                           rows'[rows'[x].predecessor].generation + 1
      <3>1. rows[x].predecessor \in RunwayRefs
        BY DEF TypeOK, Row
      <3> QED
        BY <1>2, <2>2, <3>1 DEF KeepsLineage, LineageSound, RunwayRefs
    <2> QED
      BY <1>1, <2>1, <2>2 DEF LineageSound, NoHead
  <1>3. ASSUME NEW r \in Runways, NEW h \in Head, Snapshot(h),
               rows[r].state = "absent",
               rows' = [rows EXCEPT ![r] = [@ EXCEPT
                          !.state = "candidate", !.predecessor = h.runway,
                          !.generation = h.generation + 1]]
        PROVE  AbsentIsBlank' /\ LineageSound'
    <2>1. /\ rows'[r].state = "candidate"
          /\ rows'[r].predecessor = h.runway
          /\ rows'[r].generation = h.generation + 1
          /\ \A x \in Runways \ {r} : rows'[x] = rows[x]
      BY <1>3 DEF TypeOK, Row
    <2>2. AbsentIsBlank'
      BY <2>1 DEF AbsentIsBlank
    <2>3. ASSUME NEW x \in Runways, rows'[x].state # "absent"
          PROVE  IF rows'[x].predecessor = NoRunway
                 THEN rows'[x].generation = 1
                 ELSE /\ rows'[rows'[x].predecessor].state # "absent"
                      /\ rows'[x].generation =
                           rows'[rows'[x].predecessor].generation + 1
      <3>1. CASE x = r /\ h = NoHead
        BY <2>1, <3>1 DEF NoHead
      <3>2. CASE x = r /\ h # NoHead
        <4>1. /\ h.runway \in Runways /\ h.runway # NoRunway
              /\ rows[h.runway].state # "absent"
              /\ rows[h.runway].generation = h.generation
          BY <1>3, <3>2, ConstantsAssumption DEF Snapshot
        <4> QED
          BY <1>3, <2>1, <3>2, <4>1
      <3>3. CASE x # r
        <4>1. rows'[x] = rows[x] /\ rows[x].predecessor \in RunwayRefs
          BY <2>1, <3>3 DEF TypeOK, Row
        <4>2. IF rows[x].predecessor = NoRunway
              THEN rows[x].generation = 1
              ELSE /\ rows[rows[x].predecessor].state # "absent"
                   /\ rows[x].generation =
                        rows[rows[x].predecessor].generation + 1
          BY <2>3, <4>1 DEF LineageSound
        <4>3. CASE rows[x].predecessor = NoRunway
          BY <4>1, <4>2, <4>3
        <4>4. CASE rows[x].predecessor # NoRunway
          <5>1. rows[x].predecessor \in Runways \ {r}
            BY <1>3, <4>1, <4>2, <4>4 DEF RunwayRefs
          <5> QED
            BY <2>1, <4>1, <4>2, <4>4, <5>1
        <4> QED
          BY <4>3, <4>4
      <3> QED
        BY <3>1, <3>2, <3>3
    <2> QED
      BY <1>1, <2>2, <2>3 DEF LineageSound, NoHead
  <1>4. CASE rows' = rows
    BY <1>2, <1>4 DEF KeepsLineage
  <1> QED
    BY <1>2, <1>3, <1>4, RowStep, CreateStep

-----------------------------------------------------------------------------
(* Locals.                                                                 *)

\* Every action changes the locals of its own worker only.
LEMMA LocalFrame ==
    ASSUME TypeOK, NEW w \in Workers, Acts(w), NEW v \in Workers \ {w}
    PROVE  local'[v] = local[v]
  <1>1. local \in [Workers -> Local]
    BY DEF TypeOK
  <1>2. CASE Request(w) \/ Crash(w)
    BY <1>1, <1>2 DEF Request, Crash, CreateReadKey, ValidateRead,
         PublishReadRow, InvalidateRead, Begin, Return
  <1>3. CASE Proceed(w)
    BY <1>1, <1>3 DEF Proceed, CreateReadHead,
         CreateInsert, ValidateWrite, PublishReadHead, PublishReadValidation,
         PublishInsertAttempt, PublishSeal, PublishArtifact, PublishIndex,
         PublishSetIndexed,
         PublishHeadCas, PublishHeadCasConflict, PublishRecord, CallFails,
         FailRunway, FailAttempt, InvalidateReadHead, InvalidateWrite,
         InvalidateAborts, ZeroChanges, Fail, Goto, Return
  <1> QED
    BY <1>2, <1>3 DEF Acts

LEMMA LocalStep ==
    ASSUME IInv, NEW w \in Workers, Acts(w)
    PROVE  LocalOK'
  <1> DEFINE r == local[w].runway
             OK(v) == /\ local'[v].pc # "idle" => local'[v].runway \in Runways
                      /\ local'[v].pc \in {"fail_runway", "fail_attempt"} =>
                            local'[v].failure # "none"
                      /\ local'[v].pc \notin
                            {"idle", "create_head", "create_insert"} =>
                            rows'[local'[v].runway].state # "absent"
                      /\ local'[v].pc = "create_insert" =>
                            Snapshot(local[v].head)'
  <1>0. /\ Extends /\ TypeOK /\ LocalOK /\ Snapshot(head)
        /\ local \in [Workers -> Local]
    BY ExtendsStep DEF IInv, TypeOK
  <1>1. ASSUME NEW v \in Workers \ {w}
        PROVE  OK(v)
    <2>1. local'[v] = local[v]
      BY <1>0, LocalFrame
    <2>2. /\ ~At(v, "idle") => local[v].runway \in Runways
          /\ local[v].pc \in {"fail_runway", "fail_attempt"} =>
                local[v].failure # "none"
          /\ local[v].pc \notin {"idle", "create_head", "create_insert"} =>
                rows[local[v].runway].state # "absent"
          /\ At(v, "create_insert") => Snapshot(local[v].head)
      BY <1>0 DEF LocalOK
    <2>3. At(v, "create_insert") => Snapshot(local[v].head)'
      BY <1>0, <2>1, <2>2, SnapshotStable DEF Snapshot
    <2> QED
      BY <1>0, <2>1, <2>2, <2>3 DEF At, Extends
  <1>2. ASSUME local'[w] = Idle PROVE OK(w)
    BY <1>2 DEF Idle
  <1>3. ASSUME local'[w].runway \in Runways,
               rows[local'[w].runway].state # "absent",
               local'[w].pc # "create_insert",
               local'[w].pc \in {"fail_runway", "fail_attempt"} =>
                  local'[w].failure # "none"
        PROVE  OK(w)
    BY <1>0, <1>3 DEF Extends
  <1>4. ASSUME ~At(w, "idle"), ~At(w, "create_head"), ~At(w, "create_insert")
        PROVE  r \in Runways /\ rows[r].state # "absent"
    BY <1>0, <1>4 DEF LocalOK, At
  <1>5. ASSUME Return(w) PROVE local'[w] = Idle
    BY <1>0, <1>5 DEF Return
  <1>6. ASSUME NEW s, Goto(w, s)
        PROVE  /\ local'[w].pc = s
               /\ local'[w].runway = r
               /\ local'[w].failure = local[w].failure
    BY <1>0, <1>6 DEF Goto, Local
  <1>7. ASSUME NEW f \in {"failed", "conflict"}, Fail(w, f)
        PROVE  /\ local'[w].pc = "fail_runway"
               /\ local'[w].runway = r
               /\ local'[w].failure = f
    BY <1>0, <1>7 DEF Fail, Local
  <1>8. ASSUME NEW q \in Runways, NEW s, Begin(w, q, s)
        PROVE  local'[w].pc = s /\ local'[w].runway = q
    BY <1>0, <1>8 DEF Begin, Idle
  <1>9. CASE local' = local
    <2>1. local'[w] = local[w]
      BY <1>9
    <2>2. At(w, "create_insert") => Snapshot(local[w].head)'
      BY <1>0, <2>1, SnapshotStable DEF Snapshot, LocalOK
    <2> QED
      BY <1>0, <1>1, <2>1, <2>2 DEF LocalOK, At, Extends, Snapshot
  <1>10. ASSUME NEW q \in Runways,
                CreateReadKey(w, q) \/ ValidateRead(w, q)
                    \/ PublishReadRow(w, q) \/ InvalidateRead(w, q)
         PROVE  LocalOK'
    <2>1. CASE Begin(w, q, "create_head")
      BY <1>1, <1>8, <2>1 DEF LocalOK, At
    <2>2. CASE rows[q].state # "absent"
               /\ (Begin(w, q, "validate_write") \/ Begin(w, q, "invalidate_head"))
      BY <1>1, <1>3, <1>8, <2>2 DEF LocalOK, At
    <2>3. CASE PublishReadRow(w, q)
      <3>1. local'[w].pc = "publish_head" /\ local'[w].runway = q
        BY <1>0, <2>3 DEF PublishReadRow, Idle
      <3> QED
        BY <1>1, <1>3, <2>3, <3>1 DEF PublishReadRow, LocalOK, At
    <2> QED
      BY <1>9, <1>10, <2>1, <2>2, <2>3
         DEF CreateReadKey, ValidateRead, InvalidateRead
  <1>11. CASE Return(w)
    BY <1>1, <1>2, <1>5, <1>11 DEF LocalOK, At
  <1>12. CASE CreateReadHead(w)
    <2>1. CASE local' = [local EXCEPT ![w].pc = "create_insert", ![w].head = head]
      <3>1. /\ local'[w].pc = "create_insert" /\ local'[w].runway = r
            /\ local'[w].head = head
        BY <1>0, <2>1 DEF Local
      <3>2. r \in Runways
        BY <1>0, <1>12 DEF CreateReadHead, LocalOK, At
      <3>3. Snapshot(local[w].head)'
        BY <1>0, <3>1, SnapshotStable DEF Snapshot
      <3> QED
        BY <1>1, <3>1, <3>2, <3>3 DEF LocalOK, At
    <2> QED
      BY <1>11, <1>12, <2>1 DEF CreateReadHead
  <1>13. CASE InvalidateReadHead(w)
    <2>1. local'[w].pc = "invalidate_write" /\ local'[w].runway = r
      BY <1>0, <1>13 DEF InvalidateReadHead, Local
    <2> QED
      BY <1>1, <1>3, <1>4, <1>13, <2>1 DEF InvalidateReadHead, At, LocalOK
  <1>14. ASSUME ~At(w, "idle"), ~At(w, "create_head"), ~At(w, "create_insert"),
                NEW f \in {"failed", "conflict"}, Fail(w, f)
         PROVE  LocalOK'
    BY <1>1, <1>3, <1>4, <1>7, <1>14 DEF LocalOK, At
  <1>15. ASSUME ~At(w, "idle"), ~At(w, "create_head"), ~At(w, "create_insert"),
                NEW s \in TryBlock \union {"publish_validation", "publish_attempt"},
                Goto(w, s)
         PROVE  LocalOK'
    BY <1>1, <1>3, <1>4, <1>6, <1>15 DEF LocalOK, At, TryBlock
  <1>16. CASE FailRunway(w)
    <2>1. Goto(w, "fail_attempt") /\ At(w, "fail_runway")
      BY <1>16 DEF FailRunway
    <2>2. local[w].failure # "none"
      BY <1>0, <2>1 DEF LocalOK, At
    <2> QED
      BY <1>1, <1>3, <1>4, <1>6, <2>1, <2>2 DEF LocalOK, At
  <1>17. CASE CallFails(w)
    BY <1>14, <1>17, ConstantsAssumption DEF CallFails, TryBlock, At
  <1>18. CASE PublishSeal(w) \/ PublishHeadCasConflict(w)
    BY <1>14, <1>15, <1>18 DEF PublishSeal, PublishHeadCasConflict, ZeroChanges,
         AfterSeal, AfterArtifact, TryBlock, At
  <1>19. CASE \/ PublishReadHead(w) \/ PublishReadValidation(w)
              \/ PublishInsertAttempt(w) \/ PublishArtifact(w)
              \/ PublishIndex(w) \/ PublishSetIndexed(w) \/ PublishHeadCas(w)
    BY <1>11, <1>15, <1>19 DEF PublishReadHead, PublishReadValidation,
         PublishInsertAttempt, PublishArtifact, PublishIndex,
         PublishSetIndexed, PublishHeadCas,
         AfterArtifact, TryBlock, At
  <1>20. CASE \/ CreateInsert(w) \/ ValidateWrite(w) \/ PublishRecord(w)
              \/ FailAttempt(w) \/ InvalidateWrite(w) \/ InvalidateAborts(w)
              \/ Crash(w)
    BY <1>11, <1>20 DEF CreateInsert, ValidateWrite, PublishRecord, FailAttempt,
         InvalidateWrite, InvalidateAborts, Crash
  <1> QED
    BY <1>10, <1>12, <1>13, <1>16, <1>17, <1>18, <1>19, <1>20
       DEF Acts, Request, Proceed

-----------------------------------------------------------------------------
(* History.                                                                *)

\* A set of runways closed under predecessors after a step was closed before:
\* the step renamed no predecessor, and a runway it created had none.
LEMMA ClosedBefore ==
    ASSUME IInv, Extends, NEW S \in SUBSET Runways,
           \A x \in S : rows'[x].predecessor \in S \union {NoRunway}
    PROVE  \A x \in S : rows[x].predecessor \in S \union {NoRunway}
  BY DEF IInv, Extends, AbsentIsBlank

\* A step that publishes and supersedes nothing, and leaves the head alone.
LEMMA QuietKeepsHistory ==
    ASSUME IInv, Extends, head' = head,
           \A x \in Runways : rows'[x].state \in {"published", "superseded"} =>
                                 rows'[x].state = rows[x].state
    PROVE  HistoryIsChain'
  <1>1. HistoryIsChain
    BY DEF IInv
  <1>2. ASSUME NEW x \in Runways, OnHeadChain(x)
        PROVE  OnHeadChain(x)'
    BY <1>2, ClosedBefore DEF OnHeadChain, NoHead
  <1> QED
    BY <1>1, <1>2 DEF HistoryIsChain

\* Advancing the head: publishHeadCas publishes its runway, supersedes the one
\* it replaces, and keeps every superseded runway below the new head.
LEMMA AdvanceKeepsHistory ==
    ASSUME IInv, NEW w \in Workers, PublishHeadCas(w)
    PROVE  HistoryIsChain'
  <1> DEFINE r == local[w].runway
  <1>1. /\ r \in Runways /\ rows \in [Runways -> Row]
        /\ HistoryIsChain /\ Snapshot(head)
    BY DEF IInv, TypeOK, LocalOK, PublishHeadCas, At
  <1>2. Extends
    BY ExtendsStep DEF Acts, Proceed
  <1>3. head'.runway = r /\ head' # NoHead
    BY <1>1, ConstantsAssumption DEF PublishHeadCas, NoHead
  <1>4. CASE head = NoHead
    <2>1. \A x \in Runways : rows[x].state \notin {"published", "superseded"}
      BY <1>1, <1>4, ConstantsAssumption DEF HistoryIsChain, OnHeadChain, NoHead
    <2>2. rows' = HeadsPublishInsert(rows, r)
      BY <1>4 DEF PublishHeadCas
    <2>3. \A x \in Runways :
            /\ rows'[x].state # "superseded"
            /\ rows'[x].state = "published" => x = r
      BY <1>1, <2>1, <2>2 DEF HeadsPublishInsert, Promoted, Superseded, Row
    <2> QED
      BY <1>3, <2>3 DEF HistoryIsChain
  <1>5. CASE head # NoHead
    <2>1. /\ rows' = HeadsPublishUpdate(rows, head.runway, r)
          /\ head.runway = rows[r].predecessor
          /\ rows[r].state # "absent"
      BY <1>5 DEF PublishHeadCas, CasMatches, IInv, LocalOK, At
    <2>2. head.runway \in Runways /\ head.runway # NoRunway
      BY <1>1, <1>5, ConstantsAssumption DEF Snapshot
    <2>3. \A x \in Runways :
            /\ rows'[x].state = "published" =>
                  x = r \/ (rows[x].state = "published" /\ x # head.runway)
            /\ rows'[x].state = "superseded" =>
                  x = head.runway \/ rows[x].state = "superseded"
      BY <1>1, <2>1 DEF HeadsPublishUpdate, Promoted, Superseded, Row
    <2>4. ASSUME NEW x \in Runways, rows'[x].state = "superseded"
          PROVE  OnHeadChain(x)'
      <3>1. ASSUME NEW S \in SUBSET Runways, r \in S,
                   \A y \in S : rows'[y].predecessor \in S \union {NoRunway}
            PROVE  x \in S
        <4>1. \A y \in S : rows[y].predecessor \in S \union {NoRunway}
          BY <1>2, <3>1, ClosedBefore
        <4>2. head.runway \in S
          BY <2>1, <2>2, <3>1, <4>1
        <4> QED
          BY <1>1, <2>3, <2>4, <4>1, <4>2 DEF HistoryIsChain, OnHeadChain
      <3> QED
        BY <1>3, <3>1 DEF OnHeadChain, NoHead
    <2>5. \A x \in Runways : rows'[x].state = "published" => x = r
      BY <1>1, <2>3 DEF HistoryIsChain
    <2> QED
      BY <1>3, <2>4, <2>5 DEF HistoryIsChain
  <1> QED
    BY <1>4, <1>5

\* Invalidating the head: the restore trigger moves it to the predecessor, and
\* what was superseded below the old head stays below the new one.
LEMMA InvalidateKeepsHistory ==
    ASSUME IInv, NEW w \in Workers, InvalidateWrite(w)
    PROVE  HistoryIsChain'
  <1> DEFINE r == local[w].runway
             p == rows[r].predecessor
             t == Invalidated(r)
  <1>1. /\ r \in Runways /\ rows \in [Runways -> Row]
        /\ HistoryIsChain /\ Snapshot(head) /\ p \in RunwayRefs
    BY DEF IInv, TypeOK, LocalOK, InvalidateWrite, At, Row
  <1>2. Extends
    BY ExtendsStep DEF Acts, Proceed
  <1>3. /\ t[r].state = "invalidated"
        /\ \A x \in Runways \ {r} : t[x] = rows[x]
        /\ t \in [Runways -> Row]
    BY <1>1 DEF Invalidated, Row, States, History
  <1>4. CASE ~RestoresHead(r)
    <2>1. rows' = t /\ head' = head
      BY <1>4 DEF InvalidateWrite
    <2> QED
      BY <1>2, <1>3, <2>1, QuietKeepsHistory
  <1>5. ASSUME RestoresHead(r), NEW x \in Runways,
               rows[x].state = "published"
        PROVE  x = r
    BY <1>1, <1>5 DEF HistoryIsChain, RestoresHead
  <1>6. CASE RestoresHead(r) /\ p # NoRunway
    <2>1. p \in Runways /\ head.runway = r /\ rows[r].state = "published"
      BY <1>1, <1>6 DEF RunwayRefs, RestoresHead
    <2>2. rows' = HeadsPublishUpdate(t, r, p)
      BY <1>6 DEF InvalidateWrite
    <2>3. head'.runway = p /\ head' # NoHead
      BY <1>6, <2>1, ConstantsAssumption DEF InvalidateWrite, RestoredHead, NoHead
    <2>4. \A x \in Runways :
            /\ rows'[x].state = "published" => x = p \/ t[x].state = "published"
            /\ rows'[x].state = "superseded" =>
                  t[x].state = "superseded" \/ (x = r /\ t[x].state = "published")
      BY <1>3, <2>1, <2>2 DEF HeadsPublishUpdate, Promoted, Superseded, Row
    <2>5. \A x \in Runways :
            /\ rows'[x].state = "published" => x = p
            /\ rows'[x].state = "superseded" =>
                  x # r /\ rows[x].state = "superseded"
      BY <1>3, <1>5, <1>6, <2>4
    <2>6. ASSUME NEW x \in Runways, rows'[x].state = "superseded"
          PROVE  OnHeadChain(x)'
      <3>1. ASSUME NEW S \in SUBSET Runways, p \in S,
                   \A y \in S : rows'[y].predecessor \in S \union {NoRunway}
            PROVE  x \in S
        <4>1. \A y \in S : rows[y].predecessor \in S \union {NoRunway}
          BY <1>2, <3>1, ClosedBefore
        <4> DEFINE U == S \union {r}
        <4>2. /\ U \in SUBSET Runways
              /\ \A y \in U : rows[y].predecessor \in U \union {NoRunway}
          BY <1>1, <3>1, <4>1
        <4>3. OnHeadChain(x) /\ x # r
          BY <1>1, <2>5, <2>6 DEF HistoryIsChain
        <4>4. x \in U
          BY <2>1, <4>2, <4>3 DEF OnHeadChain
        <4> QED
          BY <4>3, <4>4
      <3> QED
        BY <2>3, <3>1 DEF OnHeadChain, NoHead
    <2> QED
      BY <2>3, <2>5, <2>6 DEF HistoryIsChain
  <1>7. CASE RestoresHead(r) /\ p = NoRunway
    <2>1. rows' = t /\ head.runway = r
      BY <1>7 DEF InvalidateWrite, RestoresHead
    <2>2. ASSUME NEW x \in Runways, rows'[x].state = "superseded"
          PROVE  FALSE
      <3>1. x # r /\ OnHeadChain(x)
        BY <1>1, <1>3, <2>1, <2>2 DEF HistoryIsChain
      <3>2. x \in {r}
        BY <1>1, <1>7, <2>1, <3>1 DEF OnHeadChain
      <3> QED
        BY <3>1, <3>2
    <2>3. \A x \in Runways : rows'[x].state # "published"
      BY <1>3, <1>5, <1>7, <2>1
    <2> QED
      BY <2>2, <2>3 DEF HistoryIsChain
  <1> QED
    BY <1>4, <1>6, <1>7

LEMMA HistoryStep ==
    ASSUME IInv, NEW w \in Workers, Acts(w)
    PROVE  HistoryIsChain'
  <1> DEFINE r == local[w].runway
  <1>1. Extends /\ rows \in [Runways -> Row]
    BY ExtendsStep DEF IInv, TypeOK
  <1>2. CASE rows' = rows /\ head' = head
    BY <1>1, <1>2, QuietKeepsHistory
  <1>3. ASSUME NEW x \in Runways, NEW s, s \notin {"published", "superseded"},
               rows' = [rows EXCEPT ![x].state = s], head' = head
        PROVE  HistoryIsChain'
    <2>1. rows'[x].state = s /\ \A y \in Runways \ {x} : rows'[y] = rows[y]
      BY <1>1, <1>3 DEF Row
    <2> QED
      BY <1>1, <1>3, <2>1, QuietKeepsHistory
  <1>4. ~At(w, "idle") => r \in Runways
    BY DEF IInv, LocalOK
  <1>5. CASE CreateInsert(w)
    <2>1. \A x \in Runways : rows'[x].state \in {"candidate", rows[x].state}
      BY <1>1, <1>5, CreateStep DEF Row
    <2>2. head' = head
      BY <1>5 DEF CreateInsert
    <2> QED
      BY <1>1, <2>1, <2>2, QuietKeepsHistory
  <1>6. CASE ValidateWrite(w)
    <2>1. \A s \in Statuses : StateAfter[s] \notin {"published", "superseded"}
      BY DEF StateAfter, Statuses
    <2> QED
      BY <1>3, <1>4, <1>6, <2>1, ConstantsAssumption DEF ValidateWrite, At
  <1>7. CASE PublishArtifact(w)
    <2>1. \A x \in Runways : rows'[x].state = rows[x].state
      BY <1>1, <1>7 DEF PublishArtifact, Row
    <2> QED
      BY <1>1, <1>7, <2>1, QuietKeepsHistory DEF PublishArtifact
  <1>8. CASE PublishSeal(w) \/ PublishSetIndexed(w) \/ FailRunway(w)
    BY <1>2, <1>3, <1>4, <1>8 DEF PublishSeal, PublishSetIndexed, FailRunway, At
  <1>9. CASE PublishHeadCas(w)
    BY <1>9, AdvanceKeepsHistory
  <1>10. CASE InvalidateWrite(w)
    BY <1>10, InvalidateKeepsHistory
  <1>11. CASE Request(w) \/ Crash(w)
    BY <1>2, <1>11 DEF Request, Crash, CreateReadKey, ValidateRead,
         PublishReadRow, InvalidateRead, tables
  <1>12. CASE \/ CreateReadHead(w) \/ PublishReadHead(w)
              \/ PublishReadValidation(w) \/ PublishInsertAttempt(w)
              \/ PublishIndex(w) \/ PublishHeadCasConflict(w)
              \/ PublishRecord(w) \/ CallFails(w) \/ FailAttempt(w)
              \/ InvalidateReadHead(w) \/ InvalidateAborts(w)
    BY <1>2, <1>12 DEF CreateReadHead, PublishReadHead, PublishReadValidation,
         PublishInsertAttempt, PublishIndex, PublishHeadCasConflict,
         PublishRecord, CallFails, FailAttempt, InvalidateReadHead, InvalidateAborts, tables
  <1> QED
    BY <1>5, <1>6, <1>7, <1>8, <1>9, <1>10, <1>11, <1>12 DEF Acts, Proceed

-----------------------------------------------------------------------------
(* The results.                                                            *)

LEMMA IInvStep == IInv /\ [Next]_vars => IInv'
  <1> SUFFICES ASSUME IInv, [Next]_vars PROVE IInv'
    OBVIOUS
  <1>1. CASE UNCHANGED vars
    BY <1>1 DEF vars, IInv, TypeOK, LocalOK, AbsentIsBlank, Snapshot,
         LineageSound, HistoryIsChain, OnHeadChain, At
  <1>2. ASSUME NEW w \in Workers, Acts(w) PROVE IInv'
    BY <1>2, TypeStep, LocalStep, HeadStep, LineageStep, HistoryStep DEF IInv
  <1> QED
    BY <1>1, <1>2 DEF Next, Acts

\* Every column, receipt and local of the publication machinery keeps its
\* domain: no trigger, read or write ever leaves a row half built.
THEOREM TypeCorrect == Spec => []TypeOK
  <1>1. IInv => TypeOK
    BY DEF IInv
  <1> QED
    BY <1>1, InitEstablishes, IInvStep, PTL DEF Spec

\* However requests interleave, fail and stop: the head row carries the
\* generation of its runway, which is one above its predecessor's.
THEOREM LineageIsSound == Spec => []LineageSound
  <1>1. IInv => LineageSound
    BY DEF IInv
  <1> QED
    BY <1>1, InitEstablishes, IInvStep, PTL DEF Spec

\* However requests interleave, fail and stop: only the head is in state
\* published, and every superseded runway is an ancestor of it.
THEOREM HistoryIsSound == Spec => []HistoryIsChain
  <1>1. IInv => HistoryIsChain
    BY DEF IInv
  <1> QED
    BY <1>1, InitEstablishes, IInvStep, PTL DEF Spec

LEMMA HeadMove ==
    ASSUME IInv, NEW w \in Workers, Acts(w), head # NoHead, head' # head
    PROVE  \/ /\ head'.runway \in Runways
              /\ rows[head'.runway].predecessor = head.runway
           \/ /\ head'.runway = rows[head.runway].predecessor
              /\ rows'[head.runway].state = "invalidated"
  <1> DEFINE r == local[w].runway
             t == Invalidated(r)
  <1>1. CASE PublishHeadCas(w)
    <2>1. r \in Runways
      BY <1>1 DEF IInv, LocalOK, PublishHeadCas, At
    <2> QED
      BY <1>1, <2>1 DEF PublishHeadCas, CasMatches
  <1>2. CASE InvalidateWrite(w)
    <2>1. r \in Runways /\ rows \in [Runways -> Row]
      BY <1>2 DEF IInv, LocalOK, InvalidateWrite, At, TypeOK
    <2>2. t[r].state = "invalidated" /\ RestoresHead(r)
      BY <1>2, <2>1 DEF Invalidated, Row, InvalidateWrite
    <2>3. head'.runway = rows[r].predecessor
      BY <1>2, <2>2 DEF InvalidateWrite, RestoredHead, NoHead
    <2>4. rows' = t \/ \E p : rows' = HeadsPublishUpdate(t, r, p)
      BY <1>2 DEF InvalidateWrite
    <2>5. rows'[r].state = "invalidated"
      BY <2>1, <2>2, <2>4 DEF HeadsPublishUpdate, Promoted, Superseded
    <2> QED
      BY <2>2, <2>3, <2>5 DEF RestoresHead
  <1> QED
    BY <1>1, <1>2 DEF Acts, Proceed, Request, Crash, CreateReadKey,
         ValidateRead, PublishReadRow, InvalidateRead, CreateReadHead,
         CreateInsert, ValidateWrite, PublishReadHead, PublishReadValidation,
         PublishInsertAttempt, PublishSeal, PublishArtifact, PublishIndex,
         PublishSetIndexed,
         PublishHeadCasConflict, PublishRecord, CallFails, FailRunway,
         FailAttempt, InvalidateReadHead, InvalidateAborts, tables

\* An existing head moves only one link at a time along the lineage: up to a
\* runway that names it, by the compare-and-swap of publishCheckpoint, or down
\* to its own predecessor, by the trigger of the statement that invalidates it.
THEOREM HeadMovesSoundly == Spec => HeadMovesAlongLineage
  <1>1. IInv /\ [Next]_vars =>
          [head # NoHead /\ head' # head =>
              \/ /\ head'.runway \in Runways
                 /\ rows[head'.runway].predecessor = head.runway
              \/ /\ head'.runway = rows[head.runway].predecessor
                 /\ rows'[head.runway].state = "invalidated"]_vars
    <2>1. CASE UNCHANGED vars
      BY <2>1
    <2>2. ASSUME IInv, Next
          PROVE  head # NoHead /\ head' # head =>
                   \/ /\ head'.runway \in Runways
                      /\ rows[head'.runway].predecessor = head.runway
                   \/ /\ head'.runway = rows[head.runway].predecessor
                      /\ rows'[head.runway].state = "invalidated"
      BY <2>2, HeadMove DEF Next, Acts
    <2> QED
      BY <2>1, <2>2
  <1> QED
    BY <1>1, InitEstablishes, IInvStep, PTL DEF Spec, HeadMovesAlongLineage

=============================================================================
