----------------------- MODULE MemoryProjectionProofs -----------------------
(***************************************************************************)
(* Proofs about MemoryProjection, for any assertions, workers, scopes and  *)
(* deletion receipts, any number of embeddings that are refused, and any   *)
(* limit of a pass.                                                        *)
(*                                                                         *)
(* The inductive invariant has four parts: the row of an assertion in the  *)
(* outbox fits its life in memory; a pass has written what its turn says   *)
(* it has, as far as the assertion is still accepted; a deletion holds a   *)
(* receipt of its own, and past its batch everything it collected is       *)
(* erased; and, for every assertion that was not withdrawn behind the back *)
(* of its index, no writer holds it once it is withdrawn.                  *)
(***************************************************************************)
EXTENDS MemoryProjection, SequenceTheorems, TLAPS

-----------------------------------------------------------------------------
(* The inductive invariant.                                                *)

\* An entry of the outbox that wants the assertion indexed.
Wanted(a) == outbox[a].operation = "upsert" /\ outbox[a].state # "none"

\* The rows of an assertion agree: what waits for an index, or is in both, is
\* decided by where the assertion is in its life.
RowOK(a) ==
    /\ memory[a] = "accepted" => Wanted(a)
    /\ memory[a] = "superseded" =>
          /\ outbox[a].state # "none"
          /\ outbox[a].operation = "delete" \/ a \in overlapped
    /\ memory[a] \in {"absent", "erased"} => outbox[a] = NoEntry
    /\ outbox[a] = [operation |-> "upsert", state |-> "complete"] =>
          a \in vectors /\ a \in search

ReceiptOK(r) ==
    /\ deletions[r].status = "none" => deletions[r].ids = {}
    /\ deletions[r].status \in {"deleted", "repair_queued"} =>
          \A a \in deletions[r].ids : memory[a] = "erased"

InPass(l) == l.pc \in {"turn", "embed", "index_search", "unindex_search",
                       "complete", "failed"}

InDeletion(l) == l.pc \in {"delete_receipt", "delete_rows", "delete_vectors",
                           "delete_failed", "delete_done"}

HasReceipt(l) == InDeletion(l) /\ l.pc # "delete_receipt"

\* A job was read from a row; a delete is never of what can be wanted again.
JobOK(j) ==
    /\ memory[j.assertion] # "absent"
    /\ j.operation = "delete" => ~Wanted(j.assertion)

\* What a pass has written for the assertion of its turn is there for as long
\* as its entry wants it there.
PassOK(l) ==
    InPass(l) =>
        LET j == l.jobs[1] IN
        /\ l.jobs # <<>>
        /\ \A i \in DOMAIN l.jobs : JobOK(l.jobs[i])
        /\ l.pc \in {"embed", "index_search"} => j.operation = "upsert"
        /\ l.pc = "unindex_search" => j.operation = "delete"
        /\ l.pc \in {"index_search", "complete"} /\ Wanted(j.assertion) =>
              j.assertion \in vectors
        /\ l.pc = "complete" /\ Wanted(j.assertion) =>
              j.assertion \in search

DeletionOK(l) ==
    /\ InDeletion(l) =>
          /\ l.ids \subseteq l.scope
          /\ \A a \in l.ids : memory[a] # "absent"
    /\ HasReceipt(l) =>
          /\ l.receipt \in Receipts
          /\ deletions[l.receipt].status = "pending"
          /\ deletions[l.receipt].ids = l.ids
    /\ l.pc \in {"delete_vectors", "delete_failed", "delete_done"} =>
          \A a \in l.ids : memory[a] = "erased"

OwnReceipt ==
    \A v, w \in Workers :
        v # w /\ HasReceipt(local[v]) /\ HasReceipt(local[w]) =>
            local[v].receipt # local[w].receipt

-----------------------------------------------------------------------------
(* What was not withdrawn behind the back of its index.                    *)

\* A request that may still write a into an index, and one that has collected
\* what it deletes.
Writes(l, a) ==
    \/ /\ InPass(l)
       /\ \E i \in DOMAIN l.jobs :
             l.jobs[i] = [assertion |-> a, operation |-> "upsert"]
    \/ l.pc = "rebuild_write" /\ a \in l.ids

Collects(l) == l.pc \in {"delete_receipt", "delete_rows"}

\* A writer still works on what is so, and has undone what it was told to undo.
WriterClear(l) ==
    /\ \A a \in Assertions \ overlapped : Writes(l, a) => memory[a] = "accepted"
    /\ InPass(l) /\ l.jobs[1].assertion \notin overlapped =>
          LET j == l.jobs[1] IN
          /\ l.pc = "unindex_search" => j.assertion \notin vectors
          /\ l.pc = "complete" /\ j.operation = "delete" =>
                j.assertion \notin vectors \union search

\* What a deletion did not collect is in no index, and what it says it removed
\* is not in the vectors.
DeletionClear(l) ==
    /\ Collects(l) =>
          \A a \in (l.scope \ l.ids) \ overlapped :
              Exists(a) => a \notin vectors \union search
    /\ l.pc = "delete_done" => l.ids \cap vectors \subseteq overlapped

Followed(a) ==
    \/ memory[a] = "accepted"
    \/ memory[a] = "superseded" /\ Waiting(a)
    \/ /\ memory[a] = "erased"
       /\ a \notin search
       /\ \E r \in Receipts : /\ a \in deletions[r].ids
                              /\ deletions[r].status # "deleted"

\* Nobody writes what somebody has collected.
Apart ==
    \A v, w \in Workers : Collects(local[w]) =>
        \A a \in local[w].scope \ overlapped : ~Writes(local[v], a)

Workings == \A w \in Workers : WriterClear(local[w]) /\ DeletionClear(local[w])

Clear ==
    /\ Apart
    /\ Workings
    /\ \A a \in (vectors \union search) \ overlapped : Followed(a)

IInv ==
    /\ TypeOK
    /\ \A a \in Assertions : RowOK(a)
    /\ \A r \in Receipts : ReceiptOK(r)
    /\ \A w \in Workers : PassOK(local[w]) /\ DeletionOK(local[w])
    /\ OwnReceipt
    /\ Clear

-----------------------------------------------------------------------------
(* The order of timestamps.                                                *)

LEMMA OrderWithout ==
    ASSUME NEW S, NEW order, NEW X, Orders(order, S)
    PROVE  Orders({p \in order : p[1] \notin X /\ p[2] \notin X}, S \ X)
  <1> DEFINE rest == {p \in order : p[1] \notin X /\ p[2] \notin X}
  <1>1. \A x, y : <<x, y>> \in rest <=>
            <<x, y>> \in order /\ x \notin X /\ y \notin X
    OBVIOUS
  <1>2. rest \subseteq (S \ X) \X (S \ X)
    BY DEF Orders
  <1> HIDE DEF rest
  <1>3. Orders(rest, S \ X)
    BY <1>1, <1>2 DEF Orders
  <1> QED
    BY <1>3 DEF rest

LEMMA OrderNewest ==
    ASSUME NEW S, NEW order, NEW x, x \notin S, Orders(order, S)
    PROVE  Orders(order \union {<<y, x>> : y \in S}, S \union {x})
  <1> DEFINE more == order \union {<<y, x>> : y \in S}
  <1>1. \A y, z : <<y, z>> \in more <=>
            <<y, z>> \in order \/ (y \in S /\ z = x)
    OBVIOUS
  <1>2. more \subseteq (S \union {x}) \X (S \union {x})
    BY DEF Orders
  <1>3. \A y, z : <<y, z>> \in order => y \in S /\ z \in S
    BY DEF Orders
  <1> HIDE DEF more
  <1>4. Orders(more, S \union {x})
    BY <1>1, <1>2, <1>3 DEF Orders
  <1> QED
    BY <1>4 DEF more

LEMMA OrderRename ==
    ASSUME NEW S, NEW order, NEW w \in S, NEW a, a \notin S, Orders(order, S)
    PROVE  LET Owner(x) == IF x = w THEN a ELSE x IN
           Orders({<<Owner(p[1]), Owner(p[2])>> : p \in order},
                  (S \ {w}) \union {a})
  <1> DEFINE Owner(x) == IF x = w THEN a ELSE x
             named == {<<Owner(p[1]), Owner(p[2])>> : p \in order}
             T == (S \ {w}) \union {a}
             Old(x) == IF x = a THEN w ELSE x
  <1>1. \A y, z : <<y, z>> \in order => y \in S /\ z \in S
    BY DEF Orders
  <1>2. \A p \in order : p = <<p[1], p[2]>>
    BY DEF Orders
  <1>3. \A x \in S : Owner(x) \in T /\ Old(Owner(x)) = x
    OBVIOUS
  <1>4. \A x \in T : Old(x) \in S /\ Owner(Old(x)) = x
    OBVIOUS
  <1>5. named \subseteq T \X T
    BY <1>1, <1>2, <1>3
  <1>6. \A y, z \in T : <<y, z>> \in named <=> <<Old(y), Old(z)>> \in order
    <2> SUFFICES ASSUME NEW y \in T, NEW z \in T
                 PROVE  <<y, z>> \in named <=> <<Old(y), Old(z)>> \in order
      OBVIOUS
    <2>1. ASSUME <<Old(y), Old(z)>> \in order PROVE <<y, z>> \in named
      <3>1. PICK p \in order : p = <<Old(y), Old(z)>>
        BY <2>1
      <3>2. <<Owner(p[1]), Owner(p[2])>> = <<y, z>>
        BY <3>1, <1>4
      <3> QED
        BY <3>1, <3>2
    <2>2. ASSUME <<y, z>> \in named PROVE <<Old(y), Old(z)>> \in order
      <3>1. PICK p \in order : <<y, z>> = <<Owner(p[1]), Owner(p[2])>>
        BY <2>2
      <3>2. p[1] \in S /\ p[2] \in S
        BY <1>1, <1>2
      <3>3. Old(y) = p[1] /\ Old(z) = p[2]
        BY <3>1, <3>2, <1>3
      <3> QED
        BY <3>3, <1>2
    <2> QED
      BY <2>1, <2>2
  <1>7. \A y, z \in T : y = z <=> Old(y) = Old(z)
    OBVIOUS
  <1> HIDE DEF named, T, Old, Owner
  <1>8. Orders(named, T)
    BY <1>4, <1>5, <1>6, <1>7 DEF Orders
  <1> QED
    BY <1>8 DEF named, T, Owner

-----------------------------------------------------------------------------
(* Locals.                                                                 *)

Moves(w, l) == l \in Local /\ local' = [local EXCEPT ![w] = l]

LEMMA IdleType == Idle \in Local /\ Idle.pc = "idle"
  BY DEF Idle, Local, Steps

LEMMA MoveFacts ==
    ASSUME TypeOK, NEW w \in Workers, NEW l, Moves(w, l)
    PROVE  /\ local' \in [Workers -> Local]
           /\ local'[w] = l
           /\ \A v \in Workers : v # w => local'[v] = local[v]
  BY DEF TypeOK, Moves

LEMMA GotoMoves ==
    ASSUME TypeOK, NEW w \in Workers, NEW step \in Steps, Goto(w, step)
    PROVE  \E l : /\ Moves(w, l)
                  /\ l.pc = step
                  /\ l.jobs = local[w].jobs /\ l.ids = local[w].ids
                  /\ l.scope = local[w].scope /\ l.receipt = local[w].receipt
  <1>1. PICK old \in Local : old = local[w]
    BY DEF TypeOK
  <1>2. PICK l : l = [old EXCEPT !.pc = step]
    OBVIOUS
  <1>3. /\ l \in Local /\ l.pc = step
        /\ l.jobs = old.jobs /\ l.ids = old.ids
        /\ l.scope = old.scope /\ l.receipt = old.receipt
    BY <1>2 DEF Local
  <1>4. local' = [local EXCEPT ![w] = l]
    BY <1>1, <1>2 DEF Goto
  <1> QED
    BY <1>1, <1>3, <1>4 DEF Moves

LEMMA ReturnMoves ==
    ASSUME NEW w \in Workers, Return(w)
    PROVE  Moves(w, Idle)
  BY IdleType DEF Return, Moves

\* The assertion of a turn.
LEMMA TurnFacts ==
    ASSUME IInv, NEW w \in Workers, InPass(local[w])
    PROVE  /\ local[w].jobs \in Seq(Job) /\ local[w].jobs # <<>>
           /\ 1 \in DOMAIN local[w].jobs
           /\ Turn(w) = local[w].jobs[1]
           /\ Turn(w) \in Job /\ Turn(w).assertion \in Assertions
           /\ Turn(w).operation \in {"upsert", "delete"}
           /\ \A i \in DOMAIN local[w].jobs : JobOK(local[w].jobs[i])
           /\ JobOK(Turn(w))
  <1>1. /\ local[w].jobs \in Seq(Job) /\ local[w].jobs # <<>>
        /\ \A i \in DOMAIN local[w].jobs : JobOK(local[w].jobs[i])
    BY DEF IInv, TypeOK, Local, PassOK
  <1>2. PICK jobs \in Seq(Job) : jobs = local[w].jobs
    BY <1>1
  <1>3. 1 \in DOMAIN jobs /\ Head(jobs) = jobs[1] /\ jobs[1] \in Job
    BY <1>1, <1>2
  <1> QED
    BY <1>1, <1>2, <1>3 DEF Turn, Job

LEMMA NextJobMoves ==
    ASSUME IInv, NEW w \in Workers, InPass(local[w]), NextJob(w)
    PROVE  \E l : /\ Moves(w, l)
                  /\ \/ l = Idle
                     \/ /\ l.pc = "turn" /\ l.jobs # <<>>
                        /\ \A i \in DOMAIN l.jobs :
                              \E k \in DOMAIN local[w].jobs :
                                  l.jobs[i] = local[w].jobs[k]
  <1>1. PICK old \in Local : old = local[w]
    BY DEF IInv, TypeOK
  <1>2. old.jobs \in Seq(Job) /\ old.jobs # <<>>
    BY <1>1, TurnFacts
  <1>3. PICK all \in Seq(Job) : all = old.jobs
    BY <1>2
  <1>4. PICK jobs : jobs = Tail(all)
    OBVIOUS
  <1>5. /\ jobs \in Seq(Job) /\ Len(jobs) = Len(all) - 1
        /\ \A i \in 1..Len(jobs) : jobs[i] = all[i + 1]
    BY <1>2, <1>3, <1>4, HeadTailProperties
  <1>6. CASE jobs = <<>>
    BY <1>1, <1>3, <1>4, <1>6, ReturnMoves DEF NextJob
  <1>7. CASE jobs # <<>>
    <2>1. \A i \in DOMAIN jobs :
            i + 1 \in DOMAIN all /\ jobs[i] = all[i + 1]
      BY <1>5
    <2>2. PICK l : l = [old EXCEPT !.pc = "turn", !.jobs = jobs]
      OBVIOUS
    <2>3. l \in Local /\ l.pc = "turn" /\ l.jobs = jobs
      BY <1>5, <2>2 DEF Local, Steps
    <2>4. local' = [local EXCEPT ![w] = l]
      BY <1>1, <1>3, <1>4, <1>7, <2>2 DEF NextJob
    <2>5. \A i \in DOMAIN l.jobs :
            \E k \in DOMAIN local[w].jobs : l.jobs[i] = local[w].jobs[k]
      BY <1>1, <1>3, <2>1, <2>3
    <2> QED
      BY <1>7, <2>3, <2>4, <2>5 DEF Moves
  <1> QED
    BY <1>6, <1>7

\* How the outbox changes: an entry is written, or its state is.
LEMMA WritesEntry ==
    ASSUME TypeOK, NEW a \in Assertions, NEW operation \in {"upsert", "delete"},
           NEW state \in {"pending", "complete", "repair_queued"},
           outbox' = [outbox EXCEPT ![a] =
                        [operation |-> operation, state |-> state]]
    PROVE  /\ outbox' \in [Assertions -> Entry]
           /\ outbox'[a].operation = operation /\ outbox'[a].state = state
           /\ \A b \in Assertions : b # a => outbox'[b] = outbox[b]
  <1>1. PICK e : e = [operation |-> operation, state |-> state]
    OBVIOUS
  <1>2. e \in Entry /\ e.operation = operation /\ e.state = state
    BY <1>1 DEF Entry
  <1>3. outbox' = [outbox EXCEPT ![a] = e]
    BY <1>1
  <1> QED
    BY <1>2, <1>3 DEF TypeOK

LEMMA WritesState ==
    ASSUME TypeOK, NEW a \in Assertions,
           NEW state \in {"none", "pending", "complete", "repair_queued"},
           outbox' = [outbox EXCEPT ![a].state = state]
    PROVE  /\ outbox' \in [Assertions -> Entry]
           /\ outbox'[a].operation = outbox[a].operation
           /\ outbox'[a].state = state
           /\ outbox[a].state = state => outbox' = outbox
           /\ \A b \in Assertions : b # a => outbox'[b] = outbox[b]
  <1>1. PICK old \in Entry : old = outbox[a]
    BY DEF TypeOK
  <1>2. PICK e : e = [old EXCEPT !.state = state]
    OBVIOUS
  <1>3. /\ e \in Entry /\ e.operation = old.operation /\ e.state = state
        /\ old.state = state => e = old
    BY <1>2 DEF Entry
  <1>4. outbox' = [outbox EXCEPT ![a] = e]
    BY <1>1, <1>2
  <1> QED
    BY <1>1, <1>3, <1>4 DEF TypeOK

LEMMA CompletesEntry ==
    ASSUME TypeOK, NEW a \in Assertions, outbox' = CompleteEntry(a)
    PROVE  /\ outbox' \in [Assertions -> Entry]
           /\ outbox'[a].operation = outbox[a].operation
           /\ outbox'[a].state = IF outbox[a].state = "none" THEN "none" ELSE "complete"
           /\ outbox[a].state = "none" => outbox' = outbox
           /\ \A b \in Assertions : b # a => outbox'[b] = outbox[b]
  <1>1. CASE outbox[a].state = "none"
    <2>1. outbox' = [outbox EXCEPT ![a].state = "none"]
      BY <1>1 DEF CompleteEntry
    <2> QED
      BY <1>1, <2>1, WritesState
  <1>2. CASE outbox[a].state # "none"
    <2>1. outbox' = [outbox EXCEPT ![a].state = "complete"]
      BY <1>2 DEF CompleteEntry
    <2> QED
      BY <1>2, <2>1, WritesState
  <1> QED
    BY <1>1, <1>2

-----------------------------------------------------------------------------
(* What no step undoes.                                                    *)

Keeps ==
    /\ overlapped \subseteq overlapped'
    /\ \A a \in Assertions :
          /\ memory[a] # "absent" => memory'[a] # "absent"
          /\ memory'[a] = "accepted" => memory[a] \in {"absent", "accepted"}
          /\ memory[a] = "erased" => memory'[a] = "erased"
          /\ memory[a] # "absent" /\ Wanted(a)' => Wanted(a)
          /\ Wanted(a) /\ Wanted(a)' =>
                /\ a \in vectors => a \in vectors'
                /\ a \in search => a \in search'

\* What no step undoes in memory, the outbox and the indexes of one assertion.
LEMMA KeepsStill ==
    ASSUME overlapped \subseteq overlapped', UNCHANGED <<memory, outbox>>,
           \A a \in Assertions : Wanted(a) =>
              /\ a \in vectors => a \in vectors'
              /\ a \in search => a \in search'
    PROVE  Keeps
  BY DEF Keeps, Wanted

LEMMA OutboxKeeps ==
    ASSUME IInv, UNCHANGED <<memory, vectors, search, overlapped>>,
           NEW a \in Assertions,
           \A b \in Assertions : b # a => outbox'[b] = outbox[b],
           outbox'[a].operation = outbox[a].operation,
           outbox[a].state = "none" => outbox'[a].state = "none"
    PROVE  Keeps
  <1>1. \A b \in Assertions : Wanted(b)' => Wanted(b)
    BY DEF Wanted
  <1> QED
    BY <1>1 DEF Keeps

LEMMA EnqueueKeeps ==
    ASSUME IInv, NEW a \in Assertions, Publish(a) \/ Rollback(a)
    PROVE  Keeps
  <1>1. PICK operation \in {"upsert", "delete"} :
          /\ Enqueue(a, operation)
          /\ operation = "upsert" => Publish(a)
          /\ operation = "delete" => Rollback(a)
    BY DEF Publish, Rollback
  <1>2. /\ \A b \in Assertions : b # a => outbox'[b] = outbox[b]
        /\ outbox'[a].operation = operation
    <2>1. PICK e : e = [operation |-> operation, state |-> "pending"]
      OBVIOUS
    <2> QED
      BY <1>1, <2>1 DEF Enqueue, IInv, TypeOK
  <1>3. /\ UNCHANGED <<vectors, search>> /\ overlapped \subseteq overlapped'
        /\ \A b \in Assertions : b # a => memory'[b] = memory[b]
    BY <1>1 DEF Publish, Rollback, NoteWithdrawal, IInv, TypeOK
  <1>4. CASE operation = "upsert"
    <2>1. memory[a] = "absent" /\ memory'[a] = "accepted"
      BY <1>1, <1>4 DEF Publish, IInv, TypeOK
    <2> QED
      BY <1>2, <1>3, <2>1 DEF Keeps, Wanted
  <1>5. CASE operation = "delete"
    <2>1. memory[a] = "accepted" /\ memory'[a] = "superseded" /\ ~Wanted(a)'
      BY <1>1, <1>2, <1>5 DEF Rollback, Wanted, IInv, TypeOK
    <2> QED
      BY <1>2, <1>3, <2>1 DEF Keeps, Wanted
  <1> QED
    BY <1>4, <1>5

LEMMA NextKeeps ==
    ASSUME IInv, Next
    PROVE  Keeps
  <1>1. ASSUME NEW a \in Assertions, RollbackUnlisted(a) PROVE Keeps
    BY <1>1 DEF RollbackUnlisted, Keeps, Wanted, IInv, TypeOK
  <1>2. ASSUME NEW w \in Workers, RepairDeleteVector(w) PROVE Keeps
    <2>1. JobOK(Turn(w))
      BY <1>2, TurnFacts DEF RepairDeleteVector, InPass, At
    <2> QED
      BY <1>2, <2>1, KeepsStill DEF RepairDeleteVector, JobOK
  <1>3. ASSUME NEW w \in Workers, RepairDeleteSearch(w) PROVE Keeps
    <2>1. JobOK(Turn(w)) /\ Turn(w).operation = "delete"
      BY <1>3, TurnFacts DEF RepairDeleteSearch, InPass, At, IInv, PassOK
    <2> QED
      BY <1>3, <2>1, KeepsStill DEF RepairDeleteSearch, JobOK
  <1>4. ASSUME NEW w \in Workers, DeleteRows(w) PROVE Keeps
    <2>1. PICK scope \in SUBSET Assertions : scope = local[w].scope
      BY DEF IInv, TypeOK, Local
    <2>2. /\ UNCHANGED <<vectors, overlapped>> /\ search' = search \ scope
          /\ \A a \in Assertions : a \notin scope =>
                memory'[a] = memory[a] /\ outbox'[a] = outbox[a]
      BY <1>4, <2>1 DEF DeleteRows, Erased, SearchErased
    <2>3. \A a \in scope : ~Wanted(a)'
      BY <1>4, <2>1 DEF DeleteRows, NoEntry, Wanted
    <2>4. \A a \in Assertions :
            /\ memory[a] # "absent" => memory'[a] # "absent"
            /\ memory'[a] = "accepted" => memory[a] \in {"absent", "accepted"}
            /\ memory[a] = "erased" => memory'[a] = "erased"
      BY <1>4 DEF DeleteRows, Erased
    <2> QED
      BY <2>2, <2>3, <2>4 DEF Keeps, Wanted
  <1>5. ASSUME NEW w \in Workers, DeleteVectors(w) PROVE Keeps
    <2>1. \A a \in local[w].ids : a \in Assertions /\ memory[a] = "erased"
      BY <1>5 DEF DeleteVectors, At, IInv, DeletionOK, TypeOK, Local
    <2>2. \A a \in local[w].ids : outbox[a] = NoEntry
      BY <2>1 DEF IInv, RowOK
    <2>3. \A a \in local[w].ids : ~Wanted(a)
      BY <2>2 DEF NoEntry, Wanted
    <2> QED
      BY <1>5, <2>3, KeepsStill DEF DeleteVectors
  <1>6. ASSUME NEW w \in Workers, RepairComplete(w) PROVE Keeps
    <2>1. PICK a \in Assertions : a = Turn(w).assertion
      BY <1>6, TurnFacts DEF RepairComplete, InPass, At
    <2> QED
      BY <1>6, <2>1, CompletesEntry, OutboxKeeps DEF RepairComplete, IInv
  <1>7. ASSUME NEW w \in Workers, RepairFailed(w) PROVE Keeps
    <2>1. PICK a \in Assertions : a = Turn(w).assertion
      BY <1>7, TurnFacts DEF RepairFailed, InPass, At
    <2>2. UNCHANGED <<memory, vectors, search, overlapped>>
      BY <1>7 DEF RepairFailed
    <2>3. CASE outbox[a].state = "none"
      BY <1>7, <2>1, <2>2, <2>3, KeepsStill DEF RepairFailed
    <2>4. CASE outbox[a].state # "none"
      <3>1. /\ outbox'[a].operation = outbox[a].operation
            /\ \A b \in Assertions : b # a => outbox'[b] = outbox[b]
        BY <1>7, <2>1, <2>4, WritesState DEF RepairFailed, IInv
      <3> QED
        BY <2>2, <2>4, <3>1, OutboxKeeps
    <2> QED
      BY <2>3, <2>4
  <1>8. ASSUME NEW w \in Workers,
               \/ RepairRead(w) \/ RepairReadAssertion(w) \/ RepairUpsertVector(w)
               \/ RepairInsertSearch(w) \/ RepairThrows(w)
               \/ RebuildWrite(w) \/ DeleteInsertReceipt(w)
               \/ DeleteRowsAbort(w) \/ DeleteVectorsThrow(w) \/ DeleteDone(w)
               \/ DeleteQueued(w) \/ Crash(w)
               \/ \E scope \in Scopes : RebuildRead(w, scope) \/ DeleteCollect(w, scope)
        PROVE  Keeps
    <2>1. /\ UNCHANGED <<memory, outbox>>
          /\ vectors \subseteq vectors' /\ search \subseteq search'
          /\ overlapped \subseteq overlapped'
      BY <1>8 DEF RepairRead, RepairReadAssertion, RepairUpsertVector,
         RepairInsertSearch, RepairThrows,
         RebuildWrite, DeleteInsertReceipt, DeleteRowsAbort,
         DeleteVectorsThrow, DeleteDone, DeleteQueued, UpdateReceipt, Crash,
         RebuildRead, DeleteCollect, NoteReading, NoteWithdrawal
    <2> QED
      BY <2>1, KeepsStill
  <1> QED
    BY <1>1, <1>2, <1>3, <1>4, <1>5, <1>6, <1>7, <1>8, EnqueueKeeps
       DEF Next, Repair, Privacy

LEMMA JobsStay ==
    ASSUME Keeps, NEW jobs \in Seq(Job), \A i \in DOMAIN jobs : JobOK(jobs[i])
    PROVE  \A i \in DOMAIN jobs : JobOK(jobs[i])'
  <1> SUFFICES ASSUME NEW i \in DOMAIN jobs PROVE JobOK(jobs[i])'
    OBVIOUS
  <1>1. PICK j \in Job : j = jobs[i]
    OBVIOUS
  <1>2. JobOK(j)'
    BY <1>1 DEF JobOK, Keeps, Job
  <1> QED
    BY <1>1, <1>2

LEMMA PassStays ==
    ASSUME Keeps, NEW l \in Local, PassOK(l)
    PROVE  PassOK(l)'
  <1> SUFFICES ASSUME InPass(l) PROVE PassOK(l)'
    BY DEF PassOK, InPass
  <1>1. /\ l.jobs \in Seq(Job) /\ l.jobs # <<>>
        /\ \A i \in DOMAIN l.jobs : JobOK(l.jobs[i])
    BY DEF PassOK, Local
  <1>2. \A i \in DOMAIN l.jobs : JobOK(l.jobs[i])'
    BY <1>1, JobsStay
  <1>3. PICK j : j = l.jobs[1]
    OBVIOUS
  <1>4. j \in Job /\ JobOK(j)
    BY <1>1, <1>3
  <1>5. /\ l.pc \in {"index_search", "complete"} /\ Wanted(j.assertion)' =>
              j.assertion \in vectors'
        /\ l.pc = "complete" /\ Wanted(j.assertion)' =>
              j.assertion \in search'
    <2>1. Wanted(j.assertion)' => Wanted(j.assertion)
      BY <1>4 DEF Keeps, JobOK, Job
    <2> QED
      BY <1>3, <1>4, <2>1 DEF PassOK, Keeps, Job
  <1>6. /\ l.pc \in {"embed", "index_search"} => j.operation = "upsert"
        /\ l.pc = "unindex_search" => j.operation = "delete"
    BY <1>3 DEF PassOK
  <1> QED
    BY <1>1, <1>2, <1>3, <1>5, <1>6 DEF PassOK, Wanted

LEMMA DeletionStays ==
    ASSUME Keeps, NEW l \in Local, DeletionOK(l),
           HasReceipt(l) => deletions'[l.receipt] = deletions[l.receipt]
    PROVE  DeletionOK(l)'
  <1>1. l.ids \subseteq Assertions
    BY DEF Local
  <1> QED
    BY <1>1 DEF Keeps, DeletionOK, HasReceipt, InDeletion

-----------------------------------------------------------------------------
(* Requests keep their part.                                               *)

LocalsOK ==
    /\ local \in [Workers -> Local]
    /\ \A w \in Workers : PassOK(local[w]) /\ DeletionOK(local[w])
    /\ OwnReceipt

LEMMA MoveKeeps ==
    ASSUME IInv, Keeps, NEW w \in Workers, NEW l, Moves(w, l),
           PassOK(l)', DeletionOK(l)',
           \A v \in Workers \ {w} : HasReceipt(local[v]) =>
              /\ deletions'[local[v].receipt] = deletions[local[v].receipt]
              /\ HasReceipt(l) => l.receipt # local[v].receipt
    PROVE  LocalsOK'
  <1>1. /\ local' \in [Workers -> Local]
        /\ local'[w] = l
        /\ \A v \in Workers : v # w => local'[v] = local[v]
    BY MoveFacts DEF IInv
  <1>2. \A v \in Workers : (PassOK(local[v]) /\ DeletionOK(local[v]))'
    <2> SUFFICES ASSUME NEW v \in Workers
                 PROVE  (PassOK(local[v]) /\ DeletionOK(local[v]))'
      OBVIOUS
    <2>1. CASE v = w
      BY <1>1, <2>1 DEF PassOK, DeletionOK, InPass, InDeletion, HasReceipt, JobOK,
                            Wanted
    <2>2. CASE v # w
      <3>1. PICK k \in Local : k = local[v]
        BY DEF IInv, TypeOK
      <3>2. PassOK(k)' /\ DeletionOK(k)'
        BY <2>2, <3>1, PassStays, DeletionStays DEF IInv
      <3>3. local'[v] = k
        BY <1>1, <2>2, <3>1
      <3> QED
        BY <3>2, <3>3
           DEF PassOK, DeletionOK, InPass, InDeletion, HasReceipt, JobOK,
               Wanted
    <2> QED
      BY <2>1, <2>2
  <1>3. OwnReceipt'
    BY <1>1 DEF IInv, OwnReceipt, HasReceipt, InDeletion
  <1> QED
    BY <1>1, <1>2, <1>3 DEF LocalsOK

\* Nothing but deletion receipts tells a deletion from another.
LEMMA QuietMoves ==
    ASSUME IInv, Keeps, UNCHANGED deletions, NEW w \in Workers, NEW l,
           Moves(w, l), PassOK(l)', DeletionOK(l)',
           HasReceipt(l) => HasReceipt(local[w]) /\ l.receipt = local[w].receipt
    PROVE  LocalsOK'
  BY MoveKeeps DEF IInv, OwnReceipt

LEMMA IdleOK == PassOK(Idle)' /\ DeletionOK(Idle)' /\ ~HasReceipt(Idle)
  BY DEF PassOK, DeletionOK, InPass, InDeletion, HasReceipt, Idle

LEMMA ReturnKeeps ==
    ASSUME IInv, Keeps, UNCHANGED deletions, NEW w \in Workers, Return(w)
    PROVE  LocalsOK'
  BY ReturnMoves, IdleOK, QuietMoves

LEMMA PassGoesOn ==
    ASSUME IInv, Keeps, UNCHANGED deletions,
           NEW w \in Workers, InPass(local[w]),
           NEW step \in {"turn", "embed", "index_search", "unindex_search",
                         "complete", "failed"},
           Goto(w, step),
           step \in {"embed", "index_search"} => Turn(w).operation = "upsert",
           step = "unindex_search" => Turn(w).operation = "delete",
           NEW a \in Assertions, a = Turn(w).assertion,
           Wanted(a)' =>
              /\ step \in {"index_search", "complete"} => a \in vectors'
              /\ step = "complete" => a \in search'
    PROVE  LocalsOK'
  <1>1. step \in Steps
    BY DEF Steps
  <1>2. PICK l : /\ Moves(w, l)
                 /\ l.pc = step
                 /\ l.jobs = local[w].jobs
    BY <1>1, GotoMoves DEF IInv
  <1>3. /\ l.jobs \in Seq(Job) /\ l.jobs # <<>>
        /\ \A i \in DOMAIN l.jobs : JobOK(l.jobs[i])
    BY <1>2, TurnFacts
  <1>4. \A i \in DOMAIN l.jobs : JobOK(l.jobs[i])'
    BY <1>3, JobsStay
  <1>5. Turn(w) = l.jobs[1]
    BY <1>2, TurnFacts
  <1>6. a = l.jobs[1].assertion
    BY <1>5
  <1>7. PassOK(l)'
    BY <1>2, <1>3, <1>4, <1>5, <1>6 DEF PassOK, Wanted
  <1>8. DeletionOK(l)' /\ ~HasReceipt(l)
    BY <1>2 DEF DeletionOK, InDeletion, HasReceipt
  <1> QED
    BY <1>2, <1>7, <1>8, QuietMoves

LEMMA NextJobKeeps ==
    ASSUME IInv, Keeps, UNCHANGED deletions,
           NEW w \in Workers, InPass(local[w]), NextJob(w)
    PROVE  LocalsOK'
  <1>1. PICK l : /\ Moves(w, l)
                 /\ \/ l = Idle
                    \/ /\ l.pc = "turn" /\ l.jobs # <<>>
                       /\ \A i \in DOMAIN l.jobs :
                             \E k \in DOMAIN local[w].jobs :
                                 l.jobs[i] = local[w].jobs[k]
    BY NextJobMoves
  <1>2. CASE l = Idle
    BY <1>1, <1>2, IdleOK, QuietMoves
  <1>3. CASE l # Idle
    <2>1. l.jobs \in Seq(Job)
      BY <1>1 DEF Moves, Local
    <2>2. \A i \in DOMAIN l.jobs : JobOK(l.jobs[i])
      BY <1>1, <1>3, TurnFacts
    <2>3. \A i \in DOMAIN l.jobs : JobOK(l.jobs[i])'
      BY <2>1, <2>2, JobsStay
    <2>4. PassOK(l)' /\ DeletionOK(l)' /\ ~HasReceipt(l)
      BY <1>1, <1>3, <2>3 DEF PassOK, DeletionOK, InDeletion, HasReceipt
    <2> QED
      BY <1>1, <2>4, QuietMoves
  <1> QED
    BY <1>2, <1>3

\* A pass that begins takes what its rows say.
LEMMA ReadKeeps ==
    ASSUME IInv, Keeps, NEW w \in Workers, RepairRead(w)
    PROVE  LocalsOK'
  <1>1. PICK n \in 1..Limit :
          \E rows \in [1..n -> Assertions] :
            /\ Pending(rows)
            /\ local' = [local EXCEPT ![w].pc = "turn",
                  ![w].jobs = [i \in 1..n |-> [assertion |-> rows[i],
                                  operation |-> outbox[rows[i]].operation]]]
    BY DEF RepairRead
  <1>2. PICK rows \in [1..n -> Assertions] :
            /\ Pending(rows)
            /\ local' = [local EXCEPT ![w].pc = "turn",
                  ![w].jobs = [i \in 1..n |-> [assertion |-> rows[i],
                                  operation |-> outbox[rows[i]].operation]]]
    BY <1>1
  <1>3. n \in Nat \ {0}
    BY ConstantsAssumption
  <1>4. PICK jobs : jobs = [i \in 1..n |-> [assertion |-> rows[i],
                               operation |-> outbox[rows[i]].operation]]
    OBVIOUS
  <1>5. \A i \in 1..n : /\ Waiting(rows[i])
                        /\ outbox[rows[i]] \in Entry
    BY <1>2 DEF Pending, IInv, TypeOK
  <1>6. \A i \in 1..n : /\ jobs[i] \in Job
                        /\ jobs[i].assertion = rows[i]
                        /\ jobs[i].operation = outbox[rows[i]].operation
    BY <1>4, <1>5 DEF Entry, Job
  <1>7. jobs \in Seq(Job) /\ DOMAIN jobs = 1..n /\ jobs # <<>>
    <2>1. jobs \in [1..n -> Job] /\ DOMAIN jobs = 1..n
      BY <1>4, <1>6
    <2>2. jobs \in Seq(Job)
      BY <1>3, <2>1
    <2> QED
      BY <1>3, <2>1, <2>2
  <1>8. \A i \in 1..n : JobOK(jobs[i])
    BY <1>2, <1>5, <1>6 DEF JobOK, IInv, RowOK, Waiting, NoEntry, Wanted
  <1>9. PICK old \in Local : old = local[w]
    BY DEF IInv, TypeOK
  <1>10. PICK l : l = [old EXCEPT !.pc = "turn", !.jobs = jobs]
    OBVIOUS
  <1>11. l \in Local /\ l.pc = "turn" /\ l.jobs = jobs
    BY <1>7, <1>10 DEF Local, Steps
  <1>12. Moves(w, l)
    BY <1>2, <1>4, <1>9, <1>10, <1>11 DEF Moves
  <1>13. \A i \in DOMAIN jobs : JobOK(jobs[i])'
    BY <1>7, <1>8, JobsStay
  <1>14. PassOK(l)' /\ DeletionOK(l)' /\ ~HasReceipt(l)
    BY <1>7, <1>11, <1>13 DEF PassOK, DeletionOK, InDeletion, HasReceipt
  <1> QED
    BY <1>12, <1>14, QuietMoves DEF RepairRead

LEMMA RepairLocals ==
    ASSUME IInv, Keeps, NEW w \in Workers, Repair(w)
    PROVE  LocalsOK'
  <1>1. CASE RepairDeleteVector(w) \/ RepairReadAssertion(w) \/ RepairThrows(w)
    <2>1. PICK step \in {"embed", "unindex_search", "failed"} :
            /\ Goto(w, step)
            /\ step = "unindex_search" => Turn(w).operation = "delete"
            /\ step = "embed" => Turn(w).operation = "upsert"
      BY <1>1 DEF RepairDeleteVector, RepairReadAssertion, RepairThrows, Catch
    <2>2. InPass(local[w]) /\ UNCHANGED deletions
      BY <1>1 DEF RepairDeleteVector, RepairReadAssertion, RepairThrows, InPass, At
    <2>3. PICK a \in Assertions : a = Turn(w).assertion
      BY <2>2, TurnFacts
    <2> QED
      BY <2>1, <2>2, <2>3, PassGoesOn
  <1>2. CASE RepairDeleteSearch(w)
    <2>1. InPass(local[w]) /\ Turn(w).operation = "delete"
      BY <1>2, TurnFacts DEF RepairDeleteSearch, InPass, At, IInv, PassOK
    <2>2. PICK a \in Assertions : a = Turn(w).assertion
      BY <2>1, TurnFacts
    <2>3. ~Wanted(a)'
      BY <1>2, <2>1, <2>2, TurnFacts DEF RepairDeleteSearch, JobOK, Wanted
    <2> QED
      BY <1>2, <2>1, <2>2, <2>3, PassGoesOn DEF RepairDeleteSearch
  <1>3. CASE RepairUpsertVector(w)
    <2>1. InPass(local[w]) /\ Turn(w).operation = "upsert"
      BY <1>3, TurnFacts DEF RepairUpsertVector, InPass, At, IInv, PassOK
    <2>2. PICK a \in Assertions : a = Turn(w).assertion
      BY <2>1, TurnFacts
    <2> QED
      BY <1>3, <2>1, <2>2, PassGoesOn DEF RepairUpsertVector
  <1>4. CASE RepairInsertSearch(w)
    <2>1. InPass(local[w])
      BY <1>4 DEF RepairInsertSearch, InPass, At
    <2>2. PICK a \in Assertions : a = Turn(w).assertion
      BY <2>1, TurnFacts
    <2>3. Wanted(a) => a \in vectors
      BY <1>4, <2>1, <2>2, TurnFacts DEF RepairInsertSearch, At, IInv, PassOK
    <2>4. Wanted(a)' => Wanted(a)
      BY <1>4 DEF RepairInsertSearch, Wanted
    <2> QED
      BY <1>4, <2>1, <2>2, <2>3, <2>4, PassGoesOn DEF RepairInsertSearch
  <1>5. CASE RepairComplete(w)
    BY <1>5, NextJobKeeps DEF RepairComplete, InPass, At
  <1>6. CASE RepairFailed(w)
    BY <1>6, NextJobKeeps DEF RepairFailed, InPass, At
  <1> QED
    BY <1>1, <1>2, <1>3, <1>4, <1>5, <1>6, ReadKeeps DEF Repair

\* A request that starts to rebuild or to delete.
LEMMA BeginKeeps ==
    ASSUME IInv, Keeps, UNCHANGED deletions, NEW w \in Workers,
           NEW pc \in {"rebuild_write", "delete_receipt"},
           NEW scope \in SUBSET Assertions, NEW ids \in SUBSET Assertions,
           pc = "delete_receipt" =>
              ids \subseteq scope /\ \A a \in ids : memory[a] # "absent",
           NEW l, Moves(w, l), l.pc = pc, l.ids = ids, l.scope = scope
    PROVE  LocalsOK'
  <1>1. PassOK(l)' /\ ~HasReceipt(l)
    BY DEF PassOK, InPass, HasReceipt, InDeletion
  <1>2. DeletionOK(l) /\ l \in Local
    BY <1>1 DEF DeletionOK, InDeletion, Moves
  <1>3. DeletionOK(l)'
    BY <1>1, <1>2, DeletionStays
  <1> QED
    BY <1>1, <1>3, QuietMoves

LEMMA RebuildReadKeeps ==
    ASSUME IInv, Keeps, NEW w \in Workers, NEW scope \in Scopes,
           RebuildRead(w, scope)
    PROVE  LocalsOK'
  <1>1. PICK ids : ids = {a \in scope : memory[a] = "accepted"}
    OBVIOUS
  <1>2. ids \in SUBSET Assertions
    BY <1>1, ConstantsAssumption
  <1>3. PICK start \in Local : start = Idle
    BY IdleType
  <1>4. PICK l : l = [start EXCEPT !.pc = "rebuild_write", !.ids = ids]
    OBVIOUS
  <1>5. l \in Local /\ l.pc = "rebuild_write" /\ l.ids = ids
        /\ l.scope \in SUBSET Assertions
    BY <1>2, <1>4 DEF Local, Steps
  <1>6. Moves(w, l) /\ UNCHANGED deletions
    BY <1>1, <1>3, <1>4, <1>5 DEF RebuildRead, Moves
  <1> QED
    BY <1>2, <1>5, <1>6, BeginKeeps

LEMMA DeleteCollectKeeps ==
    ASSUME IInv, Keeps, NEW w \in Workers, NEW scope \in Scopes,
           DeleteCollect(w, scope)
    PROVE  LocalsOK'
  <1>1. PICK ids : ids = Collected(scope)
    OBVIOUS
  <1>2. PICK start \in Local : start = Idle
    BY IdleType
  <1>3. PICK l : l = [start EXCEPT !.pc = "delete_receipt", !.scope = scope, !.ids = ids]
    OBVIOUS
  <1>4. /\ scope \in SUBSET Assertions /\ ids \in SUBSET Assertions
        /\ ids \subseteq scope /\ \A a \in ids : memory[a] # "absent"
    BY <1>1, ConstantsAssumption DEF Collected, Exists
  <1>5. l \in Local /\ l.pc = "delete_receipt" /\ l.ids = ids /\ l.scope = scope
    BY <1>3, <1>4 DEF Local, Steps
  <1>6. Moves(w, l) /\ UNCHANGED deletions
    BY <1>1, <1>2, <1>3, <1>5 DEF DeleteCollect, Moves
  <1> QED
    BY <1>4, <1>5, <1>6, BeginKeeps

\* The receipt is one that nobody else has.
LEMMA InsertReceiptKeeps ==
    ASSUME IInv, Keeps, NEW w \in Workers, DeleteInsertReceipt(w)
    PROVE  LocalsOK'
  <1>1. PICK r \in Receipts :
          /\ deletions[r].status = "none"
          /\ deletions' = [deletions EXCEPT ![r] =
                              [status |-> "pending", ids |-> local[w].ids]]
          /\ local' = [local EXCEPT ![w].pc = "delete_rows", ![w].receipt = r]
    BY DEF DeleteInsertReceipt
  <1>2. PICK old \in Local : old = local[w]
    BY DEF IInv, TypeOK
  <1>3. PICK l : l = [old EXCEPT !.pc = "delete_rows", !.receipt = r]
    OBVIOUS
  <1>4. /\ l \in Local /\ l.pc = "delete_rows" /\ l.receipt = r
        /\ l.ids = old.ids /\ l.scope = old.scope /\ l.ids \subseteq Assertions
    BY <1>3 DEF Local, Steps
  <1>5. Moves(w, l)
    BY <1>1, <1>2, <1>3, <1>4 DEF Moves
  <1>6. l.ids \subseteq l.scope /\ \A a \in l.ids : memory[a] # "absent"
    BY <1>2, <1>4 DEF DeleteInsertReceipt, At, IInv, DeletionOK, InDeletion
  <1>7. deletions'[r].status = "pending" /\ deletions'[r].ids = l.ids
    BY <1>1, <1>2, <1>4 DEF IInv, TypeOK
  <1>8. PassOK(l)' /\ DeletionOK(l)'
    BY <1>4, <1>6, <1>7 DEF PassOK, InPass, DeletionOK, HasReceipt, InDeletion, Keeps
  <1>9. \A v \in Workers \ {w} : HasReceipt(local[v]) =>
              /\ deletions'[local[v].receipt] = deletions[local[v].receipt]
              /\ l.receipt # local[v].receipt
    BY <1>1, <1>4 DEF IInv, DeletionOK, TypeOK
  <1> QED
    BY <1>5, <1>8, <1>9, MoveKeeps

\* A deletion that goes on with the receipt it has.
LEMMA DeletionGoesOn ==
    ASSUME IInv, Keeps, UNCHANGED deletions, NEW w \in Workers,
           HasReceipt(local[w]),
           NEW step \in {"delete_vectors", "delete_failed", "delete_done"},
           Goto(w, step),
           \A a \in local[w].ids : memory'[a] = "erased"
    PROVE  LocalsOK'
  <1>1. step \in Steps
    BY DEF Steps
  <1>2. PICK l : /\ Moves(w, l)
                 /\ l.pc = step
                 /\ l.ids = local[w].ids /\ l.scope = local[w].scope
                 /\ l.receipt = local[w].receipt
    BY <1>1, GotoMoves DEF IInv
  <1>3. PassOK(l)' /\ HasReceipt(l)
    BY <1>2 DEF PassOK, InPass, HasReceipt, InDeletion
  <1>4. /\ l.ids \subseteq l.scope /\ l.receipt \in Receipts
        /\ deletions[l.receipt].status = "pending"
        /\ deletions[l.receipt].ids = l.ids
    BY <1>2 DEF IInv, DeletionOK, HasReceipt
  <1>5. DeletionOK(l)'
    BY <1>2, <1>4 DEF DeletionOK
  <1> QED
    BY <1>2, <1>3, <1>5, QuietMoves

LEMMA UpdateReceiptKeeps ==
    ASSUME IInv, Keeps, NEW w \in Workers, HasReceipt(local[w]),
           NEW status, UpdateReceipt(w, status)
    PROVE  LocalsOK'
  <1>1. Moves(w, Idle)
    BY ReturnMoves DEF UpdateReceipt
  <1>2. \A v \in Workers \ {w} : HasReceipt(local[v]) =>
              deletions'[local[v].receipt] = deletions[local[v].receipt]
    BY DEF UpdateReceipt, IInv, OwnReceipt, DeletionOK, TypeOK
  <1> QED
    BY <1>1, <1>2, IdleOK, MoveKeeps

\* Everything the deletion collected is erased by its batch.
LEMMA BatchErases ==
    ASSUME IInv, NEW w \in Workers, DeleteRows(w)
    PROVE  \A a \in local[w].ids : memory'[a] = "erased"
  <1>1. /\ local[w].ids \subseteq local[w].scope
        /\ \A a \in local[w].ids : memory[a] # "absent"
        /\ local[w].ids \subseteq Assertions
    BY DEF DeleteRows, At, IInv, DeletionOK, InDeletion, TypeOK, Local
  <1>2. \A a \in local[w].ids : Exists(a) \/ memory[a] = "erased"
    BY <1>1 DEF Exists, IInv, TypeOK
  <1> QED
    BY <1>1, <1>2 DEF DeleteRows, Erased

LEMMA PrivacyLocals ==
    ASSUME IInv, Keeps, NEW w \in Workers, Privacy(w)
    PROVE  LocalsOK'
  <1>1. CASE RebuildWrite(w) \/ DeleteRowsAbort(w)
    BY <1>1, ReturnKeeps DEF RebuildWrite, DeleteRowsAbort, AbortEscapes
  <1>2. CASE DeleteRows(w)
    BY <1>2, BatchErases, DeletionGoesOn
       DEF DeleteRows, At, HasReceipt, InDeletion
  <1>3. CASE DeleteVectors(w) \/ DeleteVectorsThrow(w)
    <2>1. HasReceipt(local[w]) /\ \A a \in local[w].ids : memory[a] = "erased"
      BY <1>3 DEF DeleteVectors, DeleteVectorsThrow, At, IInv, DeletionOK,
                  HasReceipt, InDeletion
    <2> QED
      BY <1>3, <2>1, DeletionGoesOn DEF DeleteVectors, DeleteVectorsThrow
  <1>4. CASE DeleteDone(w) \/ DeleteQueued(w)
    BY <1>4, UpdateReceiptKeeps
       DEF DeleteDone, DeleteQueued, At, HasReceipt, InDeletion
  <1> QED
    BY <1>1, <1>2, <1>3, <1>4, RebuildReadKeeps, DeleteCollectKeeps,
       InsertReceiptKeeps DEF Privacy

LEMMA StepLocals ==
    ASSUME IInv, Next
    PROVE  LocalsOK'
  <1>1. Keeps
    BY NextKeeps
  <1>2. ASSUME NEW a \in Assertions,
               Publish(a) \/ Rollback(a) \/ RollbackUnlisted(a)
        PROVE  LocalsOK'
    <2>1. UNCHANGED <<local, deletions>>
      BY <1>2 DEF Publish, Rollback, RollbackUnlisted
    <2>2. \A w \in Workers : (PassOK(local[w]) /\ DeletionOK(local[w]))'
      <3> SUFFICES ASSUME NEW w \in Workers
                   PROVE  (PassOK(local[w]) /\ DeletionOK(local[w]))'
        OBVIOUS
      <3>1. PICK l \in Local : l = local[w]
        BY DEF IInv, TypeOK
      <3>2. PassOK(l)' /\ DeletionOK(l)'
        BY <1>1, <2>1, <3>1, PassStays, DeletionStays DEF IInv
      <3>3. local'[w] = l
        BY <2>1, <3>1
      <3> QED
        BY <3>2, <3>3
           DEF PassOK, DeletionOK, InPass, InDeletion, HasReceipt, JobOK,
               Wanted
    <2>3. OwnReceipt'
      BY <2>1 DEF IInv, OwnReceipt, HasReceipt, InDeletion
    <2> QED
      BY <2>1, <2>2, <2>3 DEF LocalsOK, IInv, TypeOK
  <1>3. ASSUME NEW w \in Workers, Crash(w) PROVE LocalsOK'
    BY <1>1, <1>3, ReturnKeeps DEF Crash
  <1> QED
    BY <1>1, <1>2, <1>3, RepairLocals, PrivacyLocals DEF Next

-----------------------------------------------------------------------------
(* Tables.                                                                 *)

Tables ==
    /\ memory \in [Assertions -> {"absent", "accepted", "superseded", "erased"}]
    /\ outbox \in [Assertions -> Entry]
    /\ vectors \subseteq Assertions
    /\ search \subseteq Assertions
    /\ deletions \in [Receipts -> Deletion]
    /\ overlapped \subseteq Assertions

Rows == \A a \in Assertions : RowOK(a)

\* A step that leaves memory and the outbox alone leaves rows that fit.
LEMMA RowsStay ==
    ASSUME IInv, Keeps, UNCHANGED <<memory, outbox>>
    PROVE  Rows'
  <1> SUFFICES ASSUME NEW a \in Assertions PROVE RowOK(a)'
    BY DEF Rows
  <1>1. RowOK(a)
    BY DEF IInv
  <1>2. outbox[a] = [operation |-> "upsert", state |-> "complete"] =>
            Wanted(a) /\ a \in vectors /\ a \in search
    BY <1>1 DEF RowOK, Wanted
  <1>3. Wanted(a)' <=> Wanted(a)
    BY DEF Wanted
  <1> QED
    BY <1>1, <1>2, <1>3 DEF RowOK, Keeps, NoEntry

LEMMA PublishTables ==
    ASSUME IInv, NEW a \in Assertions, Publish(a) \/ Rollback(a)
    PROVE  Tables' /\ Rows'
  <1>1. PICK operation \in {"upsert", "delete"} :
          /\ Enqueue(a, operation)
          /\ operation = "upsert" => Publish(a)
          /\ operation = "delete" => Rollback(a)
    BY DEF Publish, Rollback
  <1>2. /\ outbox' \in [Assertions -> Entry]
        /\ outbox'[a].operation = operation /\ outbox'[a].state = "pending"
        /\ \A b \in Assertions : b # a => outbox'[b] = outbox[b]
    BY <1>1, WritesEntry DEF Enqueue, IInv
  <1>3. /\ UNCHANGED <<vectors, search, deletions>>
        /\ overlapped \subseteq overlapped' /\ overlapped' \subseteq Assertions
    BY <1>1 DEF Publish, Rollback, NoteWithdrawal, IInv, TypeOK
  <1>4. memory' = [memory EXCEPT ![a] =
                      IF operation = "upsert" THEN "accepted" ELSE "superseded"]
    BY <1>1 DEF Publish, Rollback
  <1>5. Tables'
    BY <1>2, <1>3, <1>4 DEF Tables, IInv, TypeOK
  <1>6. ASSUME NEW b \in Assertions PROVE RowOK(b)'
    <2>1. CASE b = a
      BY <1>2, <1>4, <2>1 DEF RowOK, Wanted, IInv, TypeOK
    <2>2. CASE b # a
      <3>1. memory'[b] = memory[b] /\ outbox'[b] = outbox[b]
        BY <1>2, <1>4, <2>2 DEF IInv, TypeOK
      <3>2. RowOK(b)
        BY DEF IInv
      <3> QED
        BY <1>3, <3>1, <3>2 DEF RowOK, NoEntry, Wanted
    <2> QED
      BY <2>1, <2>2
  <1> QED
    BY <1>5, <1>6 DEF Rows

\* What is withdrawn without an entry of its own is noted.
LEMMA UnlistedTables ==
    ASSUME IInv, NEW a \in Assertions, RollbackUnlisted(a)
    PROVE  Tables' /\ Rows'
  <1>1. /\ UNCHANGED <<outbox, vectors, search, deletions>>
        /\ overlapped' = overlapped \union {a}
        /\ memory' = [memory EXCEPT ![a] = "superseded"]
        /\ memory[a] = "accepted"
    BY DEF RollbackUnlisted
  <1>2. ASSUME NEW b \in Assertions PROVE RowOK(b)'
    <2>1. RowOK(b)
      BY DEF IInv
    <2>2. CASE b = a
      BY <1>1, <2>1, <2>2 DEF RowOK, Wanted, IInv, TypeOK
    <2>3. CASE b # a
      <3>1. memory'[b] = memory[b]
        BY <1>1, <2>3 DEF IInv, TypeOK
      <3> QED
        BY <1>1, <2>1, <3>1 DEF RowOK, Wanted, NoEntry
    <2> QED
      BY <2>2, <2>3
  <1>3. Tables'
    BY <1>1 DEF Tables, IInv, TypeOK
  <1> QED
    BY <1>2, <1>3 DEF Rows

\* The row of a turn that is complete is in both indexes, if it says upsert.
LEMMA CompleteTables ==
    ASSUME IInv, NEW w \in Workers, RepairComplete(w)
    PROVE  Tables' /\ Rows'
  <1>1. PICK a \in Assertions : a = Turn(w).assertion
    BY TurnFacts DEF RepairComplete, InPass, At
  <1>2. /\ outbox' \in [Assertions -> Entry]
        /\ outbox'[a].operation = outbox[a].operation
        /\ outbox'[a].state = IF outbox[a].state = "none" THEN "none" ELSE "complete"
        /\ outbox[a].state = "none" => outbox' = outbox
        /\ \A b \in Assertions : b # a => outbox'[b] = outbox[b]
    BY <1>1, CompletesEntry DEF RepairComplete, IInv
  <1>3. UNCHANGED <<memory, vectors, search, deletions, overlapped>>
    BY DEF RepairComplete
  <1>4. Wanted(a) => a \in vectors /\ a \in search
    BY <1>1, TurnFacts DEF RepairComplete, At, IInv, PassOK, InPass
  <1>5. ASSUME NEW b \in Assertions PROVE RowOK(b)'
    <2>1. RowOK(b)
      BY DEF IInv
    <2>2. CASE b = a /\ outbox[a].state # "none"
      BY <1>2, <1>3, <1>4, <2>1, <2>2 DEF RowOK, NoEntry, Wanted, IInv, TypeOK
    <2>3. CASE b # a \/ outbox[a].state = "none"
      BY <1>2, <1>3, <2>1, <2>3 DEF RowOK, NoEntry, Wanted
    <2> QED
      BY <2>2, <2>3
  <1> QED
    BY <1>2, <1>3, <1>5 DEF Tables, Rows, IInv, TypeOK

LEMMA FailedTables ==
    ASSUME IInv, Keeps, NEW w \in Workers, RepairFailed(w)
    PROVE  Tables' /\ Rows'
  <1>1. PICK a \in Assertions : a = Turn(w).assertion
    BY TurnFacts DEF RepairFailed, InPass, At
  <1>2. UNCHANGED <<memory, vectors, search, deletions, overlapped>>
    BY DEF RepairFailed
  <1>3. CASE outbox[a].state = "none"
    BY <1>1, <1>2, <1>3, RowsStay DEF RepairFailed, Tables, IInv, TypeOK
  <1>4. CASE outbox[a].state # "none"
    <2>1. /\ outbox' \in [Assertions -> Entry]
          /\ outbox'[a].operation = outbox[a].operation
          /\ outbox'[a].state = "repair_queued"
          /\ \A b \in Assertions : b # a => outbox'[b] = outbox[b]
      BY <1>1, <1>4, WritesState DEF RepairFailed, IInv
    <2>2. ASSUME NEW b \in Assertions PROVE RowOK(b)'
      <3>1. RowOK(b)
        BY DEF IInv
      <3>2. CASE b = a
        BY <1>2, <1>4, <2>1, <3>1, <3>2 DEF RowOK, NoEntry, Wanted, IInv, TypeOK
      <3>3. CASE b # a
        BY <1>2, <2>1, <3>1, <3>3 DEF RowOK, NoEntry, Wanted
      <3> QED
        BY <3>2, <3>3
    <2> QED
      BY <1>2, <2>1, <2>2 DEF Tables, Rows, IInv, TypeOK
  <1> QED
    BY <1>3, <1>4

LEMMA BatchTables ==
    ASSUME IInv, NEW w \in Workers, DeleteRows(w)
    PROVE  Tables' /\ Rows'
  <1>1. PICK scope \in SUBSET Assertions : scope = local[w].scope
    BY DEF IInv, TypeOK, Local
  <1>2. /\ memory' = [a \in Assertions |->
                        IF a \in scope /\ Exists(a) THEN "erased" ELSE memory[a]]
        /\ outbox' = [a \in Assertions |->
                        IF a \in scope THEN NoEntry ELSE outbox[a]]
        /\ search' = search \ scope
        /\ UNCHANGED <<vectors, deletions, overlapped>>
    BY <1>1 DEF DeleteRows, Erased, SearchErased
  <1>3. NoEntry \in Entry /\ NoEntry.state = "none"
    BY DEF Entry, NoEntry
  <1>4. outbox' \in [Assertions -> Entry]
    BY <1>2, <1>3 DEF IInv, TypeOK
  <1>5. Tables'
    BY <1>2, <1>4 DEF Tables, IInv, TypeOK
  <1>6. ASSUME NEW a \in Assertions PROVE RowOK(a)'
    <2>1. RowOK(a)
      BY DEF IInv
    <2>2. CASE a \in scope
      <3>1. memory'[a] \in {"absent", "erased"} /\ outbox'[a] = NoEntry
        BY <1>2, <2>2 DEF Exists, IInv, TypeOK
      <3> QED
        BY <3>1 DEF RowOK, NoEntry
    <2>3. CASE a \notin scope
      <3>1. /\ memory'[a] = memory[a] /\ outbox'[a] = outbox[a]
            /\ a \in vectors => a \in vectors'
            /\ a \in search => a \in search'
            /\ overlapped' = overlapped
        BY <1>2, <2>3
      <3> QED
        BY <2>1, <3>1 DEF RowOK, NoEntry, Wanted
    <2> QED
      BY <2>2, <2>3
  <1> QED
    BY <1>5, <1>6 DEF Rows

LEMMA ReceiptTables ==
    ASSUME IInv, Keeps, NEW w \in Workers,
           \/ DeleteInsertReceipt(w) \/ DeleteDone(w) \/ DeleteQueued(w)
    PROVE  Tables' /\ Rows'
  <1>1. UNCHANGED <<memory, outbox, vectors, search, overlapped>>
    BY DEF DeleteInsertReceipt, DeleteDone, DeleteQueued, UpdateReceipt
  <1>2. PICK r \in Receipts, status \in {"pending", "deleted", "repair_queued"} :
          \/ deletions' = [deletions EXCEPT ![r] =
                              [status |-> status, ids |-> local[w].ids]]
          \/ deletions' = [deletions EXCEPT ![r].status = status]
    BY DEF DeleteInsertReceipt, DeleteDone, DeleteQueued, UpdateReceipt, At,
           IInv, DeletionOK, HasReceipt, InDeletion
  <1>3. PICK old \in Deletion : old = deletions[r]
    BY DEF IInv, TypeOK
  <1>4. PICK ids \in SUBSET Assertions : ids = local[w].ids
    BY DEF IInv, TypeOK, Local
  <1>5. /\ [status |-> status, ids |-> ids] \in Deletion
        /\ [old EXCEPT !.status = status] \in Deletion
    BY DEF Deletion
  <1>6. deletions' \in [Receipts -> Deletion]
    BY <1>2, <1>3, <1>4, <1>5 DEF IInv, TypeOK
  <1> QED
    BY <1>1, <1>6, RowsStay DEF Tables, IInv, TypeOK

LEMMA StepTables ==
    ASSUME IInv, Next
    PROVE  Tables' /\ Rows'
  <1>1. Keeps
    BY NextKeeps
  <1>2. ASSUME NEW w \in Workers,
               \/ RepairDeleteVector(w) \/ RepairDeleteSearch(w)
               \/ RepairUpsertVector(w) \/ RepairInsertSearch(w)
        PROVE  Tables' /\ Rows'
    <2>1. Turn(w).assertion \in Assertions
      BY <1>2, TurnFacts
         DEF RepairDeleteVector, RepairDeleteSearch, RepairUpsertVector,
             RepairInsertSearch, At, InPass
    <2>2. /\ UNCHANGED <<memory, outbox, deletions, overlapped>>
          /\ vectors' \subseteq Assertions /\ search' \subseteq Assertions
      BY <1>2, <2>1
         DEF RepairDeleteVector, RepairDeleteSearch, RepairUpsertVector,
             RepairInsertSearch, IInv, TypeOK
    <2> QED
      BY <1>1, <2>2, RowsStay DEF Tables, IInv, TypeOK
  <1>3. ASSUME NEW w \in Workers,
               \/ RepairRead(w) \/ RepairReadAssertion(w) \/ RepairThrows(w)
               \/ DeleteRowsAbort(w) \/ DeleteVectorsThrow(w) \/ Crash(w)
               \/ RebuildWrite(w) \/ DeleteVectors(w)
               \/ \E scope \in Scopes : RebuildRead(w, scope) \/ DeleteCollect(w, scope)
        PROVE  Tables' /\ Rows'
    <2>1. /\ UNCHANGED <<memory, outbox, search, deletions>>
          /\ vectors' \in {vectors, vectors \union local[w].ids,
                           vectors \ local[w].ids}
      BY <1>3 DEF RepairRead, RepairReadAssertion, RepairThrows,
           DeleteRowsAbort, DeleteVectorsThrow, Crash, RebuildWrite,
           DeleteVectors, RebuildRead, DeleteCollect
    <2>2. local[w].ids \subseteq Assertions
      BY DEF IInv, TypeOK, Local
    <2>3. overlapped' \subseteq Assertions
      <3>1. ASSUME NEW rows \in SUBSET Assertions,
                   NoteReading(rows) \/ NoteWithdrawal(rows)
            PROVE  overlapped' \subseteq Assertions
        BY <3>1 DEF NoteReading, NoteWithdrawal, IInv, TypeOK
      <3>2. CASE RepairRead(w)
        <4>1. PICK n \in 1..Limit : \E rows \in [1..n -> Assertions] :
                NoteReading({rows[i] : i \in 1..n})
          BY <3>2 DEF RepairRead
        <4>2. PICK rows \in [1..n -> Assertions] :
                NoteReading({rows[i] : i \in 1..n})
          BY <4>1
        <4> QED
          BY <3>1, <4>2
      <3>3. ASSUME NEW scope \in Scopes, RebuildRead(w, scope) \/ DeleteCollect(w, scope)
            PROVE  overlapped' \subseteq Assertions
        BY <3>1, <3>3, ConstantsAssumption DEF RebuildRead, DeleteCollect
      <3>4. CASE UNCHANGED overlapped
        BY <3>4 DEF IInv, TypeOK
      <3> QED
        BY <1>3, <3>2, <3>3, <3>4
           DEF RepairReadAssertion, RepairThrows, DeleteRowsAbort,
               DeleteVectorsThrow, Crash, RebuildWrite, DeleteVectors
    <2> QED
      BY <1>1, <2>1, <2>2, <2>3, RowsStay DEF Tables, IInv, TypeOK
  <1> QED
    BY <1>1, <1>2, <1>3, PublishTables, UnlistedTables, CompleteTables, FailedTables,
       BatchTables, ReceiptTables DEF Next, Repair, Privacy

LEMMA StepReceipts ==
    ASSUME IInv, Next
    PROVE  \A r \in Receipts : ReceiptOK(r)'
  <1> SUFFICES ASSUME NEW r \in Receipts PROVE ReceiptOK(r)'
    OBVIOUS
  <1>1. Keeps /\ ReceiptOK(r) /\ deletions[r].ids \subseteq Assertions
    BY NextKeeps DEF IInv, TypeOK, Deletion
  <1>2. CASE deletions'[r] = deletions[r]
    BY <1>1, <1>2 DEF ReceiptOK, Keeps
  <1>3. ASSUME NEW w \in Workers, DeleteInsertReceipt(w), deletions'[r] # deletions[r]
        PROVE  deletions'[r].status = "pending"
    BY <1>3 DEF DeleteInsertReceipt, IInv, TypeOK
  <1>4. ASSUME NEW w \in Workers, DeleteDone(w) \/ DeleteQueued(w),
               deletions'[r] # deletions[r]
        PROVE  ReceiptOK(r)'
    <2>1. /\ HasReceipt(local[w]) /\ UNCHANGED memory
          /\ \A a \in local[w].ids : memory[a] = "erased"
          /\ deletions[local[w].receipt].ids = local[w].ids
      BY <1>4 DEF DeleteDone, DeleteQueued, UpdateReceipt, At, IInv, DeletionOK,
                  HasReceipt, InDeletion
    <2>2. PICK status \in {"deleted", "repair_queued"} :
            deletions' = [deletions EXCEPT ![local[w].receipt].status = status]
      BY <1>4 DEF DeleteDone, DeleteQueued, UpdateReceipt
    <2>3. r = local[w].receipt
      BY <1>4, <2>2 DEF IInv, TypeOK
    <2>4. deletions'[r].status = status /\ deletions'[r].ids = deletions[r].ids
      BY <2>2, <2>3 DEF IInv, TypeOK, Deletion
    <2> QED
      BY <2>1, <2>3, <2>4 DEF ReceiptOK
  <1>5. ASSUME NEW w \in Workers,
               Repair(w) \/ Crash(w) \/ (Privacy(w) /\ ~DeleteInsertReceipt(w)
                                          /\ ~DeleteDone(w) /\ ~DeleteQueued(w))
        PROVE  UNCHANGED deletions
    BY <1>5 DEF Repair, Privacy, Crash, RepairRead, RepairDeleteVector,
         RepairDeleteSearch, RepairReadAssertion, RepairUpsertVector,
         RepairInsertSearch, RepairComplete, RepairThrows, RepairFailed,
         RebuildRead, RebuildWrite, DeleteCollect, DeleteRows, DeleteRowsAbort,
         DeleteVectors, DeleteVectorsThrow
  <1>6. ASSUME NEW a \in Assertions,
               Publish(a) \/ Rollback(a) \/ RollbackUnlisted(a)
        PROVE  UNCHANGED deletions
    BY <1>6 DEF Publish, Rollback, RollbackUnlisted
  <1>7. CASE deletions'[r].status = "pending"
    BY <1>7 DEF ReceiptOK
  <1> QED
    BY <1>2, <1>3, <1>4, <1>5, <1>6, <1>7 DEF Next

-----------------------------------------------------------------------------
(* The order of timestamps, step by step.                                  *)

TurnPc == {"embed", "index_search", "unindex_search", "complete", "failed"}

LEMMA TurnPcs == \A w \in Workers : InTurn(w) <=> local[w].pc \in TurnPc
  BY DEF InTurn, At, TurnPc

\* Who has a timestamp after the step of a worker.
LEMMA StampedAfter ==
    ASSUME TypeOK, NEW w \in Workers, NEW l, Moves(w, l)
    PROVE  /\ w \in Stamped' <=> l.pc \in TurnPc
           /\ \A v \in Workers : v # w => (v \in Stamped' <=> v \in Stamped)
           /\ \A a \in Assertions : a \in Stamped' <=> Waiting(a)'
           /\ w \in Stamped <=> local[w].pc \in TurnPc
           /\ \A a \in Assertions : a \in Stamped <=> Waiting(a)
           /\ Stamped' \subseteq Assertions \union Workers
           /\ Stamped \subseteq Assertions \union Workers
  <1>1. /\ local'[w] = l
        /\ \A v \in Workers : v # w => local'[v] = local[v]
    BY MoveFacts
  <1>2. /\ InTurn(w)' <=> l.pc \in TurnPc
        /\ InTurn(w) <=> local[w].pc \in TurnPc
        /\ \A v \in Workers : v # w => (InTurn(v)' <=> InTurn(v))
    BY <1>1 DEF InTurn, At, TurnPc
  <1>3. \A v \in Workers : v \notin Assertions
    BY ConstantsAssumption
  <1> QED
    BY <1>2, <1>3 DEF Stamped

\* A step that changes no row and takes no timestamp.
LEMMA OrderStays ==
    ASSUME IInv, UNCHANGED <<outbox, stamps>>, NEW w \in Workers, NEW l,
           Moves(w, l), l.pc \in TurnPc <=> local[w].pc \in TurnPc
    PROVE  Orders(stamps, Stamped)'
  <1>1. \A a \in Assertions : Waiting(a)' <=> Waiting(a)
    BY DEF Waiting
  <1>2. Stamped' = Stamped
    BY <1>1, StampedAfter DEF IInv
  <1> QED
    BY <1>2 DEF IInv, TypeOK

LEMMA GotoOrder ==
    ASSUME IInv, UNCHANGED <<outbox, stamps>>, NEW w \in Workers,
           NEW step \in Steps, Goto(w, step),
           step \in TurnPc <=> local[w].pc \in TurnPc
    PROVE  Orders(stamps, Stamped)'
  <1>1. PICK l : Moves(w, l) /\ l.pc = step
    BY GotoMoves DEF IInv
  <1> QED
    BY <1>1, OrderStays

\* A turn begins with a new timestamp.
LEMMA TakeOrder ==
    ASSUME IInv, UNCHANGED outbox, NEW w \in Workers, At(w, "turn"),
           NEW step \in TurnPc, Goto(w, step), TakeStamp(w)
    PROVE  Orders(stamps, Stamped)'
  <1>1. step \in Steps
    BY DEF TurnPc, Steps
  <1>2. PICK l : Moves(w, l) /\ l.pc = step
    BY <1>1, GotoMoves DEF IInv
  <1>3. \A a \in Assertions : Waiting(a)' <=> Waiting(a)
    BY DEF Waiting
  <1>4. w \notin Stamped
    BY <1>2, StampedAfter DEF At, TurnPc, IInv
  <1>5. Stamped' = Stamped \union {w}
    BY <1>2, <1>3, StampedAfter DEF IInv
  <1>6. stamps' = stamps \union {<<y, w>> : y \in Stamped}
    BY <1>4 DEF TakeStamp, Newest
  <1>7. Orders(stamps, Stamped)
    BY DEF IInv, TypeOK
  <1>8. Orders(stamps', Stamped')
    BY <1>4, <1>5, <1>6, <1>7, OrderNewest
  <1> QED
    BY <1>8

LEMMA DropOrder ==
    ASSUME IInv, NEW X, stamps' = Without(X), Stamped' = Stamped \ X
    PROVE  Orders(stamps, Stamped)'
  <1>1. Orders(stamps, Stamped)
    BY DEF IInv, TypeOK
  <1>2. Orders(stamps', Stamped')
    BY <1>1, OrderWithout DEF Without
  <1> QED
    BY <1>2

LEMMA PublishOrder ==
    ASSUME IInv, NEW a \in Assertions, Publish(a) \/ Rollback(a)
    PROVE  Orders(stamps, Stamped)'
  <1>1. PICK operation \in {"upsert", "delete"} : Enqueue(a, operation)
    BY DEF Publish, Rollback
  <1>2. /\ outbox'[a].state = "pending"
        /\ \A b \in Assertions : b # a => outbox'[b] = outbox[b]
    BY <1>1, WritesEntry DEF Enqueue, IInv
  <1>3. UNCHANGED local
    BY DEF Publish, Rollback
  <1>4. \A b \in Assertions : Waiting(b)' <=> b = a \/ Waiting(b)
    BY <1>2 DEF Waiting
  <1>5. Stamped' = (Stamped \ {a}) \union {a}
    BY <1>3, <1>4 DEF Stamped, InTurn, At
  <1>6. stamps' = Without({a}) \union {<<y, a>> : y \in Stamped \ {a}}
    BY <1>1 DEF Enqueue, Restamp, Newest
  <1>7. Orders(stamps, Stamped)
    BY DEF IInv, TypeOK
  <1>8. Orders(Without({a}), Stamped \ {a})
    BY <1>7, OrderWithout DEF Without
  <1>9. Orders(stamps', Stamped')
    BY <1>5, <1>6, <1>8, OrderNewest
  <1> QED
    BY <1>9

LEMMA UnlistedOrder ==
    ASSUME IInv, NEW a \in Assertions, RollbackUnlisted(a)
    PROVE  Orders(stamps, Stamped)'
  <1>1. UNCHANGED <<outbox, stamps, local>>
    BY DEF RollbackUnlisted
  <1>2. Stamped' = Stamped
    BY <1>1 DEF Stamped, Waiting, InTurn, At
  <1> QED
    BY <1>1, <1>2 DEF IInv, TypeOK

LEMMA CompleteOrder ==
    ASSUME IInv, NEW w \in Workers, RepairComplete(w)
    PROVE  Orders(stamps, Stamped)'
  <1>1. PICK a \in Assertions : a = Turn(w).assertion
    BY TurnFacts DEF RepairComplete, InPass, At
  <1>2. /\ outbox'[a].state = IF outbox[a].state = "none" THEN "none" ELSE "complete"
        /\ \A b \in Assertions : b # a => outbox'[b] = outbox[b]
    BY <1>1, CompletesEntry DEF RepairComplete, IInv
  <1>3. PICK l : Moves(w, l) /\ l.pc \notin TurnPc
    BY NextJobMoves, IdleType DEF RepairComplete, InPass, At, TurnPc
  <1>4. \A b \in Assertions : Waiting(b)' <=> b # a /\ Waiting(b)
    BY <1>2 DEF Waiting
  <1>5. Stamped' = Stamped \ {a, w}
    BY <1>3, <1>4, StampedAfter, ConstantsAssumption DEF IInv
  <1> QED
    BY <1>1, <1>5, DropOrder DEF RepairComplete

LEMMA FailedOrder ==
    ASSUME IInv, NEW w \in Workers, RepairFailed(w)
    PROVE  Orders(stamps, Stamped)'
  <1>1. PICK a \in Assertions : a = Turn(w).assertion
    BY TurnFacts DEF RepairFailed, InPass, At
  <1>2. PICK l : Moves(w, l) /\ l.pc \notin TurnPc
    BY NextJobMoves, IdleType DEF RepairFailed, InPass, At, TurnPc
  <1>3. w \in Stamped /\ w \notin Stamped'
    BY <1>2, StampedAfter DEF RepairFailed, At, TurnPc, IInv
  <1>4. CASE outbox[a].state = "none"
    <2>1. UNCHANGED outbox /\ stamps' = Without({w})
      BY <1>1, <1>4 DEF RepairFailed
    <2>2. \A b \in Assertions : Waiting(b)' <=> Waiting(b)
      BY <2>1 DEF Waiting
    <2>3. Stamped' = Stamped \ {w}
      BY <1>2, <1>3, <2>2, StampedAfter, ConstantsAssumption DEF IInv
    <2> QED
      BY <2>1, <2>3, DropOrder
  <1>5. CASE outbox[a].state # "none"
    <2>1. /\ outbox'[a].state = "repair_queued"
          /\ \A b \in Assertions : b # a => outbox'[b] = outbox[b]
      BY <1>1, <1>5, WritesState DEF RepairFailed, IInv
    <2>2. \A b \in Assertions : Waiting(b)' <=> b = a \/ Waiting(b)
      BY <2>1 DEF Waiting
    <2>3. a # w
      BY ConstantsAssumption
    <2>4. Stamped' = ((Stamped \ {a}) \ {w}) \union {a}
      BY <1>2, <1>3, <2>2, <2>3, StampedAfter, ConstantsAssumption DEF IInv
    <2>5. Orders(stamps, Stamped)
      BY DEF IInv, TypeOK
    <2>6. Orders(Without({a}), Stamped \ {a})
      BY <2>5, OrderWithout DEF Without
    <2>7. w \in Stamped \ {a} /\ a \notin Stamped \ {a}
      BY <1>3, <2>3
    <2>8. Orders(MovesToStamp(a, w), ((Stamped \ {a}) \ {w}) \union {a})
      BY <2>6, <2>7, OrderRename DEF MovesToStamp, TakesStamp
    <2>9. stamps' = MovesToStamp(a, w)
      BY <1>1, <1>5 DEF RepairFailed
    <2> QED
      BY <2>4, <2>8, <2>9
  <1> QED
    BY <1>4, <1>5

LEMMA BatchOrder ==
    ASSUME IInv, NEW w \in Workers, DeleteRows(w)
    PROVE  Orders(stamps, Stamped)'
  <1>1. PICK scope \in SUBSET Assertions : scope = local[w].scope
    BY DEF IInv, TypeOK, Local
  <1>2. PICK l : Moves(w, l) /\ l.pc = "delete_vectors"
    BY GotoMoves DEF DeleteRows, IInv, Steps
  <1>3. outbox' = [a \in Assertions |->
                      IF a \in scope THEN NoEntry ELSE outbox[a]]
    BY <1>1 DEF DeleteRows
  <1>4. \A a \in Assertions : Waiting(a)' <=> a \notin scope /\ Waiting(a)
    BY <1>3 DEF Waiting, NoEntry
  <1>5. \A v \in Workers : v \notin scope
    BY ConstantsAssumption
  <1>6. w \notin Stamped /\ w \notin Stamped'
    BY <1>2, StampedAfter DEF DeleteRows, At, TurnPc, IInv
  <1>7. Stamped' = Stamped \ scope
    BY <1>2, <1>4, <1>5, <1>6, StampedAfter DEF IInv
  <1> QED
    BY <1>1, <1>7, DropOrder DEF DeleteRows

LEMMA CrashOrder ==
    ASSUME IInv, NEW w \in Workers, Crash(w)
    PROVE  Orders(stamps, Stamped)'
  <1>1. Moves(w, Idle)
    BY ReturnMoves DEF Crash
  <1>2. \A a \in Assertions : Waiting(a)' <=> Waiting(a)
    BY DEF Crash, Waiting
  <1>3. w \notin Stamped'
    BY <1>1, IdleType, StampedAfter DEF TurnPc, IInv
  <1>4. Stamped' = Stamped \ {w}
    BY <1>1, <1>2, <1>3, StampedAfter, ConstantsAssumption DEF IInv
  <1> QED
    BY <1>4, DropOrder DEF Crash

\* A step outside a turn that moves a request.
LEMMA OutsideOrder ==
    ASSUME IInv, NEW w \in Workers,
           \/ RepairRead(w) \/ DeleteInsertReceipt(w)
           \/ \E scope \in Scopes : RebuildRead(w, scope) \/ DeleteCollect(w, scope)
    PROVE  Orders(stamps, Stamped)'
  <1>1. local[w].pc \notin TurnPc /\ UNCHANGED <<outbox, stamps>>
    BY DEF RepairRead, DeleteInsertReceipt, RebuildRead, DeleteCollect, At, TurnPc
  <1>2. /\ \A v \in Workers : v # w => local'[v] = local[v]
        /\ local'[w].pc \notin TurnPc
    <2>1. PICK old \in Local : old = local[w]
      BY DEF IInv, TypeOK
    <2>2. PICK start \in Local : start = Idle
      BY IdleType
    <2>3. \A jobs : [old EXCEPT !.pc = "turn", !.jobs = jobs].pc = "turn"
      BY DEF Local
    <2>4. \A r : [old EXCEPT !.pc = "delete_rows", !.receipt = r].pc = "delete_rows"
      BY DEF Local
    <2>5. \A ids : [start EXCEPT !.pc = "rebuild_write", !.ids = ids].pc = "rebuild_write"
      BY DEF Local
    <2>6. \A ids, scope :
            [start EXCEPT !.pc = "delete_receipt", !.scope = scope, !.ids = ids].pc
              = "delete_receipt"
      BY DEF Local
    <2>7. CASE RepairRead(w)
      <3>1. PICK jobs : local' = [local EXCEPT ![w].pc = "turn", ![w].jobs = jobs]
        BY <2>7 DEF RepairRead
      <3> QED
        BY <2>1, <2>3, <3>1 DEF IInv, TypeOK, TurnPc
    <2>8. CASE DeleteInsertReceipt(w)
      <3>1. PICK r : local' = [local EXCEPT ![w].pc = "delete_rows", ![w].receipt = r]
        BY <2>8 DEF DeleteInsertReceipt
      <3> QED
        BY <2>1, <2>4, <3>1 DEF IInv, TypeOK, TurnPc
    <2>9. ASSUME NEW scope \in Scopes, RebuildRead(w, scope)
          PROVE  /\ \A v \in Workers : v # w => local'[v] = local[v]
                 /\ local'[w].pc \notin TurnPc
      BY <2>2, <2>5, <2>9 DEF RebuildRead, IInv, TypeOK, TurnPc
    <2>10. ASSUME NEW scope \in Scopes, DeleteCollect(w, scope)
          PROVE  /\ \A v \in Workers : v # w => local'[v] = local[v]
                 /\ local'[w].pc \notin TurnPc
      BY <2>2, <2>6, <2>10 DEF DeleteCollect, IInv, TypeOK, TurnPc
    <2> QED
      BY <2>7, <2>8, <2>9, <2>10
  <1>3. \A v \in Workers : InTurn(v)' <=> InTurn(v)
    BY <1>1, <1>2 DEF InTurn, At, TurnPc
  <1>4. \A a \in Assertions : Waiting(a)' <=> Waiting(a)
    BY <1>1 DEF Waiting
  <1>5. Stamped' = Stamped
    BY <1>3, <1>4 DEF Stamped
  <1> QED
    BY <1>1, <1>5 DEF IInv, TypeOK

LEMMA StepOrder ==
    ASSUME IInv, Next
    PROVE  Orders(stamps, Stamped)'
  <1>1. ASSUME NEW w \in Workers,
               RepairDeleteVector(w) \/ RepairReadAssertion(w)
        PROVE  Orders(stamps, Stamped)'
    BY <1>1, TakeOrder DEF RepairDeleteVector, RepairReadAssertion, TurnPc
  <1>2. ASSUME NEW w \in Workers,
               \/ RepairDeleteSearch(w) \/ RepairUpsertVector(w)
               \/ RepairInsertSearch(w)
        PROVE  Orders(stamps, Stamped)'
    BY <1>2, GotoOrder
       DEF RepairDeleteSearch, RepairUpsertVector, RepairInsertSearch, At,
           TurnPc, Steps
  <1>3. ASSUME NEW w \in Workers, RepairThrows(w)
        PROVE  Orders(stamps, Stamped)'
    <2>1. CASE At(w, "turn")
      BY <1>3, <2>1, TakeOrder DEF RepairThrows, Catch, TurnPc
    <2>2. CASE ~At(w, "turn")
      BY <1>3, <2>2, GotoOrder DEF RepairThrows, Catch, At, TurnPc, Steps
    <2> QED
      BY <2>1, <2>2
  <1>4. ASSUME NEW w \in Workers,
               DeleteVectors(w) \/ DeleteVectorsThrow(w)
        PROVE  Orders(stamps, Stamped)'
    BY <1>4, GotoOrder
       DEF DeleteVectors, DeleteVectorsThrow, At, TurnPc, Steps
  <1>5. ASSUME NEW w \in Workers,
               \/ RebuildWrite(w) \/ DeleteRowsAbort(w) \/ DeleteDone(w)
               \/ DeleteQueued(w)
        PROVE  Orders(stamps, Stamped)'
    <2>1. Moves(w, Idle)
      BY <1>5, ReturnMoves
         DEF RebuildWrite, DeleteRowsAbort, AbortEscapes, DeleteDone,
             DeleteQueued, UpdateReceipt
    <2>2. /\ UNCHANGED <<outbox, stamps>>
          /\ local[w].pc \notin TurnPc /\ Idle.pc \notin TurnPc
      BY <1>5, IdleType
         DEF RebuildWrite, DeleteRowsAbort, DeleteDone, DeleteQueued,
             UpdateReceipt, At, TurnPc
    <2> QED
      BY <2>1, <2>2, OrderStays
  <1> QED
    BY <1>1, <1>2, <1>3, <1>4, <1>5, PublishOrder, UnlistedOrder, CompleteOrder,
       FailedOrder, BatchOrder, CrashOrder, OutsideOrder DEF Next, Repair, Privacy

-----------------------------------------------------------------------------
(* What was not withdrawn behind the back of its index.                    *)

USE DEF Apart, Workings    \* what Clear abbreviates

LEMMA Kinds ==
    /\ \A w \in Workers : Collecting(w) <=> Collects(local[w])
    /\ \A w \in Workers, a \in Assertions : Holds(w, a) <=> Writes(local[w], a)
  BY DEF Collecting, Collects, Holds, Writes, InTurn, InPass, At

\* A delete is never of what is accepted.
LEMMA DeletesWithdrawn ==
    ASSUME IInv, NEW w \in Workers, InPass(local[w]),
           NEW i \in DOMAIN local[w].jobs, local[w].jobs[i].operation = "delete"
    PROVE  memory[local[w].jobs[i].assertion] # "accepted"
  <1>1. JobOK(local[w].jobs[i])
    BY TurnFacts
  <1>2. PICK j \in Job : j = local[w].jobs[i]
    BY TurnFacts
  <1> QED
    BY <1>1, <1>2 DEF JobOK, Job, IInv, RowOK

\* A turn that upserts is one of a writer.
LEMMA TurnWrites ==
    ASSUME IInv, NEW w \in Workers, InPass(local[w]), Turn(w).operation = "upsert"
    PROVE  Writes(local[w], Turn(w).assertion)
  <1>1. PICK j \in Job : j = Turn(w)
    BY TurnFacts
  <1>2. j = [assertion |-> j.assertion, operation |-> "upsert"]
    BY <1>1 DEF Job
  <1>3. 1 \in DOMAIN local[w].jobs /\ local[w].jobs[1] = j
    BY <1>1, TurnFacts
  <1> QED
    BY <1>1, <1>2, <1>3 DEF Writes

\* What a step leaves to the writers and deletions of others: what a writer
\* holds stays accepted, only what is accepted gets into an index, and nothing
\* that a deletion has in its scope.
Calm ==
    \A a \in Assertions \ overlapped' :
        /\ memory[a] = "accepted" /\ (\E v \in Workers : Writes(local[v], a)) =>
              memory'[a] = "accepted"
        /\ a \in vectors' => a \in vectors \/ memory[a] = "accepted"
        /\ a \in search' => a \in search \/ memory[a] = "accepted"
        /\ \A v \in Workers : Collects(local[v]) /\ a \in local[v].scope =>
              /\ a \in vectors' => a \in vectors
              /\ a \in search' => a \in search

\* A step that fills an index fills it with what it holds.
LEMMA FillCalm ==
    ASSUME IInv, NEW w \in Workers, UNCHANGED <<memory, overlapped>>,
           NEW ids \in SUBSET Assertions, \A a \in ids : Writes(local[w], a),
           vectors' \subseteq vectors \union ids,
           search' \subseteq search \union ids
    PROVE  Calm
  <1>1. \A a \in ids \ overlapped : memory[a] = "accepted"
    BY DEF IInv, Clear, WriterClear
  <1>2. \A a \in ids \ overlapped : \A v \in Workers :
          ~(Collects(local[v]) /\ a \in local[v].scope)
    BY DEF IInv, Clear
  <1> QED
    BY <1>1, <1>2 DEF Calm

LEMMA StepCalm ==
    ASSUME IInv, Next
    PROVE  Calm
  <1>1. ASSUME NEW a \in Assertions, Publish(a) PROVE Calm
    BY <1>1 DEF Publish, Calm, IInv, TypeOK
  <1>2. ASSUME NEW a \in Assertions, Rollback(a) \/ RollbackUnlisted(a) PROVE Calm
    <2>1. /\ UNCHANGED <<vectors, search>>
          /\ \A b \in Assertions : b # a => memory'[b] = memory[b]
      BY <1>2 DEF Rollback, RollbackUnlisted, IInv, TypeOK
    <2>2. (\E v \in Workers : Writes(local[v], a)) => a \in overlapped'
      BY <1>2, Kinds DEF Rollback, RollbackUnlisted, NoteWithdrawal
    <2> QED
      BY <2>1, <2>2 DEF Calm
  <1>3. ASSUME NEW w \in Workers, RepairUpsertVector(w) \/ RepairInsertSearch(w)
        PROVE  Calm
    <2>1. /\ InPass(local[w])
          /\ local[w].pc \in {"embed", "index_search"}
      BY <1>3 DEF RepairUpsertVector, RepairInsertSearch, At, InPass
    <2>2. Turn(w).operation = "upsert" /\ Turn(w).assertion \in Assertions
      BY <2>1, TurnFacts DEF IInv, PassOK
    <2>3. PICK ids \in SUBSET Assertions : ids = {Turn(w).assertion}
      BY <2>2
    <2>4. /\ UNCHANGED <<memory, overlapped>>
          /\ vectors' \subseteq vectors \union ids
          /\ search' \subseteq search \union ids
      BY <1>3, <2>3 DEF RepairUpsertVector, RepairInsertSearch
    <2>5. \A a \in ids : Writes(local[w], a)
      BY <2>1, <2>2, <2>3, TurnWrites
    <2> QED
      BY <2>4, <2>5, FillCalm
  <1>4. ASSUME NEW w \in Workers, RebuildWrite(w) PROVE Calm
    <2>1. local[w].ids \in SUBSET Assertions
      BY DEF IInv, TypeOK, Local
    <2>2. \A a \in local[w].ids : Writes(local[w], a)
      BY <1>4 DEF RebuildWrite, At, Writes
    <2> QED
      BY <1>4, <2>1, <2>2, FillCalm DEF RebuildWrite
  <1>5. ASSUME NEW w \in Workers, DeleteRows(w) PROVE Calm
    <2>1. Collects(local[w])
      BY <1>5 DEF DeleteRows, Collects, At
    <2>2. /\ UNCHANGED <<vectors, overlapped>> /\ search' \subseteq search
          /\ \A a \in Assertions \ local[w].scope : memory'[a] = memory[a]
      BY <1>5 DEF DeleteRows, SearchErased, Erased
    <2>3. \A a \in local[w].scope \ overlapped : \A v \in Workers : ~Writes(local[v], a)
      BY <2>1 DEF IInv, Clear
    <2> QED
      BY <2>2, <2>3 DEF Calm
  <1>6. ASSUME NEW w \in Workers,
               \/ RepairRead(w) \/ RepairDeleteVector(w) \/ RepairDeleteSearch(w)
               \/ RepairReadAssertion(w) \/ RepairComplete(w) \/ RepairThrows(w)
               \/ RepairFailed(w) \/ DeleteInsertReceipt(w) \/ DeleteRowsAbort(w)
               \/ DeleteVectors(w) \/ DeleteVectorsThrow(w) \/ DeleteDone(w)
               \/ DeleteQueued(w) \/ Crash(w)
               \/ \E scope \in Scopes : RebuildRead(w, scope) \/ DeleteCollect(w, scope)
        PROVE  Calm
    <2>1. UNCHANGED memory /\ vectors' \subseteq vectors /\ search' \subseteq search
      BY <1>6 DEF RepairRead, RepairDeleteVector, RepairDeleteSearch,
           RepairReadAssertion, RepairComplete, RepairThrows, RepairFailed,
           DeleteInsertReceipt, DeleteRowsAbort, DeleteVectors,
           DeleteVectorsThrow, DeleteDone, DeleteQueued, UpdateReceipt, Crash,
           RebuildRead, DeleteCollect
    <2> QED
      BY <2>1 DEF Calm
  <1> QED
    BY <1>1, <1>2, <1>3, <1>4, <1>5, <1>6 DEF Next, Repair, Privacy

LEMMA WriterStays ==
    ASSUME IInv, Keeps, Calm, NEW v \in Workers, NEW l \in Local, l = local[v]
    PROVE  WriterClear(l)'
  <1>1. ASSUME NEW a \in Assertions \ overlapped', Writes(l, a)
        PROVE  memory'[a] = "accepted"
    <2>1. memory[a] = "accepted"
      BY <1>1 DEF IInv, Clear, WriterClear, Keeps
    <2> QED
      BY <1>1, <2>1 DEF Calm
  <1>2. ASSUME InPass(l), l.jobs[1].assertion \notin overlapped'
        PROVE  /\ l.pc = "unindex_search" => l.jobs[1].assertion \notin vectors'
               /\ l.pc = "complete" /\ l.jobs[1].operation = "delete" =>
                     l.jobs[1].assertion \notin vectors' \union search'
    <2>1. PICK a \in Assertions : a = l.jobs[1].assertion
      BY <1>2, TurnFacts DEF Job
    <2>2. 1 \in DOMAIN l.jobs
      BY <1>2, TurnFacts
    <2>3. l.pc = "unindex_search" => l.jobs[1].operation = "delete"
      BY <1>2 DEF IInv, PassOK
    <2>4. l.jobs[1].operation = "delete" => memory[a] # "accepted"
      BY <1>2, <2>1, <2>2, DeletesWithdrawn
    <2>5. a \notin overlapped /\ a \in Assertions \ overlapped'
      BY <1>2, <2>1 DEF Keeps
    <2>6. /\ l.pc = "unindex_search" => a \notin vectors
          /\ l.pc = "complete" /\ l.jobs[1].operation = "delete" =>
                a \notin vectors \union search
      BY <1>2, <2>1, <2>5 DEF IInv, Clear, WriterClear
    <2> QED
      BY <2>1, <2>3, <2>4, <2>5, <2>6 DEF Calm
  <1>3. \A a : Writes(l, a)' <=> Writes(l, a)
    BY DEF Writes, InPass
  <1> QED
    BY <1>1, <1>2, <1>3 DEF WriterClear, InPass

LEMMA DeletionClearStays ==
    ASSUME IInv, Keeps, Calm, NEW v \in Workers, NEW l \in Local, l = local[v]
    PROVE  DeletionClear(l)'
  <1>1. DeletionClear(l) /\ l.scope \subseteq Assertions /\ l.ids \subseteq Assertions
    BY DEF IInv, Clear, Local
  <1>2. ASSUME Collects(l), NEW a \in (l.scope \ l.ids) \ overlapped', Exists(a)'
        PROVE  a \notin vectors' \union search'
    <2>1. a \in Assertions \ overlapped' /\ a \notin overlapped
      BY <1>1, <1>2 DEF Keeps
    <2>2. memory[a] = "absent" => a \notin vectors \union search
      BY <2>1 DEF IInv, Clear, Followed
    <2>3. Exists(a) \/ memory[a] = "absent"
      BY <1>2, <2>1 DEF Exists, Keeps, IInv, TypeOK
    <2>4. a \notin vectors \union search
      BY <1>1, <1>2, <2>1, <2>2, <2>3 DEF DeletionClear
    <2> QED
      BY <1>2, <2>1, <2>4 DEF Calm
  <1>3. ASSUME l.pc = "delete_done", NEW a \in l.ids \cap vectors'
        PROVE  a \in overlapped'
    <2>1. a \in Assertions /\ memory[a] = "erased"
      BY <1>1, <1>3 DEF IInv, DeletionOK
    <2>2. a \in vectors => a \in overlapped'
      BY <1>1, <1>3 DEF DeletionClear, Keeps
    <2> QED
      BY <1>3, <2>1, <2>2 DEF Calm
  <1> QED
    BY <1>2, <1>3 DEF DeletionClear, Collects

LEMMA ClearMoves ==
    ASSUME IInv, Keeps, Calm, NEW w \in Workers, NEW l, Moves(w, l),
           WriterClear(l)', DeletionClear(l)',
           \A a \in Assertions \ overlapped' : Writes(l, a) =>
              \/ Writes(local[w], a)
              \/ \A v \in Workers : ~(Collects(local[v]) /\ a \in local[v].scope),
           Collects(l) =>
              \/ Collects(local[w]) /\ l.scope = local[w].scope
              \/ \A a \in l.scope \ overlapped' :
                    \A v \in Workers : ~Writes(local[v], a)
    PROVE  Apart' /\ Workings'
  <1>1. /\ local'[w] = l
        /\ \A v \in Workers : v # w => local'[v] = local[v]
        /\ l \in Local
    BY MoveFacts DEF IInv, Moves
  <1>2. ASSUME NEW u \in Workers, NEW v \in Workers, Collects(local'[v]),
               NEW a \in local'[v].scope \ overlapped', Writes(local'[u], a)
        PROVE  FALSE
    <2>1. a \in Assertions /\ a \notin overlapped /\ u # v
      <3>1. local'[v] \in Local
        BY <1>1 DEF IInv, TypeOK
      <3> QED
        BY <1>2, <3>1 DEF Local, Keeps, Writes, Collects, InPass
    <2>2. \A x, y \in Workers :
            Collects(local[y]) /\ a \in local[y].scope => ~Writes(local[x], a)
      BY <2>1 DEF IInv, Clear
    <2>3. CASE u = w
      BY <1>1, <1>2, <2>1, <2>2, <2>3
    <2>4. CASE v = w
      BY <1>1, <1>2, <2>1, <2>2, <2>4
    <2>5. CASE u # w /\ v # w
      BY <1>1, <1>2, <2>2, <2>5
    <2> QED
      BY <2>3, <2>4, <2>5
  <1>3. Apart'
    <2>1. \A u, v \in Workers : Collects(local'[v]) =>
            \A a \in local'[v].scope \ overlapped' : ~Writes(local'[u], a)
      BY <1>2
    <2> QED
      BY <2>1 DEF Apart, Collects, Writes, InPass
  <1>4. ASSUME NEW v \in Workers
        PROVE  (WriterClear(local[v]) /\ DeletionClear(local[v]))'
    <2>1. CASE v = w
      BY <1>1, <2>1 DEF WriterClear, DeletionClear, InPass, Exists, Writes, Collects
    <2>2. CASE v # w
      <3>1. PICK k \in Local : k = local[v]
        BY DEF IInv, TypeOK
      <3>2. WriterClear(k)' /\ DeletionClear(k)'
        BY <3>1, WriterStays, DeletionClearStays
      <3>3. local'[v] = k
        BY <1>1, <2>2, <3>1
      <3> QED
        BY <3>2, <3>3
           DEF WriterClear, DeletionClear, InPass, Exists, Writes, Collects
    <2> QED
      BY <2>1, <2>2
  <1> QED
    BY <1>3, <1>4 DEF Workings

LEMMA IdleClear ==
    /\ WriterClear(Idle)' /\ DeletionClear(Idle)'
    /\ \A a : ~Writes(Idle, a)
    /\ ~Collects(Idle)
  BY DEF WriterClear, DeletionClear, InPass, Writes, Collects, Idle

LEMMA ReturnClear ==
    ASSUME IInv, Keeps, Calm, NEW w \in Workers, Return(w)
    PROVE  Apart' /\ Workings'
  BY ReturnMoves, IdleClear, ClearMoves

\* A pass whose writer holds no more than it did.
LEMMA PassClear ==
    ASSUME IInv, Keeps, Calm, NEW w \in Workers, InPass(local[w]),
           NEW l, Moves(w, l), InPass(l),
           \A i \in DOMAIN l.jobs :
              \E k \in DOMAIN local[w].jobs : l.jobs[i] = local[w].jobs[k],
           l.jobs[1].assertion \notin overlapped' =>
              /\ l.pc = "unindex_search" => l.jobs[1].assertion \notin vectors'
              /\ l.pc = "complete" /\ l.jobs[1].operation = "delete" =>
                    l.jobs[1].assertion \notin vectors' \union search'
    PROVE  Apart' /\ Workings'
  <1>1. l.pc # "rebuild_write" /\ ~Collects(l) /\ l.pc # "delete_done"
    BY DEF InPass, Collects
  <1>2. \A a : Writes(l, a) => Writes(local[w], a)
    BY <1>1 DEF Writes
  <1>3. \A a \in Assertions \ overlapped' : Writes(l, a) => memory'[a] = "accepted"
    BY <1>2 DEF IInv, Clear, WriterClear, Keeps, Calm
  <1>4. WriterClear(l)' /\ DeletionClear(l)'
    BY <1>1, <1>3 DEF WriterClear, DeletionClear, Writes, InPass, Collects
  <1> QED
    BY <1>1, <1>2, <1>4, ClearMoves

\* A pass that goes on with its turn.
LEMMA PassGoesOnClear ==
    ASSUME IInv, Keeps, Calm,
           NEW w \in Workers, InPass(local[w]),
           NEW step \in {"turn", "embed", "index_search", "unindex_search",
                         "complete", "failed"},
           Goto(w, step),
           Turn(w).assertion \notin overlapped =>
              /\ step = "unindex_search" => Turn(w).assertion \notin vectors'
              /\ step = "complete" /\ Turn(w).operation = "delete" =>
                    Turn(w).assertion \notin vectors' \union search'
    PROVE  Apart' /\ Workings'
  <1>1. step \in Steps
    BY DEF Steps
  <1>2. PICK l : Moves(w, l) /\ l.pc = step /\ l.jobs = local[w].jobs
    BY <1>1, GotoMoves DEF IInv
  <1>3. Turn(w) = l.jobs[1]
    BY <1>2, TurnFacts
  <1>4. InPass(l)
    BY <1>2 DEF InPass
  <1> QED
    BY <1>2, <1>3, <1>4, PassClear DEF Keeps

LEMMA NextJobClear ==
    ASSUME IInv, Keeps, Calm,
           NEW w \in Workers, InPass(local[w]), NextJob(w)
    PROVE  Apart' /\ Workings'
  <1>1. PICK l : /\ Moves(w, l)
                 /\ \/ l = Idle
                    \/ /\ l.pc = "turn" /\ l.jobs # <<>>
                       /\ \A i \in DOMAIN l.jobs :
                             \E k \in DOMAIN local[w].jobs :
                                 l.jobs[i] = local[w].jobs[k]
    BY NextJobMoves
  <1>2. CASE l = Idle
    BY <1>1, <1>2, IdleClear, ClearMoves
  <1>3. CASE l # Idle
    BY <1>1, <1>3, PassClear DEF InPass
  <1> QED
    BY <1>2, <1>3

\* A pass that begins finds its rows as memory has them.
LEMMA ReadClear ==
    ASSUME IInv, Keeps, Calm, NEW w \in Workers, RepairRead(w)
    PROVE  Apart' /\ Workings'
  <1>1. PICK n \in 1..Limit :
          \E rows \in [1..n -> Assertions] :
            /\ Pending(rows)
            /\ NoteReading({rows[i] : i \in 1..n})
            /\ local' = [local EXCEPT ![w].pc = "turn",
                  ![w].jobs = [i \in 1..n |-> [assertion |-> rows[i],
                                  operation |-> outbox[rows[i]].operation]]]
    BY DEF RepairRead
  <1>2. PICK rows \in [1..n -> Assertions] :
            /\ Pending(rows)
            /\ NoteReading({rows[i] : i \in 1..n})
            /\ local' = [local EXCEPT ![w].pc = "turn",
                  ![w].jobs = [i \in 1..n |-> [assertion |-> rows[i],
                                  operation |-> outbox[rows[i]].operation]]]
    BY <1>1
  <1>3. PICK jobs : jobs = [i \in 1..n |-> [assertion |-> rows[i],
                               operation |-> outbox[rows[i]].operation]]
    OBVIOUS
  <1>4. \A i \in 1..n : /\ Waiting(rows[i])
                        /\ jobs[i].assertion = rows[i]
                        /\ jobs[i].operation = outbox[rows[i]].operation
    BY <1>2, <1>3 DEF Pending
  <1>5. PICK old \in Local : old = local[w]
    BY DEF IInv, TypeOK
  <1>6. PICK l : l = [old EXCEPT !.pc = "turn", !.jobs = jobs]
    OBVIOUS
  <1>7. l.pc = "turn" /\ l.jobs = jobs /\ DOMAIN jobs = 1..n
    BY <1>3, <1>6 DEF Local
  <1>8. local' = [local EXCEPT ![w] = l]
    BY <1>2, <1>3, <1>5, <1>6
  <1>9. l \in Local
    <2>1. local'[w] = l
      BY <1>8 DEF IInv, TypeOK
    <2>2. LocalsOK'
      BY ReadKeeps
    <2> QED
      BY <2>1, <2>2 DEF LocalsOK
  <1>10. Moves(w, l)
    BY <1>8, <1>9 DEF Moves
  <1>11. UNCHANGED <<memory, outbox>>
    BY DEF RepairRead
  <1>12. ASSUME NEW a \in Assertions \ overlapped', Writes(l, a)
         PROVE  /\ memory'[a] = "accepted"
                /\ \A v \in Workers : ~(Collects(local[v]) /\ a \in local[v].scope)
    <2>1. PICK i \in 1..n : jobs[i] = [assertion |-> a, operation |-> "upsert"]
      BY <1>7, <1>12 DEF Writes
    <2>2. rows[i] = a /\ outbox[a].operation = "upsert" /\ Waiting(a)
      BY <1>4, <2>1
    <2>3. a \notin overlapped
      BY <1>12 DEF Keeps
    <2>4. memory[a] = "accepted"
      BY <2>2, <2>3 DEF IInv, TypeOK, RowOK, Waiting, NoEntry
    <2>5. \A v \in Workers : ~(Collects(local[v]) /\ a \in local[v].scope)
      BY <1>2, <1>12, <2>2, Kinds DEF NoteReading
    <2> QED
      BY <1>11, <2>4, <2>5
  <1>13. ~Collects(l) /\ l.pc \notin {"unindex_search", "complete", "delete_done"}
    BY <1>7 DEF Collects
  <1>14. WriterClear(l)' /\ DeletionClear(l)'
    BY <1>12, <1>13 DEF WriterClear, DeletionClear, Writes, InPass, Collects
  <1> QED
    BY <1>10, <1>12, <1>13, <1>14, ClearMoves

LEMMA RepairClear ==
    ASSUME IInv, Keeps, Calm, NEW w \in Workers, Repair(w)
    PROVE  Apart' /\ Workings'
  <1>1. CASE RepairDeleteVector(w)
    BY <1>1, PassGoesOnClear DEF RepairDeleteVector, InPass, At
  <1>2. CASE RepairDeleteSearch(w)
    <2>1. InPass(local[w])
      BY <1>2 DEF RepairDeleteSearch, InPass, At
    <2>2. Turn(w).assertion \notin overlapped => Turn(w).assertion \notin vectors
      BY <1>2, <2>1, TurnFacts DEF RepairDeleteSearch, At, IInv, Clear, WriterClear
    <2> QED
      BY <1>2, <2>1, <2>2, PassGoesOnClear DEF RepairDeleteSearch
  <1>3. CASE RepairReadAssertion(w)
    BY <1>3, PassGoesOnClear DEF RepairReadAssertion, InPass, At
  <1>4. CASE RepairUpsertVector(w)
    BY <1>4, PassGoesOnClear DEF RepairUpsertVector, InPass, At
  <1>5. CASE RepairInsertSearch(w)
    <2>1. InPass(local[w])
      BY <1>5 DEF RepairInsertSearch, InPass, At
    <2>2. Turn(w).operation = "upsert"
      BY <1>5, <2>1, TurnFacts DEF RepairInsertSearch, At, IInv, PassOK
    <2> QED
      BY <1>5, <2>1, <2>2, PassGoesOnClear DEF RepairInsertSearch
  <1>6. CASE RepairComplete(w)
    BY <1>6, NextJobClear DEF RepairComplete, InPass, At
  <1>7. CASE RepairThrows(w)
    BY <1>7, PassGoesOnClear DEF RepairThrows, Catch, InPass, At
  <1>8. CASE RepairFailed(w)
    BY <1>8, NextJobClear DEF RepairFailed, InPass, At
  <1> QED
    BY <1>1, <1>2, <1>3, <1>4, <1>5, <1>6, <1>7, <1>8, ReadClear DEF Repair

\* A deletion that goes on with what it collected.
LEMMA DeletionGoesOnClear ==
    ASSUME IInv, Keeps, Calm, NEW w \in Workers,
           NEW l, Moves(w, l), InDeletion(l),
           Collects(l) => Collects(local[w]) /\ l.scope = local[w].scope,
           DeletionClear(l)'
    PROVE  Apart' /\ Workings'
  <1>1. \A a : ~Writes(l, a)
    BY DEF Writes, InPass, InDeletion
  <1>2. WriterClear(l)'
    BY <1>1 DEF WriterClear, Writes, InPass, InDeletion
  <1> QED
    BY <1>1, <1>2, ClearMoves

LEMMA BeginClear ==
    ASSUME IInv, Keeps, Calm, NEW w \in Workers, NEW scope \in Scopes,
           RebuildRead(w, scope) \/ DeleteCollect(w, scope)
    PROVE  Apart' /\ Workings'
  <1>1. PICK start \in Local : start = Idle
    BY IdleType
  <1>2. CASE RebuildRead(w, scope)
    <2>1. PICK ids : ids = {a \in scope : memory[a] = "accepted"}
      OBVIOUS
    <2>2. PICK l : l = [start EXCEPT !.pc = "rebuild_write", !.ids = ids]
      OBVIOUS
    <2>3. l \in Local /\ l.pc = "rebuild_write" /\ l.ids = ids
      BY <2>1, <2>2, ConstantsAssumption DEF Local, Steps
    <2>4. Moves(w, l) /\ UNCHANGED memory /\ NoteReading(scope)
      BY <1>1, <1>2, <2>1, <2>2, <2>3 DEF RebuildRead, Moves
    <2>5. \A a : Writes(l, a) => a \in ids
      BY <2>3 DEF Writes, InPass
    <2>6. \A a \in ids \ overlapped' :
            \A v \in Workers : ~(Collects(local[v]) /\ a \in local[v].scope)
      BY <2>1, <2>4, Kinds DEF NoteReading
    <2>7. \A a : Writes(l, a) => memory'[a] = "accepted"
      BY <2>1, <2>4, <2>5
    <2>8. WriterClear(l)' /\ DeletionClear(l)' /\ ~Collects(l)
      BY <2>3, <2>7 DEF WriterClear, Writes, InPass, DeletionClear, Collects
    <2> QED
      BY <2>4, <2>5, <2>6, <2>8, ClearMoves
  <1>3. CASE DeleteCollect(w, scope)
    <2>1. PICK ids : ids = Collected(scope)
      OBVIOUS
    <2>2. PICK l : l = [start EXCEPT !.pc = "delete_receipt", !.scope = scope, !.ids = ids]
      OBVIOUS
    <2>3. l \in Local /\ l.pc = "delete_receipt" /\ l.ids = ids /\ l.scope = scope
      BY <2>1, <2>2, ConstantsAssumption DEF Local, Steps, Collected
    <2>4. Moves(w, l) /\ UNCHANGED memory /\ NoteWithdrawal(scope)
      BY <1>1, <1>3, <2>1, <2>2, <2>3 DEF DeleteCollect, Moves
    <2>5. \A a \in scope \ ids : ~Exists(a)'
      BY <2>1, <2>4 DEF Collected, Exists
    <2>6. \A a \in scope \ overlapped' : \A v \in Workers : ~Writes(local[v], a)
      BY <2>4, Kinds, ConstantsAssumption DEF NoteWithdrawal
    <2>7. WriterClear(l)' /\ DeletionClear(l)' /\ \A a : ~Writes(l, a)
      BY <2>3, <2>5 DEF WriterClear, Writes, InPass, DeletionClear, Collects
    <2> QED
      BY <2>3, <2>4, <2>6, <2>7, ClearMoves
  <1> QED
    BY <1>2, <1>3

LEMMA PrivacyClear ==
    ASSUME IInv, Keeps, Calm, NEW w \in Workers, Privacy(w)
    PROVE  Apart' /\ Workings'
  <1>1. CASE RebuildWrite(w) \/ DeleteRowsAbort(w) \/ DeleteDone(w) \/ DeleteQueued(w)
    BY <1>1, ReturnClear
       DEF RebuildWrite, DeleteRowsAbort, AbortEscapes, DeleteDone,
           DeleteQueued, UpdateReceipt
  <1>2. CASE DeleteInsertReceipt(w)
    <2>1. PICK r \in Receipts :
            local' = [local EXCEPT ![w].pc = "delete_rows", ![w].receipt = r]
      BY <1>2 DEF DeleteInsertReceipt
    <2>2. PICK old \in Local : old = local[w]
      BY DEF IInv, TypeOK
    <2>3. PICK l : l = [old EXCEPT !.pc = "delete_rows", !.receipt = r]
      OBVIOUS
    <2>4. /\ l \in Local /\ l.pc = "delete_rows"
          /\ l.ids = old.ids /\ l.scope = old.scope
      BY <2>3 DEF Local, Steps
    <2>5. Moves(w, l)
      BY <2>1, <2>2, <2>3, <2>4 DEF Moves
    <2>6. \A a \in (l.scope \ l.ids) \ overlapped :
            Exists(a) => a \notin vectors \union search
      BY <1>2, <2>2, <2>4
         DEF DeleteInsertReceipt, At, IInv, Clear, DeletionClear, Collects
    <2>7. UNCHANGED <<memory, vectors, search, overlapped>>
      BY <1>2 DEF DeleteInsertReceipt
    <2>8. DeletionClear(l)' /\ InDeletion(l)
      BY <2>4, <2>6, <2>7 DEF DeletionClear, Exists, InDeletion, Collects
    <2>9. Collects(local[w]) /\ l.scope = local[w].scope
      BY <1>2, <2>2, <2>4 DEF DeleteInsertReceipt, At, Collects
    <2> QED
      BY <2>5, <2>8, <2>9, DeletionGoesOnClear
  <1>3. CASE DeleteRows(w) \/ DeleteVectors(w) \/ DeleteVectorsThrow(w)
    <2>1. PICK step \in {"delete_vectors", "delete_done", "delete_failed"} :
            /\ Goto(w, step)
            /\ step = "delete_done" => DeleteVectors(w)
      BY <1>3 DEF DeleteRows, DeleteVectors, DeleteVectorsThrow
    <2>2. PICK l : Moves(w, l) /\ l.pc = step /\ l.ids = local[w].ids
      BY <2>1, GotoMoves DEF IInv, Steps
    <2>3. step = "delete_done" => l.ids \cap vectors' = {}
      BY <2>1, <2>2 DEF DeleteVectors
    <2>4. DeletionClear(l)' /\ InDeletion(l) /\ ~Collects(l)
      BY <2>2, <2>3 DEF DeletionClear, InDeletion, Collects
    <2> QED
      BY <2>2, <2>4, DeletionGoesOnClear
  <1> QED
    BY <1>1, <1>2, <1>3, BeginClear DEF Privacy

LEMMA StepWorkings ==
    ASSUME IInv, Next
    PROVE  Apart' /\ Workings'
  <1>1. Keeps /\ Calm
    BY NextKeeps, StepCalm
  <1>2. ASSUME NEW a \in Assertions,
               Publish(a) \/ Rollback(a) \/ RollbackUnlisted(a)
        PROVE  Apart' /\ Workings'
    <2>1. UNCHANGED local
      BY <1>2 DEF Publish, Rollback, RollbackUnlisted
    <2>2. ASSUME NEW v \in Workers
          PROVE  (WriterClear(local[v]) /\ DeletionClear(local[v]))'
      <3>1. PICK k \in Local : k = local[v]
        BY DEF IInv, TypeOK
      <3>2. WriterClear(k)' /\ DeletionClear(k)'
        BY <1>1, <3>1, WriterStays, DeletionClearStays
      <3>3. local'[v] = k
        BY <2>1, <3>1
      <3> QED
        BY <3>2, <3>3
           DEF WriterClear, DeletionClear, InPass, Exists, Writes, Collects
    <2>3. Apart'
      BY <1>1, <2>1 DEF IInv, Clear, Keeps, Writes, Collects, InPass
    <2> QED
      BY <2>2, <2>3 DEF Workings
  <1>3. ASSUME NEW w \in Workers, Crash(w) PROVE Apart' /\ Workings'
    BY <1>1, <1>3, ReturnClear DEF Crash
  <1> QED
    BY <1>1, <1>2, <1>3, RepairClear, PrivacyClear DEF Next

AllFollowed == \A a \in (vectors \union search) \ overlapped : Followed(a)

\* A step that leaves memory and the receipts alone, and lets go of no row that
\* an index still has.
LEMMA FollowedStays ==
    ASSUME IInv, Keeps, Calm, UNCHANGED <<memory, deletions>>,
           \A a \in ((vectors \union search) \cap (vectors' \union search')) \ overlapped' :
              memory[a] = "superseded" /\ Waiting(a) => Waiting(a)',
           vectors' \union search' \subseteq Assertions
    PROVE  AllFollowed'
  <1>1. ASSUME NEW a \in (vectors' \union search') \ overlapped' PROVE Followed(a)'
    <2>1. a \in Assertions \ overlapped' /\ a \notin overlapped
      BY <1>1 DEF Keeps
    <2>2. CASE memory[a] = "accepted"
      BY <2>2 DEF Followed
    <2>3. CASE memory[a] # "accepted"
      <3>1. a \in vectors \union search /\ (a \in search' => a \in search)
        BY <1>1, <2>1, <2>3 DEF Calm
      <3>2. Followed(a)
        BY <2>1, <3>1 DEF IInv, Clear
      <3>3. CASE memory[a] = "superseded"
        BY <1>1, <3>1, <3>2, <3>3 DEF Followed
      <3>4. CASE memory[a] = "erased"
        BY <3>1, <3>2, <3>4 DEF Followed
      <3> QED
        BY <2>3, <3>2, <3>3, <3>4 DEF Followed
    <2> QED
      BY <2>2, <2>3
  <1> QED
    BY <1>1 DEF AllFollowed

LEMMA StepFollowed ==
    ASSUME IInv, Next
    PROVE  AllFollowed'
  <1>1. Calm /\ Keeps
    BY StepCalm, NextKeeps
  <1>2. /\ vectors \union search \subseteq Assertions
        /\ vectors' \union search' \subseteq Assertions
    BY StepTables DEF IInv, TypeOK, Tables
  <1>3. ASSUME NEW b \in Assertions, Publish(b) \/ Rollback(b)
        PROVE  AllFollowed'
    <2>1. PICK operation \in {"upsert", "delete"} : Enqueue(b, operation)
      BY <1>3 DEF Publish, Rollback
    <2>2. /\ outbox'[b].state = "pending"
          /\ \A a \in Assertions : a # b => outbox'[a] = outbox[a]
      BY <2>1, WritesEntry DEF Enqueue, IInv
    <2>3. /\ memory'[b] \in {"accepted", "superseded"}
          /\ \A a \in Assertions : a # b => memory'[a] = memory[a]
          /\ UNCHANGED <<vectors, search, deletions>>
      BY <1>3 DEF Publish, Rollback, IInv, TypeOK
    <2>4. ASSUME NEW a \in (vectors' \union search') \ overlapped' PROVE Followed(a)'
      <3>1. CASE a = b
        BY <2>2, <2>3, <3>1 DEF Followed, Waiting
      <3>2. CASE a # b
        <4>1. memory'[a] = memory[a] /\ outbox'[a] = outbox[a] /\ Followed(a)
          BY <1>1, <1>2, <2>2, <2>3, <2>4, <3>2 DEF IInv, Clear, Keeps
        <4> QED
          BY <2>3, <4>1 DEF Followed, Waiting
      <3> QED
        BY <3>1, <3>2
    <2> QED
      BY <2>4 DEF AllFollowed
  <1>4. ASSUME NEW b \in Assertions, RollbackUnlisted(b) PROVE AllFollowed'
    <2>1. /\ b \in overlapped'
          /\ \A a \in Assertions : a # b => memory'[a] = memory[a]
          /\ UNCHANGED <<outbox, vectors, search, deletions>>
      BY <1>4 DEF RollbackUnlisted, IInv, TypeOK
    <2>2. ASSUME NEW a \in (vectors' \union search') \ overlapped' PROVE Followed(a)'
      <3>1. memory'[a] = memory[a] /\ Followed(a)
        BY <1>1, <1>2, <2>1, <2>2 DEF IInv, Clear, Keeps
      <3> QED
        BY <2>1, <3>1 DEF Followed, Waiting
    <2> QED
      BY <2>2 DEF AllFollowed
  <1>5. ASSUME NEW w \in Workers, RepairComplete(w) PROVE AllFollowed'
    <2>1. PICK b \in Assertions : b = Turn(w).assertion
      BY <1>5, TurnFacts DEF RepairComplete, InPass, At
    <2>2. \A a \in Assertions : a # b => outbox'[a] = outbox[a]
      BY <1>5, <2>1, CompletesEntry DEF RepairComplete, IInv
    <2>3. \/ memory[b] = "accepted" \/ b \notin vectors \union search
          \/ b \in overlapped
      <3>1. InPass(local[w]) /\ local[w].pc = "complete"
        BY <1>5 DEF RepairComplete, InPass, At
      <3>2. CASE Turn(w).operation = "upsert"
        BY <2>1, <3>1, <3>2, TurnWrites DEF IInv, Clear, WriterClear
      <3>3. CASE Turn(w).operation = "delete"
        BY <2>1, <3>1, <3>3, TurnFacts DEF IInv, Clear, WriterClear
      <3> QED
        BY <3>1, <3>2, <3>3, TurnFacts
    <2>4. UNCHANGED <<memory, vectors, search, deletions, overlapped>>
      BY <1>5 DEF RepairComplete
    <2> QED
      BY <1>1, <1>2, <2>2, <2>3, <2>4, FollowedStays DEF Waiting
  <1>6. ASSUME NEW w \in Workers, RepairFailed(w) PROVE AllFollowed'
    <2>1. PICK b \in Assertions : b = Turn(w).assertion
      BY <1>6, TurnFacts DEF RepairFailed, InPass, At
    <2>2. \/ UNCHANGED outbox
          \/ /\ outbox'[b].state = "repair_queued"
             /\ \A a \in Assertions : a # b => outbox'[a] = outbox[a]
      BY <1>6, <2>1, WritesState DEF RepairFailed, IInv
    <2>3. UNCHANGED <<memory, vectors, search, deletions, overlapped>>
      BY <1>6 DEF RepairFailed
    <2> QED
      BY <1>1, <1>2, <2>2, <2>3, FollowedStays DEF Waiting
  <1>7. ASSUME NEW w \in Workers, DeleteRows(w) PROVE AllFollowed'
    <2>1. PICK scope \in SUBSET Assertions : scope = local[w].scope
      BY DEF IInv, TypeOK, Local
    <2>2. /\ memory' = [a \in Assertions |->
                          IF a \in scope /\ Exists(a) THEN "erased" ELSE memory[a]]
          /\ outbox' = [a \in Assertions |->
                          IF a \in scope THEN NoEntry ELSE outbox[a]]
          /\ search' = search \ scope
          /\ UNCHANGED <<vectors, deletions, overlapped>>
      BY <1>7, <2>1 DEF DeleteRows, Erased, SearchErased
    <2>3. \A a \in (scope \ local[w].ids) \ overlapped :
            Exists(a) => a \notin vectors \union search
      BY <1>7, <2>1 DEF DeleteRows, At, IInv, Clear, DeletionClear, Collects
    <2>4. PICK r \in Receipts : /\ deletions[r].ids = local[w].ids
                                /\ deletions[r].status = "pending"
      BY <1>7 DEF DeleteRows, At, IInv, DeletionOK, HasReceipt, InDeletion
    <2>5. ASSUME NEW a \in (vectors' \union search') \ overlapped' PROVE Followed(a)'
      <3>1. a \in Assertions /\ Followed(a)
        BY <1>2, <2>2, <2>5 DEF IInv, Clear
      <3>2. CASE a \notin scope
        <4>1. memory'[a] = memory[a] /\ outbox'[a] = outbox[a]
          BY <2>2, <3>1, <3>2
        <4> QED
          BY <2>2, <3>1, <4>1 DEF Followed, Waiting
      <3>3. CASE a \in scope /\ Exists(a)
        BY <2>2, <2>3, <2>4, <2>5, <3>1, <3>3 DEF Followed
      <3>4. CASE a \in scope /\ ~Exists(a)
        <4>1. memory[a] = "erased" /\ memory'[a] = "erased"
          BY <2>2, <3>1, <3>4 DEF Followed, Exists
        <4> QED
          BY <2>2, <3>1, <4>1 DEF Followed
      <3> QED
        BY <3>2, <3>3, <3>4
    <2> QED
      BY <2>5 DEF AllFollowed
  <1>8. ASSUME NEW w \in Workers, DeleteInsertReceipt(w) PROVE AllFollowed'
    <2>1. PICK r \in Receipts :
            /\ deletions[r].ids = {}
            /\ \A x \in Receipts : x # r => deletions'[x] = deletions[x]
      BY <1>8 DEF DeleteInsertReceipt, IInv, TypeOK, ReceiptOK
    <2>2. UNCHANGED <<memory, outbox, vectors, search, overlapped>>
      BY <1>8 DEF DeleteInsertReceipt
    <2>3. \A x \in Receipts : deletions[x].ids # {} => deletions'[x] = deletions[x]
      BY <2>1
    <2>4. ASSUME NEW a \in (vectors' \union search') \ overlapped' PROVE Followed(a)'
      <3>1. Followed(a)
        BY <2>2, <2>4 DEF IInv, Clear
      <3> QED
        BY <2>2, <2>3, <3>1 DEF Followed, Waiting
    <2> QED
      BY <2>4 DEF AllFollowed
  <1>9. ASSUME NEW w \in Workers, DeleteDone(w) \/ DeleteQueued(w) PROVE AllFollowed'
    <2>1. PICK r \in Receipts, status \in {"deleted", "repair_queued"} :
            /\ r = local[w].receipt
            /\ deletions' = [deletions EXCEPT ![r].status = status]
            /\ status = "deleted" => At(w, "delete_done")
      BY <1>9 DEF DeleteDone, DeleteQueued, UpdateReceipt, At, IInv, DeletionOK,
                  HasReceipt, InDeletion
    <2>2. /\ deletions'[r].status = status /\ deletions'[r].ids = deletions[r].ids
          /\ \A x \in Receipts : x # r => deletions'[x] = deletions[x]
      BY <2>1 DEF IInv, TypeOK, Deletion
    <2>3. UNCHANGED <<memory, outbox, vectors, search, overlapped>>
      BY <1>9 DEF DeleteDone, DeleteQueued, UpdateReceipt
    <2>4. status = "deleted" => deletions[r].ids \cap vectors \subseteq overlapped
      <3>1. ASSUME status = "deleted"
            PROVE  /\ deletions[r].ids = local[w].ids
                   /\ local[w].ids \cap vectors \subseteq overlapped
        BY <2>1, <3>1 DEF At, IInv, DeletionOK, HasReceipt, InDeletion, Clear,
                          DeletionClear
      <3> QED
        BY <3>1
    <2>5. ASSUME NEW a \in (vectors' \union search') \ overlapped' PROVE Followed(a)'
      <3>1. Followed(a)
        BY <2>3, <2>5 DEF IInv, Clear
      <3>2. CASE memory[a] # "erased"
        BY <2>3, <3>1, <3>2 DEF Followed, Waiting
      <3>3. CASE memory[a] = "erased"
        <4>1. a \in vectors /\ a \notin search
          BY <2>3, <2>5, <3>1, <3>3 DEF Followed
        <4>2. PICK x \in Receipts : a \in deletions[x].ids /\ deletions[x].status # "deleted"
          BY <3>1, <3>3 DEF Followed
        <4>3. a \in deletions'[x].ids /\ deletions'[x].status # "deleted"
          BY <2>1, <2>2, <2>3, <2>4, <2>5, <4>1, <4>2
        <4> QED
          BY <2>3, <3>3, <4>1, <4>3 DEF Followed
      <3> QED
        BY <3>2, <3>3
    <2> QED
      BY <2>5 DEF AllFollowed
  <1>10. ASSUME NEW w \in Workers,
               \/ RepairRead(w) \/ RepairDeleteVector(w) \/ RepairDeleteSearch(w)
               \/ RepairReadAssertion(w) \/ RepairUpsertVector(w)
               \/ RepairInsertSearch(w) \/ RepairThrows(w) \/ RebuildWrite(w)
               \/ DeleteRowsAbort(w) \/ DeleteVectors(w) \/ DeleteVectorsThrow(w)
               \/ Crash(w)
               \/ \E scope \in Scopes : RebuildRead(w, scope) \/ DeleteCollect(w, scope)
         PROVE  AllFollowed'
    <2>1. UNCHANGED <<memory, outbox, deletions>>
      BY <1>10 DEF RepairRead, RepairDeleteVector, RepairDeleteSearch,
           RepairReadAssertion, RepairUpsertVector, RepairInsertSearch,
           RepairThrows, RebuildWrite, DeleteRowsAbort, DeleteVectors,
           DeleteVectorsThrow, Crash, RebuildRead, DeleteCollect
    <2> QED
      BY <1>1, <1>2, <2>1, FollowedStays DEF Waiting
  <1> QED
    BY <1>3, <1>4, <1>5, <1>6, <1>7, <1>8, <1>9, <1>10 DEF Next, Repair, Privacy
-----------------------------------------------------------------------------
(* The invariant.                                                          *)

LEMMA InitEstablishes == Init => IInv
  <1> SUFFICES ASSUME Init PROVE IInv
    OBVIOUS
  <1>1. NoEntry \in Entry /\ NoEntry.state = "none"
    BY DEF NoEntry, Entry
  <1>2. \A d : d = [status |-> "none", ids |-> {}] =>
                  d \in Deletion /\ d.status = "none" /\ d.ids = {}
    BY DEF Deletion
  <1>3. Stamped = {}
    BY <1>1, IdleType DEF Init, Stamped, Waiting, InTurn, At
  <1>4. TypeOK
    BY <1>1, <1>2, <1>3, IdleType DEF Init, TypeOK, Orders
  <1>5. \A a \in Assertions : RowOK(a)
    BY <1>1 DEF Init, RowOK, NoEntry, Wanted
  <1>6. \A r \in Receipts : ReceiptOK(r)
    BY <1>2 DEF Init, ReceiptOK
  <1>7. \A w \in Workers : local[w] = Idle
    BY DEF Init
  <1>8. \A w \in Workers : PassOK(local[w]) /\ DeletionOK(local[w])
    BY <1>7, IdleType DEF PassOK, DeletionOK, InPass, InDeletion, HasReceipt
  <1>9. OwnReceipt
    BY <1>7, IdleType DEF OwnReceipt, HasReceipt, InDeletion
  <1>10. Clear
    BY <1>7, IdleType
       DEF Init, Clear, WriterClear, DeletionClear, InPass, Writes, Collects
  <1> QED
    BY <1>4, <1>5, <1>6, <1>8, <1>9, <1>10 DEF IInv

LEMMA IInvStep == IInv /\ [Next]_vars => IInv'
  <1> SUFFICES ASSUME IInv, [Next]_vars PROVE IInv'
    OBVIOUS
  <1>1. CASE Next
    <2>1. TypeOK'
      BY <1>1, StepTables, StepLocals, StepOrder DEF TypeOK, Tables, LocalsOK
    <2>2. (\A a \in Assertions : RowOK(a))' /\ (\A r \in Receipts : ReceiptOK(r))'
      BY <1>1, StepTables, StepReceipts DEF Rows
    <2>3. /\ (\A w \in Workers : PassOK(local[w]) /\ DeletionOK(local[w]))'
          /\ OwnReceipt'
      BY <1>1, StepLocals DEF LocalsOK
    <2>4. Clear'
      <3>1. Apart' /\ Workings' /\ AllFollowed'
        BY <1>1, StepWorkings, StepFollowed
      <3> QED
        BY <3>1 DEF Clear, AllFollowed
    <2> QED
      BY <2>1, <2>2, <2>3, <2>4 DEF IInv
  <1>2. CASE UNCHANGED vars
    <2> USE <1>2 DEF vars, IInv
    <2>1. TypeOK'
      <3>1. Stamped' = Stamped
        BY DEF Stamped, InTurn, At, Waiting
      <3> QED
        BY <3>1 DEF TypeOK, Orders
    <2>2. (\A a \in Assertions : RowOK(a))' /\ (\A r \in Receipts : ReceiptOK(r))'
      BY DEF RowOK, ReceiptOK, Wanted
    <2>3. (\A w \in Workers : PassOK(local[w]) /\ DeletionOK(local[w]))'
      BY DEF PassOK, DeletionOK, JobOK, InPass, InDeletion, HasReceipt, Wanted
    <2>4. OwnReceipt'
      BY DEF OwnReceipt, HasReceipt, InDeletion
    <2>5. Clear'
      <3>1. Apart'
        BY DEF Clear, Writes, Collects, InPass
      <3>2. Workings'
        BY DEF Clear, WriterClear, DeletionClear, InPass, Exists, Writes, Collects
      <3>3. (\A a \in (vectors \union search) \ overlapped : Followed(a))'
        BY DEF Clear, Followed, Waiting
      <3> QED
        BY <3>1, <3>2, <3>3 DEF Clear
    <2> QED
      BY <2>1, <2>2, <2>3, <2>4, <2>5
  <1> QED
    BY <1>1, <1>2

\* The tables, the locals of requests and the order of timestamps are of their
\* types: every waiting row has one timestamp, and they are in one order.
THEOREM ProjectionTypeCorrect == Spec => []TypeOK
  <1>1. IInv => TypeOK
    BY DEF IInv
  <1> QED
    BY <1>1, InitEstablishes, IInvStep, PTL DEF Spec

\* An upsert recorded as complete is in both indexes, whatever passes,
\* rebuilds, rollbacks and deletions overlap, fail or are cut off.
THEOREM CompleteMeansIndexed == Spec => []CompleteIsIndexed
  <1>1. IInv => CompleteIsIndexed
    BY DEF IInv, RowOK, CompleteIsIndexed
  <1> QED
    BY <1>1, InitEstablishes, IInvStep, PTL DEF Spec

\* What a receipt past pending counted is erased, and stays so.
THEOREM ReceiptsMeanErased == Spec => []ReceiptMeansErased
  <1>1. IInv => ReceiptMeansErased
    <2> SUFFICES ASSUME IInv, NEW r \in Receipts,
                        deletions[r].status \in {"deleted", "repair_queued"},
                        NEW a \in deletions[r].ids
                 PROVE  memory[a] = "erased" /\ outbox[a].state = "none"
      BY DEF ReceiptMeansErased
    <2>1. a \in Assertions /\ memory[a] = "erased"
      BY DEF IInv, TypeOK, Deletion, ReceiptOK
    <2>2. outbox[a] = NoEntry
      BY <2>1 DEF IInv, RowOK
    <2> QED
      BY <2>1, <2>2 DEF NoEntry
  <1> QED
    BY <1>1, InitEstablishes, IInvStep, PTL DEF Spec

\* What an index holds is accepted, or its deletion is queued, under way or
\* said to have failed: for every assertion that no index writer held while it
\* was withdrawn and no rollback left out, whatever became of the others.
THEOREM IndexesFollowMemory == Spec => []IndexFollowsMemory
  <1>1. IInv => IndexFollowsMemory
    BY DEF IInv, Clear, Followed, IndexFollowsMemory
  <1> QED
    BY <1>1, InitEstablishes, IInvStep, PTL DEF Spec

=============================================================================
