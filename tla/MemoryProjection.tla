-------------------------- MODULE MemoryProjection --------------------------
(***************************************************************************)
(* How accepted memory reaches the retrieval indexes and leaves them: the  *)
(* outbox that publication and rollback write, the repair pass that every  *)
(* owner commit starts in the background, rebuilding, and the deletion of  *)
(* a privacy scope.                                                        *)
(*                                                                         *)
(* A worker is one request or background pass in flight, and interleaves   *)
(* at every await.  Publication and rollback are the batches that          *)
(* CandidateReview models; here they are one step each.  An assertion is   *)
(* named by its random identifier, so it is accepted once.                 *)
(***************************************************************************)
EXTENDS Naturals, Sequences

CONSTANTS
    Assertions, Workers, Receipts,
    Administrators,  \* workers that may rebuild and delete
    Scopes,       \* the privacy scopes explored, as sets of assertions
    Wide,         \* those of a tenant, a project or an identity
    Reviewed,     \* assertions whose candidate has a review record
    Judged,       \* scopes with a reviewed candidate that has no assertion
    Contended,    \* assertions whose candidate overlapping requests publish
    Retained,     \* has the tenant a published runway or a bound invocation?
    Poison,       \* assertions the embedding model never accepts
    Limit,        \* rows one repair pass takes
    NoReceipt,
    Crashes       \* may a request stop between two statements?

ASSUME ConstantsAssumption ==
    /\ Administrators \subseteq Workers
    /\ Assertions \cap Workers = {}
    /\ Scopes \subseteq SUBSET Assertions
    /\ Wide \subseteq Scopes
    /\ Reviewed \subseteq Assertions
    /\ Judged \subseteq Scopes
    /\ Contended \subseteq Assertions
    /\ Retained \in BOOLEAN
    /\ Poison \subseteq Assertions
    /\ Limit \in Nat \ {0}
    /\ NoReceipt \notin Receipts
    /\ Crashes \in BOOLEAN

VARIABLES
    memory,      \* memory_assertions.lifecycle_state
    outbox,      \* memory_projection_outbox: operation and state
    stamps,      \* the order of updated_at: <<x, y>> if x is older than y
    vectors,     \* the Vectorize index
    search,      \* memory_assertion_search
    deletions,   \* memory_deletion_receipts
    local,       \* the locals of the request each worker is running
    overlapped   \* what was withdrawn behind the back of its index (history)

vars == <<memory, outbox, stamps, vectors, search, deletions, local, overlapped>>

-----------------------------------------------------------------------------
(* Tables.                                                                 *)

Entry == [operation: {"upsert", "delete"},
          state: {"none", "pending", "complete", "repair_queued"}]

Deletion == [status: {"none", "pending", "deleted", "repair_queued"},
             ids: SUBSET Assertions]

Job == [assertion: Assertions, operation: {"upsert", "delete"}]

Steps == {"idle", "turn", "embed", "index_search", "unindex_search",
          "complete", "failed", "rebuild_write",
          "delete_receipt", "delete_rows", "delete_vectors", "delete_failed",
          "delete_done"}

Idle == [pc |-> "idle", jobs |-> <<>>, ids |-> {}, scope |-> {},
         receipt |-> NoReceipt]

Local == [pc: Steps, jobs: Seq(Job), ids: SUBSET Assertions,
          scope: SUBSET Assertions, receipt: Receipts \union {NoReceipt}]

At(w, step) == local[w].pc = step

\* The rows that PENDING selects from.
Waiting(a) == outbox[a].state \in {"pending", "repair_queued"}

\* The timestamp of a worker is the one that its current turn has taken.
InTurn(w) == \/ At(w, "embed") \/ At(w, "index_search")
             \/ At(w, "unindex_search") \/ At(w, "complete") \/ At(w, "failed")

Stamped == {a \in Assertions : Waiting(a)} \union {w \in Workers : InTurn(w)}

Orders(order, S) ==
    /\ order \subseteq S \X S
    /\ \A x, y \in S : <<x, y>> \in order <=> x # y /\ <<y, x>> \notin order
    /\ \A x, y, z \in S :
          <<x, y>> \in order /\ <<y, z>> \in order => <<x, z>> \in order

TypeOK ==
    /\ memory \in [Assertions -> {"absent", "accepted", "superseded", "erased"}]
    /\ outbox \in [Assertions -> Entry]
    /\ Orders(stamps, Stamped)
    /\ vectors \subseteq Assertions
    /\ search \subseteq Assertions
    /\ deletions \in [Receipts -> Deletion]
    /\ local \in [Workers -> Local]
    /\ overlapped \subseteq Assertions

NoEntry == [operation |-> "upsert", state |-> "none"]

Init ==
    /\ memory = [a \in Assertions |-> "absent"]
    /\ outbox = [a \in Assertions |-> NoEntry]
    /\ stamps = {}
    /\ vectors = {}
    /\ search = {}
    /\ deletions = [r \in Receipts |-> [status |-> "none", ids |-> {}]]
    /\ local = [w \in Workers |-> Idle]
    /\ overlapped = {}

-----------------------------------------------------------------------------
(* Control.                                                                *)

Goto(w, step) == local' = [local EXCEPT ![w].pc = step]

Return(w) == local' = [local EXCEPT ![w] = Idle]

\* May w still write a into an index, as a row that it has read as accepted?
Holds(w, a) ==
    \/ /\ At(w, "turn") \/ InTurn(w)
       /\ \E i \in DOMAIN local[w].jobs :
             local[w].jobs[i] = [assertion |-> a, operation |-> "upsert"]
    \/ At(w, "rebuild_write") /\ a \in local[w].ids

\* Has w collected what it deletes, and not deleted it yet?
Collecting(w) == At(w, "delete_receipt") \/ At(w, "delete_rows")

\* The rows that a writer reads while a deletion has them in its scope.
NoteReading(rows) ==
    overlapped' = overlapped \union
        {a \in rows : \E v \in Workers : Collecting(v) /\ a \in local[v].scope}

\* The rows that are withdrawn while a writer holds them.
NoteWithdrawal(rows) ==
    overlapped' = overlapped \union {a \in rows : \E v \in Workers : Holds(v, a)}

\* Without the timestamps of X, and with a new one.
Without(X) == {p \in stamps : p[1] \notin X /\ p[2] \notin X}

Newest(x) == {<<y, x>> : y \in Stamped \ {x}}

-----------------------------------------------------------------------------
(* The batches of CandidateReview, with their outbox statements.           *)

AddStamp(a) == stamps \union Newest(a)  \* mutant: an insert without a conflict clause

Restamp(a) == Without({a}) \union Newest(a)

\* UPSERT_OUTBOX
Enqueue(a, operation) ==
    /\ outbox' = [outbox EXCEPT ![a] =
                    [operation |-> operation, state |-> "pending"]]
    /\ stamps' = Restamp(a)

Publish(a) ==
    /\ memory[a] = "absent"
    /\ memory' = [memory EXCEPT ![a] = "accepted"]
    /\ Enqueue(a, "upsert")
    /\ UNCHANGED <<vectors, search, deletions, local, overlapped>>

Rollback(a) ==
    /\ NoteWithdrawal({a})
    /\ memory[a] = "accepted"
    /\ memory' = [memory EXCEPT ![a] = "superseded"]
    /\ Enqueue(a, "delete")
    /\ UNCHANGED <<vectors, search, deletions, local>>

\* A rollback lists what it withdraws before its batch: an assertion that was
\* accepted in between is superseded, and nothing is enqueued for it.
RollbackUnlisted(a) ==
    /\ a \in Contended
    /\ memory[a] = "accepted"
    /\ memory' = [memory EXCEPT ![a] = "superseded"]
    /\ overlapped' = overlapped \union {a}
    /\ UNCHANGED <<outbox, stamps, vectors, search, deletions, local>>

-----------------------------------------------------------------------------
(* repairPendingProjections.                                               *)

\* PENDING: what waits, oldest first, as it is now.
Pending(rows) ==
    /\ \A i \in DOMAIN rows : Waiting(rows[i])
    /\ \A i, j \in DOMAIN rows : i < j => <<rows[i], rows[j]>> \in stamps
    /\ \A a \in Assertions : Waiting(a) =>
          \/ \E i \in DOMAIN rows : rows[i] = a
          \/ Len(rows) = Limit /\ <<rows[Limit], a>> \in stamps

\* A pass takes what waits in any tenant: the owner commit that starts it may
\* be of a candidate of another project, or one that is repeated.
RepairRead(w) ==
    /\ At(w, "idle")
    /\ \E n \in 1..Limit : \E rows \in [1..n -> Assertions] :
          /\ Pending(rows)
          /\ NoteReading({rows[i] : i \in 1..n})
          /\ local' = [local EXCEPT ![w].pc = "turn",
                ![w].jobs = [i \in 1..n |-> [assertion |-> rows[i],
                                operation |-> outbox[rows[i]].operation]]]
    /\ UNCHANGED <<memory, outbox, stamps, vectors, search, deletions>>

Turn(w) == Head(local[w].jobs)

TakeStamp(w) == stamps' = stamps \union Newest(w)

NextJob(w) ==
    LET rest == Tail(local[w].jobs) IN
    \/ rest = <<>> /\ Return(w)
    \/ rest # <<>> /\ local' = [local EXCEPT ![w].pc = "turn", ![w].jobs = rest]

\* A turn that deletes: the vector first, then the search row.
RepairDeleteVector(w) ==
    /\ At(w, "turn")
    /\ Turn(w).operation = "delete"
    /\ vectors' = vectors \ {Turn(w).assertion}
    /\ TakeStamp(w)
    /\ Goto(w, "unindex_search")
    /\ UNCHANGED <<memory, outbox, search, deletions, overlapped>>

RepairDeleteSearch(w) ==
    /\ At(w, "unindex_search")
    /\ search' = search \ {Turn(w).assertion}
    /\ Goto(w, "complete")
    /\ UNCHANGED <<memory, outbox, stamps, vectors, deletions, overlapped>>

\* A turn that upserts: GET_ASSERTION returns accepted rows only.
RepairReadAssertion(w) ==
    /\ At(w, "turn")
    /\ Turn(w).operation = "upsert"
    /\ TakeStamp(w)
    /\ Goto(w, IF memory[Turn(w).assertion] = "accepted" THEN "embed" ELSE "failed")
    /\ UNCHANGED <<memory, outbox, vectors, search, deletions, overlapped>>

Refused(w) == Turn(w).assertion \in Poison

\* The embedding call and the vector upsert.
RepairUpsertVector(w) ==
    /\ At(w, "embed")
    /\ ~Refused(w)
    /\ vectors' = vectors \union {Turn(w).assertion}
    /\ Goto(w, "index_search")
    /\ UNCHANGED <<memory, outbox, stamps, search, deletions, overlapped>>

RepairInsertSearch(w) ==
    /\ At(w, "index_search")
    /\ search' = search \union {Turn(w).assertion}
    /\ Goto(w, "complete")
    /\ UNCHANGED <<memory, outbox, stamps, vectors, deletions, overlapped>>

\* The row may have been erased.  The update does not compare the operation.
CompleteEntry(a) == [outbox EXCEPT ![a].state =
                        IF @ = "none" THEN "none" ELSE "complete"]

RepairComplete(w) ==
    LET a == Turn(w).assertion IN
    /\ At(w, "complete")
    /\ outbox' = CompleteEntry(a)
    /\ stamps' = Without({a, w})
    /\ NextJob(w)
    /\ UNCHANGED <<memory, vectors, search, deletions, overlapped>>

CatchSwallows(w) == Goto(w, "complete")     \* mutant: the error is lost

Catch(w) == Goto(w, "failed")

\* Any call of a turn may throw, having taken effect or not.
RepairThrows(w) ==
    /\ At(w, "turn") \/ At(w, "embed") \/ At(w, "index_search")
       \/ At(w, "unindex_search") \/ At(w, "complete")
    /\ Catch(w)
    /\ IF At(w, "turn") THEN TakeStamp(w) ELSE UNCHANGED stamps
    /\ UNCHANGED <<memory, outbox, vectors, search, deletions, overlapped>>

\* updated_at is the timestamp w took when the turn began.
TakesStamp(a, w) ==
    LET Owner(x) == IF x = w THEN a ELSE x IN
    {<<Owner(p[1]), Owner(p[2])>> : p \in Without({a})}

KeepsItsPlace(a, w) ==                      \* mutant: updated_at is not set
    IF Waiting(a) THEN Without({w}) ELSE TakesStamp(a, w)

MovesToStamp(a, w) == TakesStamp(a, w)

RepairFailed(w) ==
    LET a == Turn(w).assertion IN
    /\ At(w, "failed")
    /\ IF outbox[a].state = "none"
       THEN /\ stamps' = Without({w})
            /\ UNCHANGED outbox
       ELSE /\ stamps' = MovesToStamp(a, w)
            /\ outbox' = [outbox EXCEPT ![a].state = "repair_queued"]
    /\ NextJob(w)
    /\ UNCHANGED <<memory, vectors, search, deletions, overlapped>>

-----------------------------------------------------------------------------
(* rebuildMemoryProjection, of one batch.  It leaves the search table and  *)
(* the outbox alone.                                                       *)

RebuildRead(w, scope) ==
    /\ At(w, "idle")
    /\ NoteReading(scope)
    /\ local' = [local EXCEPT ![w] = [Idle EXCEPT !.pc = "rebuild_write",
          !.ids = {a \in scope : memory[a] = "accepted"}]]
    /\ UNCHANGED <<memory, outbox, stamps, vectors, search, deletions>>

RebuildWrite(w) ==
    /\ At(w, "rebuild_write")
    /\ local[w].ids \cap Poison = {}
    /\ vectors' = vectors \union local[w].ids
    /\ Return(w)
    /\ UNCHANGED <<memory, outbox, stamps, search, deletions, overlapped>>

-----------------------------------------------------------------------------
(* deleteMemoryScope.                                                      *)

Exists(a) == memory[a] \in {"accepted", "superseded"}

\* collectProjectionRows: rows of any lifecycle state.
Collected(scope) == {a \in scope : Exists(a)}

DeleteCollect(w, scope) ==
    /\ At(w, "idle")
    /\ NoteWithdrawal(scope)
    /\ local' = [local EXCEPT ![w] = [Idle EXCEPT !.pc = "delete_receipt",
          !.scope = scope, !.ids = Collected(scope)]]
    /\ UNCHANGED <<memory, outbox, stamps, vectors, search, deletions>>

\* A receipt identifier is drawn here: Receipts bounds their number.
DeleteInsertReceipt(w) ==
    /\ At(w, "delete_receipt")
    /\ \E r \in Receipts :
          /\ deletions[r].status = "none"
          /\ deletions' = [deletions EXCEPT ![r] =
                              [status |-> "pending", ids |-> local[w].ids]]
          /\ local' = [local EXCEPT ![w].pc = "delete_rows", ![w].receipt = r]
    /\ UNCHANGED <<memory, outbox, stamps, vectors, search, overlapped>>

\* A review record restricts the deletion of its candidate, accepted or not, a
\* bound invocation that of its receipt, and a trigger that of a published
\* runway.
Restricted(scope) ==
    \/ \E a \in scope \cap Reviewed : Exists(a)
    \/ scope \in Judged
    \/ scope \in Wide /\ Retained

SearchKept(scope) == search             \* mutant: the search table is forgotten

SearchErased(scope) == search \ scope

\* tableScope: what the scope selects when the statement runs, rows accepted
\* since they were collected included.
Erased(scope) ==
    [a \in Assertions |-> IF a \in scope /\ Exists(a) THEN "erased" ELSE memory[a]]

\* deletionStatements, as one batch.
DeleteRows(w) ==
    LET scope == local[w].scope IN
    /\ At(w, "delete_rows")
    /\ ~Restricted(scope)
    /\ memory' = Erased(scope)
    /\ outbox' = [a \in Assertions |-> IF a \in scope THEN NoEntry ELSE outbox[a]]
    /\ stamps' = Without(scope)
    /\ search' = SearchErased(scope)
    /\ Goto(w, "delete_vectors")
    /\ UNCHANGED <<vectors, deletions, overlapped>>

AbortIsRecorded(w) == Goto(w, "delete_failed")   \* mutant: caught like a failed call

\* The exception leaves the handler: the receipt stays pending.
AbortEscapes(w) == Return(w)

DeleteRowsAbort(w) ==
    /\ At(w, "delete_rows")
    /\ Restricted(local[w].scope)
    /\ AbortEscapes(w)
    /\ UNCHANGED <<memory, outbox, stamps, vectors, search, deletions, overlapped>>

DeleteVectors(w) ==
    /\ At(w, "delete_vectors")
    /\ vectors' = vectors \ local[w].ids
    /\ Goto(w, "delete_done")
    /\ UNCHANGED <<memory, outbox, stamps, search, deletions, overlapped>>

DeleteVectorsThrow(w) ==
    /\ At(w, "delete_vectors") \/ At(w, "delete_done")
    /\ Goto(w, "delete_failed")
    /\ UNCHANGED <<memory, outbox, stamps, vectors, search, deletions, overlapped>>

UpdateReceipt(w, status) ==
    /\ deletions' = [deletions EXCEPT ![local[w].receipt].status = status]
    /\ Return(w)
    /\ UNCHANGED <<memory, outbox, stamps, vectors, search, overlapped>>

DeleteDone(w) == At(w, "delete_done") /\ UpdateReceipt(w, "deleted")

\* The message sent then has no consumer.
DeleteQueued(w) == At(w, "delete_failed") /\ UpdateReceipt(w, "repair_queued")

-----------------------------------------------------------------------------

\* The request is cut off, or throws where nothing catches.
Crash(w) ==
    /\ Crashes
    /\ ~At(w, "idle")
    /\ Return(w)
    /\ stamps' = Without({w})
    /\ UNCHANGED <<memory, outbox, vectors, search, deletions, overlapped>>

Repair(w) ==
    \/ RepairRead(w)
    \/ RepairDeleteVector(w)
    \/ RepairDeleteSearch(w)
    \/ RepairReadAssertion(w)
    \/ RepairUpsertVector(w)
    \/ RepairInsertSearch(w)
    \/ RepairComplete(w)
    \/ RepairThrows(w)
    \/ RepairFailed(w)

Privacy(w) ==
    \/ /\ w \in Administrators
       /\ \E scope \in Scopes : RebuildRead(w, scope) \/ DeleteCollect(w, scope)
    \/ RebuildWrite(w)
    \/ DeleteInsertReceipt(w)
    \/ DeleteRows(w)
    \/ DeleteRowsAbort(w)
    \/ DeleteVectors(w)
    \/ DeleteVectorsThrow(w)
    \/ DeleteDone(w)
    \/ DeleteQueued(w)

Next ==
    \/ \E a \in Assertions : Publish(a) \/ Rollback(a) \/ RollbackUnlisted(a)
    \/ \E w \in Workers : Repair(w) \/ Privacy(w) \/ Crash(w)

Spec == Init /\ [][Next]_vars

Continue(w) == ~At(w, "idle") /\ (Repair(w) \/ Privacy(w) \/ Crash(w))

\* Every request goes on or is cut off, and the note that an assertion's turn
\* has failed, made again and again, gets through now and then.
FairSpec ==
    /\ Spec
    /\ \A w \in Workers : WF_vars(Continue(w))
    /\ \A a \in Assertions :
          SF_vars(\E w \in Workers :
                      At(w, "failed") /\ Turn(w).assertion = a /\ RepairFailed(w))

-----------------------------------------------------------------------------
(* Safety, whatever overlaps.                                              *)

\* An upsert recorded as complete is complete: both indexes have the
\* assertion, although they are written by separate calls, by passes that
\* overlap, that fail in between and that act on rows read earlier.
CompleteIsIndexed ==
    \A a \in Assertions :
        outbox[a] = [operation |-> "upsert", state |-> "complete"] =>
            a \in vectors /\ a \in search

\* A deletion receipt past pending is the receipt of an erasure: what it
\* counted is gone from authoritative memory and from the outbox, and no
\* later step of any request brings it back.
ReceiptMeansErased ==
    \A r \in Receipts : deletions[r].status \in {"deleted", "repair_queued"} =>
        \A a \in deletions[r].ids :
            memory[a] = "erased" /\ outbox[a].state = "none"

-----------------------------------------------------------------------------
(* Safety but for what a withdrawal misses.                                *)

\* What is not accepted is in no index, but for a deletion that is queued,
\* under way, or has said that it failed or never said that it was done.
\* That goes for every assertion that no index writer held while it was
\* withdrawn and no rollback left out, whatever became of the others.
IndexFollowsMemory ==
    \A a \in (vectors \union search) \ overlapped :
        \/ memory[a] = "accepted"
        \/ memory[a] = "superseded" /\ Waiting(a)
        \/ /\ memory[a] = "erased"
           /\ a \notin search
           /\ \E r \in Receipts : /\ a \in deletions[r].ids
                                  /\ deletions[r].status # "deleted"

-----------------------------------------------------------------------------
(* Liveness.                                                               *)

\* Nothing but an owner commit starts a repair pass.
CommitsGoOn == SF_vars(\E w \in Workers : RepairRead(w))

\* An embedding that is refused is refused for ever, other faults pass.
Fault(w) ==
    \/ ~At(w, "failed") /\ Crash(w)
    \/ ~(At(w, "embed") /\ Refused(w)) /\ RepairThrows(w)

FaultsEnd == <>[][\A w \in Workers : ~Fault(w)]_vars

\* As long as owner commits go on, the indexes catch up once calls stop failing
\* and passes stop being cut off: every accepted assertion that can be embedded
\* gets into both, unless it is withdrawn, whatever the faults have left
\* behind, and although rows that fail for ever may fill a pass.
AcceptedGetsIndexed ==
    CommitsGoOn /\ FaultsEnd =>
        \A a \in Assertions \ Poison :
            memory[a] = "accepted" ~>
                (memory[a] # "accepted" \/ (a \in vectors /\ a \in search))

-----------------------------------------------------------------------------
(* What the documents say, and the code does not keep.                     *)

\* The authoritative rows of a scope are removed, in dependency order, by the
\* batch of its deletion.
DeletionRemovesRows ==
    [][\A w \in Workers : At(w, "delete_rows") /\ local'[w] # local[w] =>
          \A a \in local[w].scope : memory'[a] \in {"absent", "erased"}]_vars

=============================================================================
