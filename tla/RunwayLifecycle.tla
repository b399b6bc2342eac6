-------------------------- MODULE RunwayLifecycle --------------------------
(***************************************************************************)
(* The life of the checkpoints ("runways") of one continuity tuple         *)
(* (tenant, identity, project, scope) in D1: creation, validation,         *)
(* publication with its compare-and-swap on the head row, invalidation,    *)
(* and the migration triggers that run inside those statements.            *)
(*                                                                         *)
(* A worker is one request (or queue message) in flight.  It loses         *)
(* atomicity at every await, so a handler is one action per D1 statement   *)
(* and the values it read earlier are kept in local[w].  A DB.batch and a  *)
(* statement with its triggers are one action.                             *)
(*                                                                         *)
(* A runway is named by the idempotency key of the request that creates    *)
(* it: the unique index on (tenant, credential, key) makes the two the     *)
(* same thing.  The manifest hash is determined by the runway and is left  *)
(* out, as is indexing_state, which no handler here reads.                 *)
(***************************************************************************)
EXTENDS Naturals

CONSTANTS
    Runways,                 \* the runways clients may create
    Workers,                 \* requests that may be in flight at once
    Attempts,                \* identifiers of publication attempts (bounds their number)
    NoRunway, NoAttempt,     \* SQL NULL
    ValidationOutcomes,      \* what a re-validation of stored content may find
    ArtifactRequired,        \* CONTINUITY_ARTIFACT_REQUIRED
    IndexRequired,           \* CONTINUITY_INDEX_REQUIRED
    FailingCalls,            \* publication steps whose storage call may throw
    Crashes                  \* may a request be cut off between two statements?

RunwayRefs == Runways \union {NoRunway}
Statuses == {"passed", "failed", "quarantined"}

TryBlock == {"publish_seal", "publish_artifact", "publish_index",
             "publish_indexed", "publish_cas", "publish_record"}

ASSUME ConstantsAssumption ==
    /\ NoRunway \notin Runways
    /\ NoAttempt \notin Attempts
    /\ ValidationOutcomes \subseteq Statuses
    /\ FailingCalls \subseteq TryBlock
    /\ {ArtifactRequired, IndexRequired, Crashes} \subseteq BOOLEAN

VARIABLES
    rows,         \* context_runways
    head,         \* the tuple's row of context_runway_heads
    validations,  \* the status of a runway's latest validation receipt
    attempts,     \* context_publication_attempts
    receipts,     \* context_runway_invalidations
    vectors,      \* external: runways whose summary Vectorize holds
    local,        \* the locals of the request each worker is running
    overwritten   \* history variable: the runways NoteOverwrites describes

vars == <<rows, head, validations, attempts, receipts, vectors, local, overwritten>>

-----------------------------------------------------------------------------
(* Tables.                                                                 *)

History == {"published", "superseded", "invalidated"}

States == History \union
    {"absent", "candidate", "validated", "sealed", "indexing",
     "rejected", "quarantined", "publication_failed"}

Row == [state: States, predecessor: RunwayRefs, generation: Nat,
        publishedAt: BOOLEAN, artifact: BOOLEAN]

Head == [runway: RunwayRefs, generation: Nat]

\* "advanced" is a history variable: this attempt's CAS moved the head.
Attempt == [runway: RunwayRefs, advanced: BOOLEAN,
            status: {"unused", "started", "succeeded", "failed", "conflict"}]

Receipt == [runway: Runways, previous: RunwayRefs, restored: RunwayRefs]

Steps == TryBlock \union
    {"idle", "create_head", "create_insert", "validate_write",
     "publish_head", "publish_validation", "publish_attempt",
     "fail_runway", "fail_attempt", "invalidate_head", "invalidate_write"}

Local == [pc: Steps, runway: RunwayRefs, state: States, head: Head,
          attempt: Attempts \union {NoAttempt},
          failure: {"none", "failed", "conflict"}]

NoHead == [runway |-> NoRunway, generation |-> 0]

Idle == [pc |-> "idle", runway |-> NoRunway, state |-> "absent",
         head |-> NoHead, attempt |-> NoAttempt, failure |-> "none"]

TypeOK ==
    /\ rows \in [Runways -> Row]
    /\ head \in Head
    /\ validations \in [Runways -> Statuses \union {"none"}]
    /\ attempts \in [Attempts -> Attempt]
    /\ receipts \subseteq Receipt
    /\ vectors \subseteq Runways
    /\ local \in [Workers -> Local]
    /\ overwritten \subseteq Runways

Init ==
    /\ rows = [r \in Runways |->
                 [state |-> "absent", predecessor |-> NoRunway,
                  generation |-> 0, publishedAt |-> FALSE,
                  artifact |-> FALSE]]
    /\ head = NoHead
    /\ validations = [r \in Runways |-> "none"]
    /\ attempts = [a \in Attempts |->
                     [runway |-> NoRunway, advanced |-> FALSE,
                      status |-> "unused"]]
    /\ receipts = {}
    /\ vectors = {}
    /\ local = [w \in Workers |-> Idle]
    /\ overwritten = {}

-----------------------------------------------------------------------------
(* The triggers, as functions from the table before to the table after.    *)

SupersededNever(row) == row                     \* mutant: no demotion

Superseded(row) ==
    IF row.state = "published" THEN [row EXCEPT !.state = "superseded"] ELSE row

PromotedAlways(row, from) ==                    \* mutant: no state filter
    [row EXCEPT !.state = "published", !.publishedAt = TRUE]

Promoted(row, from) ==
    IF row.state \in from
    THEN [row EXCEPT !.state = "published", !.publishedAt = TRUE]
    ELSE row

\* context_runway_heads_publish_insert
HeadsPublishInsert(table, new) ==
    [r \in Runways |->
       IF r = new THEN Promoted(table[r], {"sealed", "indexing"})
       ELSE IF r = table[new].predecessor THEN Superseded(table[r])
       ELSE table[r]]

\* mutant: the state list of the insert trigger
HeadsPublishUpdateAsInsert(table, old, new) ==
    [r \in Runways |->
       IF r = new THEN Promoted(table[r], {"sealed", "indexing"})
       ELSE IF r = old THEN Superseded(table[r])
       ELSE table[r]]

\* context_runway_heads_publish_update
HeadsPublishUpdate(table, old, new) ==
    [r \in Runways |->
       IF r = new THEN Promoted(table[r], {"sealed", "indexing", "superseded"})
       ELSE IF r = old THEN Superseded(table[r])
       ELSE table[r]]

\* context_runways_restore_head_after_invalidation: does it touch the head?
RestoresHead(r) == rows[r].state = "published" /\ head.runway = r

RestoredHeadSameGeneration(p) ==    \* mutant: only the runway column is set
    [runway |-> p, generation |-> head.generation]

RestoredHead(p) == [runway |-> p, generation |-> rows[p].generation]

Invalidated(r) == [rows EXCEPT ![r].state = "invalidated"]

-----------------------------------------------------------------------------
(* Control of a request.                                                   *)

At(w, step) == local[w].pc = step

Goto(w, step) == local' = [local EXCEPT ![w].pc = step]

Return(w) == local' = [local EXCEPT ![w] = Idle]

FailUnclassified(w, failure) ==     \* mutant: the error code is lost
    local' = [local EXCEPT ![w].pc = "fail_runway"]

Fail(w, failure) ==
    local' = [local EXCEPT ![w].pc = "fail_runway", ![w].failure = failure]

Begin(w, r, step) ==
    local' = [local EXCEPT ![w] = [Idle EXCEPT !.pc = step, !.runway = r,
                                               !.state = rows[r].state]]

tables == <<rows, head, validations, attempts, receipts, vectors>>

-----------------------------------------------------------------------------
(* createCandidateCheckpoint.  A key that is already bound is replayed     *)
(* without a write; a request that supplies another predecessor than the   *)
(* head read here is refused (predecessor_mismatch).                       *)

CreateReadKey(w, r) ==
    /\ At(w, "idle")
    /\ IF rows[r].state = "absent" THEN Begin(w, r, "create_head")
                                   ELSE UNCHANGED local
    /\ UNCHANGED tables

CreateReadHead(w) ==
    /\ At(w, "create_head")
    /\ \/ local' = [local EXCEPT ![w].pc = "create_insert", ![w].head = head]
       \/ Return(w)
    /\ UNCHANGED tables

CreateInsert(w) ==
    LET r == local[w].runway
        seen == local[w].head IN
    /\ At(w, "create_insert")
    /\ rows' = IF rows[r].state = "absent"
               THEN [rows EXCEPT ![r] = [@ EXCEPT
                        !.state = "candidate",
                        !.predecessor = seen.runway,
                        !.generation = seen.generation + 1]]
               ELSE rows     \* the idempotency index rejects the insert
    /\ Return(w)
    /\ UNCHANGED <<head, validations, attempts, receipts, vectors>>

(* validateCandidateCheckpoint.  Its verdict depends on immutable content  *)
(* only; no step looks at the state the runway is in.                      *)

ValidateRead(w, r) ==
    /\ At(w, "idle")
    /\ rows[r].state # "absent"
    /\ Begin(w, r, "validate_write")
    /\ UNCHANGED tables

StateAfter == [passed |-> "validated", quarantined |-> "quarantined",
               failed |-> "rejected"]

ValidateWrite(w) ==
    LET r == local[w].runway IN
    /\ At(w, "validate_write")
    /\ \E status \in ValidationOutcomes :
          /\ validations' = [validations EXCEPT ![r] = status]
          /\ rows' = [rows EXCEPT ![r].state = StateAfter[status]]
    /\ Return(w)
    /\ UNCHANGED <<head, attempts, receipts, vectors>>

-----------------------------------------------------------------------------
(* publishCheckpoint.  The request's expected generation and predecessor   *)
(* must equal the candidate's own, so they are not separate inputs.        *)

\* The request's attempt identifier is drawn here: Attempts bounds the number
\* of attempts ever recorded.
PublishReadRow(w, r) ==
    /\ At(w, "idle")
    /\ rows[r].state # "absent"
    /\ \E a \in Attempts :
          /\ attempts[a].status = "unused"
          /\ \A v \in Workers : local[v].attempt # a
          /\ local' = [local EXCEPT ![w] = [Idle EXCEPT
                !.pc = "publish_head", !.runway = r,
                !.state = rows[r].state, !.attempt = a]]
    /\ UNCHANGED tables

PublishReadHead(w) ==
    LET l == local[w] IN
    /\ At(w, "publish_head")
    /\ IF l.state = "published" /\ head.runway = l.runway
       THEN Return(w)                                   \* idempotent replay
       ELSE Goto(w, "publish_validation")
    /\ UNCHANGED tables

PublishReadValidation(w) ==
    /\ At(w, "publish_validation")
    /\ IF /\ validations[local[w].runway] = "passed"
          /\ local[w].state = "validated"
       THEN Goto(w, "publish_attempt")
       ELSE Return(w)               \* publication_validation_required
    /\ UNCHANGED tables

PublishInsertAttempt(w) ==
    /\ At(w, "publish_attempt")
    /\ attempts' = [attempts EXCEPT ![local[w].attempt] =
          [runway |-> local[w].runway, advanced |-> FALSE, status |-> "started"]]
    /\ Goto(w, "publish_seal")
    /\ UNCHANGED <<rows, head, validations, receipts, vectors>>

AfterArtifact == IF IndexRequired THEN "publish_index" ELSE "publish_cas"

AfterSealSkipsArtifact == AfterArtifact       \* mutant: flag not consulted

AfterSeal == IF ArtifactRequired THEN "publish_artifact" ELSE AfterArtifact

PublishSeal(w) ==
    LET r == local[w].runway IN
    /\ At(w, "publish_seal")
    /\ \/ /\ rows[r].state = "validated"
          /\ rows' = [rows EXCEPT ![r].state = "sealed"]
          /\ Goto(w, AfterSeal)
       \/ /\ rows[r].state # "validated"      \* publication_state_conflict
          /\ Fail(w, "failed")
          /\ UNCHANGED rows
    /\ UNCHANGED <<head, validations, attempts, receipts, vectors>>

PublishArtifact(w) ==
    /\ At(w, "publish_artifact")
    /\ rows' = [rows EXCEPT ![local[w].runway].artifact = TRUE]
    /\ Goto(w, AfterArtifact)
    /\ UNCHANGED <<head, validations, attempts, receipts, vectors>>

PublishIndex(w) ==
    /\ At(w, "publish_index")
    /\ vectors' = vectors \union {local[w].runway}
    /\ Goto(w, "publish_indexed")
    /\ UNCHANGED <<rows, head, validations, attempts, receipts>>

\* SET_INDEXING_STATE also writes the state column, whatever it holds.
PublishSetIndexed(w) ==
    /\ At(w, "publish_indexed")
    /\ rows' = [rows EXCEPT ![local[w].runway].state = "sealed"]
    /\ Goto(w, "publish_cas")
    /\ UNCHANGED <<head, validations, attempts, receipts, vectors>>

CasMatchesAnything(r) == TRUE                 \* mutant: last write wins

\* The WHERE clause of the upsert.
CasMatches(r) ==
    /\ head.runway = rows[r].predecessor
    /\ head.generation + 1 = rows[r].generation

PublishHeadCas(w) ==
    LET r == local[w].runway
        new == [runway |-> r, generation |-> rows[r].generation] IN
    /\ At(w, "publish_cas")
    /\ \/ /\ head = NoHead                    \* no row to conflict with
          /\ head' = new
          /\ rows' = HeadsPublishInsert(rows, r)
       \/ /\ head # NoHead
          /\ CasMatches(r)
          /\ head' = new
          /\ rows' = HeadsPublishUpdate(rows, head.runway, r)
    /\ attempts' = [attempts EXCEPT ![local[w].attempt].advanced = TRUE]
    /\ Goto(w, "publish_record")
    /\ UNCHANGED <<validations, receipts, vectors>>

ZeroChangesIgnored(w) == Goto(w, "publish_record")   \* mutant: no check

\* changedRows(published) !== 1
ZeroChanges(w) == Fail(w, "conflict")

PublishHeadCasConflict(w) ==
    /\ At(w, "publish_cas")
    /\ head # NoHead
    /\ ~CasMatches(local[w].runway)
    /\ ZeroChanges(w)
    /\ UNCHANGED tables

PublishRecord(w) ==
    /\ At(w, "publish_record")
    /\ attempts' = [attempts EXCEPT ![local[w].attempt].status = "succeeded"]
    /\ Return(w)
    /\ UNCHANGED <<rows, head, validations, receipts, vectors>>

\* A call inside the try block throws and the catch block takes over.  A
\* call that took effect before throwing is the step followed by this one.
CallFails(w) ==
    /\ local[w].pc \in FailingCalls
    /\ Fail(w, "failed")
    /\ UNCHANGED tables

\* The WHERE clause of SET_PUBLICATION_FAILED.
FailureApplies(r) == rows[r].state # "published"

FailRunway(w) ==
    LET r == local[w].runway IN
    /\ At(w, "fail_runway")
    /\ rows' = IF FailureApplies(r)
               THEN [rows EXCEPT ![r].state = "publication_failed"]
               ELSE rows
    /\ Goto(w, "fail_attempt")
    /\ UNCHANGED <<head, validations, attempts, receipts, vectors>>

FailAttempt(w) ==
    /\ At(w, "fail_attempt")
    /\ attempts' = [attempts EXCEPT ![local[w].attempt].status = local[w].failure]
    /\ Return(w)
    /\ UNCHANGED <<rows, head, validations, receipts, vectors>>

-----------------------------------------------------------------------------
(* invalidateCheckpoint.                                                   *)

InvalidateRead(w, r) ==
    /\ At(w, "idle")
    /\ rows[r].state # "absent"
    /\ IF rows[r].state \in {"published", "superseded"}
       THEN Begin(w, r, "invalidate_head")
       ELSE UNCHANGED local      \* replayed, or not eligible
    /\ UNCHANGED tables

InvalidateReadHead(w) ==
    /\ At(w, "invalidate_head")
    /\ local' = [local EXCEPT ![w].pc = "invalidate_write", ![w].head = head]
    /\ UNCHANGED tables

\* The receipt is computed from the head read before the batch.
InvalidationReceipt(r, seen) ==
    IF seen.runway = r
    THEN [runway |-> r, previous |-> r, restored |-> rows[r].predecessor]
    ELSE [runway |-> r, previous |-> NoRunway, restored |-> seen.runway]

InvalidateWrite(w) ==
    LET r == local[w].runway
        p == rows[r].predecessor IN
    /\ At(w, "invalidate_write")
    /\ \/ /\ ~RestoresHead(r)
          /\ rows' = Invalidated(r)
          /\ UNCHANGED head
       \/ /\ RestoresHead(r)
          /\ p # NoRunway
          /\ rows[p].publishedAt
          /\ head' = RestoredHead(p)
          /\ rows' = HeadsPublishUpdate(Invalidated(r), r, p)
       \/ /\ RestoresHead(r)
          /\ p = NoRunway
          /\ head' = NoHead
          /\ rows' = Invalidated(r)
    /\ receipts' = receipts \union {InvalidationReceipt(r, local[w].head)}
    /\ Return(w)
    /\ UNCHANGED <<validations, attempts, vectors>>

\* heads.published_at is NOT NULL: restoring a predecessor that never got a
\* published_at aborts the whole batch.
InvalidateAborts(w) ==
    LET r == local[w].runway
        p == rows[r].predecessor IN
    /\ At(w, "invalidate_write")
    /\ RestoresHead(r)
    /\ p # NoRunway
    /\ ~rows[p].publishedAt
    /\ Return(w)
    /\ UNCHANGED tables

-----------------------------------------------------------------------------

\* The isolate is evicted or a statement outside the try block throws.
Crash(w) ==
    /\ Crashes
    /\ ~At(w, "idle")
    /\ Return(w)
    /\ UNCHANGED tables

Request(w) ==
    \E r \in Runways :
        \/ CreateReadKey(w, r)
        \/ ValidateRead(w, r)
        \/ PublishReadRow(w, r)
        \/ InvalidateRead(w, r)

Proceed(w) ==
    \/ CreateReadHead(w)
    \/ CreateInsert(w)
    \/ ValidateWrite(w)
    \/ PublishReadHead(w)
    \/ PublishReadValidation(w)
    \/ PublishInsertAttempt(w)
    \/ PublishSeal(w)
    \/ PublishArtifact(w)
    \/ PublishIndex(w)
    \/ PublishSetIndexed(w)
    \/ PublishHeadCas(w)
    \/ PublishHeadCasConflict(w)
    \/ PublishRecord(w)
    \/ CallFails(w)
    \/ FailRunway(w)
    \/ FailAttempt(w)
    \/ InvalidateReadHead(w)
    \/ InvalidateWrite(w)
    \/ InvalidateAborts(w)

(* Three statements set the state column whatever it holds: the verdict of *)
(* a validation, SET_INDEXING_STATE and the catch block (which spares      *)
(* published rows only).  A runway is overwritten when one of them changes *)
(* the state it has in history, or while another request is between        *)
(* sealing it and swapping the head.                                       *)

\* The statements between the seal and the compare-and-swap.
Sealing == {"publish_artifact", "publish_index", "publish_indexed", "publish_cas"}

Unguarded == {"validate_write", "publish_indexed", "fail_runway"}

Overwrites(w) ==
    LET r == local[w].runway IN
    /\ local[w].pc \in Unguarded
    /\ rows'[r].state # rows[r].state
    /\ \/ rows[r].state \in History
       \/ \E v \in Workers \ {w} : local[v].runway = r /\ local[v].pc \in Sealing

NoteOverwrites(w) ==
    overwritten' = IF Overwrites(w) THEN overwritten \union {local[w].runway}
                                    ELSE overwritten

Next == \E w \in Workers : /\ Request(w) \/ Proceed(w) \/ Crash(w)
                           /\ NoteOverwrites(w)

Spec == Init /\ [][Next]_vars

-----------------------------------------------------------------------------
(* Safety.                                                                 *)

\* Every set of runways that holds the head and, with a runway, its
\* predecessor also holds r: r is the head or one of its ancestors.
OnHeadChain(r) ==
    /\ head # NoHead
    /\ \A S \in SUBSET Runways :
          /\ head.runway \in S
          /\ \A x \in S : rows[x].predecessor \in S \union {NoRunway}
          => r \in S

\* However requests interleave, fail or stop, the runway in state published
\* is the head, and every superseded runway is an ancestor of the head: no
\* second lineage survives beside the one the head closes.  (The unique
\* index on published generations is therefore never hit.)
HistoryIsChain ==
    \A r \in Runways :
        /\ rows[r].state = "published" => head.runway = r
        /\ rows[r].state = "superseded" => OnHeadChain(r)

\* The head row carries the generation of its runway, and a runway is one
\* generation above the predecessor it names.  Candidates are numbered from a
\* head read earlier, and the restore trigger renumbers the head.
LineageSound ==
    /\ head # NoHead => /\ head.runway \in Runways
                        /\ rows[head.runway].generation = head.generation
    /\ \A r \in Runways : rows[r].state # "absent" =>
          IF rows[r].predecessor = NoRunway
          THEN rows[r].generation = 1
          ELSE LET p == rows[rows[r].predecessor] IN
               /\ p.state # "absent"
               /\ rows[r].generation = p.generation + 1

Advances == head' # head /\ head'.runway \in Runways
            /\ (head # NoHead => head.generation < head'.generation)

\* An existing head moves only to a runway that names it as predecessor, or
\* back to its own predecessor when it is invalidated in the same step.
HeadMovesAlongLineage ==
    [][head # NoHead /\ head' # head =>
          \/ /\ head'.runway \in Runways
             /\ rows[head'.runway].predecessor = head.runway
          \/ /\ head'.runway = rows[head.runway].predecessor
             /\ rows'[head.runway].state = "invalidated"]_vars

\* An attempt is recorded as succeeded only if its own compare-and-swap moved
\* the head, and as a conflict only if it did not.
AttemptOutcomes ==
    \A a \in Attempts :
        /\ attempts[a].status = "succeeded" => attempts[a].advanced
        /\ attempts[a].status = "conflict" => ~attempts[a].advanced

\* The quality gates: with an artifact or an index required, the head never
\* advances to a runway whose artifact reference or vector is missing.
QualityGates ==
    [][Advances => /\ ArtifactRequired => rows[head'.runway].artifact
                   /\ IndexRequired => head'.runway \in vectors]_vars

\* Whatever is called, delivered twice or cut off: unless its row was
\* overwritten, the runway the head names is published and its latest
\* validation passed, or it was invalidated before a successor of it was, so
\* that the restore trigger fell back to it.
HeadSound ==
    LET r == head.runway IN
    head # NoHead /\ r \notin overwritten =>
        /\ validations[r] = "passed"
        /\ \/ rows[r].state = "published"
           \/ /\ rows[r].state = "invalidated"
              /\ \E x \in Runways :
                    /\ rows[x].predecessor = r
                    /\ rows[x].state = "invalidated" \/ x \in overwritten

\* No publication or restoration revives an invalidated runway; only a
\* statement that overwrites its row does.
InvalidatedIsFinal ==
    [][\A r \in Runways \ overwritten' : rows[r].state = "invalidated" =>
                            rows'[r].state = "invalidated"]_vars

\* What the documentation of the invalidate route says: it restores an
\* eligible predecessor.  A predecessor that was invalidated itself is restored
\* all the same.
RestoredIsEligible ==
    [][head # NoHead /\ head' # NoHead
         /\ head'.runway = rows[head.runway].predecessor =>
       rows[head'.runway].state # "invalidated"]_vars

-----------------------------------------------------------------------------
(* Refinement: the handlers, split at every await, still behave like one   *)
(* register of runways whose operations are atomic; an overwritten runway  *)
(* loses the register's protection and nothing else.                       *)

Register == INSTANCE HeadRegister WITH
    head <- head.runway,
    parent <- [r \in Runways |-> rows[r].predecessor],
    proposed <- {r \in Runways : rows[r].state # "absent"},
    history <- {r \in Runways \ overwritten : rows[r].state \in History},
    withdrawn <- {r \in Runways \ overwritten : rows[r].state = "invalidated"},
    loose <- overwritten

\* Every behaviour of the lifecycle is a behaviour of the register.
RefinesHeadRegister == Register!Spec

=============================================================================
