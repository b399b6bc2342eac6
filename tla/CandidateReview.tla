-------------------------- MODULE CandidateReview --------------------------
(***************************************************************************)
(* How a proposed memory becomes accepted memory, in one project:          *)
(* intake, validation, entity resolution, owner review, controlled commit, *)
(* direct review decisions, publication and rollback.                      *)
(*                                                                         *)
(* A worker is one request in flight.  It loses atomicity at every await;  *)
(* a statement, and a DB.batch as a whole, is one action.  What a request  *)
(* has read is in local[w].                                                *)
(*                                                                         *)
(* A candidate is named by the idempotency key that creates it.  Of its    *)
(* payload only the subjects of its assertions matter.  The assertions of  *)
(* one publication are inserted by one batch, and every later statement    *)
(* selects them by candidate and state, so one record stands for them.     *)
(* Evidence is immutable and never empty; edits are written and not read.  *)
(***************************************************************************)
EXTENDS Naturals, Sequences, FiniteSets

CONSTANTS
    Candidates, Workers,
    Subjects,         \* how assertions may spell their subject
    Entities, Labels,
    EntityId,         \* normalizeEntityId
    Label,            \* normalizeEntityLabel
    StoredLabel,      \* what a lookup by label finds a row with that subject by
    Payload,          \* the subjects of a candidate's assertions
    Edits,            \* the payloads a reviewer may substitute
    Malformed,        \* candidates whose stored payload fails validation
    Keys,             \* idempotency keys of review decisions
    OwnerChoices,     \* the owner's answers explored
    ReviewChoices,    \* the review decisions explored
    NoCandidate, NoKey, NoLabel,      \* SQL NULL
    MaxGenerations,   \* no publication is requested beyond this generation
    Crashes           \* the steps before which a request may be cut off

OwnerDecisions == {"approve_for_commit", "reject", "quarantine"}

ReviewDecisions == {"accept", "edit_accept", "reject", "quarantine"}

ASSUME ConstantsAssumption ==
    /\ OwnerChoices \subseteq OwnerDecisions
    /\ ReviewChoices \subseteq ReviewDecisions
    /\ EntityId \in [Subjects -> Entities]
    /\ Label \in [Subjects -> Labels]
    /\ StoredLabel \in [Subjects -> Labels \union {NoLabel}]
    /\ \A s \in Subjects : StoredLabel[s] \in {Label[s], NoLabel}
    /\ Payload \in [Candidates -> Seq(Subjects) \ {<<>>}]
    /\ Edits \subseteq Seq(Subjects) \ {<<>>}
    /\ Malformed \subseteq Candidates
    /\ NoCandidate \notin Candidates
    /\ NoKey \notin Keys
    /\ NoLabel \notin Labels
    /\ MaxGenerations \in Nat

VARIABLES
    candidates,   \* memory_candidates.state
    entities,     \* memory_entities
    assertions,   \* memory_assertions, with the operation of their outbox row
    snapshots,    \* memory_snapshots
    decisions,    \* memory_decisions
    resolutions,  \* memory_resolution_receipts
    reviews,      \* memory_owner_review_receipts
    commits,      \* memory_owner_commit_receipts
    actions,      \* memory_review_actions
    local,        \* the locals of the request each worker is running
    contended, swept, outrun, stale    \* history variables, see RecordHistory

tables == <<candidates, entities, assertions, snapshots, decisions,
            resolutions, reviews, commits, actions>>

history == <<contended, swept, outrun, stale>>

vars == <<tables, local, history>>

-----------------------------------------------------------------------------
(* Tables.                                                                 *)

CandidateStates == {"absent", "pending_validation", "pending_review",
                    "quarantined", "rejected", "accepted"}

Entity == [state: {"absent", "accepted", "superseded"},
           label: Labels \union {NoLabel}]

Assertion == [candidate: Candidates, generation: Nat,
              entities: SUBSET Entities,
              state: {"accepted", "superseded"},
              projection: {"upsert", "delete"}]

\* What acceptedView returns.
View == [entities: SUBSET Entities, assertions: SUBSET (Candidates \X Nat)]

Snapshot == [generation: Nat, view: View]

\* Resolution, review, rejection and quarantine decisions are left out: they
\* are written with the receipt or the state change they document, and no
\* handler decides on them.
Decision == [type: {"validation", "publication", "rollback"},
             candidate: Candidates,
             outcome: {"pending_review", "quarantined", "accepted", "restored"},
             generation: Nat]

\* The accepted entities each label of the payload was found to match.
Matches == [Labels -> SUBSET Entities]

Resolution == [outcome: {"none", "resolved", "quarantined"}, matches: Matches]

Commit == [candidate: Candidates, generation: Nat]

\* The stored response is only returned.
Action == [candidate: Candidates, key: Keys]

Steps == {"idle", "validate_write",
          "resolve_receipt", "resolve_match", "resolve_write",
          "review_candidate", "review_resolution", "review_write",
          "commit_resolution", "commit_review",
          "decide_candidate", "decide_write", "decide_record",
          "publish_candidate", "publish_entities", "publish_assertions",
          "publish_generation", "publish_lookup", "publish_write",
          "rollback_list", "rollback_write"}

NoMatches == [l \in Labels |-> {}]

Idle == [pc |-> "idle", candidate |-> NoCandidate,
         decision |-> "accept", key |-> NoKey, payload |-> <<>>,
         labels |-> {}, matches |-> NoMatches,
         view |-> [entities |-> {}, assertions |-> {}],
         generation |-> 0, index |-> 0, inserts |-> {}, listed |-> {}]

Local == [pc: Steps, candidate: Candidates \union {NoCandidate},
          decision: OwnerDecisions \union ReviewDecisions,
          key: Keys \union {NoKey}, payload: Seq(Subjects),
          labels: SUBSET Labels, matches: Matches, view: View,
          generation: Nat, index: Nat, inserts: SUBSET Nat,
          listed: SUBSET Nat]

TypeOK ==
    /\ candidates \in [Candidates -> CandidateStates]
    /\ entities \in [Entities -> Entity]
    /\ assertions \subseteq Assertion
    /\ snapshots \subseteq Snapshot
    /\ decisions \subseteq Decision
    /\ resolutions \in [Candidates -> Resolution]
    /\ reviews \in [Candidates -> OwnerDecisions \union {"none"}]
    /\ commits \subseteq Commit
    /\ actions \subseteq Action
    /\ local \in [Workers -> Local]
    /\ contended \subseteq Candidates
    /\ swept \subseteq Entities
    /\ outrun \subseteq Workers
    /\ stale \subseteq Nat

Init ==
    /\ candidates = [c \in Candidates |-> "absent"]
    /\ entities = [e \in Entities |-> [state |-> "absent", label |-> NoLabel]]
    /\ assertions = {}
    /\ snapshots = {}
    /\ decisions = {}
    /\ resolutions = [c \in Candidates |->
                        [outcome |-> "none", matches |-> NoMatches]]
    /\ reviews = [c \in Candidates |-> "none"]
    /\ commits = {}
    /\ actions = {}
    /\ local = [w \in Workers |-> Idle]
    /\ contended = {} /\ swept = {} /\ outrun = {} /\ stale = {}

-----------------------------------------------------------------------------
(* Control of a request.                                                   *)

At(w, step) == local[w].pc = step

Goto(w, step) == local' = [local EXCEPT ![w].pc = step]

Return(w) == local' = [local EXCEPT ![w] = Idle]

\* A worker takes a request about a candidate that exists.
BeginDecision(w, c, step, decision, key) ==
    /\ At(w, "idle")
    /\ candidates[c] # "absent"
    /\ local' = [local EXCEPT ![w] =
          [Idle EXCEPT !.pc = step, !.candidate = c, !.payload = Payload[c],
                       !.decision = decision, !.key = key]]

Begin(w, c, step) == BeginDecision(w, c, step, "accept", NoKey)

Decided(type, c, outcome, generation) ==
    decisions' = decisions \union
        {[type |-> type, candidate |-> c, outcome |-> outcome,
          generation |-> generation]}

-----------------------------------------------------------------------------
(* createMemoryCandidate.  The lookup before the insert decides only which *)
(* answer a repeated key gets: the unique index lets one insert through.   *)

Propose(w, c) ==
    /\ At(w, "idle")
    /\ candidates[c] = "absent"
    /\ candidates' = [candidates EXCEPT ![c] = "pending_validation"]
    /\ UNCHANGED <<entities, assertions, snapshots, decisions, resolutions,
                   reviews, commits, actions, local>>

(* validateMemoryCandidate.                                                *)

ValidateRead(w, c) ==
    /\ candidates[c] = "pending_validation"
    /\ Begin(w, c, "validate_write")
    /\ UNCHANGED tables

Verdict(c) == IF c \in Malformed THEN "quarantined" ELSE "pending_review"

\* The update does not look at the state again.
ValidateWrite(w) ==
    LET c == local[w].candidate IN
    /\ At(w, "validate_write")
    /\ candidates' = [candidates EXCEPT ![c] = Verdict(c)]
    /\ Decided("validation", c, Verdict(c), 0)
    /\ Return(w)
    /\ UNCHANGED <<entities, assertions, snapshots, resolutions, reviews,
                   commits, actions>>

-----------------------------------------------------------------------------
(* resolveMemoryCandidate.  A candidate that is not up for review ends the *)
(* request, with its receipt or without.                                   *)

LabelsOf(payload) == {Label[payload[i]] : i \in DOMAIN payload}

ResolveRead(w, c) ==
    /\ candidates[c] = "pending_review"
    /\ Begin(w, c, "resolve_receipt")
    /\ UNCHANGED tables

NoReceiptIgnored(c) == TRUE             \* mutant: receipts are not unique

NoReceipt(c) == resolutions[c].outcome = "none"

ResolveReadReceipt(w) ==
    LET l == local[w] IN
    /\ At(w, "resolve_receipt")
    /\ IF NoReceipt(l.candidate)
       THEN local' = [local EXCEPT ![w].pc = "resolve_match",
                                   ![w].labels = LabelsOf(l.payload)]
       ELSE Return(w)
    /\ UNCHANGED tables

\* The lookup compares lower(trim(canonical_label)), which misses a stored
\* subject that only normalizeEntityLabel maps to the label.
AcceptedLabelMatches(label) ==
    {e \in Entities : entities[e] = [state |-> "accepted", label |-> label]}

\* One lookup per distinct label; their order does not matter.
ResolveMatch(w) ==
    /\ At(w, "resolve_match")
    /\ \E label \in local[w].labels :
          local' = [local EXCEPT
              ![w].labels = @ \ {label},
              ![w].matches[label] = AcceptedLabelMatches(label),
              ![w].pc = IF local[w].labels = {label} THEN "resolve_write" ELSE @]
    /\ UNCHANGED tables

Ambiguous(matches) == \E l \in Labels : \E e, f \in matches[l] : e # f

ResolveWrite(w) ==
    LET c == local[w].candidate
        matches == local[w].matches
        outcome == IF Ambiguous(matches) THEN "quarantined" ELSE "resolved" IN
    /\ At(w, "resolve_write")
    /\ NoReceipt(c)
    /\ resolutions' = [resolutions EXCEPT ![c] =
                          [outcome |-> outcome, matches |-> matches]]
    /\ candidates' = IF Ambiguous(matches)
                     THEN [candidates EXCEPT ![c] = "quarantined"]
                     ELSE candidates
    /\ Return(w)
    /\ UNCHANGED <<entities, assertions, snapshots, decisions, reviews, commits,
                   actions>>

\* The unique index on the candidate aborts the batch.
ResolveAborts(w) ==
    /\ At(w, "resolve_write")
    /\ ~NoReceipt(local[w].candidate)
    /\ Return(w)
    /\ UNCHANGED tables

-----------------------------------------------------------------------------
(* reviewMemoryCandidate.                                                  *)

ReviewRead(w, c, decision) ==
    /\ reviews[c] = "none"              \* else replayed, or a conflict
    /\ BeginDecision(w, c, "review_candidate", decision, NoKey)
    /\ UNCHANGED tables

ReviewReadCandidate(w) ==
    /\ At(w, "review_candidate")
    /\ IF candidates[local[w].candidate] = "pending_review"
       THEN Goto(w, "review_resolution")
       ELSE Return(w)                   \* refused after the next read
    /\ UNCHANGED tables

ReviewReadResolution(w) ==
    /\ At(w, "review_resolution")
    /\ IF resolutions[local[w].candidate].outcome = "resolved"
       THEN Goto(w, "review_write")
       ELSE Return(w)                   \* RESOLUTION_REQUIRED
    /\ UNCHANGED tables

\* mutant: the decision's type is stored as the state
StateAfterIsType == [reject |-> "rejection", quarantine |-> "quarantine"]

StateAfter == [reject |-> "rejected", quarantine |-> "quarantined"]

NoReview(c) == reviews[c] = "none"

ReviewWrite(w) ==
    LET c == local[w].candidate
        decision == local[w].decision IN
    /\ At(w, "review_write")
    /\ NoReview(c)
    /\ reviews' = [reviews EXCEPT ![c] = decision]
    /\ candidates' = IF decision = "approve_for_commit" THEN candidates
                     ELSE [candidates EXCEPT ![c] = StateAfter[decision]]
    /\ Return(w)
    /\ UNCHANGED <<entities, assertions, snapshots, decisions, resolutions,
                   commits, actions>>

ReviewAborts(w) ==
    /\ At(w, "review_write")
    /\ ~NoReview(local[w].candidate)
    /\ Return(w)
    /\ UNCHANGED tables

-----------------------------------------------------------------------------
(* commitOwnerReviewedCandidate, up to its call of publishMemoryCandidate. *)
(* The receipts it compares are immutable, so their hashes agree.          *)

Committed(c) == \E receipt \in commits : receipt.candidate = c

CommitRead(w, c) ==
    /\ ~Committed(c)                    \* else the receipt is replayed
    /\ Begin(w, c, "commit_resolution")
    /\ UNCHANGED tables

CommitReadResolution(w) ==
    LET receipt == resolutions[local[w].candidate] IN
    /\ At(w, "commit_resolution")
    /\ IF receipt.outcome = "resolved"
       THEN local' = [local EXCEPT ![w].pc = "commit_review",
                                   ![w].matches = receipt.matches]
       ELSE Return(w)
    /\ UNCHANGED tables

CommitsUnreviewed(c) == TRUE            \* mutant: the owner is not asked

Approved(c) == reviews[c] = "approve_for_commit"

CommitReadReview(w) ==
    /\ At(w, "commit_review")
    /\ IF Approved(local[w].candidate)
       THEN Goto(w, "publish_candidate")
       ELSE Return(w)
    /\ UNCHANGED tables

-----------------------------------------------------------------------------
(* decideReviewCandidate, up to its call of publishMemoryCandidate.  The   *)
(* requests that carry an idempotency key are the ones made here.          *)

DecideRead(w, c, decision, key) ==
    /\ [candidate |-> c, key |-> key] \notin actions       \* else replayed
    /\ BeginDecision(w, c, "decide_candidate", decision, key)
    /\ UNCHANGED tables

UnvalidatedReviewable(state) == state # "quarantined"    \* mutant

Reviewable(state) == state = "pending_review"

\* Acceptance needs a reviewable candidate; the other decisions look at
\* no state.
DecideReadCandidate(w) ==
    LET l == local[w] IN
    /\ At(w, "decide_candidate")
    /\ \/ /\ l.decision \in {"reject", "quarantine"}
          /\ Goto(w, "decide_write")
       \/ /\ l.decision \in {"accept", "edit_accept"}
          /\ Reviewable(candidates[l.candidate])
          /\ \E payload \in IF l.decision = "accept" THEN {l.payload} ELSE Edits :
                local' = [local EXCEPT ![w].pc = "publish_candidate",
                                       ![w].payload = payload]
       \/ /\ l.decision \in {"accept", "edit_accept"}
          /\ ~Reviewable(candidates[l.candidate])
          /\ Return(w)
    /\ UNCHANGED tables

DecideWrite(w) ==
    LET l == local[w] IN
    /\ At(w, "decide_write")
    /\ candidates' = [candidates EXCEPT ![l.candidate] = StateAfter[l.decision]]
    /\ Goto(w, "decide_record")
    /\ UNCHANGED <<entities, assertions, snapshots, decisions, resolutions,
                   reviews, commits, actions>>

\* The replay record, in a statement of its own.  A key that another request
\* recorded meanwhile fails it, which leaves the table as it is.
DecideRecord(w) ==
    LET l == local[w] IN
    /\ At(w, "decide_record")
    /\ actions' = actions \union {[candidate |-> l.candidate, key |-> l.key]}
    /\ Return(w)
    /\ UNCHANGED <<candidates, entities, assertions, snapshots, decisions,
                   resolutions, reviews, commits>>

-----------------------------------------------------------------------------
(* publishMemoryCandidate.                                                 *)

PublishReadCandidate(w) ==
    /\ At(w, "publish_candidate")
    /\ IF Reviewable(candidates[local[w].candidate])
       THEN Goto(w, "publish_entities")
       ELSE Return(w)
    /\ UNCHANGED tables

AcceptedEntities == {e \in Entities : entities[e].state = "accepted"}

AcceptedAssertions ==
    {<<a.candidate, a.generation>> : a \in {b \in assertions : b.state = "accepted"}}

\* acceptedView is one statement per table; nothing writes relations or events.
PublishReadEntities(w) ==
    /\ At(w, "publish_entities")
    /\ local' = [local EXCEPT ![w].pc = "publish_assertions",
                              ![w].view.entities = AcceptedEntities]
    /\ UNCHANGED tables

PublishReadAssertions(w) ==
    /\ At(w, "publish_assertions")
    /\ local' = [local EXCEPT ![w].pc = "publish_generation",
                              ![w].view.assertions = AcceptedAssertions]
    /\ UNCHANGED tables

Generations == {s.generation : s \in snapshots}

\* COALESCE(MAX(generation), 0)
LastOf(gs) == CHOOSE g \in gs \union {0} : \A h \in gs : h <= g

PublishReadGeneration(w) ==
    /\ At(w, "publish_generation")
    /\ local' = [local EXCEPT ![w].pc = "publish_lookup",
                              ![w].generation = LastOf(Generations) + 1,
                              ![w].index = 1]
    /\ UNCHANGED tables

\* The entity assertion i is about: the one its label was resolved to, or the
\* one its subject spells.  A request with a key comes without resolutions.
Target(l, i) ==
    LET found == l.matches[Label[l.payload[i]]] IN
    IF found # {} THEN CHOOSE e \in found : TRUE ELSE EntityId[l.payload[i]]

Unusable(row) == row.state = "superseded"

PublishLookup(w) ==
    LET l == local[w]
        row == entities[Target(l, l.index)] IN
    /\ At(w, "publish_lookup")
    /\ IF Unusable(row)
       THEN Return(w)                   \* RESOLVED_ENTITY_NOT_ACCEPTED
       ELSE local' = [local EXCEPT
               ![w].inserts = IF row.state = "absent" THEN @ \union {l.index} ELSE @,
               ![w].index = @ + 1,
               ![w].pc = IF l.index = Len(l.payload) THEN "publish_write" ELSE @]
    /\ UNCHANGED tables

IsOwnerCommit(l) == l.key = NoKey

GenerationFreeAssumed(g) == TRUE        \* mutant: no unique index

GenerationFree(g) == g \notin Generations

\* No unique index stands in the way of the batch.
Insertable(l) ==
    /\ GenerationFree(l.generation)
    /\ \A i \in l.inserts :
          /\ entities[Target(l, i)].state = "absent"
          /\ \A j \in l.inserts : Target(l, j) = Target(l, i) => j = i
    /\ IsOwnerCommit(l) => ~Committed(l.candidate)

PublishWrite(w) ==
    LET l == local[w]
        c == l.candidate
        g == l.generation
        new == {Target(l, i) : i \in l.inserts} IN
    /\ At(w, "publish_write")
    /\ Insertable(l)
    /\ snapshots' = snapshots \union {[generation |-> g, view |-> l.view]}
    /\ entities' = [e \in Entities |->
          IF e \in new
          THEN [state |-> "accepted",
                label |-> StoredLabel[l.payload[CHOOSE i \in l.inserts : Target(l, i) = e]]]
          ELSE entities[e]]
    /\ assertions' = assertions \union
          {[candidate |-> c, generation |-> g,
            entities |-> {Target(l, i) : i \in DOMAIN l.payload},
            state |-> "accepted", projection |-> "upsert"]}
    /\ Decided("publication", c, "accepted", g)
    /\ candidates' = [candidates EXCEPT ![c] = "accepted"]
    /\ IF IsOwnerCommit(l)
       THEN /\ commits' = commits \union {[candidate |-> c, generation |-> g]}
            /\ Return(w)
       ELSE /\ Goto(w, "decide_record")
            /\ UNCHANGED commits
    /\ UNCHANGED <<resolutions, reviews, actions>>

PublishAborts(w) ==
    /\ At(w, "publish_write")
    /\ ~Insertable(local[w])
    /\ Return(w)
    /\ UNCHANGED tables

-----------------------------------------------------------------------------
(* rollbackMemoryDecision.  Its last step, which compares the accepted     *)
(* view with the snapshot, decides only what the client is told.           *)

\* The publication decision and its snapshot are immutable.
RollbackRead(w, d) ==
    /\ d.type = "publication"
    /\ At(w, "idle")
    /\ local' = [local EXCEPT ![w] =
          [Idle EXCEPT !.pc = "rollback_list", !.candidate = d.candidate,
                       !.generation = d.generation]]
    /\ UNCHANGED tables

RollbackList(w) ==
    /\ At(w, "rollback_list")
    /\ local' = [local EXCEPT
          ![w].pc = "rollback_write",
          ![w].listed = {a.generation : a \in
              {b \in assertions : b.candidate = local[w].candidate
                                  /\ b.state = "accepted"}}]
    /\ UNCHANGED tables

EveryCandidateWithdrawn(a, l) ==        \* mutant: the candidate is not selected
    [a EXCEPT !.state = "superseded",
              !.projection = IF a.generation \in l.listed THEN "delete" ELSE @]

WithdrawnGeneration(a, l) ==            \* mutant: only the decision's generation
    IF a.candidate = l.candidate
    THEN [a EXCEPT !.state = IF a.generation = l.generation THEN "superseded" ELSE @,
                   !.projection = IF a.generation \in l.listed THEN "delete" ELSE @]
    ELSE a

\* The assertion after the batch of a rollback with locals l.
Withdrawn(a, l) ==
    IF a.candidate = l.candidate
    THEN [a EXCEPT !.state = "superseded",
                   !.projection = IF a.generation \in l.listed THEN "delete" ELSE @]
    ELSE a

OrphansKept(row, e, table) == row       \* mutant: no orphan sweep

OrphanOfAnyState(row, e, table) ==      \* mutant: superseded assertions count
    IF row.state = "accepted" /\ ~\E a \in table : e \in a.entities
    THEN [row EXCEPT !.state = "superseded"]
    ELSE row

\* SUPERSEDE_ORPHAN_ENTITIES
OrphanSuperseded(row, e, table) ==
    IF /\ row.state = "accepted"
       /\ ~\E a \in table : a.state = "accepted" /\ e \in a.entities
    THEN [row EXCEPT !.state = "superseded"]
    ELSE row

RollbackWrite(w) ==
    LET l == local[w]
        after == {Withdrawn(a, l) : a \in assertions} IN
    /\ At(w, "rollback_write")
    /\ assertions' = after
    /\ entities' = [e \in Entities |-> OrphanSuperseded(entities[e], e, after)]
    /\ Decided("rollback", l.candidate, "restored", l.generation)
    /\ Return(w)
    /\ UNCHANGED <<candidates, snapshots, resolutions, reviews, commits, actions>>

-----------------------------------------------------------------------------

Crash(w) ==
    /\ local[w].pc \in Crashes \ {"idle"}
    /\ Return(w)
    /\ UNCHANGED tables

\* MaxGenerations bounds the number of publications explored.
MayPublish == Cardinality(snapshots) < MaxGenerations

Request(w) ==
    \/ \E c \in Candidates :
          \/ Propose(w, c)
          \/ ValidateRead(w, c)
          \/ ResolveRead(w, c)
          \/ \E decision \in OwnerChoices : ReviewRead(w, c, decision)
          \/ MayPublish /\ CommitRead(w, c)
          \/ \E decision \in ReviewChoices, key \in Keys :
                /\ decision \in {"accept", "edit_accept"} => MayPublish
                /\ DecideRead(w, c, decision, key)
    \/ \E d \in decisions : RollbackRead(w, d)

Proceed(w) ==
    \/ ValidateWrite(w)
    \/ ResolveReadReceipt(w)
    \/ ResolveMatch(w)
    \/ ResolveWrite(w)
    \/ ResolveAborts(w)
    \/ ReviewReadCandidate(w)
    \/ ReviewReadResolution(w)
    \/ ReviewWrite(w)
    \/ ReviewAborts(w)
    \/ CommitReadResolution(w)
    \/ CommitReadReview(w)
    \/ DecideReadCandidate(w)
    \/ DecideWrite(w)
    \/ DecideRecord(w)
    \/ PublishReadCandidate(w)
    \/ PublishReadEntities(w)
    \/ PublishReadAssertions(w)
    \/ PublishReadGeneration(w)
    \/ PublishLookup(w)
    \/ PublishWrite(w)
    \/ PublishAborts(w)
    \/ RollbackList(w)
    \/ RollbackWrite(w)

(* What requests in flight together do to each other.                      *)

\* A publication has read its candidate as reviewable and not finished.
PublishSteps == {"publish_entities", "publish_assertions", "publish_generation",
                 "publish_lookup", "publish_write"}

\* It has begun to read the view its snapshot will store.
ViewSteps == PublishSteps \ {"publish_entities"}

\* The entities a publication has looked up.
LookedUp(l) ==
    IF l.pc \in {"publish_lookup", "publish_write"}
    THEN {Target(l, i) : i \in 1 .. l.index - 1}
    ELSE {}

Published == snapshots' # snapshots

MemoryMoved == <<entities, assertions>>' # <<entities, assertions>>

\* contended: candidates published while another request had read them as
\*            reviewable, or as awaiting validation, and was still running;
\* swept:     entities superseded while a publication that had looked them up
\*            was still running;
\* outrun:    publications that began to read accepted memory before a batch
\*            of another request moved it;
\* stale:     generations published by those.
RecordHistory(w) ==
    /\ contended' = IF /\ Published
                       /\ \E v \in Workers \ {w} :
                             /\ local[v].candidate = local[w].candidate
                             /\ local[v].pc \in PublishSteps \union {"validate_write"}
                    THEN contended \union {local[w].candidate}
                    ELSE contended
    /\ swept' = swept \union
          {e \in Entities : /\ entities[e].state = "accepted"
                            /\ entities'[e].state = "superseded"
                            /\ \E v \in Workers : e \in LookedUp(local[v])}
    /\ outrun' = {v \in Workers : /\ local'[v].pc \in ViewSteps
                                  /\ v \in outrun \/ (v # w /\ MemoryMoved)}
    /\ stale' = IF Published /\ w \in outrun
                THEN stale \union {local[w].generation}
                ELSE stale

Next == \E w \in Workers : /\ Request(w) \/ Proceed(w) \/ Crash(w)
                           /\ RecordHistory(w)

Spec == Init /\ [][Next]_vars

-----------------------------------------------------------------------------
(* Safety, whatever clients do.                                            *)

\* Generations are numbered 1, 2, ... without a gap or a repetition, and each
\* has one snapshot, one publication decision and one set of assertions, all
\* of one candidate.
GenerationsAccounted ==
    /\ \A g \in Generations : \A h \in 1 .. g : h \in Generations
    /\ \A s, t \in snapshots : s.generation = t.generation => s = t
    /\ Generations = {a.generation : a \in assertions}
    /\ \A a, b \in assertions : a.generation = b.generation => a = b
    /\ {<<a.candidate, a.generation>> : a \in assertions} =
       {<<d.candidate, d.generation>> : d \in {x \in decisions : x.type = "publication"}}

\* A candidate has one owner commit at most, which names a generation of its
\* own, and the owner had approved it after a successful resolution, to which
\* its assertions keep.
CommitsAuthorised ==
    \A receipt \in commits :
        LET c == receipt.candidate
            r == resolutions[c] IN
        /\ \A other \in commits : other.candidate = c => other = receipt
        /\ reviews[c] = "approve_for_commit"
        /\ r.outcome = "resolved"
        /\ \E a \in assertions :
              /\ a.candidate = c
              /\ a.generation = receipt.generation
              /\ \A i \in DOMAIN Payload[c] :
                    r.matches[Label[Payload[c][i]]] \subseteq a.entities

\* Only a candidate that passed validation ever contributes an assertion.
AcceptedWasValidated ==
    \A a \in assertions :
        /\ a.candidate \notin Malformed
        /\ \E d \in decisions : /\ d.type = "validation"
                                /\ d.candidate = a.candidate
                                /\ d.outcome = "pending_review"

\* The owner decides once on a candidate and the resolution it rests on is
\* recorded once: racing requests cannot replace either.
ReceiptsFinal ==
    [][\A c \in Candidates :
          /\ reviews[c] # "none" => reviews'[c] = reviews[c]
          /\ resolutions[c].outcome # "none" => resolutions'[c] = resolutions[c]]_vars

-----------------------------------------------------------------------------
(* Safety of the decisions, whatever requests overlap or are cut off.      *)

\* A candidate is published at most once, unless the publication met another
\* request that had read the candidate before: only then is a second
\* publication, from whatever source, possible.
PublishedOnce ==
    \A a, b \in assertions :
        a.candidate = b.candidate /\ a.candidate \notin contended => a = b

Asserted == UNION {a.entities : a \in {b \in assertions : b.state = "accepted"}}

\* The accepted entities are the ones accepted assertions are about: rollbacks
\* leave no canonical entity nothing is known about, and take none away, but
\* for entities that a running publication had already looked up.
CanonIsConsistent ==
    /\ AcceptedEntities \subseteq Asserted
    /\ Asserted \ swept \subseteq AcceptedEntities

\* An accepted assertion is never queued for deletion from the indexes, and a
\* withdrawn one is, unless its candidate was published in a race: then it may
\* have been accepted after the rollback listed what to delete.
ProjectionFollowsState ==
    \A a \in assertions :
        IF a.state = "accepted" THEN a.projection = "upsert"
        ELSE a.candidate \notin contended => a.projection = "delete"

\* The rollback undoes the last publication that stands, and only later ones
\* were rolled back before.
UndoesLast(d) ==
    /\ \A a \in assertions : a.generation > d.generation => a.state = "superseded"
    /\ \A x \in decisions : x.type = "rollback" => x.generation > d.generation

\* Since that generation, no candidate was published in a race, and its own
\* snapshot was not outrun.
UndoneCleanly(d) ==
    /\ d.generation \notin stale
    /\ \A a \in assertions :
          a.generation >= d.generation => a.candidate \notin contended

\* Undoing the last publication restores exactly the accepted memory that its
\* snapshot recorded, but for entities that were swept.
UndoRestores ==
    [][\A d \in decisions' \ decisions :
          d.type = "rollback" /\ UndoesLast(d) /\ UndoneCleanly(d) =>
              \E s \in snapshots :
                  /\ s.generation = d.generation
                  /\ s.view.assertions = AcceptedAssertions'
                  /\ s.view.entities \ swept' = AcceptedEntities' \ swept']_vars

-----------------------------------------------------------------------------
(* Refinement: whatever clients do, accepted memory is a sequence of       *)
(* generations that enter whole and leave whole.                           *)

Canon == INSTANCE AcceptedMemory WITH
    generation <- LastOf(Generations),
    canon <- AcceptedAssertions

\* Every behaviour of the handlers is a behaviour of AcceptedMemory.
RefinesAcceptedMemory == Canon!Spec

=============================================================================
