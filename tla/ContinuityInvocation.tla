------------------------ MODULE ContinuityInvocation ------------------------
(***************************************************************************)
(* How an invocation obtains, uses and returns context: resolution of the  *)
(* latest runway with its fallbacks, rehydration, completion, and the      *)
(* receipt that enforcement asks for.                                      *)
(*                                                                         *)
(* Runways are proposed, published, invalidated and damaged in one step    *)
(* each: RunwayLifecycle takes their handlers apart and shows that runways *)
(* nothing overwrote move like that.  A resolver reads them one statement  *)
(* at a time meanwhile.  A worker is one request in flight.                *)
(***************************************************************************)
EXTENDS Naturals, FiniteSets

CONSTANTS
    Tenants, Identities, Projects, Scopes,
    Global,           \* the project "global"
    Default,          \* the scope "default"
    Credentials,
    TenantOf,         \* principal.tenant_id
    ProjectsOf,       \* principal.project_ids, "*" expanded
    IdentitiesOf,     \* principal.identity_ids, "*" expanded
    Specialists,      \* the credentials whose principal_id is "specialist"
    Runways,
    CreatorOf,        \* a runway is named by its credential and idempotency key
    Invocations,      \* the invocation ids clients send
    Receipts, Workers,
    NoRunway, NoInvocation, NoReceipt, NoCredential,    \* SQL NULL
    Requested,        \* the targets contexts are asked for
    Proposed,         \* the targets runways are created for
    OutcomesSent,     \* the completion outcomes explored
    Completers,       \* the workers that take completions, the others resolve
    GlobalFallback,   \* CONTINUITY_GLOBAL_FALLBACK_ENABLED
    Backfilled,       \* runways whose payload says it was backfilled
    Damageable        \* runways whose stored content may turn out damaged

Targets == [tenant: Tenants, identity: Identities,
            project: Projects, scope: Scopes]

Outcomes == {"changed", "unchanged", "checkpoint_failed"}

ASSUME ConstantsAssumption ==
    /\ Global \in Projects
    /\ Default \in Scopes
    /\ TenantOf \in [Credentials -> Tenants]
    /\ ProjectsOf \in [Credentials -> SUBSET Projects]
    /\ IdentitiesOf \in [Credentials -> SUBSET Identities]
    /\ Specialists \subseteq Credentials
    /\ CreatorOf \in [Runways -> Credentials]
    /\ NoRunway \notin Runways
    /\ NoInvocation \notin Invocations
    /\ NoReceipt \notin Receipts
    /\ NoCredential \notin Credentials
    /\ Requested \subseteq Targets /\ Requested # {}
    /\ Proposed \subseteq Targets
    /\ OutcomesSent \subseteq Outcomes
    /\ Completers \subseteq Workers
    /\ GlobalFallback \in BOOLEAN
    /\ Backfilled \subseteq Runways
    /\ Damageable \subseteq Runways

VARIABLES
    rows,         \* context_runways
    heads,        \* context_runway_heads
    invocations,  \* context_invocations
    receipts,     \* context_retrieval_receipts
    local         \* the locals of the request each worker is running

runwayTables == <<rows, heads>>

vars == <<rows, heads, invocations, receipts, local>>

-----------------------------------------------------------------------------
(* Tables.                                                                 *)

Row == [state: {"absent", "candidate", "published", "superseded", "invalidated"},
        target: Targets, predecessor: Runways \union {NoRunway},
        generation: Nat, wasPublished: BOOLEAN, intact: BOOLEAN]

Invocation == [state: {"absent", "opened", "rehydrated", "completed", "failed"},
               target: Targets, credential: Credentials \union {NoCredential},
               runway: Runways \union {NoRunway},
               receipt: Receipts \union {NoReceipt},
               outcome: Outcomes \union {"none"}]

\* A stale context is a current one past its age limit: no property tells
\* them apart, so CURRENT_CONTEXT stands for both.
ContextStatuses == {"CURRENT_CONTEXT", "DEGRADED_CONTEXT", "NO_CONTEXT",
                    "QUARANTINED_CONTEXT"}

Context == [status: ContextStatuses, runway: Runways \union {NoRunway}]

Receipt == [issued: BOOLEAN, target: Targets,
            credential: Credentials \union {NoCredential}, context: Context]

SomeTarget == CHOOSE t \in Requested : TRUE

NoContext == [status |-> "NO_CONTEXT", runway |-> NoRunway]

Steps == {"idle", "exact_head", "exact_row", "default_head", "default_row",
          "genesis", "global_head", "global_row", "backfill", "persist", "bind",
          "create", "complete"}

Idle == [pc |-> "idle", credential |-> NoCredential, target |-> SomeTarget,
         invocation |-> NoInvocation, head |-> NoRunway, context |-> NoContext,
         receipt |-> NoReceipt, outcome |-> "none"]

Local == [pc: Steps, credential: Credentials \union {NoCredential},
          target: Targets, invocation: Invocations \union {NoInvocation},
          head: Runways \union {NoRunway}, context: Context,
          receipt: Receipts \union {NoReceipt},
          outcome: Outcomes \union {"none"}]

TypeOK ==
    /\ rows \in [Runways -> Row]
    /\ heads \in [Targets -> Runways \union {NoRunway}]
    /\ invocations \in [Invocations -> Invocation]
    /\ receipts \in [Receipts -> Receipt]
    /\ local \in [Workers -> Local]

Init ==
    /\ rows = [r \in Runways |->
          [state |-> "absent", target |-> SomeTarget,
           predecessor |-> NoRunway, generation |-> 0, wasPublished |-> FALSE,
           intact |-> TRUE]]
    /\ heads = [t \in Targets |-> NoRunway]
    /\ invocations = [i \in Invocations |->
          [state |-> "absent", target |-> SomeTarget, credential |-> NoCredential,
           runway |-> NoRunway, receipt |-> NoReceipt, outcome |-> "none"]]
    /\ receipts = [i \in Receipts |->
          [issued |-> FALSE, target |-> SomeTarget, credential |-> NoCredential,
           context |-> NoContext]]
    /\ local = [w \in Workers |-> Idle]

-----------------------------------------------------------------------------
(* The runways, one atomic operation at a time.                            *)

\* createCandidateCheckpoint
Created(r, t) ==
    [rows EXCEPT ![r] =
        [state |-> "candidate", target |-> t, predecessor |-> heads[t],
         generation |-> IF heads[t] = NoRunway THEN 1
                        ELSE rows[heads[t]].generation + 1,
         wasPublished |-> FALSE, intact |-> TRUE]]

Authorized(c, t) ==
    /\ t.tenant = TenantOf[c]
    /\ t.project \in ProjectsOf[c]
    /\ t.identity \in IdentitiesOf[c]

Propose(r, t) ==
    /\ rows[r].state = "absent"
    /\ Authorized(CreatorOf[r], t)
    /\ rows' = Created(r, t)
    /\ UNCHANGED <<heads, invocations, receipts, local>>

\* An empty head takes any candidate, whatever it was proposed over.
OverItsHead(r) == heads[rows[r].target] \in {rows[r].predecessor, NoRunway}

Publish(r) ==
    LET t == rows[r].target IN
    /\ rows[r].state = "candidate"
    /\ OverItsHead(r)
    /\ heads' = [heads EXCEPT ![t] = r]
    /\ rows' = [q \in Runways |->
          IF q = r
          THEN [rows[q] EXCEPT !.state = "published", !.wasPublished = TRUE]
          ELSE IF q = heads[t] /\ rows[q].state = "published"
               THEN [rows[q] EXCEPT !.state = "superseded"]
               ELSE rows[q]]
    /\ UNCHANGED <<invocations, receipts, local>>

\* Invalidating the head restores its predecessor, if that still stands.
Invalidate(r) ==
    LET t == rows[r].target
        p == rows[r].predecessor IN
    /\ rows[r].state \in {"published", "superseded"}
    /\ heads' = IF heads[t] = r THEN [heads EXCEPT ![t] = p] ELSE heads
    /\ rows' = [q \in Runways |->
          IF q = r
          THEN [rows[q] EXCEPT !.state = "invalidated"]
          ELSE IF heads[t] = r /\ q = p /\ rows[q].state = "superseded"
               THEN [rows[q] EXCEPT !.state = "published"]
               ELSE rows[q]]
    /\ UNCHANGED <<invocations, receipts, local>>

\* Stored content stops matching its manifest.
Damage(r) ==
    /\ r \in Damageable
    /\ rows[r].wasPublished
    /\ rows[r].intact
    /\ rows' = [rows EXCEPT ![r].intact = FALSE]
    /\ UNCHANGED <<heads, invocations, receipts, local>>

-----------------------------------------------------------------------------
(* Control of a request.                                                   *)

At(w, step) == local[w].pc = step

Goto(w, step) == local' = [local EXCEPT ![w].pc = step]

Return(w) == local' = [local EXCEPT ![w] = Idle]

Begin(w, step, c, t, i, outcome) ==
    /\ At(w, "idle")
    /\ local' = [local EXCEPT ![w] = [Idle EXCEPT
          !.pc = step, !.credential = c, !.target = t, !.invocation = i,
          !.outcome = outcome]]

-----------------------------------------------------------------------------
(* resolveLatestRunway.                                                    *)

\* GET /v1/continuity/latest resolves without an invocation.
Resolve(w, c, t) ==
    /\ t.tenant = TenantOf[c]
    /\ Begin(w, "exact_head", c, t, NoInvocation, "none")
    /\ UNCHANGED <<rows, heads, invocations, receipts>>

DefaultOf(t) == [t EXCEPT !.scope = Default]

GlobalOf(t) == [t EXCEPT !.project = Global, !.scope = Default]

\* classifyFreshness of a row that verified.  Its quarantine is for states
\* that no such row has, and for integrity states (hash_mismatch, corrupt)
\* that nothing writes: validation leaves pending, passed, failed or
\* quarantined.
Freshness(r) == IF r \in Backfilled THEN "DEGRADED_CONTEXT" ELSE "CURRENT_CONTEXT"

AnyPublishedState(r) ==                 \* mutant: the exact head as a fallback
    rows[r].state \in {"published", "superseded"}

ExactState(r) == rows[r].state = "published"

FallbackState(r) == rows[r].state \in {"published", "superseded"}

\* The rest of verifyStoredRunway: the tuple and the manifest.
Verifies(r, t) == rows[r].target = t /\ rows[r].intact

\* Leaves w with the context to persist.
Select(w, r, status) ==
    local' = [local EXCEPT ![w].pc = "persist", ![w].head = NoRunway,
                           ![w].context = [status |-> status, runway |-> r]]

\* Reads a head; a missing one sends the resolver on.
ReadHead(w, t, row, miss) ==
    local' = [local EXCEPT ![w].pc = IF heads[t] = NoRunway THEN miss ELSE row,
                           ![w].head = heads[t]]

FallbackKeepsStatus(r) == Freshness(r)  \* mutant: the fallback is not flagged

FallbackStatus(r) == "DEGRADED_CONTEXT"

\* Reads the row of a fallback and takes it or quarantines it.
TakeFallback(w, r, t) ==
    IF FallbackState(r) /\ Verifies(r, t)
    THEN Select(w, r, FallbackStatus(r))
    ELSE Select(w, r, "QUARANTINED_CONTEXT")

AfterExactMiss(t) == IF t.scope = Default THEN "genesis" ELSE "default_head"

AfterGenesisMiss == IF GlobalFallback THEN "global_head" ELSE "backfill"

ResolveExactHead(w) ==
    LET l == local[w] IN
    /\ At(w, "exact_head")
    /\ IF Authorized(l.credential, l.target)
       THEN ReadHead(w, l.target, "exact_row", AfterExactMiss(l.target))
       ELSE Return(w)
    /\ UNCHANGED <<rows, heads, invocations, receipts>>

\* A head that does not verify is quarantined and never replaced by a
\* fallback.
ResolveExactRow(w) ==
    LET r == local[w].head IN
    /\ At(w, "exact_row")
    /\ IF ExactState(r) /\ Verifies(r, local[w].target)
       THEN Select(w, r, Freshness(r))
       ELSE Select(w, r, "QUARANTINED_CONTEXT")
    /\ UNCHANGED <<rows, heads, invocations, receipts>>

ResolveDefaultHead(w) ==
    /\ At(w, "default_head")
    /\ ReadHead(w, DefaultOf(local[w].target), "default_row", "genesis")
    /\ UNCHANGED <<rows, heads, invocations, receipts>>

ResolveDefaultRow(w) ==
    /\ At(w, "default_row")
    /\ TakeFallback(w, local[w].head, DefaultOf(local[w].target))
    /\ UNCHANGED <<rows, heads, invocations, receipts>>

\* GET_GENESIS: a first generation of the project, of whatever scope.
GenesisOf(t) ==
    {r \in Runways : /\ rows[r].generation = 1
                     /\ \E s \in Scopes : rows[r].target = [t EXCEPT !.scope = s]
                     /\ FallbackState(r)}

\* The newest is taken; creation times are not kept, so it may be any.
ResolveGenesis(w) ==
    LET found == GenesisOf(local[w].target) IN
    /\ At(w, "genesis")
    /\ IF found = {}
       THEN Goto(w, AfterGenesisMiss)
       ELSE \E r \in found : TakeFallback(w, r, rows[r].target)
    /\ UNCHANGED <<rows, heads, invocations, receipts>>

ResolveGlobalHead(w) ==
    /\ At(w, "global_head")
    /\ ReadHead(w, GlobalOf(local[w].target), "global_row", "backfill")
    /\ UNCHANGED <<rows, heads, invocations, receipts>>

ResolveGlobalRow(w) ==
    /\ At(w, "global_row")
    /\ TakeFallback(w, local[w].head, GlobalOf(local[w].target))
    /\ UNCHANGED <<rows, heads, invocations, receipts>>

\* GET_BACKFILLED: the highest backfilled generation of the target.
BackfilledOf(t) ==
    {r \in Backfilled : rows[r].target = t /\ FallbackState(r)}

ResolveBackfilled(w) ==
    LET found == BackfilledOf(local[w].target) IN
    /\ At(w, "backfill")
    /\ IF found = {}
       THEN Select(w, NoRunway, "NO_CONTEXT")
       ELSE \E r \in found :
               /\ \A q \in found : rows[q].generation <= rows[r].generation
               /\ TakeFallback(w, r, local[w].target)
    /\ UNCHANGED <<rows, heads, invocations, receipts>>

\* A receipt identifier is drawn here: Receipts bounds their number.
PersistResolution(w) ==
    LET l == local[w] IN
    /\ At(w, "persist")
    /\ \E id \in Receipts :
          /\ ~receipts[id].issued
          /\ receipts' = [receipts EXCEPT ![id] =
                [issued |-> TRUE, target |-> l.target,
                 credential |-> l.credential, context |-> l.context]]
          /\ IF l.invocation = NoInvocation
             THEN Return(w)
             ELSE local' = [local EXCEPT ![w].pc = "bind", ![w].receipt = id]
    /\ UNCHANGED <<rows, heads, invocations>>

-----------------------------------------------------------------------------
(* rehydrateContext.  What follows the resolution and precedes the binding *)
(* (records, supplemental search, the receipt's final columns) decides     *)
(* only the reply.                                                         *)

InsertReplaces(i) == TRUE               \* mutant: INSERT OR REPLACE

\* INSERT OR IGNORE
InsertTakes(i) == invocations[i].state = "absent"

\* The row is inserted before the principal is checked.
Rehydrate(w, c, t, i) ==
    /\ t.tenant = TenantOf[c]
    /\ Begin(w, "exact_head", c, t, i, "none")
    /\ invocations' = IF InsertTakes(i)
                      THEN [invocations EXCEPT ![i] =
                              [state |-> "opened", target |-> t, credential |-> c,
                               runway |-> NoRunway, receipt |-> NoReceipt,
                               outcome |-> "none"]]
                      ELSE invocations
    /\ UNCHANGED <<rows, heads, receipts>>

\* SET_INVOCATION_REHYDRATED looks at the tenant and nothing else.
BindInvocation(w) ==
    LET l == local[w]
        i == l.invocation IN
    /\ At(w, "bind")
    /\ invocations' = IF invocations[i].target.tenant = TenantOf[l.credential]
                      THEN [invocations EXCEPT ![i].state = "rehydrated",
                                               ![i].runway = l.context.runway,
                                               ![i].receipt = l.receipt]
                      ELSE invocations
    /\ Return(w)
    /\ UNCHANGED <<rows, heads, receipts>>

-----------------------------------------------------------------------------
(* completeContinuityInvocation.                                           *)

\* The invocation as read: its target and credential are never changed.
Complete(w, c, i, outcome) ==
    LET row == invocations[i] IN
    /\ row.state # "absent"
    /\ Authorized(c, row.target)
    /\ c \in Specialists => row.credential = c
    /\ Begin(w, IF outcome = "changed" THEN "create" ELSE "complete",
             c, row.target, i, outcome)
    /\ UNCHANGED <<rows, heads, invocations, receipts>>

ReplayOfAnyTarget(r, t) == TRUE         \* mutant: no idempotency_scope_conflict

ReplayFits(r, t) == rows[r].target = t

\* The candidate comes before the outcome.  Its key may be new, name a
\* candidate of the same target, or be refused.
CompleteCreate(w) ==
    LET l == local[w] IN
    /\ At(w, "create")
    /\ \E r \in {q \in Runways : CreatorOf[q] = l.credential} :
          \/ /\ rows[r].state = "absent"
             /\ rows' = Created(r, l.target)
             /\ Goto(w, "complete")
          \/ /\ rows[r].state # "absent"
             /\ IF ReplayFits(r, l.target) THEN Goto(w, "complete") ELSE Return(w)
             /\ UNCHANGED rows
    /\ UNCHANGED <<heads, invocations, receipts>>

OutcomeIsState(outcome) == outcome      \* mutant: the two columns mixed up

StateAfter(outcome) ==
    IF outcome = "checkpoint_failed" THEN "failed" ELSE "completed"

\* COMPLETE_INVOCATION is keyed by the credential just read, so it always
\* takes effect, whatever state the invocation is in by now.
CompleteRecord(w) ==
    LET l == local[w] IN
    /\ At(w, "complete")
    /\ invocations' = [invocations EXCEPT
          ![l.invocation].state = StateAfter(l.outcome),
          ![l.invocation].outcome = l.outcome]
    /\ Return(w)
    /\ UNCHANGED <<rows, heads, receipts>>

-----------------------------------------------------------------------------
(* requireInvocationContinuity, with the enforcement flag on.              *)

EligibleStatuses == {"CURRENT_CONTEXT", "DEGRADED_CONTEXT", "NO_CONTEXT"}

\* Nothing is consumed: a receipt may be shown again at any time.
Admits(c, identity, id) ==
    /\ receipts[id].issued
    /\ receipts[id].target.tenant = TenantOf[c]
    /\ receipts[id].credential = c
    /\ receipts[id].target.identity = identity
    /\ receipts[id].context.status \in EligibleStatuses

-----------------------------------------------------------------------------

Crash(w) ==
    /\ ~At(w, "idle")
    /\ Return(w)
    /\ UNCHANGED <<rows, heads, invocations, receipts>>

Lifecycle ==
    \E r \in Runways :
        \/ \E t \in Proposed : Propose(r, t)
        \/ Publish(r)
        \/ Invalidate(r)
        \/ Damage(r)

Request(w) ==
    \/ /\ w \notin Completers
       /\ \E c \in Credentials, t \in Requested :
             \/ Resolve(w, c, t)
             \/ \E i \in Invocations : Rehydrate(w, c, t, i)
    \/ /\ w \in Completers
       /\ \E c \in Credentials, i \in Invocations, outcome \in OutcomesSent :
             Complete(w, c, i, outcome)

Proceed(w) ==
    \/ ResolveExactHead(w)
    \/ ResolveExactRow(w)
    \/ ResolveDefaultHead(w)
    \/ ResolveDefaultRow(w)
    \/ ResolveGenesis(w)
    \/ ResolveGlobalHead(w)
    \/ ResolveGlobalRow(w)
    \/ ResolveBackfilled(w)
    \/ PersistResolution(w)
    \/ BindInvocation(w)
    \/ CompleteCreate(w)
    \/ CompleteRecord(w)

Next ==
    \/ Lifecycle
    \/ \E w \in Workers : Request(w) \/ Proceed(w) \/ Crash(w)

Spec == Init /\ [][Next]_vars

-----------------------------------------------------------------------------
(* Safety.                                                                 *)

\* The resolver reads the head, then the runway.  However publications and
\* invalidations run in between, what it calls current or stale is the head
\* of the requested target, intact, when it says so.
CurrentIsHead ==
    [][\A w \in Workers :
          /\ At(w, "exact_row")
          /\ local'[w].pc = "persist"
          /\ local'[w].context.status # "QUARANTINED_CONTEXT"
          => LET r == local'[w].context.runway IN
             /\ heads[local[w].target] = r
             /\ rows[r].intact]_vars

\* Whatever path the context came by, a receipt that admits an invocation was
\* given to a credential that may read its target, and its runway was
\* published, belongs to that tenant and identity, and to the very target
\* asked for unless the context is flagged as degraded.  Without the global
\* flag it never leaves the project.
AdmittedContextBelongs ==
    \A c \in Credentials, identity \in Identities, id \in Receipts :
        Admits(c, identity, id) =>
            LET r == receipts[id].context.runway
                t == receipts[id].target IN
            /\ Authorized(c, t)
            /\ r # NoRunway =>
                  /\ rows[r].wasPublished
                  /\ rows[r].target.tenant = TenantOf[c]
                  /\ rows[r].target.identity = identity
                  /\ rows[r].target.project \in
                        {t.project} \union (IF GlobalFallback THEN {Global} ELSE {})
                  /\ receipts[id].context.status # "DEGRADED_CONTEXT" =>
                        rows[r].target = t

\* An invocation stays with the target and credential that opened it, and is
\* completed only by a request that may write that target: rehydrations by
\* others, in between or afterwards, do not widen who may complete it.
InvocationKeepsOwner ==
    [][\A i \in Invocations :
          /\ invocations[i].state # "absent" =>
                /\ invocations'[i].target = invocations[i].target
                /\ invocations'[i].credential = invocations[i].credential
          /\ invocations'[i].outcome # invocations[i].outcome =>
                \E w \in Workers :
                    LET c == local[w].credential IN
                    /\ At(w, "complete")
                    /\ Authorized(c, invocations[i].target)
                    /\ c \in Specialists => c = invocations[i].credential]_vars

\* An invocation recorded as changed has a candidate for its own target,
\* although the candidate is created first and the request may be cut off,
\* retried or use its key for something else.
ChangedHasCandidate ==
    \A i \in Invocations : invocations[i].outcome = "changed" =>
        \E r \in Runways : /\ rows[r].state # "absent"
                           /\ rows[r].target = invocations[i].target

=============================================================================
