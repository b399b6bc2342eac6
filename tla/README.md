# Verification of the Mnemosyne Worker

TLA+ modules for the Mnemosyne Worker (`src/`), TLC configurations that
model-check them on small instances, and TLAPS proofs of what matters most.

## The system

Mnemosyne is one Cloudflare Worker. It keeps no state between requests: state
lives in a D1 (SQLite) database, KV namespaces, a Vectorize index, R2-like
artifact storage behind D1 tables and a Queue. Two facts shape every model:

* one D1 statement is atomic, with the triggers it fires; one `DB.batch` is
  atomic as a whole; nothing else is. A handler loses atomicity at every
  `await`, so it interleaves with other requests, and it can stop between any
  two statements;
* the Queue delivers at least once and in no order, and clients retry: every
  mutating handler may run again, late, or beside itself.

### Inventory

| Part | State it keeps | Operations | Talks to |
|---|---|---|---|
| Runway lifecycle (`src/continuity.js`) | `context_runways`, `context_runway_heads`, `context_runway_validations`, `context_publication_attempts`, `context_runway_invalidations` | create, validate, publish, invalidate | D1 triggers of migration 003, Vectorize, the queue consumer, invocations |
| Runway resolution (`src/continuity.js`) | reads the above; writes resolution receipts | resolve the latest eligible runway, fall back along the lineage | rehydration |
| Invocation continuity (`src/continuity.js`) | `context_invocations`, `context_retrieval_receipts` | rehydrate, complete, require an eligible receipt | lifecycle (creates candidates), `index.js` |
| Scheduled verification, history | none | reports | the cron of `index.js`, which runs nothing else |
| Candidate intake (`graph-memory/candidates.js`) | `memory_candidates`, evidence | propose | review |
| Candidate review (`graph-memory/review.js`) | candidates, `memory_decisions`, resolution receipts, `memory_entities`, `memory_assertions`, `memory_snapshots` | validate, resolve, publish, roll back | projection outbox |
| Human review and owner commit (`graph-memory/human-review.js`) | edits, actions, owner review and commit receipts | review, commit, decide | review, OAuth owner pages |
| Projection (`graph-memory/projection.js`) | `memory_projection_outbox`, search table, vectors | repair pending projections | Vectorize, AI; started by owner commits (`oauth.js`) |
| Privacy (`graph-memory/privacy.js`) | deletion receipts | export, delete, rebuild | all memory tables, projection |
| Grants (`graph-memory/grants.js`) | assistant grants, grant receipts | approve, revoke, expire | OAuth, policy |
| Retrieval, ranking, packages, flags (`graph-memory/`) | none | search, traverse, rank, build a context package | reads accepted tables |
| OAuth (`src/oauth.js`) | KV: clients, codes, one-time states, tokens | authorize, consent, token, owner actions | grants, human review |
| Exchanges, mandates, ingress (`src/index.js`) | `mandates` (which holds the exchanges too), `mandate_recipients`, R2 objects, the mail queue | dispatch, acknowledge, take a mail, consume the queue | D1, R2, the Queue |
| Authentication, search, hashing, dashboard (`src/index.js`) | none | HTTP handlers, entry points of queue and cron | everything |
| MCP, OpenAPI, routing (`src/mcp.js`, `src/openapi.js`, `src/worker.js`) | none | dispatch | the handlers above |

`PROJECT.json` lists every part under `components` with its status, and under
`hazards` each place where this code can go wrong in a way a unit test would
hardly reach, with the properties that watch it.

### What is hard, and what makes each part correct

* **Runway lifecycle.** Publication takes seven or more awaits between reading
  a row and recording the outcome; two triggers rewrite other rows inside the
  compare-and-swap. Correct means: one lineage, closed by the head; numbers
  that fit the lineage; a head that moves one link at a time; attempts whose
  recorded outcome is what happened; gates that cannot be skipped.
* **Resolution and invocation continuity.** A resolver reads heads and runways
  in separate statements while they move, and rehydration and completion are
  several statements with a credential check in some of them. Correct means:
  what is called current was the head, a fallback never leaves the caller's
  tenant, identity and permitted project, nobody completes an invocation but
  who may, and enforcement accepts only receipts of the caller.
* **Candidate review.** Candidate states are updated without guards; generations
  and rollback snapshots are computed from earlier reads. Correct means: nothing
  unvalidated is accepted, generations are unique and dense, replays do nothing,
  a rollback restores what its snapshot recorded.
* **Projection.** An outbox row is overwritten while its delivery is in
  flight, two indexes are written by separate calls, and a row that fails for
  ever stays in the queue. Correct means: complete entries are complete, and
  the indexes eventually show what is accepted.
* **Privacy.** A deletion collects identifiers first and deletes afterwards, in
  four parts. Correct means: a receipt that says deleted is the receipt of an
  erasure, and nothing a deletion covered is left in an index.
* **Grants.** Expiry, revocation and replay race, and tokens carry copies.
  Correct means: the receipts tell what became of a grant, and access ends a
  bounded time after the grant does.
* **OAuth and owner pages.** A flow is a chain of one-time states in a
  key-value store without transactions. Correct means: nothing is done that was
  not consented to, in order, for the same operation, subject and person.
* **Exchanges.** A mail passes an object store, a queue and a table, and a
  receipt is looked up before it is inserted. Correct means: what somebody was
  told is true, and an exchange is not acknowledged again and again.

## Modules

| Module | What it is |
|---|---|
| `RunwayLifecycle` | the handlers `createCandidateCheckpoint`, `validateCandidateCheckpoint`, `publishCheckpoint`, `invalidateCheckpoint` of one continuity tuple, statement by statement, with the migration triggers |
| `HeadRegister` | what publication promises, as a register with three atomic operations |
| `MCRunwayLifecycle` | instances for TLC |
| `RunwayLifecycleProofs`, `RunwayPublicationProofs` | theorems about `RunwayLifecycle`, checked by TLAPS: rows, lineage and history; then attempts, gates, what holds of every runway that was not overwritten, and the refinement of `HeadRegister` |
| `CandidateReview` | how a proposed memory becomes accepted memory: `createMemoryCandidate`, `validateMemoryCandidate`, `resolveMemoryCandidate`, `reviewMemoryCandidate`, `commitOwnerReviewedCandidate`, `decideReviewCandidate`, `publishMemoryCandidate`, `rollbackMemoryDecision` of one project |
| `AcceptedMemory` | what review promises about accepted memory: generations enter whole, candidates leave whole |
| `MCCandidateReview` | instances for TLC |
| `CandidateReviewProofs` | theorems about `CandidateReview`, checked by TLAPS |
| `ContinuityInvocation` | `resolveLatestRunway`, `rehydrateContext`, `completeContinuityInvocation`, `requireInvocationContinuity`, over runways that move at the grain of `HeadRegister` |
| `MemoryProjection` | the outbox, `repairPendingProjections`, `rebuildMemoryProjection`, `deleteMemoryScope` |
| `AccessGrants` | `approveAssistantGrant`, `revokeAssistantGrant`, `resolveAssistantGrant` and the OAuth codes and tokens that copy a resolution |
| `OwnerConsent` | the consent, callback and decision pages of `oauth.js` as one-time states |
| `ExchangeLedger` | exchanges, mails, receipts and mandates of `index.js`, with the queue consumer |
| `MC` + each of these five | instances for TLC |
| `Proofs` after the name of each of these five | theorems about it, checked by TLAPS |

How they fit: `RunwayLifecycle` is shown to behave like `HeadRegister`, and
`ContinuityInvocation` takes the operations of that register as its steps, with
the states of the rows they leave. `CandidateReview` is shown to
behave like `AcceptedMemory`; `MemoryProjection` takes its publications and
rollbacks as one step each, with their outbox statements. `OwnerConsent` ends
where `CandidateReview` (review, commit, validate, resolve) and `AccessGrants`
(authorize) begin.

### RunwayLifecycle

*State.* `rows` is `context_runways`: state, predecessor, generation, whether
`published_at` was ever set, and whether the artifact reference is there.
`head` is the row of `context_runway_heads`; `NoHead` is no row. `validations`
keeps the status of the validation receipt publication reads; it reads the one
with the latest `created_at`, which is the last one written as long as clocks
do not run backwards. `attempts` and `receipts` are
`context_publication_attempts` and `context_runway_invalidations`. `vectors` is
the part of Vectorize the handlers write. `local[w]` holds what the request in
worker `w` has read so far, and `pc` the statement it runs next. `overwritten`
is history, see below.

*Actions.* One per D1 statement, batch or external call of each handler:
`Create*`, `Validate*`, `Publish*`, `Fail*` (the catch block of
`publishCheckpoint`), `Invalidate*`. A read that can only refuse or replay ends
the request in the same action. `CallFails` is a throw inside the try block;
`Crash` is the end of a request anywhere else, which includes a throw inside
the catch block. The triggers are the functions `HeadsPublishInsert` and
`HeadsPublishUpdate` and the three cases of `InvalidateWrite`.

*Abstractions.* A runway is named by the idempotency key that creates it (a
unique index makes them the same). Content, hashes and the verdict of a
validation are inputs: `ValidationOutcomes` says which verdicts a repeated
validation of the same immutable content may give. `meta.changes` of the
upsert is the statement's own row count. `indexing_state` is left out: no handler of the model reads it. The request's expected
generation and predecessor must equal the candidate's own before anything is
written, so they are no inputs. The queue consumer (`processContinuityQueueMessage`)
calls the same two handlers, so a redelivered message is one more `Request`.

*Overwritten runways.* Three statements set the state column whatever it holds:
`SET_VALIDATION_RESULT` (`continuity.js:2703`), `SET_INDEXING_STATE`, and
`SET_PUBLICATION_FAILED` of the catch block, which spares published rows only.
Requests that overlap or come late can therefore take a runway out of history,
or change it between another request's seal and compare-and-swap: a redelivered
validation returns a published runway to `validated` or `quarantined`; the
failure of a second publication marks the runway `publication_failed` while the
first one is about to move the head to it. The history variable `overwritten`
holds the runways to which that happened, and only those: one of the three
statements changed the state of a runway that was published, superseded or
invalidated, or of one that another request had sealed and was about to publish.
No guard reads the variable. `HeadSound`, `InvalidatedIsFinal` and
`RefinesHeadRegister` are about the runways outside it, with any clients, and
`HistoryIsChain`, `LineageSound`, `HeadMovesAlongLineage`, `AttemptOutcomes` and
`QualityGates` about all.

*HeadRegister* has the operations `Propose`, `Publish` and `Withdraw`, each
atomic, and `Overwrite`, by which a runway loses its own place in history: a
`loose` runway may be published or withdrawn again, but the register still moves
along the parents of the runways, and every other runway is published once, on
top of its parent, and withdrawn for good. An empty register takes any
candidate, because the upsert of `publishCheckpoint` then compares nothing.

### CandidateReview

*State.* `candidates` is `memory_candidates.state`; `entities`, `assertions`,
`snapshots` and `decisions` are the tables of those names, an assertion
together with the operation of its outbox row; `resolutions`, `reviews` and
`commits` are the three receipt tables of migrations 007 to 009, each unique by
candidate; `actions` is `memory_review_actions`, the replay record of keyed
decisions. `local[w]` is what the request of worker `w` has read.

*Actions.* One per D1 statement or batch. `Validate*`, `Resolve*`, `Review*`,
`Commit*`, `Decide*`, `Publish*` and `Rollback*` are the handlers of those names;
`Commit*` and `Decide*` run into `Publish*`, which inserts the commit receipt in
its batch when the request is an owner commit (the requests without a key).
`*Aborts` is a batch that a unique index refuses, whole. A request that is
replayed or refused at its first read changes nothing and is no action. The
reads of `acceptedView` are one action per table, in the code's order. `rollbackMemoryDecision` is exported and tested and wired to no route;
it is modelled as a request anyone may make.

*Abstractions.* Of a payload only the subjects of its assertions matter, for
the entity identifier and the label they normalise to. The assertions of one
publication are inserted by one batch and every later statement selects them by
candidate and state, so one record stands for them all. Labels are looked up in
any order. `StoredLabel` is the label by which a lookup finds a stored subject:
the SQL compares `lower(trim(canonical_label))` (`review.js:35`), so a subject
that only `normalizeEntityLabel` would map to its label (by NFKC, inner white
space or letters outside ASCII) is stored and never found. Decision rows
of resolution, review, rejection and quarantine are left out, and so are edits
and stored responses: they document a change that the model has, and no handler
reads them to decide anything. Relations and events are never written. The last
read of a rollback, which compares the accepted view with the snapshot, decides
only the reply.

*What overlapping requests do to each other* is kept in four history variables,
which no guard reads (`RecordHistory`): `contended`, the candidates published
while another request that had read them as reviewable, or as awaiting
validation, was still running; `swept`, the entities a rollback superseded under
a publication that had looked them up; `outrun`, the publications that had begun
to read accepted memory when a batch of another request moved it; and `stale`,
the generations those published. Two deliveries of one keyed decision can publish
a candidate twice, a publication can rest on an entity that is superseded by the
time its batch runs, a rollback can miss an assertion accepted after it listed
what to delete, and a snapshot can be older than the generation it is stored
under. `PublishedOnce`, `CanonIsConsistent`, `ProjectionFollowsState` and
`UndoRestores` say that nothing else goes wrong, and only with the candidate,
entity or generation concerned.

*AcceptedMemory* has two operations, `Publish(c)` and `Withdraw(c)`. The
refinement maps the last generation to the largest snapshot generation and
accepted memory to the accepted assertions. It says that whatever races, no
publication is half visible, reuses a generation or drops another candidate's
memory, and no rollback leaves half of what it withdraws.

### ContinuityInvocation

*State.* `rows` and `heads` are the two runway tables for any number of targets
(tenant, project, scope, identity); `invocations` is `context_invocations`,
`receipts` is `context_retrieval_receipts`. `local[w]` is what the
request of worker `w` has read.

*Actions.* `Propose`, `Publish`, `Invalidate` are the operations of
`HeadRegister` with the states of the rows they leave (of runways that were not
overwritten); `Damage` is stored content that stops matching its manifest. `Resolve*` is `resolveLatestRunway`
one statement at a time: exact head and its row, default scope, genesis, global
project, backfilled; `PersistResolution` writes the receipt. `Rehydrate` and
`BindInvocation` frame it when an invocation asks; `Complete`, `CompleteCreate`
and `CompleteRecord` are the completion. `Admits` is what enforcement evaluates.

*Abstractions.* A stale context and a current one differ by age alone, so one
status stands for both. `classifyFreshness` (`continuity.js:539`) also
quarantines by `integrity_state`; nothing writes the two values it asks for. Creation times are not kept: of several first
generations any may be taken. What rehydration does between resolving and
binding (records, supplemental search, the receipt's final columns) decides
only the reply.

*Seen while modelling.* A reader that races a publication or an invalidation
gets `QUARANTINED_CONTEXT`, never the wrong runway. The genesis fallback takes
a first generation of any scope of the project. `GET_BACKFILLED` is reached only
when the target has no head, and then finds a row only if one was superseded
without a head, which `HistoryIsChain` excludes: it finds nothing in the model.
A second rehydration with a known invocation identifier reopens a completed
invocation; its target and credential stay, which is what
`InvocationKeepsOwner` says. Receipts are never consumed.

### MemoryProjection

*State.* `memory` is the lifecycle state of each assertion, `outbox` the
operation and state of its outbox row, `stamps` the order of `updated_at`, as a
relation: which waiting row is older than which, with a worker standing for the
timestamp its turn has taken, since that one may go back into a row later;
`vectors` and `search` the two indexes, `deletions` the deletion receipts,
`local[w]` the locals of a request or pass. `overlapped` (history) holds the
assertions withdrawn while an index writer held them, read by one while a
deletion had collected its scope, or left out by a rollback.

*Actions.* `Publish` and `Rollback` are the batches of `CandidateReview` with
their outbox statements; `RollbackUnlisted` is a rollback whose list
(`review.js:680`) is older than the acceptance of what it withdraws, possible
for the assertions of a `Contended` candidate. `Repair*` is `repairPendingProjections`, one call at a
time; `Rebuild*` is `rebuildMemoryProjection`; `Delete*` is `deleteMemoryScope`.
Any call may throw before or after it took effect, and `Crash` ends a request.

*Abstractions.* Scopes are sets of assertions. `Reviewed`, `Judged` and
`Retained` say which rows restrict their own deletion: a review, resolution or
commit record of a candidate that was accepted, the same of one that was not and
has no assertion (a scope may have no other row), a published runway or a bound
invocation of a tenant, project or identity.

*Seen while modelling.*

* A repair pass is started by `finishOwnerCommitDecision` alone (`waitUntil`,
  ten rows): no cron runs one, and neither a keyed review decision nor a
  rollback starts one. A failed projection waits for the next owner commit of
  anybody.
* The message that a failed deletion sends to `MATRIX_PROJECTION_QUEUE` has no
  consumer in the repository.
* `COMPLETE` and `FAILED` are keyed by projection alone. A rollback while the
  upsert of a pass is in flight has its delete entry marked complete, and the
  withdrawn assertion stays in both indexes. `IndexFollowsMemory` is therefore
  about the assertions that are not `overlapped`, and holds for each of them
  whatever happened to the others; retrieval filters what it finds by the
  accepted table.
* A rebuild writes vectors with another embedding model than a repair pass
  (`privacy.js:8`, `projection.js:3`), leaves the search table and the outbox
  alone, and one refused text fails its whole batch.
* `enqueueAcceptedAssertionProjection` and `projectAcceptedAssertion` have no
  caller outside the tests; `rollbackMemoryDecision` is wired to no route.

### AccessGrants

*State.* `grants` is `memory_access_grants`, `receipts` the authorization
receipts in the order of insertion (a receipt's hash stands for its content, so
here it is its position), `codes` and `tokens` the authorization codes and
access tokens of each assistant, with the projects they carry and until when,
`claims` what its last refresh token carries, `now` the clock of the server. A
grant is named by what its approval is about: assistant, project, idempotency
key. Its `made` and `closed` are history: the moments on the server's clock at
which its row was written, where the columns hold what a request said.

*Actions.* `ApproveRead`/`ApproveWrite`, `RevokeRead`/`RevokeClose`, and
`resolveAssistantGrant` for its three callers (`Authorize`, `Refresh`,
`ListActive`) as `ResolveRead`, one `ExpireRow` for each expired grant, and
`ResolveReply`. `*Aborts` is a batch refused by a unique index. `ExchangeCode`
is the OAuth provider's token endpoint, `Tick` the clock. Approval, revocation
and listing take the time from the request (`SaidTimes`), which may be long over
or still to come; so may the start and the expiry of what is approved. An
authorization and a refresh take it from the server.

*Abstractions.* One owner in one tenant; the isolates of the Worker and the
OAuth provider share a clock; a request lasts `Latency` at most. An access token
stays accepted until it expires, whatever was issued after it. A replayed
approval writes nothing and is no action.

*Seen while modelling.* An expired grant that nobody resolved still occupies the
unique index on active grants, so the next approval fails (`ApproveAborts`).
Listing closes what has expired by the moment its caller names, even in the
future, and a revocation leaves the moment its caller names in the row and in the
receipt, even before the approval. The loser of two closings still inserts a receipt and still
answers "revoked": receipts fork, but never before the one that counted
(`FirstClosingCounts`). Two expiries in one millisecond make one of the two
resolutions fail. Replaying an approval returns the grant whatever became of it.
A revocation reaches a token at its next refresh or its expiry
(`AccessEndsInTime` bounds the delay).

### OwnerConsent

*State.* `kv` is the one-time states in `OAUTH_KV`, `cookies` the csrf cookies
of each browser, `local[w]` the request of worker `w`. A state and a request
carry the consent page their flow began with (`origin`), which no code looks at.
History variables record what was consented to, whom GitHub identified for what,
what was performed for whom; from which consents something was done (`done`),
more than once (`again`), and which of them had a state that two requests had
read before either deleted it, or that was read after its deletion (`doubled`).

*Actions.* `Begin`, `Accept*`, `Callback*`, `Identify`, `Render`, `Decide*`,
`Perform`: the pages of `oauth.js`, with each read and each delete of the store
a step of its own. A decision page sets its cookie in whichever browser opened
the callback. `Expire` forgets a state, `Fail` ends a request.

*Abstractions.* Random tokens are identifiers that are used once. What a
performed operation does is in `CandidateReview` and `AccessGrants`. A stale
read of the eventually consistent store is modelled for the states in
`StaleReads`.

*Seen while modelling.* `docs/graph-memory-operations.md:62` and `:110` call the
csrf values one-time. A state is read and then deleted, so two requests that
overlap may both use it, and what was consented to once is then performed twice;
`DoneOnce` says that there is no other way: every page of a flow repeated later
finds nothing to go on with. The operations behind the pages are idempotent by
their own receipts, except that each authorization issues a code of its own.
With a GitHub credential in the request, an OAuth form skips the round trip.

### ExchangeLedger

*State.* `mandates` is the table of that name, which holds mandates (state
`dispatched`) and exchanges (state `archived`; a receipt names the exchange it is
`about`). `sent` and `seen` are `mandate_recipients`, `objects` the mails in
`MATRIX_ARTIFACTS`, `queue` the messages of `MATRIX_EMAIL_QUEUE` with how often
each was delivered, `local[w]` the request of worker `w`. `told` (history)
collects what a caller was told had gone well, and the local `late` (history) is
whether the exchange that is being acknowledged had a receipt when the request
began. `admitted` is the set of states that the `CHECK` of the table lists; it
never changes.

*Actions.* `DispatchExchange`; `ReceiveMail`, `PutMail`, `BufferMail` or
`StoreMail`; `Deliver`, `StoreMessage`, `AckMessage`, `Drop` for the queue;
`Acknowledge*` for a receipt; `DispatchMandate`, `ReachRecipient`,
`AcknowledgeMandate`. `Stop` is a call that throws, a retry, or a request cut
off. A batch is handled message by message, so it is that many deliveries.

*Abstractions.* Subjects, payloads and times are left out. A mail is from an
address (`Stranger`) or, when its envelope has no sender, from the word `unknown`;
it is to a persona or to `unmapped`. Identifiers are random, so each kind draws
from its own. A call that throws after it took effect, where it is the last of
its handler, differs from an answer only in that nobody is told, and is no step.
`Tables` are the tables the repository may meet: migration 001 creates its table
`IF NOT EXISTS`, so a database that had one keeps its `CHECK`.

*Seen while modelling.*

* The `CHECK` of migration 001 does not admit `archived`, and `INSERT OR IGNORE`
  passes over such a row in silence: with that table no exchange, mail or receipt
  is ever stored (`finding_ledger`), and every caller is told that it was.
  `exchanges` takes that table and one that admits the state; `PromiseKept` names
  the exception.
* `prepareTextExchangePayload` names its parameter `content_type` and reads
  `contentType` (`index.js:2494`): a payload that does not fit the row fails with
  a `ReferenceError` before it is stored, so only mails have objects.
* `normalizeCredentialId` (`index.js:1152`) compares a pattern and not a list. An
  address does not fit it, so a mail cannot be acknowledged; the word `unknown`
  does, so a mail without a sender can be, and its receipt goes to `unknown`,
  where nobody reads it.
* Overlapping acknowledgements insert several receipts, one that begins when
  there is one inserts none (`ReceiptsAnswer`). A receipt is an exchange and can
  be acknowledged itself.
* A mandate whose dispatch is cut off stays with the recipients it has reached;
  naming it again is refused by the primary key.
* The inbox takes 250 rows of all recipients and filters them afterwards: a busy
  ledger hides older exchanges.

## Runs

Bounds of the lifecycle runs: two runways, two attempts, two requests in flight
(one in `finding_restore`). Two runways are enough for siblings over one
predecessor and for a parent with a child, and every property compares a runway
with its predecessor or with the head; longer chains are left to the theorems.
Two workers give every race of two handlers; every hazard listed is a race of
two. `Attempts` bounds how many attempts are ever recorded, two being the least
for two publications of one runway or of two: every other value is bounded by
the runways.

Bounds of the review runs: two candidates, two entities that share one label
(the least with an ambiguous resolution) and a third spelling that a lookup
misses, payloads of one or two assertions, edits that name one entity twice, one
decision key, one or two requests in flight. `MaxGenerations` stops requests
that could publish once two or three generations exist: two for the first
generation and one that races or follows it, three for a publication on top of
a rollback. `OwnerChoices` and `ReviewChoices` are the answers explored.
`review_pair` explores two candidates with two requests, `review_serial` all
answers with one request. In `review_pair` the owner has one answer to give, so
that of `ReceiptsFinal` it checks the resolution receipts; that an answer is never
replaced by another is left to the theorem.

Bounds of `continuity`: one lookup target whose default scope and global project
hold runways too, two runways (an exact one and a fallback, or a chain of two),
one credential restricted to its own invocations and one that is not, one
resolver and one completion in flight. Two runways suffice: a resolver holds one
runway at a time, and the invariants compare it with one head. One invocation
and one receipt suffice: requests meet only in a shared invocation, and no
action compares two receipts.

Bounds of the projection runs: two assertions, two passes or requests, one row
per pass, the scope of the project and that of a rejected candidate, which has no
assertion. Two assertions are the least for a row that waits behind another, and
for a scope with a part that may not be deleted; one of them may be left out by a
rollback, the other has a review record. The two requests of `projection` may do the same things and
are interchangeable (`SYMMETRY`); in `projection_progress`, which checks
liveness, nothing is.

Bounds of `access`: two grants for one project (one at a time may be active),
four moments, a grant that lasts one moment and one that starts later and never
ends, and an administrator for whom it is always the second moment, so that he is
ahead of the server, right and behind. The window of `AccessEndsInTime` (token, code and request lifetimes) is
two moments, so a token of a revoked or expired grant has time to outlive it,
and to be caught at it.

Bounds of `exchanges`: two personas (a mandate that is sent to one of them only),
two exchanges (an exchange and its receipt, a mail and two receipts of it), one
mail, one mandate, two deliveries of a message, two requests and two consumers,
both tables. Two
requests are the least that overlap, and two consumers the least for a message
that is with two at a time.

Bounds of `consent`: an owner and a stranger, two subjects, two operations (one
that ends at the callback, one with a decision page), three identifiers: one
review flow takes three, two flows that are mixed up take two at the stage
where they meet.

| Run | Question | Assumes |
|---|---|---|
| `lifecycle_free` | do the lineage, the history, the attempts' outcomes and the gates survive anything, and is the head, for every runway that was not overwritten, what readers expect and the handlers promise (`HeadRegister`)? | nothing: both gates on, every call may throw, requests may stop, repeat and overlap |
| `finding_restore` | is the restored predecessor eligible, as `README.md:80` of the repository says? | violated: the trigger restores it whatever its state |
| `review_pair` | do racing publications and rollbacks keep generations, canon and projection queue in step, undo exactly and publish once, but for what a race touched; are receipts final; is `AcceptedMemory` implemented? | nothing (requests run to their end, to keep the run small; stopping only loses locals, and the theorems cover it) |
| `review_serial` | with every answer and decision, cut off anywhere: is everything accepted validated and approved, is a candidate published once, does undoing the last publication restore its snapshot? | one request at a time: what overlaps is in `review_pair` and in the theorems |
| `continuity` | is what is called current the head, do fallbacks stay where the caller may read, do invocations keep their owner? | nothing: requests that stop, content that rots |
| `projection` | is a complete entry indexed, does a deletion receipt mean erasure, and do the indexes hold nothing but what is accepted, for every assertion a withdrawal did not miss? | nothing |
| `projection_progress` | do the indexes catch up although a row fails for ever? | owner commits go on, transient faults end |
| `finding_deletion` | does a deletion remove the authoritative rows, as `docs/privacy-data-lifecycle.md:26` says? | violated: foreign keys and a trigger refuse the batch |
| `access` | do the receipts tell what became of a grant, and does access end in time? | a request lasts `Latency` at most |
| `consent` | is nothing done that was not consented to and identified, and what was consented to once done once? | stale reads of one state |
| `exchanges` | is what callers are told true, and does an exchange that has a receipt get no other? | nothing: both tables |
| `finding_ledger` | is a message that is acknowledged stored, as the log says (`index.js:827`)? | violated: the table of migration 001 refuses the row in silence |

More behaviours seen while modelling; a sentence or a test of the repository
suggests otherwise for some of them, always about requests that do not overlap:

* invalidation restores the predecessor whatever its state
  (`003_graph_memory.sql:142`): when a client has invalidated it first, the head
  ends on an invalidated runway (`finding_restore`), which `HeadSound` therefore
  admits as the second way a head can be;
* a request cut off between its seal and its compare-and-swap leaves the runway
  `sealed` and its attempt `started`; nothing in the code picks them up;
* when the head row is gone, the upsert of `publishCheckpoint` inserts one and
  its `WHERE` clause compares nothing, so a candidate over an invalidated first
  runway can be published. `LineageSound` holds all the same;
* a late or repeated validation returns a sealed or published runway to
  `validated` or `quarantined`, and a head can point to a runway that is not
  `published`: an overwritten one;
* the validation of a memory candidate (`review.js:193`) has no state guard
  either: it returns a rejected candidate to `pending_review`;
* rejection and quarantine (`human-review.js:527`) do not look at the state: an
  accepted candidate can be rejected while its assertions stay accepted;
* a rollback out of order is recorded and withdraws its candidate; only its
  reply says that the restored view differs (`review.js:733`).

*Fairness.* The `FairSpec` of `MemoryProjection` gives weak fairness to `Continue(w)`: a
request in flight goes on, fails or is cut off. It gives strong fairness, for
each assertion, to recording that its turn failed (`RepairFailed`): of the many
times that statement is made, not every one is cut off just before. What the
code does not guarantee is a premise of the property instead: `CommitsGoOn` (owner
commits, which alone start passes, keep arriving) and `FaultsEnd` (after some
time no call throws, except for texts that stay refused, and no pass is cut
off, except where it is about to record a failure). A pass may thus still be
cut off again and again before it moves a failing row behind the others, which
is why the property needs the strong fairness.

The other modules state no liveness: a request that loses a race or stops is
refused, and the code promises no retry.

*Deadlock* is checked in every run, because some request can always be made,
but for two: `consent` stops when its random identifiers are spent, and
`projection_progress` when both assertions have been indexed or withdrawn and
nothing waits.

## Proofs

`RunwayLifecycleProofs` proves for every set of runways, workers and attempts,
all gates, failures and crashes:

* `TypeCorrect`: `Spec => []TypeOK`;
* `LineageIsSound`: `Spec => []LineageSound`;
* `HistoryIsSound`: `Spec => []HistoryIsChain`;
* `HeadMovesSoundly`: `Spec => HeadMovesAlongLineage`.

All rest on `ConstantsAssumption` and on one inductive invariant. `LineageSound`
is not inductive: a candidate is inserted with the head some earlier read put
in `local`, so the invariant also says that every such snapshot names an
existing runway and carries its generation (`Snapshot`, `LocalOK`), and that a
row that does not exist is blank (`AbsentIsBlank`). `HistoryIsChain` needs the
lineage: a publication supersedes only the predecessor it replaced, and the
ancestors of the new head are the old head and its ancestors, because
predecessors are written once. "Ancestor" is stated without recursion: a runway
is an ancestor of the head when it is in every set that holds the head and is
closed under predecessors.

`RunwayPublicationProofs` goes on from the same invariant. For any requests, cut
off anywhere and repeated as often as clients like:

* `AttemptsAreTruthful`: `Spec => []AttemptOutcomes`;
* `GatesHold`: `Spec => QualityGates`;
* `HeadIsSound`: `Spec => []HeadSound`;
* `InvalidatedStays`: `Spec => InvalidatedIsFinal`;
* `LifecycleImplementsRegister`: `Spec => RefinesHeadRegister`.

For the attempts, the invariant ties each request to the attempt it drew, which
no other request holds (`OwnAttempt`): inside the try block the attempt is
`started`, and it advanced the head exactly when the request is about to record
that (`AttemptDuty`). For the gates, a request past a gate has left behind what
the gate asks for (`GateDuty`), and nothing takes an artifact reference or a
vector back; that only the compare-and-swap moves the head up, while the restore
trigger moves it down, comes from the generations of the lineage.

The last three rest on one more invariant, `OrderInv`, which speaks of the
runways that are not `overwritten` (see RunwayLifecycle). A request between its seal and its
compare-and-swap is alone with its runway, which is still sealed (`SealedAlone`);
a runway that is validated, sealed or of the history passed its latest
validation, and has a `published_at` exactly when it is of the history
(`Verdicts`); an invalidation works on a runway of the history, a creation rests
on one or on none (`Reads`). `HeadSettled` says that the head is published, or
is invalidated and has a successor that was invalidated or overwritten
(`Uncovered`): the restore trigger is the only way back to a withdrawn runway,
and `finding_restore` shows that it is taken. What a step may do to a row is
stated once (`Move`, `RowMoves`): a runway that is not overwritten keeps its
state and verdict, or is judged outside history with nobody about to publish it,
or takes one of the five guarded transitions.

The refinement has four cases that change the register: the insert is `Propose`,
the compare-and-swap is `Publish`, the invalidation statement with its triggers
is `Withdraw`, and an unguarded statement that overwrites a runway is
`Overwrite`; every other statement stutters.

`CandidateReviewProofs` proves for every set of candidates, payloads, edits,
labels, keys and workers, with crashes or without:

* `ReviewTypeCorrect`: `Spec => []TypeOK`;
* `GenerationsAreAccounted`: `Spec => []GenerationsAccounted`;
* `CommitsAreAuthorised`: `Spec => []CommitsAuthorised`;
* `AcceptedPassedValidation`: `Spec => []AcceptedWasValidated`;
* `ReceiptsAreFinal`: `Spec => ReceiptsFinal`;
* `ImplementsAcceptedMemory`: `Spec => RefinesAcceptedMemory`;
* `CandidatePublishedOnce`: `Spec => []PublishedOnce`;
* `CanonStaysConsistent`: `Spec => []CanonIsConsistent`;
* `ProjectionFollows`: `Spec => []ProjectionFollowsState`;
* `UndoRestoresSnapshot`: `Spec => UndoRestores`.

All rest on `ConstantsAssumption`. The invariant adds to the properties what a
request carries from its reads to its batch (`LocalOK`): the generation it will
claim is one above some generation that exists, so the unique index leaves it
only the next one; an owner commit carries the matches of a receipt that is
`resolved` and of a review that approves, and neither can change because both
tables are unique by candidate (`TablesGrow`); and a request past the check of
`publishMemoryCandidate` is about a candidate some validation passed, which a
decision row witnesses for ever (`Validated`). `Numbered` says that generations
are 1 to n; `ResolvedIsUnambiguous` that a resolved label matches one entity at
most, which is why choosing one is choosing it. The refinement then has three
cases: `PublishWrite` is `Publish`, `RollbackWrite` is `Withdraw`, every other
statement leaves both tables alone.

The last four hold with any number of requests at a time, because what they say
is stated up to the races that the history variables record (`contended`,
`swept`, `outrun`, `stale`). Their invariant `ReviewInv` says how far a request
still knows what it read: a candidate nobody else published is unpublished and
its lookups find what they found, inserted by the request itself or swept since
(`Current`, `Located`); and the view that goes into a snapshot is accepted memory
unless the request was outrun (`Fresh`). A published candidate that is not contended is in a decided
state for good (`PublishedIsDecided`), so that the check for `pending_review`
keeps a second publication out. For the rollback, the invariant knows which
rollback withdrew a generation (`WithdrawnByRollback`) and what a snapshot shows:
unless it is stale or an earlier generation had been rolled back, everything
that was published before it (`SnapshotsRecall`). Undoing the last publication
that stands leaves just those assertions accepted; that their entities are the
accepted ones follows from `CanonIsConsistent`.

`ContinuityInvocationProofs` proves for every set of credentials, targets,
runways, invocations, receipts and workers, whether the global fallback is on or
not:

* `ContinuityTypeCorrect`: `Spec => []TypeOK`;
* `AdmittedBelongsAlways`: `Spec => []AdmittedContextBelongs`;
* `ChangesHaveCandidates`: `Spec => []ChangedHasCandidate`;
* `OwnersAreKept`: `Spec => InvocationKeepsOwner`;
* `CurrentIsTheHead`: `Spec => CurrentIsHead`.

The invariant says of the runways that the published one of a target heads it and
that a predecessor has its successor's target (`RegisterOK`), and of every
request, receipt and invocation that the context it holds was published for its
target or for one that may stand in (`ContextOK`): this stays true because a row
never loses its target or the time of its publication (`Stood`). `CurrentIsHead`
is about two statements, the read of the head and the read of its row: the row
is only taken when it is `published`, and then it heads its target at that
moment, whatever happened in between.

`MemoryProjectionProofs` proves for every set of assertions, workers, scopes and
receipts, whatever calls throw and whatever text is refused:

* `ProjectionTypeCorrect`: `Spec => []TypeOK`;
* `CompleteMeansIndexed`: `Spec => []CompleteIsIndexed`;
* `ReceiptsMeanErased`: `Spec => []ReceiptMeansErased`;
* `IndexesFollowMemory`: `Spec => []IndexFollowsMemory`.

The type invariant includes that timestamps of waiting rows and of turns are one
strict order, which takes a proof of its own for each statement that writes
`updated_at`. The invariant says what a pass has written by the step it is in, as
far as the assertion is still accepted (`PassOK`), although a rollback and a new
row may have overtaken its turn; that a deletion holds a receipt of its own and
has erased everything it collected once its batch ran (`DeletionOK`,
`OwnReceipt`); and, for every assertion that is not `overlapped`, that no writer
holds what a deletion has collected (`Apart`), that each writer works on what is
still accepted (`WriterClear`), that a deletion missed nothing that an index
holds (`DeletionClear`), and that what an index holds is accounted for
(`Followed`).

`ExchangeLedgerProofs` proves for every set of identifiers, personas, requests
and consumers, any number of deliveries, and whichever states the table admits:

* `LedgerTypeCorrect`: `Spec => []TypeOK`;
* `PromisesAreKept`: `Spec => []PromiseKept`;
* `ReceiptsAreAnswers`: `Spec => []ReceiptsAnswer`;
* `UncheckedIsNeverStored`: if the table does not admit `archived`, then
  `Spec => []NothingArchived`, which makes the finding of `finding_ledger` a rule
  rather than a matter of timing.

The invariant says of every request and consumer what its locals were drawn from
(`LocalOK`): the identifier of a mail has no row but the mail's own, an artifact
is stored before its mail moves on, a receipt crosses the parties of the
exchange it names, a mandate has gone to whoever is not left to reach. A request
that began when a receipt of its exchange was there (`late`) will find one,
because rows stay, and so never comes to the step that inserts another.

`AccessGrantsProofs` proves for every set of grants, assistants, projects and
workers, every lifetime of codes, tokens and requests:

* `AccessTypeCorrect`: `Spec => []TypeOK`;
* `ReceiptsTellHistory`: `Spec => []FirstClosingCounts`;
* `AccessEnds`: `Spec => []AccessEndsInTime`.

All rest on `ConstantsAssumption`. `FirstClosingCounts` is stated grant by grant
in the proof (`History`), because a closing touches one grant; the invariant
adds that the rows a request carries name the receipt of their approval, which
is what a fork would point to. For `AccessEndsInTime` the projects of a code or
token must be traced back to a grant that was in force when they were copied
(`Backed`). A grant is in force for a request that read it before it was closed
(`Held`): a closing never lies more than `Latency` before the moment such a
request began, unless the grant had expired by then. All of this is on the
server's clock (`made`, `closed`), whatever time the administrator's requests
say it is, and whatever is in `SaidTimes`: a grant may be approved from a past
moment, or closed as of one to come, without `Held` or `Backed` noticing.
`CodesOK` and `TokensOK` say it of every code and token that is out, since an
earlier one stays accepted beside a later one.

`OwnerConsentProofs` proves for every set of people, subjects, states and
workers, whatever the store returns late:

* `ConsentTypeCorrect`: `Spec => []TypeOK`;
* `FlowsKeepTheirOrder`: `Spec => []PerformedInOrder`;
* `ConsentsAreDoneOnce`: `Spec => []DoneOnce`.

For the order, the invariant says what each stored state, each step of a request
and each operation performed proves about the consent and the person behind it
(`StatesAreEarned`, `LocalsAreEarned`, `DoneIsEarned`), although the state was
read earlier and may be gone. That a consent is done once is the argument that a
flow is in one place (`OneFlow`): unless it is `doubled`, there is one stored
state of it and no request that uses it, or one request, which may or may not
have deleted the state it read, or neither once it is over. A read moves it from
the store to a request, a put moves it back, and only a second read of a state
that is still being used breaks this, which is what `doubled` records.

All theorems rest on the `ConstantsAssumption` of the module they are about, and
on nothing else; the one with a hypothesis is `UncheckedIsNeverStored`, whose
hypothesis is what migration 001 declares.

Only model-checked: `AcceptedGetsIndexed`, which is liveness under fairness and
out of the prover's reach. Every other property of the passing runs is a theorem.
The three findings are runs that TLC refutes.

No proof needs an induction over data, and no module with a theorem reaches a
recursive operator.

## Plan

Done, in this order: `RunwayLifecycle` with `HeadRegister`; `CandidateReview`
with `AcceptedMemory`; `ContinuityInvocation`; `MemoryProjection`, which also
holds the deletion of `privacy.js`; `AccessGrants`; `OwnerConsent`;
`ExchangeLedger`; and the proofs of all of them.

Left, in this order:

1. that the projections of `MemoryProjection` implement, for each assertion, an
   abstract index that is told of every acceptance and withdrawal;
2. pure functions against a reference over bounded inputs: context packages,
   rank fusion, traversal bounds.

Runs stay few: a new module adds one or two that carry all its properties, and
a theorem that says more than a run takes the run's place.

## Not modelled

* Retrieval, traversal and memory rehydration: reads of the tables
  `CandidateReview` writes. Scheduled verification, history and exports:
  reads too, and so are inboxes and artifact downloads.
* Ranking, context packages and feature flags: pure functions over one reply.
* Access policy and contracts, content validation and canonicalisation: checks
  of one request's content; the models take requests that pass them, or take
  the verdict as an input.
* Authentication, memory search, hashing, text parsing, Ariadne, calls to
  language models and the dashboard: they keep no state the properties are about.
* Routing, MCP and OpenAPI: dispatch to the handlers above.
* Operator scripts and workflows: run by hand outside the Worker. The tables,
  indexes and triggers that the migrations create are part of the models.

`PROJECT.json` lists every component with its status and the reason.
