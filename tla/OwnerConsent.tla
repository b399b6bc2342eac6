---------------------------- MODULE OwnerConsent ----------------------------
(***************************************************************************)
(* The pages by which a person authorizes an OAuth client, or as the owner *)
(* validates, resolves, reviews or commits a candidate: consent, a round   *)
(* trip to GitHub, and for a review or a commit a page to decide on.       *)
(* Between two requests the flow is a one-time state in a key-value store. *)
(*                                                                         *)
(* A worker is a request in flight and interleaves at every call of the    *)
(* store.  A person has one browser, any number of tabs, and may open any  *)
(* link.                                                                   *)
(***************************************************************************)
CONSTANTS
    Workers, People,
    Allowed,        \* the GitHub identities on the allowlist
    Operations,     \* a subset of AllOperations
    Subjects,       \* OAuth clients and candidates
    Ids,            \* random tokens
    NoOne, NoSubject, NoId,
    StaleReads      \* states the store may return after it deleted them

\* The operations that end at the callback, and those that end with a decision.
Direct == {"authorize", "validate", "resolve"}

Decided == {"review", "commit"}

AllOperations == Direct \union Decided

ASSUME ConstantsAssumption ==
    /\ Allowed \subseteq People
    /\ Operations \subseteq AllOperations
    /\ NoOne \notin People /\ NoSubject \notin Subjects /\ NoId \notin Ids
    /\ StaleReads \subseteq Ids

VARIABLES
    kv,         \* OAUTH_KV: the one-time states
    cookies,    \* the csrf cookies of each browser, by name
    local,      \* the locals of the request each worker is running
    consented,  \* what somebody said yes to (history)
    identified, \* whom GitHub identified, for what (history)
    performed,  \* what was done, and for whom (history)
    done,       \* the consents from which something was done (history)
    again,      \* those from which it was done more than once (history)
    doubled     \* those with a state that two requests had read (history)

history == <<done, again, doubled>>

vars == <<kv, cookies, local, consented, identified, performed, history>>

-----------------------------------------------------------------------------
(* A csrf token is drawn together with the state that stores it, and is    *)
(* named by that state.  Owner states carry their operation in their name, *)
(* OAuth states have no prefix.  The origin of a state is the consent page *)
(* its flow began with; no code looks at it.                               *)

Stages == {"consent", "github", "decision"}

State == [phase: {"fresh", "stored", "gone"}, stage: Stages,
          op: AllOperations, subject: Subjects \union {NoSubject},
          person: People \union {NoOne}, origin: Ids \union {NoId}]

Steps == {"idle", "accept", "redirect", "callback", "identify", "render",
          "decide", "perform"}

Local == [pc: Steps, id: Ids \union {NoId}, op: AllOperations,
          subject: Subjects \union {NoSubject}, person: People \union {NoOne},
          origin: Ids \union {NoId}]

Idle == [pc |-> "idle", id |-> NoId, op |-> "authorize",
         subject |-> NoSubject, person |-> NoOne, origin |-> NoId]

Cookie == {"consent", "decision"} \X Operations

Event == [op: Operations, subject: Subjects, person: People]

TypeOK ==
    /\ kv \in [Ids -> State]
    /\ \A i \in Ids : kv[i].person # NoOne <=>
                        kv[i].stage = "decision" /\ kv[i].person \in Allowed
    /\ cookies \in [People -> [Cookie -> Ids \union {NoId}]]
    /\ local \in [Workers -> Local]
    /\ consented \subseteq Operations \X Subjects
    /\ identified \subseteq Event
    /\ performed \subseteq [op: Operations, subject: Subjects,
                            person: People \union {NoOne}]
    /\ done \subseteq Ids
    /\ again \subseteq Ids
    /\ doubled \subseteq Ids

Fresh == [phase |-> "fresh", stage |-> "consent", op |-> "authorize",
          subject |-> NoSubject, person |-> NoOne, origin |-> NoId]

Init ==
    /\ kv = [i \in Ids |-> Fresh]
    /\ cookies = [p \in People |-> [n \in Cookie |-> NoId]]
    /\ local = [w \in Workers |-> Idle]
    /\ consented = {}
    /\ identified = {}
    /\ performed = {}
    /\ done = {}
    /\ again = {}
    /\ doubled = {}

-----------------------------------------------------------------------------
(* The store.                                                              *)

Readable(i) == \/ kv[i].phase = "stored"
               \/ i \in StaleReads /\ kv[i].phase = "gone"

\* readState
ReadableAt(i, stage) == Readable(i) /\ kv[i].stage = stage

Put(i, stage, op, subject, person, origin) ==
    /\ kv[i].phase = "fresh"
    /\ kv' = [kv EXCEPT ![i] =
          [phase |-> "stored", stage |-> stage, op |-> op,
           subject |-> subject, person |-> person, origin |-> origin]]

Forgets(i) == kv                        \* mutant: the state is left in the store

Deletes(i) == [kv EXCEPT ![i].phase = "gone"]

\* Delete what was read, whoever has deleted it meanwhile.
UseUp(w) == kv' = Deletes(local[w].id)

SetCookie(p, name, i) == cookies' = [cookies EXCEPT ![p][name] = i]

At(w, step) == local[w].pc = step

Goto(w, step) == local' = [local EXCEPT ![w].pc = step]

Return(w) == local' = [local EXCEPT ![w] = Idle]

\* Has w read the state i, and not deleted it yet?
HasRead(w, i) ==
    /\ At(w, "accept") \/ At(w, "callback") \/ At(w, "decide")
    /\ local[w].id = i

\* The request w has read the state i.  That another one has read it as well is
\* noted, and that the store had deleted it.
Start(w, step, i, op, subject, person) ==
    /\ local' = [local EXCEPT ![w] =
          [pc |-> step, id |-> i, op |-> op, subject |-> subject,
           person |-> person, origin |-> kv[i].origin]]
    /\ doubled' = IF kv[i].phase = "gone" \/ \E v \in Workers : HasRead(v, i)
                  THEN doubled \union {kv[i].origin} ELSE doubled

-----------------------------------------------------------------------------
(* beginConsent and the first page of beginOwnerCandidateAction.           *)

Begin(w, p, op, subject, i) ==
    /\ At(w, "idle")
    /\ Put(i, "consent", op, subject, NoOne, i)
    /\ SetCookie(p, <<"consent", op>>, i)
    /\ UNCHANGED <<local, consented, identified, performed, history>>

\* The form of the page that i made, in a browser where no later page has
\* replaced the cookie.
FormMatches(p, stage, op, i) == cookies[p][<<stage, op>>] = i

AnyTarget(i, op, subject) == kv[i].op = op      \* mutant: the subject is not compared

\* The state is about what the address names.
TargetMatches(i, op, subject) == kv[i].op = op /\ kv[i].subject = subject

\* acceptConsent and the form of beginOwnerCandidateAction.  An OAuth form
\* carries no subject of its own.
AcceptRead(w, p, op, subject, i) ==
    /\ At(w, "idle")
    /\ ReadableAt(i, "consent")
    /\ FormMatches(p, "consent", op, i)
    /\ TargetMatches(i, op, subject)
    /\ Start(w, "accept", i, op, kv[i].subject, NoOne)
    /\ consented' = consented \union {<<op, kv[i].subject>>}
    /\ UNCHANGED <<kv, cookies, identified, performed, done, again>>

\* With a GitHub credential in the request, an OAuth form skips the round trip.
AcceptDelete(w) ==
    /\ At(w, "accept")
    /\ UseUp(w)
    /\ \/ Goto(w, "redirect")
       \/ local[w].op = "authorize" /\ Goto(w, "identify")
    /\ UNCHANGED <<cookies, consented, identified, performed, history>>

AcceptRedirect(w, i) ==
    /\ At(w, "redirect")
    /\ Put(i, "github", local[w].op, local[w].subject, NoOne, local[w].origin)
    /\ Return(w)
    /\ UNCHANGED <<cookies, consented, identified, performed, history>>

-----------------------------------------------------------------------------
(* finishGitHubIdentity and finishOwnerCandidateAction.                    *)

\* Owner states are told by their prefix, every other one is OAuth's.
CallbackOperation(i) ==
    IF kv[i].stage = "github" THEN kv[i].op ELSE "authorize"

CallbackRead(w, i) ==
    LET op == CallbackOperation(i) IN
    /\ At(w, "idle")
    /\ op \in Operations
    /\ ReadableAt(i, "github")
    /\ kv[i].op = op
    /\ Start(w, "callback", i, op, kv[i].subject, NoOne)
    /\ UNCHANGED <<kv, cookies, consented, identified, performed, done, again>>

CallbackDelete(w) ==
    /\ At(w, "callback")
    /\ UseUp(w)
    /\ Goto(w, "identify")
    /\ UNCHANGED <<cookies, consented, identified, performed, history>>

AnyUser(p) == p \in People          \* mutant: the allowlist is not asked

\* assertAllowedGithubUser
IsAllowed(p) == p \in Allowed

\* GitHub names the person, and the allowlist decides.
Identify(w, p) ==
    /\ At(w, "identify")
    /\ IsAllowed(p)
    /\ identified' = identified \union
          {[op |-> local[w].op, subject |-> local[w].subject, person |-> p]}
    /\ local' = [local EXCEPT
          ![w].pc = IF local[w].op \in Decided THEN "render" ELSE "perform",
          ![w].person = p]
    /\ UNCHANGED <<kv, cookies, consented, performed, history>>

\* renderOwnerReviewDecision and renderOwnerCommitDecision, in whichever
\* browser opened the callback.
Render(w, p, i) ==
    /\ At(w, "render")
    /\ Put(i, "decision", local[w].op, local[w].subject, local[w].person,
           local[w].origin)
    /\ SetCookie(p, <<"decision", local[w].op>>, i)
    /\ Return(w)
    /\ UNCHANGED <<consented, identified, performed, history>>

-----------------------------------------------------------------------------
(* finishOwnerReviewDecision and finishOwnerCommitDecision.                *)

DecideRead(w, p, op, subject, i) ==
    /\ At(w, "idle")
    /\ ReadableAt(i, "decision")
    /\ FormMatches(p, "decision", op, i)
    /\ TargetMatches(i, op, subject)
    /\ Start(w, "decide", i, op, subject, kv[i].person)
    /\ UNCHANGED <<kv, cookies, consented, identified, performed, done, again>>

DecideDelete(w) ==
    /\ At(w, "decide")
    /\ UseUp(w)
    /\ Goto(w, "perform")
    /\ UNCHANGED <<cookies, consented, identified, performed, history>>

\* completeGitHubAuthorization, or the call into human review.
Perform(w) ==
    /\ At(w, "perform")
    /\ performed' = performed \union
          {[op |-> local[w].op, subject |-> local[w].subject,
            person |-> local[w].person]}
    /\ done' = done \union {local[w].origin}
    /\ again' = again \union (done \intersect {local[w].origin})
    /\ Return(w)
    /\ UNCHANGED <<kv, cookies, consented, identified, doubled>>

-----------------------------------------------------------------------------

\* The store forgets a state when its time is over.
Expire(i) ==
    /\ kv[i].phase = "stored"
    /\ kv' = [kv EXCEPT ![i].phase = "gone"]
    /\ UNCHANGED <<cookies, local, consented, identified, performed, history>>

\* A request that stops or is refused: by the allowlist, by GitHub, or by the
\* state of the candidate.
Fail(w) ==
    /\ ~At(w, "idle")
    /\ Return(w)
    /\ UNCHANGED <<kv, cookies, consented, identified, performed, history>>

Page(w) ==
    \E i \in Ids :
        \/ CallbackRead(w, i)
        \/ \E p \in People, op \in Operations, subject \in Subjects :
              \/ Begin(w, p, op, subject, i)
              \/ AcceptRead(w, p, op, subject, i)
              \/ op \in Decided /\ DecideRead(w, p, op, subject, i)

Proceed(w) ==
    \/ AcceptDelete(w)
    \/ CallbackDelete(w)
    \/ \E p \in People : Identify(w, p)
    \/ DecideDelete(w)
    \/ Perform(w)
    \/ \E i \in Ids : \/ AcceptRedirect(w, i)
                      \/ \E p \in People : Render(w, p, i)

Next ==
    \/ \E w \in Workers : Page(w) \/ Proceed(w) \/ Fail(w)
    \/ \E i \in Ids : Expire(i)

Spec == Init /\ [][Next]_vars

-----------------------------------------------------------------------------
(* Properties.                                                             *)

\* Whatever is done, was consented to in some browser, and is done for an
\* allowed person whom GitHub identified for this operation on this subject:
\* no state of one flow, step or subject serves another.
PerformedInOrder ==
    \A e \in performed :
        /\ e.person \in Allowed
        /\ e \in identified
        /\ <<e.op, e.subject>> \in consented

\* What somebody said yes to once is done once, however late and in whatever
\* order the pages of its flow are repeated: twice only if two requests had read
\* one of its states before either deleted it, or the store returned it late.
DoneOnce == again \subseteq doubled

=============================================================================
