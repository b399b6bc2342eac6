----------------------- MODULE CandidateReviewProofs -----------------------
(***************************************************************************)
(* Type correctness of CandidateReview, its invariants, and its refinement *)
(* of AcceptedMemory, for any candidates, payloads, reviewers and workers, *)
(* with or without crashes.  What overlapping requests do to each other is *)
(* in the history variables, which the last part reasons about.            *)
(***************************************************************************)
EXTENDS CandidateReview, TLAPS

RollbackSteps == {"rollback_list", "rollback_write"}

\* The types of the tables and the locals, and those of the history variables.
RowsOK ==
    /\ candidates \in [Candidates -> CandidateStates]
    /\ entities \in [Entities -> Entity]
    /\ assertions \subseteq Assertion
    /\ snapshots \subseteq Snapshot
    /\ decisions \subseteq Decision
    /\ resolutions \in [Candidates -> Resolution]
    /\ reviews \in [Candidates -> OwnerDecisions \union {"none"}]
    /\ commits \subseteq Commit
    /\ actions \subseteq Action
    /\ local \in [Workers -> Local]

HistoryOK ==
    /\ contended \subseteq Candidates
    /\ swept \subseteq Entities
    /\ outrun \subseteq Workers
    /\ stale \subseteq Nat

\* Validation passed the candidate at some time.
Validated(c) ==
    /\ c \notin Malformed
    /\ \E d \in decisions : /\ d.type = "validation"
                            /\ d.candidate = c
                            /\ d.outcome = "pending_review"

\* The request was allowed to decide what it decides.
Choice(l) ==
    /\ l.pc # "idle" => l.candidate \in Candidates
    /\ l.pc \in {"review_candidate", "review_resolution", "review_write"} =>
          l.decision \in OwnerDecisions
    /\ l.pc = "decide_write" => l.decision \in {"reject", "quarantine"}
    /\ l.pc \in {"decide_candidate", "decide_write", "decide_record"} =>
          l.key \in Keys

\* The payload is the stored one unless a keyed request edited it, and the
\* lookups walk along it.
Walk(l) ==
    /\ l.pc \notin {"idle"} \union RollbackSteps => l.payload # <<>>
    /\ l.pc \notin {"idle"} \union RollbackSteps /\ l.key = NoKey =>
          l.payload = Payload[l.candidate]
    /\ l.pc = "decide_candidate" => l.inserts = {}
    /\ l.pc = "publish_lookup" => l.index \in 1 .. Len(l.payload)
    /\ l.inserts \subseteq 1 .. Len(l.payload)

\* The generation a publication will claim follows one that exists.
Claim(l) ==
    l.pc \in {"publish_lookup", "publish_write"} =>
        /\ l.generation >= 1
        /\ l.generation - 1 \in Generations \union {0}

\* A commit in flight carries the matches of the receipt it rests on.
Rests(l) ==
    /\ l.pc = "commit_review" \/ (l.pc \in {"publish_candidate"} \union PublishSteps
                                  /\ l.key = NoKey) =>
          /\ resolutions[l.candidate].outcome = "resolved"
          /\ l.matches = resolutions[l.candidate].matches
    /\ l.pc \in {"publish_candidate"} \union PublishSteps /\ l.key = NoKey =>
          Approved(l.candidate)
    /\ l.pc \in PublishSteps => Validated(l.candidate)

Sound(l) == Choice(l) /\ Walk(l) /\ Claim(l) /\ Rests(l)

LocalOK == \A w \in Workers : Sound(local[w])

Numbered == \E n \in Nat : Generations = 1 .. n

ReviewableWasValidated ==
    \A c \in Candidates : candidates[c] = "pending_review" => Validated(c)

ResolvedIsUnambiguous ==
    \A c \in Candidates :
        resolutions[c].outcome = "resolved" => ~Ambiguous(resolutions[c].matches)

AcceptedEntitiesAsserted == AcceptedEntities \subseteq Asserted

\* The inductive invariant.
IInv ==
    /\ RowsOK
    /\ LocalOK
    /\ Numbered
    /\ ReviewableWasValidated
    /\ ResolvedIsUnambiguous
    /\ GenerationsAccounted
    /\ CommitsAuthorised
    /\ AcceptedWasValidated
    /\ AcceptedEntitiesAsserted

LEMMA IdleType == Idle \in Local
  <1>1. /\ NoMatches \in Matches
        /\ [entities |-> {}, assertions |-> {}] \in View
        /\ <<>> \in Seq(Subjects)
    BY DEF NoMatches, Matches, View
  <1> QED
    BY <1>1 DEF Idle, Local, Steps, ReviewDecisions

LEMMA InitEstablishes == Init => IInv
  <1> SUFFICES ASSUME Init PROVE IInv
    OBVIOUS
  <1> USE DEF Init
  <1>1. RowsOK
    <2>1. NoMatches \in Matches
      BY DEF NoMatches, Matches
    <2>2. [outcome |-> "none", matches |-> NoMatches] \in Resolution
      BY <2>1 DEF Resolution
    <2> QED
      BY <2>2, IdleType
         DEF RowsOK, CandidateStates, Entity, OwnerDecisions
  <1>2. LocalOK
    <2>1. /\ Idle.pc = "idle" /\ Idle.inserts = {}
      BY DEF Idle
    <2> QED
      BY <2>1 DEF LocalOK, Sound, Choice, Walk, Claim, Rests, PublishSteps
  <1>3. Numbered
    <2>1. Generations = 1 .. 0
      BY DEF Generations
    <2> QED
      BY <2>1 DEF Numbered
  <1>4. ReviewableWasValidated /\ ResolvedIsUnambiguous
    BY DEF ReviewableWasValidated, ResolvedIsUnambiguous
  <1>5. GenerationsAccounted /\ CommitsAuthorised /\ AcceptedWasValidated
    BY DEF GenerationsAccounted, CommitsAuthorised, AcceptedWasValidated,
           Generations
  <1>6. AcceptedEntitiesAsserted
    BY DEF AcceptedEntitiesAsserted, AcceptedEntities, Asserted
  <1> QED
    BY <1>1, <1>2, <1>3, <1>4, <1>5, <1>6 DEF IInv

-----------------------------------------------------------------------------
(* Types.                                                                  *)

LEMMA RequestTypes ==
    ASSUME RowsOK, NEW w \in Workers, NEW c \in Candidates, NEW step \in Steps,
           NEW decision \in OwnerDecisions \union ReviewDecisions,
           NEW key \in Keys \union {NoKey},
           BeginDecision(w, c, step, decision, key)
    PROVE  local' \in [Workers -> Local]
  <1>1. Payload[c] \in Seq(Subjects)
    BY ConstantsAssumption
  <1>2. [Idle EXCEPT !.pc = step, !.candidate = c, !.payload = Payload[c],
                     !.decision = decision, !.key = key] \in Local
    BY <1>1, IdleType DEF Local
  <1> QED
    BY <1>2 DEF BeginDecision, RowsOK

LEMMA RequestStepTypes ==
    ASSUME RowsOK, NEW w \in Workers, Request(w) PROVE RowsOK'
  <1>0. /\ "accept" \in OwnerDecisions \union ReviewDecisions
        /\ OwnerChoices \subseteq OwnerDecisions
        /\ ReviewChoices \subseteq ReviewDecisions
    BY ConstantsAssumption DEF ReviewDecisions
  <1>1. ASSUME NEW c \in Candidates, Propose(w, c) PROVE RowsOK'
    <2>1. candidates' \in [Candidates -> CandidateStates]
      BY <1>1 DEF Propose, RowsOK, CandidateStates
    <2> QED
      BY <1>1, <2>1 DEF Propose, RowsOK
  <1>2. ASSUME NEW c \in Candidates,
               ValidateRead(w, c) \/ ResolveRead(w, c) \/ CommitRead(w, c)
        PROVE  RowsOK'
    <2>1. local' \in [Workers -> Local]
      BY <1>0, <1>2, RequestTypes
         DEF ValidateRead, ResolveRead, CommitRead, Begin, Steps
    <2> QED
      BY <1>2, <2>1 DEF ValidateRead, ResolveRead, CommitRead, tables, RowsOK
  <1>3. ASSUME NEW c \in Candidates, NEW decision \in OwnerChoices,
               ReviewRead(w, c, decision)
        PROVE  RowsOK'
    <2>1. local' \in [Workers -> Local]
      BY <1>0, <1>3, RequestTypes DEF ReviewRead, Steps
    <2> QED
      BY <1>3, <2>1 DEF ReviewRead, tables, RowsOK
  <1>4. ASSUME NEW c \in Candidates, NEW decision \in ReviewChoices,
               NEW key \in Keys, DecideRead(w, c, decision, key)
        PROVE  RowsOK'
    <2>1. local' \in [Workers -> Local]
      BY <1>0, <1>4, RequestTypes DEF DecideRead, Steps
    <2> QED
      BY <1>4, <2>1 DEF DecideRead, tables, RowsOK
  <1>5. ASSUME NEW d \in decisions, RollbackRead(w, d) PROVE RowsOK'
    <2>1. d.candidate \in Candidates /\ d.generation \in Nat
      BY DEF RowsOK, Decision
    <2>2. [Idle EXCEPT !.pc = "rollback_list", !.candidate = d.candidate,
                       !.generation = d.generation] \in Local
      BY <2>1, IdleType DEF Local, Steps
    <2> QED
      BY <1>5, <2>2 DEF RollbackRead, tables, RowsOK
  <1> QED
    BY <1>1, <1>2, <1>3, <1>4, <1>5 DEF Request

LEMMA LastOfRange == ASSUME NEW n \in Nat PROVE LastOf(1 .. n) = n
  <1> DEFINE Is(g) == \A h \in 1 .. n : h <= g
             range == (1 .. n) \union {0}
  <1>1. n \in range /\ Is(n)
    OBVIOUS
  <1>2. \A g \in range : Is(g) => g = n
    OBVIOUS
  <1> HIDE DEF Is, range
  <1>3. (CHOOSE g \in range : Is(g)) = n
    BY <1>1, <1>2
  <1> QED
    BY <1>3 DEF LastOf, Is, range

LEMMA LastGeneration ==
    ASSUME Numbered
    PROVE  LastOf(Generations) \in Nat \intersect (Generations \union {0})
  BY LastOfRange DEF Numbered

LEMMA ReadStepTypes ==
    ASSUME IInv, NEW w \in Workers,
           \/ ResolveReadReceipt(w) \/ ResolveMatch(w)
           \/ ReviewReadCandidate(w) \/ ReviewReadResolution(w)
           \/ CommitReadResolution(w) \/ CommitReadReview(w)
           \/ DecideReadCandidate(w)
           \/ PublishReadCandidate(w) \/ PublishReadEntities(w)
           \/ PublishReadAssertions(w) \/ PublishReadGeneration(w)
           \/ PublishLookup(w) \/ RollbackList(w)
           \/ ResolveAborts(w) \/ ReviewAborts(w) \/ PublishAborts(w)
           \/ Crash(w)
    PROVE  RowsOK'
  <1> DEFINE l == local[w]
  <1>a. l \in Local /\ RowsOK
    BY DEF IInv, RowsOK
  <1>b. Return(w) => local' \in [Workers -> Local]
    BY <1>a, IdleType DEF Return, RowsOK
  <1>c. ASSUME NEW s \in Steps, Goto(w, s) PROVE local' \in [Workers -> Local]
    BY <1>a, <1>c DEF Goto, RowsOK, Local
  <1>d. Choice(l) /\ Walk(l)
    BY DEF IInv, LocalOK, Sound
  <1> SUFFICES local' \in [Workers -> Local]
    BY <1>a DEF RowsOK, tables, ResolveReadReceipt, ResolveMatch,
         ReviewReadCandidate, ReviewReadResolution, CommitReadResolution,
         CommitReadReview, DecideReadCandidate, PublishReadCandidate,
         PublishReadEntities, PublishReadAssertions, PublishReadGeneration,
         PublishLookup, RollbackList, ResolveAborts, ReviewAborts,
         PublishAborts, Crash
  <1> HIDE DEF l
  <1>1. CASE ResolveReadReceipt(w)
    <2>1. LabelsOf(l.payload) \subseteq Labels
      <3>1. \A i \in DOMAIN l.payload : l.payload[i] \in Subjects
        BY <1>a DEF Local
      <3> QED
        BY <3>1, ConstantsAssumption DEF LabelsOf
    <2>2. [l EXCEPT !.pc = "resolve_match", !.labels = LabelsOf(l.payload)]
            \in Local
      BY <1>a, <2>1 DEF Local, Steps
    <2> QED
      BY <1>1, <1>a, <1>b, <2>2 DEF ResolveReadReceipt, RowsOK, l
  <1>2. CASE ResolveMatch(w)
    <2>1. PICK label \in l.labels :
            local' = [local EXCEPT
              ![w].labels = @ \ {label},
              ![w].matches[label] = AcceptedLabelMatches(label),
              ![w].pc = IF l.labels = {label} THEN "resolve_write" ELSE @]
      BY <1>2 DEF ResolveMatch, l
    <2>2. label \in Labels /\ AcceptedLabelMatches(label) \in SUBSET Entities
      BY <1>a DEF Local, AcceptedLabelMatches
    <2> DEFINE m == [l.matches EXCEPT ![label] = AcceptedLabelMatches(label)]
               step == IF l.labels = {label} THEN "resolve_write" ELSE l.pc
    <2>3. m \in Matches
      BY <1>a, <2>2 DEF Local, Matches
    <2>4. step \in Steps
      BY <1>a DEF Local, Steps
    <2> HIDE DEF m, step
    <2>5. [l EXCEPT !.labels = l.labels \ {label}, !.matches = m, !.pc = step]
            \in Local
      BY <1>a, <2>3, <2>4 DEF Local
    <2>6. local' = [local EXCEPT ![w] =
             [l EXCEPT !.labels = l.labels \ {label}, !.matches = m, !.pc = step]]
      BY <2>1, <1>a DEF RowsOK, Local, m, step, l
    <2> QED
      BY <1>a, <2>5, <2>6 DEF RowsOK
  <1>3. CASE ReviewReadCandidate(w) \/ ReviewReadResolution(w) \/ CommitReadReview(w)
             \/ PublishReadCandidate(w)
    BY <1>3, <1>b, <1>c
       DEF ReviewReadCandidate, ReviewReadResolution, CommitReadReview,
           PublishReadCandidate, Steps
  <1>4. CASE CommitReadResolution(w)
    <2>1. resolutions[l.candidate].matches \in Matches
      <3>1. l.candidate \in Candidates
        BY <1>4, <1>d DEF CommitReadResolution, At, Choice, l
      <3> QED
        BY <1>a, <3>1 DEF RowsOK, Resolution
    <2>2. [l EXCEPT !.pc = "commit_review",
                    !.matches = resolutions[l.candidate].matches] \in Local
      BY <1>a, <2>1 DEF Local, Steps
    <2> QED
      BY <1>4, <1>a, <1>b, <2>2 DEF CommitReadResolution, RowsOK, l
  <1>5. CASE DecideReadCandidate(w)
    <2>1. \A payload \in Seq(Subjects) :
             [l EXCEPT !.pc = "publish_candidate", !.payload = payload] \in Local
      BY <1>a DEF Local, Steps
    <2>2. l.payload \in Seq(Subjects) /\ Edits \subseteq Seq(Subjects)
      BY <1>a, ConstantsAssumption DEF Local
    <2>3. CASE Goto(w, "decide_write") \/ Return(w)
      BY <2>3, <1>b, <1>c DEF Steps
    <2>4. CASE \E payload \in IF l.decision = "accept" THEN {l.payload} ELSE Edits :
                 local' = [local EXCEPT ![w].pc = "publish_candidate",
                                        ![w].payload = payload]
      <3>1. PICK payload \in Seq(Subjects) :
              local' = [local EXCEPT ![w].pc = "publish_candidate",
                                     ![w].payload = payload]
        BY <2>2, <2>4
      <3>2. local' = [local EXCEPT ![w] =
              [l EXCEPT !.pc = "publish_candidate", !.payload = payload]]
        BY <3>1, <1>a DEF RowsOK, l
      <3> QED
        BY <1>a, <2>1, <3>1, <3>2 DEF RowsOK
    <2> QED
      BY <1>5, <2>3, <2>4 DEF DecideReadCandidate, l
  <1>6. CASE PublishReadEntities(w)
    <2>1. [l EXCEPT !.pc = "publish_assertions",
                    !.view = [@ EXCEPT !.entities = AcceptedEntities]] \in Local
      BY <1>a DEF Local, Steps, View, AcceptedEntities
    <2>2. local' = [local EXCEPT ![w] =
             [l EXCEPT !.pc = "publish_assertions",
                       !.view = [@ EXCEPT !.entities = AcceptedEntities]]]
      BY <1>6, <1>a DEF PublishReadEntities, RowsOK, Local, l
    <2> QED
      BY <1>a, <2>1, <2>2 DEF RowsOK
  <1>7. CASE PublishReadAssertions(w)
    <2>1. AcceptedAssertions \subseteq Candidates \X Nat
      BY <1>a DEF AcceptedAssertions, RowsOK, Assertion
    <2>2. [l EXCEPT !.pc = "publish_generation",
                    !.view = [@ EXCEPT !.assertions = AcceptedAssertions]] \in Local
      BY <1>a, <2>1 DEF Local, Steps, View
    <2>3. local' = [local EXCEPT ![w] =
             [l EXCEPT !.pc = "publish_generation",
                       !.view = [@ EXCEPT !.assertions = AcceptedAssertions]]]
      BY <1>7, <1>a DEF PublishReadAssertions, RowsOK, Local, l
    <2> QED
      BY <1>a, <2>2, <2>3 DEF RowsOK
  <1>8. CASE PublishReadGeneration(w)
    <2>1. LastOf(Generations) + 1 \in Nat
      BY LastGeneration DEF IInv
    <2>2. \A n, i \in Nat : [l EXCEPT !.pc = "publish_lookup",
                                      !.generation = n, !.index = i] \in Local
      BY <1>a DEF Local, Steps
    <2>3. [l EXCEPT !.pc = "publish_lookup", !.generation = LastOf(Generations) + 1,
                    !.index = 1] \in Local
      BY <2>1, <2>2
    <2> QED
      BY <1>8, <1>a, <2>3 DEF PublishReadGeneration, RowsOK, l
  <1>9. CASE PublishLookup(w)
    <2> DEFINE more == l.inserts \union {l.index}
               Looked(ins, ix, step) ==
                   [l EXCEPT !.inserts = ins, !.index = ix, !.pc = step]
    <2>1. ASSUME NEW ins \in SUBSET Nat, NEW ix \in Nat, NEW step \in Steps
          PROVE  Looked(ins, ix, step) \in Local
      BY <1>a DEF Local
    <2>2. /\ more \in SUBSET Nat /\ l.inserts \in SUBSET Nat
          /\ l.index + 1 \in Nat
          /\ l.pc \in Steps /\ "publish_write" \in Steps
      BY <1>a DEF Local, Steps
    <2>3. Return(w) \/ \E ins \in {more, l.inserts}, step \in {"publish_write", l.pc} :
             local' = [local EXCEPT ![w] = Looked(ins, l.index + 1, step)]
      BY <1>9, <1>a DEF PublishLookup, RowsOK, Local, l
    <2> HIDE DEF more, Looked
    <2>4. ASSUME NEW ins \in {more, l.inserts}, NEW step \in {"publish_write", l.pc},
                 local' = [local EXCEPT ![w] = Looked(ins, l.index + 1, step)]
          PROVE  local' \in [Workers -> Local]
      <3>1. Looked(ins, l.index + 1, step) \in Local
        BY <2>1, <2>2
      <3> QED
        BY <1>a, <2>4, <3>1 DEF RowsOK
    <2> QED
      BY <1>b, <2>3, <2>4
  <1>10. CASE RollbackList(w)
    <2>1. {a.generation : a \in {b \in assertions :
              b.candidate = l.candidate /\ b.state = "accepted"}} \subseteq Nat
      BY <1>a DEF RowsOK, Assertion
    <2>2. \A listed \in SUBSET Nat :
             [l EXCEPT !.pc = "rollback_write", !.listed = listed] \in Local
      BY <1>a DEF Local, Steps
    <2> QED
      BY <1>10, <1>a, <2>1, <2>2 DEF RollbackList, RowsOK, l
  <1>11. CASE ResolveAborts(w) \/ ReviewAborts(w) \/ PublishAborts(w) \/ Crash(w)
    BY <1>11, <1>b DEF ResolveAborts, ReviewAborts, PublishAborts, Crash
  <1> QED
    BY <1>1, <1>2, <1>3, <1>4, <1>5, <1>6, <1>7, <1>8, <1>9, <1>10, <1>11

\* The entity an assertion is about: one its label was resolved to, if any.
LEMMA TargetType ==
    ASSUME NEW l \in Local, NEW i \in 1 .. Len(l.payload)
    PROVE  /\ l.payload[i] \in Subjects
           /\ Label[l.payload[i]] \in Labels
           /\ Target(l, i) \in Entities
           /\ l.matches[Label[l.payload[i]]] # {} =>
                 Target(l, i) \in l.matches[Label[l.payload[i]]]
  <1>1. l.payload[i] \in Subjects
    BY DEF Local
  <1>2. Label[l.payload[i]] \in Labels /\ EntityId[l.payload[i]] \in Entities
    BY <1>1, ConstantsAssumption
  <1>3. l.matches[Label[l.payload[i]]] \subseteq Entities
    BY <1>2 DEF Local, Matches
  <1> QED
    BY <1>1, <1>2, <1>3 DEF Target

\* The statements that write a table.
LEMMA WriteStepTypes ==
    ASSUME IInv, NEW w \in Workers,
           \/ ValidateWrite(w) \/ ResolveWrite(w) \/ ReviewWrite(w)
           \/ DecideWrite(w) \/ DecideRecord(w)
           \/ PublishWrite(w) \/ RollbackWrite(w)
    PROVE  RowsOK'
  <1> DEFINE l == local[w]
  <1>a. l \in Local /\ RowsOK
    BY DEF IInv, RowsOK
  <1>b. Return(w) => local' \in [Workers -> Local]
    BY <1>a, IdleType DEF Return, RowsOK
  <1>c. ASSUME NEW s \in Steps, Goto(w, s) PROVE local' \in [Workers -> Local]
    BY <1>a, <1>c DEF Goto, RowsOK, Local
  <1>d. Choice(l) /\ Walk(l)
    BY DEF IInv, LocalOK, Sound
  <1>e. l.candidate \in Candidates
    <2>1. l.pc # "idle"
      BY DEF ValidateWrite, ResolveWrite, ReviewWrite, DecideWrite,
             DecideRecord, PublishWrite, RollbackWrite, At
    <2> QED
      BY <2>1, <1>d DEF Choice
  <1> HIDE DEF l
  <1>1. CASE ValidateWrite(w)
    <2>1. Verdict(l.candidate) \in {"quarantined", "pending_review"}
      BY DEF Verdict
    <2>2. candidates' \in [Candidates -> CandidateStates]
      BY <1>1, <1>a, <2>1 DEF ValidateWrite, RowsOK, CandidateStates, l
    <2>3. decisions' \subseteq Decision
      BY <1>1, <1>a, <1>e, <2>1 DEF ValidateWrite, Decided, RowsOK, Decision, l
    <2> QED
      BY <1>1, <1>a, <1>b, <2>2, <2>3 DEF ValidateWrite, RowsOK
  <1>2. CASE ResolveWrite(w)
    <2>1. \A outcome \in {"quarantined", "resolved"} :
             [outcome |-> outcome, matches |-> l.matches] \in Resolution
      BY <1>a DEF Local, Resolution
    <2>2. resolutions' \in [Candidates -> Resolution]
      BY <1>2, <1>a, <2>1 DEF ResolveWrite, RowsOK, l
    <2>3. candidates' \in [Candidates -> CandidateStates]
      BY <1>2, <1>a DEF ResolveWrite, RowsOK, CandidateStates
    <2> QED
      BY <1>2, <1>a, <1>b, <2>2, <2>3 DEF ResolveWrite, RowsOK
  <1>3. CASE ReviewWrite(w)
    <2>1. l.decision \in OwnerDecisions
      BY <1>3, <1>d DEF ReviewWrite, At, Choice, l
    <2>2. l.decision = "approve_for_commit" \/ StateAfter[l.decision] \in CandidateStates
      BY <2>1 DEF OwnerDecisions, StateAfter, CandidateStates
    <2>3. candidates' \in [Candidates -> CandidateStates]
      BY <1>3, <1>a, <2>2 DEF ReviewWrite, RowsOK, l
    <2>4. reviews' \in [Candidates -> OwnerDecisions \union {"none"}]
      BY <1>3, <1>a, <2>1 DEF ReviewWrite, RowsOK, l
    <2> QED
      BY <1>3, <1>a, <1>b, <2>3, <2>4 DEF ReviewWrite, RowsOK
  <1>4. CASE DecideWrite(w)
    <2>1. l.decision \in {"reject", "quarantine"}
      BY <1>4, <1>d DEF DecideWrite, At, Choice, l
    <2>2. StateAfter[l.decision] \in CandidateStates
      BY <2>1 DEF StateAfter, CandidateStates
    <2>3. candidates' \in [Candidates -> CandidateStates]
      BY <1>4, <1>a, <2>2 DEF DecideWrite, RowsOK, l
    <2> QED
      BY <1>4, <1>a, <1>c, <2>3 DEF DecideWrite, RowsOK, Steps
  <1>5. CASE DecideRecord(w)
    <2>1. l.key \in Keys
      BY <1>5, <1>d DEF DecideRecord, At, Choice, l
    <2>2. actions' \subseteq Action
      BY <1>5, <1>a, <1>e, <2>1 DEF DecideRecord, RowsOK, Action, l
    <2> QED
      BY <1>5, <1>a, <1>b, <2>2 DEF DecideRecord, RowsOK
  <1>6. CASE PublishWrite(w)
    <2>1. snapshots' \subseteq Snapshot
      <3>1. [generation |-> l.generation, view |-> l.view] \in Snapshot
        BY <1>a DEF Local, Snapshot
      <3> QED
        BY <1>6, <1>a, <3>1 DEF PublishWrite, RowsOK, l
    <2>2. entities' \in [Entities -> Entity]
      <3>1. ASSUME NEW e \in {Target(l, i) : i \in l.inserts}
            PROVE  [state |-> "accepted",
                    label |-> StoredLabel[l.payload[CHOOSE i \in l.inserts : Target(l, i) = e]]]
                      \in Entity
        <4> DEFINE i == CHOOSE i \in l.inserts : Target(l, i) = e
        <4>1. i \in l.inserts
          BY <3>1
        <4>2. i \in 1 .. Len(l.payload)
          BY <4>1, <1>d DEF Walk
        <4> HIDE DEF i
        <4>3. StoredLabel[l.payload[i]] \in Labels \union {NoLabel}
          BY <4>2, <1>a, TargetType, ConstantsAssumption
        <4> QED
          BY <4>3 DEF Entity, i
      <3> QED
        BY <1>6, <1>a, <3>1 DEF PublishWrite, RowsOK, l
    <2>3. assertions' \subseteq Assertion
      <3>1. {Target(l, i) : i \in DOMAIN l.payload} \subseteq Entities
        <4>1. DOMAIN l.payload = 1 .. Len(l.payload)
          BY <1>a DEF Local
        <4> QED
          BY <4>1, <1>a, TargetType
      <3>2. [candidate |-> l.candidate, generation |-> l.generation,
             entities |-> {Target(l, i) : i \in DOMAIN l.payload},
             state |-> "accepted", projection |-> "upsert"] \in Assertion
        BY <3>1, <1>a, <1>e DEF Local, Assertion
      <3> QED
        BY <1>6, <1>a, <3>2 DEF PublishWrite, RowsOK, l
    <2>4. decisions' \subseteq Decision
      <3>1. [type |-> "publication", candidate |-> l.candidate,
             outcome |-> "accepted", generation |-> l.generation] \in Decision
        BY <1>a, <1>e DEF Local, Decision
      <3> QED
        BY <1>6, <1>a, <3>1 DEF PublishWrite, Decided, RowsOK, l
    <2>5. candidates' \in [Candidates -> CandidateStates]
      BY <1>6, <1>a DEF PublishWrite, RowsOK, CandidateStates
    <2>6. commits' \subseteq Commit
      <3>1. [candidate |-> l.candidate, generation |-> l.generation] \in Commit
        BY <1>a, <1>e DEF Local, Commit
      <3> QED
        BY <1>6, <1>a, <3>1 DEF PublishWrite, RowsOK, l
    <2>7. local' \in [Workers -> Local]
      BY <1>6, <1>b, <1>c DEF PublishWrite, Steps
    <2> QED
      BY <1>6, <1>a, <2>1, <2>2, <2>3, <2>4, <2>5, <2>6, <2>7
         DEF PublishWrite, RowsOK
  <1>7. CASE RollbackWrite(w)
    <2>1. assertions' \subseteq Assertion
      <3>1. ASSUME NEW a \in Assertion PROVE Withdrawn(a, l) \in Assertion
        BY DEF Withdrawn, Assertion
      <3> QED
        BY <1>7, <1>a, <3>1 DEF RollbackWrite, RowsOK, l
    <2>2. entities' \in [Entities -> Entity]
      <3>1. \A row \in Entity : [row EXCEPT !.state = "superseded"] \in Entity
        BY DEF Entity
      <3> QED
        BY <1>7, <1>a, <3>1 DEF RollbackWrite, RowsOK, OrphanSuperseded
    <2>3. decisions' \subseteq Decision
      <3>1. [type |-> "rollback", candidate |-> l.candidate,
             outcome |-> "restored", generation |-> l.generation] \in Decision
        BY <1>a, <1>e DEF Local, Decision
      <3> QED
        BY <1>7, <1>a, <3>1 DEF RollbackWrite, Decided, RowsOK, l
    <2> QED
      BY <1>7, <1>a, <1>b, <2>1, <2>2, <2>3 DEF RollbackWrite, RowsOK
  <1> QED
    BY <1>1, <1>2, <1>3, <1>4, <1>5, <1>6, <1>7

LEMMA TypeStep == IInv /\ [Next]_vars => RowsOK'
  <1> SUFFICES ASSUME IInv, [Next]_vars PROVE RowsOK'
    OBVIOUS
  <1>1. CASE UNCHANGED vars
    BY <1>1 DEF IInv, vars, tables, RowsOK
  <1>2. ASSUME NEW w \in Workers, Request(w) PROVE RowsOK'
    BY <1>2, RequestStepTypes DEF IInv
  <1>3. ASSUME NEW w \in Workers, Proceed(w) \/ Crash(w) PROVE RowsOK'
    BY <1>3, ReadStepTypes, WriteStepTypes DEF Proceed
  <1> QED
    BY <1>1, <1>2, <1>3 DEF Next

-----------------------------------------------------------------------------
(* What is written stays: snapshots, decisions and receipts.               *)

Grows ==
    /\ snapshots \subseteq snapshots'
    /\ decisions \subseteq decisions'
    /\ \A c \in Candidates :
          /\ reviews[c] # "none" => reviews'[c] = reviews[c]
          /\ resolutions[c].outcome # "none" => resolutions'[c] = resolutions[c]

LEMMA RequestsReadOnly ==
    ASSUME NEW w \in Workers, Request(w)
    PROVE  \/ UNCHANGED tables
           \/ \E c \in Candidates : Propose(w, c)
  BY DEF Request, ValidateRead, ResolveRead, ReviewRead, CommitRead,
         DecideRead, RollbackRead

LEMMA TablesGrow == RowsOK /\ [Next]_vars => Grows
  <1> SUFFICES ASSUME RowsOK, [Next]_vars PROVE Grows
    OBVIOUS
  <1>0. CASE UNCHANGED tables
    BY <1>0 DEF tables, Grows
  <1>1. ASSUME NEW w \in Workers, NEW c \in Candidates, Propose(w, c)
        PROVE  Grows
    BY <1>1 DEF Propose, Grows
  <1>2. ASSUME NEW w \in Workers, ResolveWrite(w) PROVE Grows
    BY <1>2 DEF ResolveWrite, NoReceipt, RowsOK, Grows
  <1>3. ASSUME NEW w \in Workers, ReviewWrite(w) PROVE Grows
    BY <1>3 DEF ReviewWrite, NoReview, RowsOK, Grows
  <1>4. ASSUME NEW w \in Workers,
               \/ ValidateWrite(w) \/ DecideWrite(w) \/ DecideRecord(w)
               \/ PublishWrite(w) \/ RollbackWrite(w)
        PROVE  Grows
    BY <1>4 DEF ValidateWrite, DecideWrite, DecideRecord, PublishWrite,
                RollbackWrite, Decided, Grows
  <1>5. ASSUME NEW w \in Workers, Proceed(w) \/ Crash(w) PROVE Grows
    BY <1>0, <1>2, <1>3, <1>4, <1>5
       DEF Proceed, ResolveReadReceipt, ResolveMatch, ResolveAborts,
           ReviewReadCandidate, ReviewReadResolution, ReviewAborts,
           CommitReadResolution, CommitReadReview, DecideReadCandidate,
           PublishReadCandidate, PublishReadEntities, PublishReadAssertions,
           PublishReadGeneration, PublishLookup, PublishAborts, RollbackList,
           Crash
  <1> QED
    BY <1>0, <1>1, <1>5, RequestsReadOnly DEF Next, vars

-----------------------------------------------------------------------------
(* The locals of requests.                                                 *)

\* Nobody else's step disturbs what a request carries.
LEMMA LocalsSurvive ==
    ASSUME Grows, NEW l \in Local, Sound(l) PROVE Sound(l)'
  <1> USE DEF Sound
  <1>1. Choice(l)' /\ Walk(l)'
    BY DEF Choice, Walk
  <1>2. Claim(l)'
    BY DEF Claim, Grows, Generations
  <1>3. l.pc # "idle" => l.candidate \in Candidates
    BY DEF Choice
  <1>4. \A c : Validated(c) => Validated(c)'
    BY DEF Validated, Grows
  <1>5. \A c \in Candidates : Approved(c) => Approved(c)'
    BY DEF Approved, Grows
  <1>6. Rests(l)'
    BY <1>3, <1>4, <1>5 DEF Rests, Grows, PublishSteps
  <1> QED
    BY <1>1, <1>2, <1>6

LEMMA IdleSound == Sound(Idle) /\ Sound(Idle)'
  BY DEF Sound, Idle, Choice, Walk, Claim, Rests, PublishSteps

\* A step touches the locals of its own request only.
LEMMA OthersKeep ==
    ASSUME RowsOK, NEW w \in Workers, NEW v \in Workers, v # w,
           Request(w) \/ Proceed(w) \/ Crash(w)
    PROVE  local'[v] = local[v]
  <1> USE DEF RowsOK, BeginDecision, Begin, Goto, Return
  <1>1. CASE Request(w)
    BY <1>1 DEF Request, Propose, ValidateRead, ResolveRead, ReviewRead,
                CommitRead, DecideRead, RollbackRead
  <1>2. CASE \/ ValidateWrite(w) \/ ResolveReadReceipt(w) \/ ResolveMatch(w)
             \/ ResolveWrite(w) \/ ResolveAborts(w)
             \/ ReviewReadCandidate(w) \/ ReviewReadResolution(w)
             \/ ReviewWrite(w) \/ ReviewAborts(w)
    BY <1>2 DEF ValidateWrite, ResolveReadReceipt, ResolveMatch, ResolveWrite,
                ResolveAborts, ReviewReadCandidate, ReviewReadResolution,
                ReviewWrite, ReviewAborts
  <1>3. CASE \/ CommitReadResolution(w) \/ CommitReadReview(w)
             \/ DecideReadCandidate(w) \/ DecideWrite(w) \/ DecideRecord(w)
    BY <1>3 DEF CommitReadResolution, CommitReadReview, DecideReadCandidate,
                DecideWrite, DecideRecord
  <1>4. CASE \/ PublishReadCandidate(w) \/ PublishReadEntities(w)
             \/ PublishReadAssertions(w) \/ PublishReadGeneration(w)
             \/ PublishLookup(w) \/ PublishWrite(w) \/ PublishAborts(w)
    BY <1>4 DEF PublishReadCandidate, PublishReadEntities, PublishReadAssertions,
                PublishReadGeneration, PublishLookup, PublishWrite, PublishAborts
  <1>5. CASE RollbackList(w) \/ RollbackWrite(w) \/ Crash(w)
    BY <1>5 DEF RollbackList, RollbackWrite, Crash
  <1> QED
    BY <1>1, <1>2, <1>3, <1>4, <1>5 DEF Proceed

LEMMA RequestSound ==
    ASSUME IInv, NEW w \in Workers, Request(w), Grows PROVE Sound(local[w])'
  <1> USE DEF Sound, Choice, Walk, Claim, Rests, PublishSteps, RollbackSteps
  <1>a. local \in [Workers -> Local] /\ local[w] \in Local /\ Sound(local[w])
    BY DEF IInv, RowsOK, LocalOK
  <1>b. \A c \in Candidates : Payload[c] \in Seq(Subjects) /\ Payload[c] # <<>>
    BY ConstantsAssumption
  <1>1. ASSUME NEW c \in Candidates, Propose(w, c) PROVE Sound(local[w])'
    BY <1>1, <1>a, LocalsSurvive DEF Propose
  <1>2. ASSUME NEW c \in Candidates, NEW step, NEW decision, NEW key,
               BeginDecision(w, c, step, decision, key),
               step \notin {"idle", "decide_write", "decide_record", "commit_review",
                            "publish_candidate"} \union PublishSteps \union RollbackSteps,
               step \in {"review_candidate", "review_resolution", "review_write"} =>
                  decision \in OwnerDecisions,
               step = "decide_candidate" => key \in Keys
        PROVE  Sound(local[w])'
    <2>1. local'[w] = [Idle EXCEPT !.pc = step, !.candidate = c,
                           !.payload = Payload[c], !.decision = decision, !.key = key]
      BY <1>2, <1>a DEF BeginDecision
    <2>2. /\ local'[w].pc = step /\ local'[w].candidate = c
          /\ local'[w].payload = Payload[c] /\ local'[w].decision = decision
          /\ local'[w].key = key /\ local'[w].inserts = {}
      BY <2>1 DEF Idle
    <2> QED
      BY <1>2, <1>b, <2>2
  <1>3. ASSUME NEW c \in Candidates,
               ValidateRead(w, c) \/ ResolveRead(w, c) \/ CommitRead(w, c)
        PROVE  Sound(local[w])'
    BY <1>2, <1>3 DEF ValidateRead, ResolveRead, CommitRead, Begin
  <1>4. ASSUME NEW c \in Candidates, NEW decision \in OwnerChoices,
               ReviewRead(w, c, decision)
        PROVE  Sound(local[w])'
    BY <1>2, <1>4, ConstantsAssumption DEF ReviewRead
  <1>5. ASSUME NEW c \in Candidates, NEW decision \in ReviewChoices,
               NEW key \in Keys, DecideRead(w, c, decision, key)
        PROVE  Sound(local[w])'
    BY <1>2, <1>5 DEF DecideRead
  <1>6. ASSUME NEW d \in decisions, RollbackRead(w, d) PROVE Sound(local[w])'
    <2>1. d.candidate \in Candidates
      BY DEF IInv, RowsOK, Decision
    <2>2. local'[w] = [Idle EXCEPT !.pc = "rollback_list",
              !.candidate = d.candidate, !.generation = d.generation]
      BY <1>6, <1>a DEF RollbackRead
    <2>3. /\ local'[w].pc = "rollback_list" /\ local'[w].candidate = d.candidate
          /\ local'[w].inserts = {}
      BY <2>2 DEF Idle
    <2> QED
      BY <2>1, <2>3
  <1> QED
    BY <1>1, <1>3, <1>4, <1>5, <1>6 DEF Request

LEMMA ProceedSound ==
    ASSUME IInv, NEW w \in Workers, Proceed(w) \/ Crash(w), Grows
    PROVE  Sound(local[w])'
  <1> DEFINE l == local[w]
  <1>a. local \in [Workers -> Local] /\ l \in Local /\ Sound(l)
    BY DEF IInv, RowsOK, LocalOK
  <1>b. Return(w) => Sound(local[w])'
    <2>1. Return(w) => local'[w] = Idle
      BY <1>a DEF Return
    <2> QED
      BY <2>1, IdleSound DEF Sound, Choice, Walk, Claim, Rests
  <1>c. \A c : Validated(c) => Validated(c)'
    BY DEF Validated, Grows
  <1>d. \A c \in Candidates : Approved(c) => Approved(c)'
    BY DEF Approved, Grows
  <1> USE DEF Sound, Choice, Walk, Claim, Rests, PublishSteps, RollbackSteps
  <1>e. ASSUME NEW step, Goto(w, step)
        PROVE  local'[w] = [l EXCEPT !.pc = step]
    BY <1>e, <1>a DEF Goto
  <1>1. CASE \/ ValidateWrite(w) \/ ResolveWrite(w) \/ ResolveAborts(w)
             \/ ReviewWrite(w) \/ ReviewAborts(w) \/ DecideRecord(w)
             \/ PublishAborts(w) \/ RollbackWrite(w) \/ Crash(w)
    BY <1>1, <1>b DEF ValidateWrite, ResolveWrite, ResolveAborts, ReviewWrite,
                      ReviewAborts, DecideRecord, PublishAborts, RollbackWrite,
                      Crash
  <1>2. CASE ResolveReadReceipt(w)
    <2>1. Return(w) \/ local'[w] = [l EXCEPT !.pc = "resolve_match",
                                             !.labels = LabelsOf(l.payload)]
      BY <1>2, <1>a DEF ResolveReadReceipt
    <2> QED
      BY <1>2, <1>a, <1>b, <2>1 DEF ResolveReadReceipt, At, Local
  <1>3. CASE ResolveMatch(w)
    <2>1. /\ l.pc = "resolve_match"
          /\ local'[w].pc \in {"resolve_match", "resolve_write"}
          /\ \A f \in {"candidate", "decision", "key", "payload", "inserts"} :
                local'[w][f] = l[f]
      BY <1>3, <1>a DEF ResolveMatch, At, Local
    <2>2. /\ local'[w].candidate = l.candidate /\ local'[w].key = l.key
          /\ local'[w].payload = l.payload /\ local'[w].inserts = l.inserts
      BY <2>1
    <2> QED
      BY <1>a, <2>1, <2>2
  <1>4. CASE ReviewReadCandidate(w) \/ ReviewReadResolution(w)
    <2>1. Return(w) \/ \E step \in {"review_resolution", "review_write"} :
             local'[w] = [l EXCEPT !.pc = step]
      BY <1>4, <1>e DEF ReviewReadCandidate, ReviewReadResolution
    <2>2. l.pc \in {"review_candidate", "review_resolution"}
      BY <1>4 DEF ReviewReadCandidate, ReviewReadResolution, At
    <2> QED
      BY <1>a, <1>b, <2>1, <2>2 DEF Local
  <1>5. CASE CommitReadResolution(w)
    <2>1. \/ Return(w)
          \/ /\ local'[w] = [l EXCEPT !.pc = "commit_review",
                                      !.matches = resolutions[l.candidate].matches]
             /\ resolutions[l.candidate].outcome = "resolved"
      BY <1>5, <1>a DEF CommitReadResolution
    <2>2. l.pc = "commit_resolution" /\ UNCHANGED resolutions
      BY <1>5 DEF CommitReadResolution, At, tables
    <2> QED
      BY <1>a, <1>b, <2>1, <2>2 DEF Local
  <1>6. CASE CommitReadReview(w)
    <2>1. \/ Return(w)
          \/ /\ local'[w] = [l EXCEPT !.pc = "publish_candidate"]
             /\ Approved(l.candidate)
      BY <1>6, <1>e DEF CommitReadReview
    <2>2. l.pc = "commit_review" /\ UNCHANGED resolutions /\ l.candidate \in Candidates
      BY <1>6, <1>a DEF CommitReadReview, At, tables
    <2> QED
      BY <1>a, <1>b, <1>d, <2>1, <2>2 DEF Local
  <1>7. CASE DecideReadCandidate(w)
    <2>1. l.pc = "decide_candidate"
      BY <1>7 DEF DecideReadCandidate, At
    <2>2. l.key # NoKey /\ l.inserts = {} /\ l.candidate \in Candidates
      BY <1>a, <2>1, ConstantsAssumption
    <2>3. CASE Return(w)
      BY <2>3, <1>b
    <2>4. CASE Goto(w, "decide_write") /\ l.decision \in {"reject", "quarantine"}
      <3>1. local'[w] = [l EXCEPT !.pc = "decide_write"]
        BY <2>4, <1>e
      <3> QED
        BY <1>a, <2>1, <2>2, <2>4, <3>1 DEF Local
    <2>5. CASE \E payload \in IF l.decision = "accept" THEN {l.payload} ELSE Edits :
                 local' = [local EXCEPT ![w].pc = "publish_candidate",
                                        ![w].payload = payload]
      <3>1. PICK payload :
               /\ payload # <<>>
               /\ local'[w] = [l EXCEPT !.pc = "publish_candidate",
                                        !.payload = payload]
        BY <1>a, <2>1, <2>5, ConstantsAssumption
      <3>2. /\ local'[w].pc = "publish_candidate" /\ local'[w].payload = payload
            /\ local'[w].key = l.key /\ local'[w].inserts = {}
            /\ local'[w].candidate = l.candidate
        BY <3>1, <1>a, <2>2 DEF Local
      <3> QED
        BY <2>2, <3>1, <3>2
    <2> QED
      BY <1>7, <2>3, <2>4, <2>5 DEF DecideReadCandidate
  <1>8. CASE DecideWrite(w)
    <2>1. local'[w] = [l EXCEPT !.pc = "decide_record"] /\ l.pc = "decide_write"
      BY <1>8, <1>e DEF DecideWrite, At
    <2> QED
      BY <1>a, <2>1 DEF Local
  <1>9. CASE PublishReadCandidate(w)
    <2>1. Return(w) \/ /\ local'[w] = [l EXCEPT !.pc = "publish_entities"]
                       /\ candidates[l.candidate] = "pending_review"
      BY <1>9, <1>e DEF PublishReadCandidate, Reviewable
    <2>2. l.pc = "publish_candidate" /\ UNCHANGED resolutions
      BY <1>9 DEF PublishReadCandidate, At, tables
    <2>3. l.candidate \in Candidates
      BY <1>a, <2>2
    <2>4. candidates[l.candidate] = "pending_review" => Validated(l.candidate)
      BY <2>3 DEF IInv, ReviewableWasValidated
    <2> QED
      BY <1>a, <1>b, <1>c, <1>d, <2>1, <2>2, <2>3, <2>4 DEF Local
  <1>10. CASE PublishReadEntities(w) \/ PublishReadAssertions(w)
    <2>1. PICK view : \/ local'[w] = [l EXCEPT !.pc = "publish_assertions", !.view = view]
                      \/ local'[w] = [l EXCEPT !.pc = "publish_generation", !.view = view]
      <3>1. CASE PublishReadEntities(w)
        <4> DEFINE view == [l.view EXCEPT !.entities = AcceptedEntities]
        <4>1. local'[w] = [l EXCEPT !.pc = "publish_assertions", !.view = view]
          BY <3>1, <1>a DEF PublishReadEntities, Local
        <4> QED
          BY <4>1
      <3>2. CASE PublishReadAssertions(w)
        <4> DEFINE view == [l.view EXCEPT !.assertions = AcceptedAssertions]
        <4>1. local'[w] = [l EXCEPT !.pc = "publish_generation", !.view = view]
          BY <3>2, <1>a DEF PublishReadAssertions, Local
        <4> QED
          BY <4>1
      <3> QED
        BY <1>10, <3>1, <3>2
    <2>2. /\ l.pc \in {"publish_entities", "publish_assertions"}
          /\ UNCHANGED resolutions /\ l.candidate \in Candidates
      BY <1>10, <1>a DEF PublishReadEntities, PublishReadAssertions, At, tables
    <2> QED
      BY <1>a, <1>c, <1>d, <2>1, <2>2 DEF Local
  <1>11. CASE PublishReadGeneration(w)
    <2>1. PICK g \in Nat \intersect (Generations \union {0}) :
             local'[w] = [l EXCEPT !.pc = "publish_lookup",
                                   !.generation = g + 1, !.index = 1]
      BY <1>11, <1>a, LastGeneration DEF PublishReadGeneration, IInv
    <2>2. l.pc = "publish_generation" /\ UNCHANGED <<resolutions, snapshots>>
          /\ l.candidate \in Candidates
      BY <1>11, <1>a DEF PublishReadGeneration, At, tables
    <2>3. g \in Nat
      OBVIOUS
    <2>4. Len(l.payload) \in Nat /\ Len(l.payload) >= 1
      BY <1>a, <2>2 DEF Local
    <2>5. Claim(local[w])'
      BY <1>a, <2>1, <2>2, <2>3 DEF Local, Generations
    <2>6. Walk(local[w])'
      BY <1>a, <2>1, <2>2, <2>4 DEF Local
    <2> QED
      BY <1>a, <1>c, <1>d, <2>1, <2>2, <2>5, <2>6 DEF Local
  <1>12. CASE PublishLookup(w)
    <2>1. l.pc = "publish_lookup" /\ UNCHANGED <<resolutions, snapshots>>
          /\ l.candidate \in Candidates
      BY <1>12, <1>a DEF PublishLookup, At, tables
    <2>2. CASE Return(w)
      BY <2>2, <1>b
    <2>3. CASE ~Return(w)
      <3>1. PICK ins \in {l.inserts, l.inserts \union {l.index}} :
               local'[w] = [l EXCEPT !.inserts = ins, !.index = l.index + 1,
                   !.pc = IF l.index = Len(l.payload) THEN "publish_write"
                                                      ELSE "publish_lookup"]
        BY <1>12, <1>a, <2>1, <2>3 DEF PublishLookup, Local
      <3>2. /\ local'[w].inserts = ins /\ local'[w].index = l.index + 1
            /\ local'[w].pc = IF l.index = Len(l.payload) THEN "publish_write"
                                                          ELSE "publish_lookup"
            /\ local'[w].candidate = l.candidate /\ local'[w].key = l.key
            /\ local'[w].payload = l.payload /\ local'[w].matches = l.matches
            /\ local'[w].generation = l.generation
        BY <3>1, <1>a DEF Local
      <3>3. Len(l.payload) \in Nat /\ l.index \in 1 .. Len(l.payload)
        BY <1>a, <2>1 DEF Local
      <3>4. Walk(local[w])'
        BY <1>a, <2>1, <3>2, <3>3
      <3>5. Claim(local[w])'
        BY <1>a, <2>1, <3>2 DEF Generations
      <3> QED
        BY <1>a, <1>c, <1>d, <2>1, <3>2, <3>4, <3>5
    <2> QED
      BY <2>2, <2>3
  <1>13. CASE PublishWrite(w)
    <2>1. Return(w) \/ /\ local'[w] = [l EXCEPT !.pc = "decide_record"]
                       /\ l.key # NoKey
      BY <1>13, <1>e DEF PublishWrite, IsOwnerCommit
    <2>2. l.pc = "publish_write"
      BY <1>13 DEF PublishWrite, At
    <2>3. l.key \in Keys \/ l.key = NoKey
      BY <1>a DEF Local
    <2> QED
      BY <1>a, <1>b, <2>1, <2>2, <2>3 DEF Local
  <1>14. CASE RollbackList(w)
    <2>1. PICK listed : local'[w] = [l EXCEPT !.pc = "rollback_write",
                                              !.listed = listed]
      BY <1>14, <1>a DEF RollbackList
    <2>2. l.pc = "rollback_list"
      BY <1>14 DEF RollbackList, At
    <2> QED
      BY <1>a, <2>1, <2>2 DEF Local
  <1> QED
    BY <1>1, <1>2, <1>3, <1>4, <1>5, <1>6, <1>7, <1>8, <1>9, <1>10, <1>11,
       <1>12, <1>13, <1>14 DEF Proceed

LEMMA LocalStep == IInv /\ [Next]_vars => LocalOK'
  <1> SUFFICES ASSUME IInv, [Next]_vars PROVE LocalOK'
    OBVIOUS
  <1>1. Grows /\ RowsOK
    BY TablesGrow DEF IInv
  <1>2. \A v \in Workers : local[v] \in Local /\ Sound(local[v])
    BY <1>1 DEF IInv, RowsOK, LocalOK
  <1>3. ASSUME NEW v \in Workers, local'[v] = local[v] PROVE Sound(local[v])'
    <2>1. PICK l \in Local : l = local[v] /\ Sound(l)
      BY <1>2
    <2>2. Sound(l)'
      BY <1>1, <2>1, LocalsSurvive
    <2> QED
      BY <1>3, <2>1, <2>2 DEF Sound, Choice, Walk, Claim, Rests
  <1>4. ASSUME NEW w \in Workers, Request(w) \/ Proceed(w) \/ Crash(w)
        PROVE  LocalOK'
    BY <1>1, <1>3, <1>4, OthersKeep, RequestSound, ProceedSound DEF LocalOK
  <1>5. CASE UNCHANGED vars
    BY <1>3, <1>5 DEF vars, LocalOK
  <1> QED
    BY <1>4, <1>5 DEF Next

-----------------------------------------------------------------------------
(* The tables.                                                             *)

\* The statements that change a table.
LEMMA WritingSteps ==
    ASSUME [Next]_vars
    PROVE  \/ UNCHANGED tables
           \/ \E w \in Workers :
                 \/ \E c \in Candidates : Propose(w, c)
                 \/ ValidateWrite(w) \/ ResolveWrite(w) \/ ReviewWrite(w)
                 \/ DecideWrite(w) \/ DecideRecord(w)
                 \/ PublishWrite(w) \/ RollbackWrite(w)
  <1>1. ASSUME NEW w \in Workers, Proceed(w) \/ Crash(w)
        PROVE  \/ UNCHANGED tables
               \/ ValidateWrite(w) \/ ResolveWrite(w) \/ ReviewWrite(w)
               \/ DecideWrite(w) \/ DecideRecord(w)
               \/ PublishWrite(w) \/ RollbackWrite(w)
    BY <1>1 DEF Proceed, ResolveReadReceipt, ResolveMatch, ResolveAborts,
           ReviewReadCandidate, ReviewReadResolution, ReviewAborts,
           CommitReadResolution, CommitReadReview, DecideReadCandidate,
           PublishReadCandidate, PublishReadEntities, PublishReadAssertions,
           PublishReadGeneration, PublishLookup, PublishAborts, RollbackList,
           Crash
  <1> QED
    BY <1>1, RequestsReadOnly DEF Next, vars

\* What is known of a publication when its batch runs.
LEMMA PublicationFacts ==
    ASSUME IInv, NEW w \in Workers, PublishWrite(w)
    PROVE  /\ local[w] \in Local
           /\ Sound(local[w])
           /\ local[w].pc = "publish_write"
           /\ local[w].candidate \in Candidates
           /\ Validated(local[w].candidate)
           /\ DOMAIN local[w].payload = 1 .. Len(local[w].payload)
           /\ local[w].inserts \subseteq DOMAIN local[w].payload
           /\ \E n \in Nat : Generations = 1 .. n /\ local[w].generation = n + 1
  <1> DEFINE l == local[w]
  <1>1. l \in Local /\ Sound(l) /\ l.pc = "publish_write"
    BY DEF IInv, RowsOK, LocalOK, PublishWrite, At
  <1>2. l.candidate \in Candidates /\ Validated(l.candidate)
    BY <1>1 DEF Sound, Choice, Rests, PublishSteps
  <1>3. DOMAIN l.payload = 1 .. Len(l.payload) /\ l.inserts \subseteq 1 .. Len(l.payload)
    BY <1>1 DEF Local, Sound, Walk
  <1>4. \E n \in Nat : Generations = 1 .. n /\ l.generation = n + 1
    <2>1. PICK n \in Nat : Generations = 1 .. n
      BY DEF IInv, Numbered
    <2>2. /\ l.generation \in Nat /\ l.generation >= 1
          /\ l.generation - 1 \in (1 .. n) \union {0}
          /\ l.generation \notin 1 .. n
      BY <1>1, <2>1 DEF Sound, Claim, Local, PublishWrite, Insertable, GenerationFree
    <2> QED
      BY <2>1, <2>2
  <1> QED
    BY <1>1, <1>2, <1>3, <1>4

LEMMA NumberedStep == IInv /\ [Next]_vars => Numbered'
  <1> SUFFICES ASSUME IInv, [Next]_vars PROVE Numbered'
    OBVIOUS
  <1>1. ASSUME NEW w \in Workers, PublishWrite(w) PROVE Numbered'
    <2>1. PICK n \in Nat : Generations = 1 .. n /\ local[w].generation = n + 1
      BY <1>1, PublicationFacts
    <2>2. Generations' = Generations \union {local[w].generation}
      <3> DEFINE s == [generation |-> local[w].generation, view |-> local[w].view]
      <3>1. snapshots' = snapshots \union {s} /\ s.generation = local[w].generation
        BY <1>1 DEF PublishWrite
      <3> HIDE DEF s
      <3> QED
        BY <3>1 DEF Generations
    <2>3. Generations' = 1 .. (n + 1) /\ n + 1 \in Nat
      BY <2>1, <2>2
    <2> QED
      BY <2>3 DEF Numbered
  <1>2. CASE UNCHANGED snapshots
    BY <1>2 DEF IInv, Numbered, Generations
  <1> QED
    BY <1>1, <1>2, WritingSteps
       DEF tables, Propose, ValidateWrite, ResolveWrite, ReviewWrite,
           DecideWrite, DecideRecord, RollbackWrite

LEMMA ValidationStep ==
    IInv /\ [Next]_vars => ReviewableWasValidated' /\ AcceptedWasValidated'
  <1> SUFFICES ASSUME IInv, [Next]_vars
               PROVE  ReviewableWasValidated' /\ AcceptedWasValidated'
    OBVIOUS
  <1>a. RowsOK /\ Grows /\ ReviewableWasValidated /\ AcceptedWasValidated
    BY TablesGrow DEF IInv
  <1>b. \A c : Validated(c) => Validated(c)'
    BY <1>a DEF Validated, Grows
  <1>1. ReviewableWasValidated'
    <2>1. ASSUME NEW w \in Workers, ValidateWrite(w)
          PROVE  ReviewableWasValidated'
      <3>0. PICK v : v = local[w].candidate
        OBVIOUS
      <3>1. candidates' = [candidates EXCEPT ![v] = Verdict(v)]
        BY <2>1, <3>0 DEF ValidateWrite
      <3>2. Verdict(v) = "pending_review" => Validated(v)'
        <4> DEFINE d == [type |-> "validation", candidate |-> v,
                         outcome |-> "pending_review", generation |-> 0]
        <4>1. Verdict(v) = "pending_review" => v \notin Malformed /\ d \in decisions'
          BY <2>1, <3>0 DEF ValidateWrite, Verdict, Decided
        <4>2. /\ d.type = "validation" /\ d.candidate = v
              /\ d.outcome = "pending_review"
          OBVIOUS
        <4> HIDE DEF d
        <4> QED
          BY <4>1, <4>2 DEF Validated
      <3> QED
        BY <1>a, <1>b, <3>1, <3>2 DEF ReviewableWasValidated, RowsOK
    <2>2. ASSUME NEW w \in Workers, ReviewWrite(w) \/ DecideWrite(w)
          PROVE  ReviewableWasValidated'
      <3>1. local[w] \in Local /\ Choice(local[w])
        BY <1>a DEF IInv, RowsOK, LocalOK, Sound
      <3>2. \/ UNCHANGED candidates
            \/ \E c, state : /\ candidates' = [candidates EXCEPT ![c] = state]
                             /\ state \in {"rejected", "quarantined"}
        BY <2>2, <3>1 DEF ReviewWrite, DecideWrite, At, Choice, OwnerDecisions, StateAfter
      <3> QED
        BY <1>a, <1>b, <3>2 DEF ReviewableWasValidated, RowsOK
    <2>3. ASSUME NEW w \in Workers,
                 \/ \E c \in Candidates : Propose(w, c)
                 \/ ResolveWrite(w) \/ DecideRecord(w)
                 \/ PublishWrite(w) \/ RollbackWrite(w)
          PROVE  ReviewableWasValidated'
      BY <1>a, <1>b, <2>3
         DEF Propose, ResolveWrite, DecideRecord, PublishWrite, RollbackWrite,
             ReviewableWasValidated, RowsOK
    <2>4. CASE UNCHANGED tables
      BY <1>a, <1>b, <2>4 DEF tables, ReviewableWasValidated
    <2> QED
      BY <2>1, <2>2, <2>3, <2>4, WritingSteps
  <1>2. AcceptedWasValidated'
    <2>1. SUFFICES \A a \in assertions' : Validated(a.candidate)'
      BY <2>1 DEF AcceptedWasValidated, Validated
    <2>2. \A a \in assertions : Validated(a.candidate)'
      BY <1>a, <1>b DEF AcceptedWasValidated, Validated
    <2>3. ASSUME NEW w \in Workers, PublishWrite(w)
          PROVE  \A a \in assertions' : Validated(a.candidate)'
      <3>1. PICK c : c = local[w].candidate /\ Validated(c)'
        BY <1>b, <2>3, PublicationFacts
      <3>2. \A a \in assertions' \ assertions : a.candidate = c
        BY <2>3, <3>1 DEF PublishWrite
      <3> QED
        BY <2>2, <3>1, <3>2
    <2>4. ASSUME NEW w \in Workers, RollbackWrite(w)
          PROVE  \A a \in assertions' : Validated(a.candidate)'
      <3>1. \A a \in assertions : Withdrawn(a, local[w]).candidate = a.candidate
        BY <1>a DEF Withdrawn, RowsOK, Assertion
      <3> QED
        BY <2>2, <2>4, <3>1 DEF RollbackWrite
    <2>5. CASE UNCHANGED assertions
      BY <2>2, <2>5
    <2> QED
      BY <2>3, <2>4, <2>5, WritingSteps
         DEF tables, Propose, ValidateWrite, ResolveWrite, ReviewWrite,
             DecideWrite, DecideRecord
  <1> QED
    BY <1>1, <1>2

LEMMA ResolutionStep == IInv /\ [Next]_vars => ResolvedIsUnambiguous'
  <1> SUFFICES ASSUME IInv, [Next]_vars PROVE ResolvedIsUnambiguous'
    OBVIOUS
  <1>a. RowsOK /\ ResolvedIsUnambiguous
    BY DEF IInv
  <1>1. ASSUME NEW w \in Workers, ResolveWrite(w) PROVE ResolvedIsUnambiguous'
    BY <1>a, <1>1 DEF ResolveWrite, RowsOK, Resolution, ResolvedIsUnambiguous, Ambiguous
  <1>2. CASE UNCHANGED resolutions
    BY <1>a, <1>2 DEF ResolvedIsUnambiguous, Ambiguous
  <1> QED
    BY <1>1, <1>2, WritingSteps
       DEF tables, Propose, ValidateWrite, ReviewWrite, DecideWrite,
           DecideRecord, PublishWrite, RollbackWrite

\* The records a publication adds.
Added(w, s, a, d) ==
    /\ snapshots' = snapshots \union {s}
    /\ assertions' = assertions \union {a}
    /\ decisions' = decisions \union {d}
    /\ s.generation = local[w].generation
    /\ a.generation = local[w].generation
    /\ a.candidate = local[w].candidate
    /\ a.entities = {Target(local[w], i) : i \in DOMAIN local[w].payload}
    /\ a.state = "accepted"
    /\ d.type = "publication"
    /\ d.candidate = local[w].candidate
    /\ d.generation = local[w].generation

LEMMA PublicationAdds ==
    ASSUME NEW w \in Workers, PublishWrite(w)
    PROVE  \E s, a, d : Added(w, s, a, d)
  <1> DEFINE l == local[w]
             s == [generation |-> l.generation, view |-> l.view]
             a == [candidate |-> l.candidate, generation |-> l.generation,
                   entities |-> {Target(l, i) : i \in DOMAIN l.payload},
                   state |-> "accepted", projection |-> "upsert"]
             d == [type |-> "publication", candidate |-> l.candidate,
                   outcome |-> "accepted", generation |-> l.generation]
  <1>1. /\ snapshots' = snapshots \union {s}
        /\ assertions' = assertions \union {a}
        /\ decisions' = decisions \union {d}
    BY DEF PublishWrite, Decided
  <1>2. /\ s.generation = l.generation /\ a.generation = l.generation
        /\ a.candidate = l.candidate /\ a.state = "accepted"
        /\ a.entities = {Target(l, i) : i \in DOMAIN l.payload}
        /\ d.type = "publication" /\ d.candidate = l.candidate
        /\ d.generation = l.generation
    OBVIOUS
  <1> HIDE DEF s, a, d
  <1> QED
    BY <1>1, <1>2 DEF Added

\* A rollback keeps which candidate and generation an assertion is of.
LEMMA WithdrawnKeeps ==
    ASSUME NEW a \in Assertion, NEW l
    PROVE  /\ Withdrawn(a, l).candidate = a.candidate
           /\ Withdrawn(a, l).generation = a.generation
           /\ Withdrawn(a, l).entities = a.entities
           /\ Withdrawn(a, l).state =
                 IF a.candidate = l.candidate THEN "superseded" ELSE a.state
  BY DEF Withdrawn, Assertion

LEMMA DecidedAdds ==
    ASSUME NEW type, NEW c, NEW outcome, NEW g, Decided(type, c, outcome, g)
    PROVE  \E d : decisions' = decisions \union {d} /\ d.type = type
  <1> DEFINE d == [type |-> type, candidate |-> c, outcome |-> outcome,
                   generation |-> g]
  <1>1. decisions' = decisions \union {d} /\ d.type = type
    BY DEF Decided
  <1> HIDE DEF d
  <1> QED
    BY <1>1

LEMMA AccountStep == IInv /\ [Next]_vars => GenerationsAccounted'
  <1> SUFFICES ASSUME IInv, [Next]_vars PROVE GenerationsAccounted'
    OBVIOUS
  <1>a. RowsOK /\ GenerationsAccounted /\ Numbered'
    BY NumberedStep DEF IInv
  <1>b. \A g \in Generations' : \A h \in 1 .. g : h \in Generations'
    BY <1>a DEF Numbered
  <1>1. ASSUME NEW w \in Workers, PublishWrite(w) PROVE GenerationsAccounted'
    <2>1. PICK s, a, d : Added(w, s, a, d)
      BY <1>1, PublicationAdds
    <2>2. PICK g \in Nat : g = local[w].generation /\ g \notin Generations
      BY <1>1, PublicationFacts
    <2>3. /\ \A t \in snapshots : t.generation # g
          /\ \A b \in assertions : b.generation # g
      BY <1>a, <2>2 DEF Generations, GenerationsAccounted
    <2>4. \A t, u \in snapshots' : t.generation = u.generation => t = u
      BY <1>a, <2>1, <2>2, <2>3 DEF Added, GenerationsAccounted
    <2>5. \A b, e \in assertions' : b.generation = e.generation => b = e
      BY <1>a, <2>1, <2>2, <2>3 DEF Added, GenerationsAccounted
    <2>6. Generations' = {b.generation : b \in assertions'}
      <3>1. Generations' = Generations \union {g}
        BY <2>1, <2>2 DEF Added, Generations
      <3>2. {b.generation : b \in assertions'} =
            {b.generation : b \in assertions} \union {g}
        BY <2>1, <2>2 DEF Added
      <3> QED
        BY <1>a, <3>1, <3>2 DEF GenerationsAccounted
    <2>7. {<<b.candidate, b.generation>> : b \in assertions'} =
          {<<x.candidate, x.generation>> : x \in {y \in decisions' : y.type = "publication"}}
      <3>1. {<<b.candidate, b.generation>> : b \in assertions'} =
            {<<b.candidate, b.generation>> : b \in assertions}
                \union {<<a.candidate, a.generation>>}
        BY <2>1 DEF Added
      <3>2. {y \in decisions' : y.type = "publication"} =
            {y \in decisions : y.type = "publication"} \union {d}
        BY <2>1 DEF Added
      <3>3. <<d.candidate, d.generation>> = <<a.candidate, a.generation>>
        BY <2>1 DEF Added
      <3> QED
        BY <1>a, <3>1, <3>2, <3>3 DEF GenerationsAccounted
    <2> QED
      BY <1>b, <2>4, <2>5, <2>6, <2>7 DEF GenerationsAccounted
  <1>2. ASSUME NEW w \in Workers, RollbackWrite(w) PROVE GenerationsAccounted'
    <2> DEFINE l == local[w]
    <2>1. assertions' = {Withdrawn(a, l) : a \in assertions}
      BY <1>2 DEF RollbackWrite
    <2> HIDE DEF l
    <2>2. \A a \in assertions : /\ Withdrawn(a, l).candidate = a.candidate
                                /\ Withdrawn(a, l).generation = a.generation
      BY <1>a, WithdrawnKeeps DEF RowsOK
    <2>3. UNCHANGED snapshots
      BY <1>2 DEF RollbackWrite
    <2>4. \A b, e \in assertions' : b.generation = e.generation => b = e
      <3> SUFFICES ASSUME NEW a \in assertions, NEW f \in assertions,
                          Withdrawn(a, l).generation = Withdrawn(f, l).generation
                   PROVE  Withdrawn(a, l) = Withdrawn(f, l)
        BY <2>1
      <3>1. a = f
        BY <1>a, <2>2 DEF GenerationsAccounted
      <3> QED
        BY <3>1
    <2>5. {b.generation : b \in assertions'} = {a.generation : a \in assertions}
      BY <2>1, <2>2
    <2>6. {<<b.candidate, b.generation>> : b \in assertions'} =
          {<<a.candidate, a.generation>> : a \in assertions}
      BY <2>1, <2>2
    <2>7. {y \in decisions' : y.type = "publication"} =
          {y \in decisions : y.type = "publication"}
      <3>1. PICK d : decisions' = decisions \union {d} /\ d.type = "rollback"
        BY <1>2, DecidedAdds DEF RollbackWrite
      <3> QED
        BY <3>1
    <2> QED
      BY <1>a, <1>b, <2>3, <2>4, <2>5, <2>6, <2>7 DEF GenerationsAccounted, Generations
  <1>3. ASSUME UNCHANGED <<snapshots, assertions>>,
               \/ UNCHANGED decisions
               \/ \E w \in Workers : ValidateWrite(w)
        PROVE  GenerationsAccounted'
    <2>1. {y \in decisions' : y.type = "publication"} =
          {y \in decisions : y.type = "publication"}
      <3>1. CASE UNCHANGED decisions
        BY <3>1
      <3>2. CASE \E w \in Workers : ValidateWrite(w)
        <4>1. PICK d : decisions' = decisions \union {d} /\ d.type = "validation"
          BY <3>2, DecidedAdds DEF ValidateWrite
        <4> QED
          BY <4>1
      <3> QED
        BY <1>3, <3>1, <3>2
    <2> QED
      BY <1>3, <1>a, <2>1 DEF GenerationsAccounted, Generations
  <1> QED
    BY <1>1, <1>2, <1>3, WritingSteps
       DEF tables, Propose, ValidateWrite, ResolveWrite, ReviewWrite,
           DecideWrite, DecideRecord

LEMMA EntityStep == IInv /\ [Next]_vars => AcceptedEntitiesAsserted'
  <1> SUFFICES ASSUME IInv, [Next]_vars PROVE AcceptedEntitiesAsserted'
    OBVIOUS
  <1> USE DEF AcceptedEntitiesAsserted, AcceptedEntities, Asserted
  <1>a. RowsOK /\ AcceptedEntitiesAsserted
    BY DEF IInv
  <1>1. ASSUME NEW w \in Workers, PublishWrite(w)
        PROVE  AcceptedEntitiesAsserted'
    <2>1. PICK s, a, d : Added(w, s, a, d)
      BY <1>1, PublicationAdds
    <2>2. SUFFICES ASSUME NEW e \in Entities, entities'[e].state = "accepted"
                   PROVE  \E b \in assertions' : b.state = "accepted" /\ e \in b.entities
      OBVIOUS
    <2>3. CASE e \in {Target(local[w], i) : i \in local[w].inserts}
      <3>1. e \in a.entities
        BY <1>1, <2>1, <2>3, PublicationFacts DEF Added
      <3> QED
        BY <2>1, <3>1 DEF Added
    <2>4. CASE e \notin {Target(local[w], i) : i \in local[w].inserts}
      <3>1. entities[e].state = "accepted"
        BY <1>1, <2>2, <2>4 DEF PublishWrite
      <3> QED
        BY <1>a, <2>1, <3>1 DEF Added
    <2> QED
      BY <2>3, <2>4
  <1>2. ASSUME NEW w \in Workers, RollbackWrite(w)
        PROVE  AcceptedEntitiesAsserted'
    <2> SUFFICES ASSUME NEW e \in Entities, entities'[e].state = "accepted"
                 PROVE  \E b \in assertions' : b.state = "accepted" /\ e \in b.entities
      OBVIOUS
    <2>1. entities'[e] = OrphanSuperseded(entities[e], e, assertions')
      BY <1>2 DEF RollbackWrite
    <2>2. entities[e] \in Entity
      BY <1>a DEF RowsOK
    <2> QED
      BY <2>1, <2>2 DEF OrphanSuperseded, Entity
  <1>3. CASE UNCHANGED <<entities, assertions>>
    BY <1>a, <1>3
  <1> QED
    BY <1>1, <1>2, <1>3, WritingSteps
       DEF tables, Propose, ValidateWrite, ResolveWrite, ReviewWrite,
           DecideWrite, DecideRecord

\* The assertions of a committed candidate keep to the resolution.
Keeps(receipt) ==
    LET c == receipt.candidate
        r == resolutions[c] IN
    \E a \in assertions :
        /\ a.candidate = c
        /\ a.generation = receipt.generation
        /\ \A i \in DOMAIN Payload[c] :
              r.matches[Label[Payload[c][i]]] \subseteq a.entities

LEMMA CommitStep == IInv /\ [Next]_vars => CommitsAuthorised'
  <1> SUFFICES ASSUME IInv, [Next]_vars PROVE CommitsAuthorised'
    OBVIOUS
  <1>a. RowsOK /\ Grows /\ CommitsAuthorised /\ ResolvedIsUnambiguous
    BY TablesGrow DEF IInv
  <1>b. \A receipt \in commits :
           /\ receipt.candidate \in Candidates
           /\ Approved(receipt.candidate)
           /\ Approved(receipt.candidate)'
           /\ resolutions[receipt.candidate].outcome = "resolved"
           /\ resolutions'[receipt.candidate] = resolutions[receipt.candidate]
           /\ Keeps(receipt)
    BY <1>a DEF RowsOK, Commit, Grows, CommitsAuthorised, Approved, Keeps
  <1>c. ASSUME \A receipt \in commits' :
                  /\ \A other \in commits' :
                        other.candidate = receipt.candidate => other = receipt
                  /\ Approved(receipt.candidate)'
                  /\ resolutions'[receipt.candidate].outcome = "resolved"
                  /\ Keeps(receipt)'
        PROVE  CommitsAuthorised'
    BY <1>c DEF CommitsAuthorised, Keeps, Approved
  <1>d. ASSUME NEW receipt \in commits, assertions \subseteq assertions'
        PROVE  Keeps(receipt)'
    BY <1>b, <1>d DEF Keeps
  <1>1. ASSUME NEW w \in Workers, PublishWrite(w), local[w].key = NoKey
        PROVE  CommitsAuthorised'
    <2>1. PICK s, a, d : Added(w, s, a, d)
      BY <1>1, PublicationAdds
    <2>2. PICK l \in Local : /\ l = local[w]
                             /\ Sound(l)
                             /\ l.pc = "publish_write"
                             /\ l.candidate \in Candidates
                             /\ DOMAIN l.payload = 1 .. Len(l.payload)
      BY <1>1, PublicationFacts
    <2>3. /\ l.payload = Payload[l.candidate]
          /\ Approved(l.candidate)
          /\ resolutions[l.candidate].outcome = "resolved"
          /\ l.matches = resolutions[l.candidate].matches
      BY <1>1, <2>2 DEF Sound, Walk, Rests, PublishSteps, RollbackSteps
    <2>4. PICK receipt : /\ receipt.candidate = l.candidate
                         /\ receipt.generation = l.generation
                         /\ commits' = commits \union {receipt}
      <3> DEFINE new == [candidate |-> l.candidate, generation |-> l.generation]
      <3>1. commits' = commits \union {new}
        BY <1>1, <2>2 DEF PublishWrite, IsOwnerCommit
      <3>2. new.candidate = l.candidate /\ new.generation = l.generation
        OBVIOUS
      <3> HIDE DEF new
      <3> QED
        BY <3>1, <3>2
    <2>5. \A other \in commits : other.candidate # l.candidate
      BY <1>1, <2>2 DEF PublishWrite, Insertable, IsOwnerCommit, Committed
    <2>6. Approved(l.candidate)'
      BY <1>a, <2>2, <2>3 DEF Approved, Grows
    <2>7. resolutions'[l.candidate] = resolutions[l.candidate]
      BY <1>a, <2>2, <2>3 DEF Grows
    <2>8. ASSUME NEW i \in DOMAIN Payload[l.candidate]
          PROVE  l.matches[Label[Payload[l.candidate][i]]] \subseteq a.entities
      <3>1. i \in 1 .. Len(l.payload)
        BY <2>2, <2>3
      <3> DEFINE lab == Label[l.payload[i]]
      <3>2. lab \in Labels /\ (l.matches[lab] # {} => Target(l, i) \in l.matches[lab])
        BY <3>1, TargetType
      <3>3. Target(l, i) \in a.entities
        BY <2>1, <2>2, <3>1 DEF Added
      <3>3a. ~Ambiguous(l.matches)
        BY <1>a, <2>2, <2>3 DEF ResolvedIsUnambiguous
      <3> HIDE DEF lab
      <3>4. \A e, f \in l.matches[lab] : e = f
        BY <3>2, <3>3a DEF Ambiguous
      <3>5. l.matches[lab] \subseteq a.entities
        BY <3>2, <3>3, <3>4
      <3> QED
        BY <2>3, <3>5 DEF lab
    <2>9. Keeps(receipt)'
      <3>1. a \in assertions' /\ a.candidate = l.candidate /\ a.generation = l.generation
        BY <2>1, <2>2 DEF Added
      <3> QED
        BY <2>3, <2>4, <2>7, <2>8, <3>1 DEF Keeps
    <2>10. assertions \subseteq assertions'
      BY <2>1 DEF Added
    <2>11. \A old \in commits :
              /\ \A other \in commits' : other.candidate = old.candidate => other = old
              /\ Approved(old.candidate)'
              /\ resolutions'[old.candidate].outcome = "resolved"
              /\ Keeps(old)'
      BY <1>a, <1>b, <1>d, <2>4, <2>5, <2>10 DEF CommitsAuthorised
    <2>12. /\ \A other \in commits' : other.candidate = receipt.candidate => other = receipt
           /\ Approved(receipt.candidate)'
           /\ resolutions'[receipt.candidate].outcome = "resolved"
           /\ Keeps(receipt)'
      BY <2>3, <2>4, <2>5, <2>6, <2>7, <2>9
    <2> QED
      BY <1>c, <2>4, <2>11, <2>12
  <1>2. ASSUME UNCHANGED commits, assertions \subseteq assertions'
        PROVE  CommitsAuthorised'
    BY <1>a, <1>b, <1>c, <1>d, <1>2 DEF CommitsAuthorised
  <1>3. ASSUME NEW w \in Workers, PublishWrite(w), local[w].key # NoKey
        PROVE  CommitsAuthorised'
    BY <1>2, <1>3 DEF PublishWrite, IsOwnerCommit
  <1>4. ASSUME NEW w \in Workers, RollbackWrite(w) PROVE CommitsAuthorised'
    <2> DEFINE l == local[w]
    <2>1. /\ assertions' = {Withdrawn(a, l) : a \in assertions}
          /\ UNCHANGED <<commits, resolutions>>
      BY <1>4 DEF RollbackWrite
    <2> HIDE DEF l
    <2>2. ASSUME NEW receipt \in commits PROVE Keeps(receipt)'
      <3>1. PICK a \in assertions :
               /\ a.candidate = receipt.candidate
               /\ a.generation = receipt.generation
               /\ \A i \in DOMAIN Payload[receipt.candidate] :
                     resolutions[receipt.candidate]
                        .matches[Label[Payload[receipt.candidate][i]]] \subseteq a.entities
        BY <1>b DEF Keeps
      <3>2. PICK b \in assertions' : /\ b.candidate = a.candidate
                                     /\ b.generation = a.generation
                                     /\ b.entities = a.entities
        BY <1>a, <2>1, WithdrawnKeeps DEF RowsOK
      <3> QED
        BY <2>1, <3>1, <3>2 DEF Keeps
    <2> QED
      BY <1>a, <1>b, <1>c, <2>1, <2>2 DEF CommitsAuthorised
  <1> QED
    BY <1>1, <1>2, <1>3, <1>4, WritingSteps
       DEF tables, Propose, ValidateWrite, ResolveWrite, ReviewWrite,
           DecideWrite, DecideRecord

-----------------------------------------------------------------------------
(* Accepted memory.                                                        *)

LEMMA InitRefines == Init => Canon!Init
  <1> SUFFICES ASSUME Init PROVE Canon!Init
    OBVIOUS
  <1>1. Generations = 1 .. 0 /\ AcceptedAssertions = {}
    BY DEF Init, Generations, AcceptedAssertions
  <1>2. LastOf(Generations) = 0
    BY <1>1, LastOfRange
  <1> QED
    BY <1>1, <1>2 DEF Canon!Init

\* A publication adds one generation, a rollback withdraws one candidate, and
\* no other statement touches accepted memory.
LEMMA StepRefines == IInv /\ [Next]_vars => [Canon!Next]_Canon!vars
  <1> SUFFICES ASSUME IInv, [Next]_vars
               PROVE  Canon!Next \/ UNCHANGED Canon!vars
    OBVIOUS
  <1>1. ASSUME NEW w \in Workers, PublishWrite(w) PROVE Canon!Next
    <2>1. PICK s, a, d : Added(w, s, a, d)
      BY <1>1, PublicationAdds
    <2>2. PICK n \in Nat, c \in Candidates :
             /\ Generations = 1 .. n
             /\ local[w].generation = n + 1
             /\ local[w].candidate = c
      BY <1>1, PublicationFacts
    <2>3. Generations' = 1 .. (n + 1)
      <3>1. Generations' = Generations \union {n + 1}
        BY <2>1, <2>2 DEF Added, Generations
      <3> QED
        BY <2>2, <3>1
    <2>4. LastOf(Generations) = n /\ LastOf(Generations)' = n + 1
      <3>1. LastOf(1 .. n) = n /\ LastOf(1 .. (n + 1)) = n + 1
        BY LastOfRange
      <3> QED
        BY <2>2, <2>3, <3>1 DEF LastOf
    <2>5. AcceptedAssertions' = AcceptedAssertions \union {<<c, n + 1>>}
      <3>1. {b \in assertions' : b.state = "accepted"} =
            {b \in assertions : b.state = "accepted"} \union {a}
        BY <2>1 DEF Added
      <3>2. <<a.candidate, a.generation>> = <<c, n + 1>>
        BY <2>1, <2>2 DEF Added
      <3> QED
        BY <3>1, <3>2 DEF AcceptedAssertions
    <2>6. Canon!Publish(c)
      BY <2>4, <2>5 DEF Canon!Publish
    <2> QED
      BY <2>6 DEF Canon!Next
  <1>2. ASSUME NEW w \in Workers, RollbackWrite(w) PROVE Canon!Next
    <2>1. PICK c \in Candidates : c = local[w].candidate
      BY <1>2 DEF IInv, LocalOK, Sound, Choice, RollbackWrite, At
    <2> DEFINE l == local[w]
    <2>2. assertions' = {Withdrawn(a, l) : a \in assertions}
      BY <1>2 DEF RollbackWrite
    <2>a. c = l.candidate
      BY <2>1
    <2> HIDE DEF l
    <2>3. \A a \in assertions :
             /\ Withdrawn(a, l).candidate = a.candidate
             /\ Withdrawn(a, l).generation = a.generation
             /\ Withdrawn(a, l).state = IF a.candidate = c THEN "superseded" ELSE a.state
      BY <2>a, WithdrawnKeeps DEF IInv, RowsOK
    <2>4. AcceptedAssertions' = {m \in AcceptedAssertions : m[1] # c}
      <3>1. ASSUME NEW m \in AcceptedAssertions'
            PROVE  m \in AcceptedAssertions /\ m[1] # c
        <4>1. PICK b \in assertions' : b.state = "accepted" /\ m = <<b.candidate, b.generation>>
          BY DEF AcceptedAssertions
        <4>2. PICK a \in assertions : b = Withdrawn(a, l)
          BY <2>2
        <4>3. a.state = "accepted" /\ a.candidate # c /\ m = <<a.candidate, a.generation>>
          BY <2>3, <4>1, <4>2
        <4> QED
          BY <4>3 DEF AcceptedAssertions
      <3>2. ASSUME NEW m \in AcceptedAssertions, m[1] # c
            PROVE  m \in AcceptedAssertions'
        <4>1. PICK a \in assertions : a.state = "accepted" /\ m = <<a.candidate, a.generation>>
          BY DEF AcceptedAssertions
        <4>2. PICK b \in assertions' : b = Withdrawn(a, l)
          BY <2>2
        <4>3. b.state = "accepted" /\ m = <<b.candidate, b.generation>>
          BY <2>3, <3>2, <4>1, <4>2
        <4> QED
          BY <4>3 DEF AcceptedAssertions
      <3> QED
        BY <3>1, <3>2
    <2>5. LastOf(Generations)' = LastOf(Generations)
      BY <1>2 DEF RollbackWrite, LastOf, Generations
    <2>6. Canon!Withdraw(c)
      BY <2>4, <2>5 DEF Canon!Withdraw
    <2> QED
      BY <2>6 DEF Canon!Next
  <1>3. CASE UNCHANGED <<snapshots, assertions>>
    BY <1>3 DEF Canon!vars, LastOf, Generations, AcceptedAssertions
  <1> QED
    BY <1>1, <1>2, <1>3, WritingSteps
       DEF tables, Propose, ValidateWrite, ResolveWrite, ReviewWrite,
           DecideWrite, DecideRecord

-----------------------------------------------------------------------------
(* What the indexes are told.                                              *)

-----------------------------------------------------------------------------
(* The history variables.                                                  *)

LEMMA HistoryStep == IInv /\ HistoryOK /\ [Next]_vars => HistoryOK'
  <1> SUFFICES ASSUME IInv, HistoryOK, [Next]_vars PROVE HistoryOK'
    OBVIOUS
  <1>1. CASE UNCHANGED vars
    BY <1>1 DEF vars, history, HistoryOK
  <1>2. ASSUME NEW w \in Workers, RecordHistory(w) PROVE HistoryOK'
    <2>1. contended' \subseteq Candidates
      <3>1. ASSUME NEW v \in Workers,
                   local[v].pc \in PublishSteps \union {"validate_write"}
            PROVE  local[v].candidate \in Candidates
        BY <3>1 DEF PublishSteps, IInv, LocalOK, Sound, Choice
      <3>2. contended' = contended \/ contended' = contended \union {local[w].candidate}
        BY <1>2 DEF RecordHistory
      <3>3. contended' # contended => local[w].candidate \in Candidates
        BY <1>2, <3>1 DEF RecordHistory
      <3> QED
        BY <3>2, <3>3 DEF HistoryOK
    <2>2. swept' \subseteq Entities /\ outrun' \subseteq Workers
      BY <1>2 DEF RecordHistory, HistoryOK
    <2>3. stale' \subseteq Nat
      <3>1. local[w].generation \in Nat
        BY DEF IInv, RowsOK, Local
      <3> QED
        BY <1>2, <3>1 DEF RecordHistory, HistoryOK
    <2> QED
      BY <2>1, <2>2, <2>3 DEF HistoryOK
  <1> QED
    BY <1>1, <1>2 DEF Next

-----------------------------------------------------------------------------
(* The theorems.                                                           *)

LEMMA Inductive == Spec => []IInv
  <1>1. IInv /\ [Next]_vars => IInv'
    BY TypeStep, LocalStep, NumberedStep, ValidationStep, ResolutionStep,
       AccountStep, CommitStep, EntityStep DEF IInv
  <1> QED
    BY <1>1, InitEstablishes, PTL DEF Spec

\* Every table, and every local a review request carries across an await,
\* keeps its domain: no statement writes a row in a state that the schema of
\* migration 003 rules out.
THEOREM ReviewTypeCorrect == Spec => []TypeOK
  <1>1. Init => HistoryOK
    BY DEF Init, HistoryOK
  <1>2. IInv /\ HistoryOK /\ [Next]_vars => HistoryOK'
    BY HistoryStep
  <1>3. IInv /\ HistoryOK => TypeOK
    BY DEF IInv, RowsOK, HistoryOK, TypeOK
  <1> QED
    BY <1>1, <1>2, <1>3, Inductive, PTL DEF Spec

\* However requests interleave and stop: publishMemoryCandidate numbers the
\* generations without a gap or a repetition, and each has one snapshot, one
\* decision and one set of assertions, all of one candidate.
THEOREM GenerationsAreAccounted == Spec => []GenerationsAccounted
  <1>1. IInv => GenerationsAccounted
    BY DEF IInv
  <1> QED
    BY <1>1, Inductive, PTL

\* However requests interleave and stop: a candidate has at most one receipt of
\* commitOwnerReviewedCandidate, the owner had approved it, and what it
\* published keeps to the entities resolveMemoryCandidate had found.
THEOREM CommitsAreAuthorised == Spec => []CommitsAuthorised
  <1>1. IInv => CommitsAuthorised
    BY DEF IInv
  <1> QED
    BY <1>1, Inductive, PTL

\* However requests interleave and stop, with edits or without: nothing is
\* accepted from a candidate validateMemoryCandidate has not passed.
THEOREM AcceptedPassedValidation == Spec => []AcceptedWasValidated
  <1>1. IInv => AcceptedWasValidated
    BY DEF IInv
  <1> QED
    BY <1>1, Inductive, PTL

\* Neither a racing request nor a retry replaces the owner's answer or the
\* resolution it rests on, because both tables are unique by candidate.
THEOREM ReceiptsAreFinal == Spec => ReceiptsFinal
  <1>1. IInv /\ [Next]_vars =>
          [\A c \in Candidates :
              /\ reviews[c] # "none" => reviews'[c] = reviews[c]
              /\ resolutions[c].outcome # "none" => resolutions'[c] = resolutions[c]]_vars
    BY TablesGrow DEF IInv, Grows
  <1> QED
    BY <1>1, Inductive, PTL DEF Spec, ReceiptsFinal

\* The handlers implement AcceptedMemory: every statement publishes one whole
\* generation of one candidate, withdraws one whole candidate, or leaves
\* accepted memory as it is.
THEOREM ImplementsAcceptedMemory == Spec => RefinesAcceptedMemory
  <1> QED
    BY InitRefines, StepRefines, Inductive, PTL
       DEF Spec, RefinesAcceptedMemory, Canon!Spec

-----------------------------------------------------------------------------
(* Publication and rollback, of requests that overlap or are cut off.      *)

\* The lookup of assertion i found its entity accepted, or will insert it, or
\* a rollback superseded it since.
Located(l, i) ==
    \/ i \in l.inserts
    \/ entities[Target(l, i)].state = "accepted"
    \/ Target(l, i) \in swept

\* What a request relies on.  Of a candidate that is not published in a race it
\* knows what was published, and what there is to delete.
Current(l) ==
    /\ l.pc \in PublishSteps \union {"validate_write"} /\ l.candidate \notin contended =>
          \A a \in assertions : a.candidate # l.candidate
    /\ l.pc \in {"publish_lookup", "publish_write"} =>
          \A i \in 1 .. l.index - 1 : Located(l, i)
    /\ l.pc = "publish_write" => l.index = Len(l.payload) + 1
    /\ l.pc \in RollbackSteps =>
          \E a \in assertions : /\ a.candidate = l.candidate
                                /\ a.generation = l.generation
    /\ l.pc = "rollback_write" /\ l.candidate \notin contended =>
          \A a \in assertions :
              a.candidate = l.candidate /\ a.state = "accepted" =>
                  a.generation \in l.listed

\* What a publication has read of accepted memory is still so.
Fresh(l) ==
    l.pc \in ViewSteps =>
        /\ l.view.entities = AcceptedEntities
        /\ l.pc # "publish_assertions" => l.view.assertions = AcceptedAssertions

LocalsCurrent ==
    \A w \in Workers : Current(local[w]) /\ (w \notin outrun => Fresh(local[w]))

Decisive == {"accepted", "rejected", "quarantined"}

\* A candidate that was published is never reviewable again.
PublishedIsDecided ==
    \A a \in assertions :
        a.candidate \notin contended => candidates[a.candidate] \in Decisive

Rollbacks == {d \in decisions : d.type = "rollback"}

\* A rollback is of a generation of its candidate, and what is withdrawn was
\* withdrawn by a rollback of its candidate.
WithdrawnByRollback ==
    /\ \A a \in assertions : a.state = "superseded" =>
          \E d \in Rollbacks : d.candidate = a.candidate
    /\ \A d \in Rollbacks :
          \E a \in assertions : /\ a.candidate = d.candidate
                                /\ a.generation = d.generation

\* What was published before generation g.
Before(g) == {a \in assertions : a.generation < g}

EntitiesBefore(g) == UNION {a.entities : a \in Before(g)}

AssertionsBefore(g) == {<<a.candidate, a.generation>> : a \in Before(g)}

\* Unless it was outrun, or an earlier generation was rolled back, a snapshot
\* shows all that was published before it.
SnapshotsRecall ==
    \A s \in snapshots :
        s.generation \notin stale /\ (\A d \in Rollbacks : d.generation > s.generation) =>
           /\ s.view.entities \ swept = EntitiesBefore(s.generation) \ swept
           /\ s.view.assertions = AssertionsBefore(s.generation)

ReviewInv ==
    /\ LocalsCurrent
    /\ PublishedIsDecided
    /\ PublishedOnce
    /\ CanonIsConsistent
    /\ ProjectionFollowsState
    /\ WithdrawnByRollback
    /\ SnapshotsRecall

LEMMA ReviewInit == Init => ReviewInv
  <1> SUFFICES ASSUME Init PROVE ReviewInv
    OBVIOUS
  <1>1. LocalsCurrent
    <2>1. \A w \in Workers : local[w].pc = "idle"
      BY DEF Init, Idle
    <2> QED
      BY <2>1 DEF LocalsCurrent, Current, Fresh, ViewSteps, PublishSteps, RollbackSteps
  <1>2. CanonIsConsistent
    BY DEF Init, CanonIsConsistent, Asserted, AcceptedEntities
  <1> QED
    BY <1>1, <1>2 DEF Init, ReviewInv, PublishedIsDecided, PublishedOnce,
       ProjectionFollowsState, WithdrawnByRollback, Rollbacks, SnapshotsRecall

\* The steps whose request relies on what it read.
Relying == {"validate_write"} \union PublishSteps \union RollbackSteps

LEMMA IdleCurrent ==
    ASSUME NEW l, l.pc \notin Relying PROVE Current(l)' /\ Fresh(l)'
  BY DEF Relying, Current, Fresh, ViewSteps, PublishSteps, RollbackSteps

\* What holds of a value holds of the request that has it.
LEMMA CurrentNext ==
    ASSUME NEW w, NEW k, k = local'[w]
    PROVE  /\ Current(k)' => Current(local[w])'
           /\ Fresh(k)' => Fresh(local[w])'
  <1>1. \A i : Located(k, i)' => Located(local[w], i)'
    BY DEF Located
  <1> QED
    BY <1>1 DEF Current, Fresh

\* A step that publishes nothing and supersedes nothing leaves what is recorded
\* of tables.
LEMMA QuietHistory ==
    ASSUME NEW w \in Workers, RecordHistory(w), UNCHANGED <<entities, snapshots>>
    PROVE  UNCHANGED <<contended, swept, stale>>
  <1>1. ~Published
    BY DEF Published
  <1>2. UNCHANGED contended /\ UNCHANGED stale
    BY <1>1 DEF RecordHistory
  <1>3. UNCHANGED swept
    BY DEF RecordHistory
  <1> QED
    BY <1>2, <1>3

LEMMA HistoryGrows ==
    ASSUME NEW w \in Workers, RecordHistory(w)
    PROVE  /\ contended \subseteq contended'
           /\ swept \subseteq swept'
           /\ stale \subseteq stale'
  BY DEF RecordHistory

\* A request that was just read in.
LEMMA RequestCurrent ==
    ASSUME IInv, ReviewInv, NEW w \in Workers, Request(w), RecordHistory(w)
    PROVE  Current(local[w])' /\ (w \notin outrun => Fresh(local[w])')
  <1>a. local \in [Workers -> Local] /\ local[w] \in Local
    BY DEF IInv, RowsOK
  <1>b. PICK k \in Local : k = local'[w]
    BY TypeStep DEF IInv, RowsOK, Next
  <1>c. SUFFICES Current(k)' /\ Fresh(k)'
    BY <1>b, CurrentNext
  <1>d. UNCHANGED <<entities, snapshots, assertions>>
    BY RequestsReadOnly DEF tables, Propose
  <1>e. UNCHANGED <<contended, swept>>
    BY <1>d, QuietHistory
  <1>0. ASSUME k.pc \notin Relying PROVE Current(k)' /\ Fresh(k)'
    BY <1>0, IdleCurrent
  <1> USE DEF Relying, PublishSteps, RollbackSteps, ViewSteps
  <1>1. ASSUME NEW c \in Candidates, Propose(w, c) PROVE k.pc \notin Relying
    BY <1>1, <1>b DEF Propose, At
  <1>2. ASSUME NEW c \in Candidates, NEW step, NEW decision, NEW key,
               BeginDecision(w, c, step, decision, key)
        PROVE  k.pc = step /\ k.candidate = c
    <2>1. k = [Idle EXCEPT !.pc = step, !.candidate = c,
                   !.payload = Payload[c], !.decision = decision, !.key = key]
      BY <1>2, <1>a, <1>b DEF BeginDecision
    <2> QED
      BY <2>1 DEF Idle
  <1>3. ASSUME NEW c \in Candidates, ValidateRead(w, c) PROVE Current(k)' /\ Fresh(k)'
    <2>1. k.pc = "validate_write" /\ k.candidate = c
      BY <1>2, <1>3 DEF ValidateRead, Begin
    <2>2. c \notin contended => \A a \in assertions : a.candidate # c
      BY <1>3 DEF ValidateRead, ReviewInv, PublishedIsDecided, Decisive
    <2> QED
      BY <1>d, <1>e, <2>1, <2>2 DEF Current, Fresh
  <1>4. ASSUME NEW c \in Candidates,
               \/ ResolveRead(w, c) \/ CommitRead(w, c)
               \/ \E decision \in OwnerChoices : ReviewRead(w, c, decision)
               \/ \E decision \in ReviewChoices, key \in Keys :
                     DecideRead(w, c, decision, key)
        PROVE  k.pc \notin Relying
    <2>1. k.pc \in {"resolve_receipt", "commit_resolution", "review_candidate",
                    "decide_candidate"}
      BY <1>2, <1>4 DEF ResolveRead, CommitRead, ReviewRead, DecideRead, Begin
    <2> QED
      BY <2>1
  <1>5. ASSUME NEW d \in decisions, RollbackRead(w, d) PROVE Current(k)' /\ Fresh(k)'
    <2>1. k = [Idle EXCEPT !.pc = "rollback_list", !.candidate = d.candidate,
                           !.generation = d.generation]
      BY <1>5, <1>a, <1>b DEF RollbackRead
    <2>2. /\ k.pc = "rollback_list" /\ k.candidate = d.candidate
          /\ k.generation = d.generation
      BY <2>1 DEF Idle
    <2>3. <<d.candidate, d.generation>> \in
             {<<x.candidate, x.generation>> : x \in {y \in decisions : y.type = "publication"}}
      BY <1>5 DEF RollbackRead
    <2>4. \E a \in assertions : <<a.candidate, a.generation>> = <<d.candidate, d.generation>>
      <3>1. {<<a.candidate, a.generation>> : a \in assertions} =
            {<<x.candidate, x.generation>> : x \in {y \in decisions : y.type = "publication"}}
        BY DEF IInv, GenerationsAccounted
      <3> QED
        BY <2>3, <3>1
    <2>5. \E a \in assertions' : a.candidate = k.candidate /\ a.generation = k.generation
      BY <1>d, <2>2, <2>4
    <2> QED
      BY <2>2, <2>5 DEF Current, Fresh
  <1> QED
    BY <1>0, <1>1, <1>3, <1>4, <1>5 DEF Request

\* Lookups stay good as the request goes on.
LEMMA LocatedMoves ==
    ASSUME NEW l, NEW k, NEW i, k.payload = l.payload, k.matches = l.matches,
           l.inserts \subseteq k.inserts, Located(l, i),
           UNCHANGED <<entities, swept>>
    PROVE  Located(k, i)'
  BY DEF Located, Target

LEMMA ReadCurrent ==
    ASSUME IInv, ReviewInv, NEW w \in Workers, RecordHistory(w),
           \/ PublishReadCandidate(w) \/ PublishReadEntities(w)
           \/ PublishReadAssertions(w) \/ PublishReadGeneration(w)
           \/ PublishLookup(w) \/ RollbackList(w)
    PROVE  Current(local[w])' /\ (w \notin outrun => Fresh(local[w])')
  <1>a. /\ local \in [Workers -> Local] /\ RowsOK
        /\ UNCHANGED tables
    BY DEF IInv, RowsOK, PublishReadCandidate, PublishReadEntities,
       PublishReadAssertions, PublishReadGeneration, PublishLookup, RollbackList
  <1>f. UNCHANGED <<contended, swept>>
    BY <1>a, QuietHistory DEF tables
  <1>b. PICK l \in Local : /\ l = local[w] /\ Current(l) /\ Sound(l)
                           /\ w \notin outrun => Fresh(l)
    BY <1>a DEF ReviewInv, LocalsCurrent, IInv, LocalOK
  <1>c. PICK k \in Local : k = local'[w]
    BY TypeStep DEF IInv, RowsOK, Next, Proceed
  <1>d. SUFFICES Current(k)' /\ (w \notin outrun => Fresh(k)')
    BY <1>c, CurrentNext
  <1>e. UNCHANGED <<AcceptedEntities, AcceptedAssertions, assertions, entities,
                    candidates>>
    BY <1>a DEF tables, AcceptedEntities, AcceptedAssertions
  <1>0. ASSUME Return(w) PROVE Current(k)' /\ Fresh(k)'
    <2>1. k.pc = "idle"
      BY <1>0, <1>a, <1>c DEF Return, Idle
    <2> QED
      BY <2>1, IdleCurrent DEF Relying, PublishSteps, RollbackSteps
  <1> USE DEF PublishSteps, RollbackSteps, ViewSteps
  <1>g. l.pc \in PublishSteps /\ l.candidate \notin contended =>
           \A a \in assertions : a.candidate # l.candidate
    BY <1>b DEF Current
  <1>1. CASE PublishReadCandidate(w)
    <2>1. ASSUME ~Return(w) PROVE Current(k)' /\ Fresh(k)'
      <3>1. k = [l EXCEPT !.pc = "publish_entities"]
        BY <1>1, <1>a, <1>b, <1>c, <2>1 DEF PublishReadCandidate, Goto
      <3>2. k.pc = "publish_entities" /\ k.candidate = l.candidate
        BY <3>1 DEF Local
      <3>3. candidates[l.candidate] = "pending_review"
        BY <1>1, <1>a, <1>b, <2>1 DEF PublishReadCandidate, Reviewable
      <3>4. l.candidate \notin contended =>
               \A a \in assertions : a.candidate # l.candidate
        BY <3>3 DEF ReviewInv, PublishedIsDecided, Decisive
      <3> QED
        BY <1>e, <1>f, <3>2, <3>4 DEF Current, Fresh
    <2> QED
      BY <1>0, <2>1
  <1>2. CASE PublishReadEntities(w)
    <2>1. PICK view : view = [l.view EXCEPT !.entities = AcceptedEntities]
      OBVIOUS
    <2>2. k = [l EXCEPT !.pc = "publish_assertions", !.view = view]
      BY <1>2, <1>a, <1>b, <1>c, <2>1 DEF PublishReadEntities, Local
    <2>3. view.entities = AcceptedEntities
      BY <1>b, <2>1 DEF Local, View
    <2>4. k.pc = "publish_assertions" /\ k.candidate = l.candidate /\ k.view = view
      BY <2>2 DEF Local
    <2>5. l.pc = "publish_entities"
      BY <1>2, <1>b DEF PublishReadEntities, At
    <2> QED
      BY <1>e, <1>f, <1>g, <2>3, <2>4, <2>5 DEF Current, Fresh
  <1>3. CASE PublishReadAssertions(w)
    <2>1. PICK view : view = [l.view EXCEPT !.assertions = AcceptedAssertions]
      OBVIOUS
    <2>2. k = [l EXCEPT !.pc = "publish_generation", !.view = view]
      BY <1>3, <1>a, <1>b, <1>c, <2>1 DEF PublishReadAssertions, Local
    <2>3. l.pc = "publish_assertions"
      BY <1>3, <1>b DEF PublishReadAssertions, At
    <2>4. view.assertions = AcceptedAssertions /\ view.entities = l.view.entities
      BY <1>b, <2>1 DEF Local, View
    <2>5. k.pc = "publish_generation" /\ k.candidate = l.candidate /\ k.view = view
      BY <2>2 DEF Local
    <2>6. w \notin outrun => l.view.entities = AcceptedEntities
      BY <1>b, <2>3 DEF Fresh
    <2> QED
      BY <1>e, <1>f, <1>g, <2>3, <2>4, <2>5, <2>6 DEF Current, Fresh
  <1>4. CASE PublishReadGeneration(w)
    <2>1. k = [l EXCEPT !.pc = "publish_lookup",
                        !.generation = LastOf(Generations) + 1, !.index = 1]
      BY <1>4, <1>a, <1>b, <1>c DEF PublishReadGeneration
    <2>2. /\ k.pc = "publish_lookup" /\ k.index = 1 /\ k.view = l.view
          /\ k.candidate = l.candidate
      BY <2>1 DEF Local
    <2>3. l.pc = "publish_generation"
      BY <1>4, <1>b DEF PublishReadGeneration, At
    <2>4. \A i \in 1 .. k.index - 1 : FALSE
      BY <2>2
    <2>5. w \notin outrun => /\ l.view.entities = AcceptedEntities
                             /\ l.view.assertions = AcceptedAssertions
      BY <1>b, <2>3 DEF Fresh
    <2> QED
      BY <1>e, <1>f, <1>g, <2>2, <2>3, <2>4, <2>5 DEF Current, Fresh
  <1>5. CASE PublishLookup(w)
    <2> DEFINE j == l.index
               row == entities[Target(l, j)]
    <2>1. /\ l.pc = "publish_lookup" /\ j \in 1 .. Len(l.payload)
          /\ \A i \in 1 .. j - 1 : Located(l, i)
      BY <1>5, <1>b DEF PublishLookup, At, Current, Sound, Walk
    <2>5. w \notin outrun => /\ l.view.entities = AcceptedEntities
                             /\ l.view.assertions = AcceptedAssertions
      BY <1>b, <2>1 DEF Fresh
    <2>2. Target(l, j) \in Entities /\ j \in Nat
      BY <1>b, <2>1, TargetType
    <2>3. row.state \in {"absent", "accepted", "superseded"}
      BY <1>a, <2>2 DEF RowsOK, Entity
    <2>4. ASSUME ~Return(w) PROVE Current(k)' /\ (w \notin outrun => Fresh(k)')
      <3>1. row.state # "superseded"
        BY <1>5, <1>b, <2>4 DEF PublishLookup, Unusable
      <3>2. PICK ins : ins = IF row.state = "absent" THEN l.inserts \union {j} ELSE l.inserts
        OBVIOUS
      <3>3. PICK step : step = IF j = Len(l.payload) THEN "publish_write" ELSE l.pc
        OBVIOUS
      <3>4. k = [l EXCEPT !.inserts = ins, !.index = j + 1, !.pc = step]
        BY <1>5, <1>a, <1>b, <1>c, <2>4, <3>2, <3>3 DEF PublishLookup, Local
      <3>5. /\ k.inserts = ins /\ k.index = j + 1 /\ k.pc = step
            /\ k.payload = l.payload /\ k.matches = l.matches
            /\ k.view = l.view /\ k.candidate = l.candidate
        BY <3>4 DEF Local
      <3>6. \A i \in 1 .. j - 1 : Located(k, i)'
        BY <1>e, <1>f, <2>1, <3>2, <3>5, LocatedMoves
      <3>7. Located(k, j)'
        <4>1. CASE row.state = "absent"
          BY <3>2, <3>5, <4>1 DEF Located
        <4>2. CASE row.state = "accepted"
          BY <1>e, <1>f, <3>2, <3>5, <4>2, LocatedMoves DEF Located
        <4> QED
          BY <2>3, <3>1, <4>1, <4>2
      <3>8. \A i \in 1 .. j : Located(k, i)'
        <4>1. \A i \in 1 .. j : i = j \/ i \in 1 .. j - 1
          BY <2>2
        <4> QED
          BY <3>6, <3>7, <4>1
      <3>9. k.index - 1 = j
        BY <2>2, <3>5
      <3>10. (step = "publish_write" /\ Len(k.payload) = j) \/ step = "publish_lookup"
        BY <2>1, <3>3, <3>5
      <3>11. k.candidate \notin contended' => \A a \in assertions' : a.candidate # k.candidate
        BY <1>e, <1>f, <1>g, <2>1, <3>5
      <3>12. w \notin outrun => /\ k.view.entities = AcceptedEntities'
                                /\ k.view.assertions = AcceptedAssertions'
        BY <1>e, <2>5, <3>5
      <3>13. Current(k)'
        BY <3>5, <3>8, <3>9, <3>10, <3>11 DEF Current
      <3> QED
        BY <3>12, <3>13 DEF Fresh
    <2> QED
      BY <1>0, <2>4
  <1>6. CASE RollbackList(w)
    <2>1. PICK listed : listed = {a.generation : a \in {b \in assertions :
                                    b.candidate = l.candidate /\ b.state = "accepted"}}
      OBVIOUS
    <2>2. k = [l EXCEPT !.pc = "rollback_write", !.listed = listed]
      BY <1>6, <1>a, <1>b, <1>c, <2>1 DEF RollbackList
    <2>3. /\ k.pc = "rollback_write" /\ k.listed = listed
          /\ k.candidate = l.candidate /\ k.generation = l.generation
      BY <2>2 DEF Local
    <2>4. \E a \in assertions : a.candidate = l.candidate /\ a.generation = l.generation
      BY <1>6, <1>b DEF RollbackList, At, Current
    <2> QED
      BY <1>e, <2>1, <2>3, <2>4 DEF Current, Fresh
  <1> QED
    BY <1>1, <1>2, <1>3, <1>4, <1>5, <1>6

\* The other steps leave a request that relies on nothing.
LEMMA OtherCurrent ==
    ASSUME IInv, NEW w \in Workers, Proceed(w) \/ Crash(w),
           ~PublishReadCandidate(w), ~PublishReadEntities(w),
           ~PublishReadAssertions(w), ~PublishReadGeneration(w),
           ~PublishLookup(w), ~RollbackList(w)
    PROVE  Current(local[w])' /\ Fresh(local[w])'
  <1>a. local \in [Workers -> Local] /\ local[w] \in Local
    BY DEF IInv, RowsOK
  <1>b. SUFFICES local'[w].pc \notin Relying
    BY DEF Current, Fresh, Relying, ViewSteps, PublishSteps, RollbackSteps
  <1> USE DEF Relying, PublishSteps, RollbackSteps
  <1>0. ASSUME Return(w) PROVE local'[w].pc \notin Relying
    BY <1>0, <1>a DEF Return, Idle
  <1>1. ASSUME NEW step, Goto(w, step), step \notin Relying
        PROVE  local'[w].pc \notin Relying
    BY <1>1, <1>a DEF Goto, Local
  <1>2. CASE ResolveMatch(w)
    <2>1. PICK label :
            local' = [local EXCEPT
                ![w].labels = @ \ {label},
                ![w].matches[label] = AcceptedLabelMatches(label),
                ![w].pc = IF local[w].labels = {label} THEN "resolve_write" ELSE @]
      BY <1>2 DEF ResolveMatch
    <2>2. local[w].pc = "resolve_match"
      BY <1>2 DEF ResolveMatch, At
    <2> QED
      BY <1>a, <2>1, <2>2 DEF Local
  <1>3. CASE ResolveReadReceipt(w) \/ CommitReadResolution(w)
    <2>1. Return(w) \/ local'[w].pc \in {"resolve_match", "commit_review"}
      BY <1>a, <1>3 DEF ResolveReadReceipt, CommitReadResolution, Local
    <2> QED
      BY <1>0, <2>1
  <1>4. CASE DecideReadCandidate(w)
    <2>1. Return(w) \/ Goto(w, "decide_write")
            \/ \E payload : local' = [local EXCEPT ![w].pc = "publish_candidate",
                                                   ![w].payload = payload]
      BY <1>4 DEF DecideReadCandidate
    <2>2. ASSUME NEW payload,
                 local' = [local EXCEPT ![w].pc = "publish_candidate",
                                        ![w].payload = payload]
          PROVE  local'[w].pc = "publish_candidate"
      BY <1>a, <2>2 DEF Local
    <2> QED
      BY <1>0, <1>1, <2>1, <2>2
  <1>5. CASE \/ ValidateWrite(w) \/ ResolveWrite(w) \/ ResolveAborts(w)
             \/ ReviewReadCandidate(w) \/ ReviewReadResolution(w)
             \/ ReviewWrite(w) \/ ReviewAborts(w) \/ CommitReadReview(w)
             \/ DecideWrite(w) \/ DecideRecord(w) \/ PublishWrite(w)
             \/ PublishAborts(w) \/ RollbackWrite(w) \/ Crash(w)
    BY <1>0, <1>1, <1>5
       DEF ValidateWrite, ResolveWrite, ResolveAborts, ReviewReadCandidate,
           ReviewReadResolution, ReviewWrite, ReviewAborts, CommitReadReview,
           DecideWrite, DecideRecord, PublishWrite, PublishAborts,
           RollbackWrite, Crash
  <1> QED
    BY <1>2, <1>3, <1>4, <1>5 DEF Proceed

\* Other statements leave accepted memory alone.
LEMMA QuietStep ==
    ASSUME NEW w \in Workers, Request(w) \/ Proceed(w) \/ Crash(w),
           ~PublishWrite(w), ~RollbackWrite(w)
    PROVE  UNCHANGED <<assertions, snapshots, entities, Rollbacks>>
  <1>0. UNCHANGED decisions => UNCHANGED Rollbacks
    BY DEF Rollbacks
  <1>1. CASE UNCHANGED tables
    BY <1>0, <1>1 DEF tables
  <1>2. CASE ValidateWrite(w)
    <2>1. \E d : decisions' = decisions \union {d} /\ d.type = "validation"
      BY <1>2, DecidedAdds DEF ValidateWrite
    <2>2. UNCHANGED Rollbacks
      BY <2>1 DEF Rollbacks
    <2> QED
      BY <1>2, <2>2 DEF ValidateWrite
  <1>3. CASE \/ \E c \in Candidates : Propose(w, c)
             \/ ResolveWrite(w) \/ ReviewWrite(w)
             \/ DecideWrite(w) \/ DecideRecord(w)
    BY <1>0, <1>3 DEF Propose, ResolveWrite, ReviewWrite, DecideWrite, DecideRecord
  <1>4. CASE Request(w)
    BY <1>1, <1>3, <1>4, RequestsReadOnly
  <1>5. CASE Proceed(w) \/ Crash(w)
    BY <1>1, <1>2, <1>3, <1>5
       DEF Proceed, ResolveReadReceipt, ResolveMatch, ResolveAborts,
           ReviewReadCandidate, ReviewReadResolution, ReviewAborts,
           CommitReadResolution, CommitReadReview, DecideReadCandidate,
           PublishReadCandidate, PublishReadEntities, PublishReadAssertions,
           PublishReadGeneration, PublishLookup, PublishAborts, RollbackList,
           Crash
  <1> QED
    BY <1>4, <1>5

\* The steps as accepted memory sees them.
LEMMA CanonSteps ==
    ASSUME [Next]_vars
    PROVE  \/ \E w \in Workers :
                 PublishWrite(w) /\ RecordHistory(w) /\ UNCHANGED Rollbacks
           \/ \E w \in Workers : \E d :
                 /\ RollbackWrite(w) /\ RecordHistory(w)
                 /\ decisions' = decisions \union {d}
                 /\ d.type = "rollback" /\ d.generation = local[w].generation
                 /\ d.candidate = local[w].candidate
                 /\ Rollbacks' = Rollbacks \union {d}
           \/ UNCHANGED <<assertions, snapshots, entities, Rollbacks,
                          contended, swept, stale>>
  <1>1. ASSUME NEW w \in Workers, PublishWrite(w) PROVE UNCHANGED Rollbacks
    <2>1. \E d : decisions' = decisions \union {d} /\ d.type = "publication"
      BY <1>1, DecidedAdds DEF PublishWrite
    <2> QED
      BY <2>1 DEF Rollbacks
  <1>3. ASSUME NEW w \in Workers, RollbackWrite(w)
        PROVE  \E d : /\ decisions' = decisions \union {d}
                      /\ d.type = "rollback" /\ d.generation = local[w].generation
                      /\ d.candidate = local[w].candidate
                      /\ Rollbacks' = Rollbacks \union {d}
    <2> DEFINE new == [type |-> "rollback", candidate |-> local[w].candidate,
                       outcome |-> "restored", generation |-> local[w].generation]
    <2>1. /\ decisions' = decisions \union {new}
          /\ new.type = "rollback" /\ new.generation = local[w].generation
          /\ new.candidate = local[w].candidate
      BY <1>3 DEF RollbackWrite, Decided
    <2> HIDE DEF new
    <2>2. Rollbacks' = Rollbacks \union {new}
      BY <2>1 DEF Rollbacks
    <2> QED
      BY <2>1, <2>2
  <1>4. UNCHANGED decisions => UNCHANGED Rollbacks
    BY DEF Rollbacks
  <1>6. CASE UNCHANGED vars
    BY <1>4, <1>6 DEF vars, tables, history
  <1>5. ASSUME NEW w \in Workers, Request(w) \/ Proceed(w) \/ Crash(w), RecordHistory(w),
               ~PublishWrite(w), ~RollbackWrite(w)
        PROVE  UNCHANGED <<assertions, snapshots, entities, Rollbacks,
                           contended, swept, stale>>
    <2>1. UNCHANGED <<assertions, snapshots, entities, Rollbacks>>
      BY <1>5, QuietStep
    <2> QED
      BY <1>5, <2>1, QuietHistory
  <1> QED
    BY <1>1, <1>3, <1>5, <1>6 DEF Next

\* What a publication adds is of a candidate that had nothing published, unless
\* it is contended.
LEMMA FirstPublication ==
    ASSUME ReviewInv, NEW w \in Workers, PublishWrite(w),
           local[w].candidate \notin contended
    PROVE  \A a \in assertions : a.candidate # local[w].candidate
  BY DEF ReviewInv, LocalsCurrent, Current, PublishWrite, At, PublishSteps

\* A publication takes away no accepted entity.
LEMMA PublicationAccepts ==
    ASSUME NEW w \in Workers, PublishWrite(w)
    PROVE  \A e \in Entities :
              entities[e].state = "accepted"
                \/ (\E i \in local[w].inserts : e = Target(local[w], i))
              => entities'[e].state = "accepted"
  BY DEF PublishWrite

\* A rollback takes away entities only, and records those that were looked up.
LEMMA RollbackSweeps ==
    ASSUME RowsOK, NEW w \in Workers, RollbackWrite(w), RecordHistory(w),
           NEW v \in Workers, NEW e \in Entities, e \in LookedUp(local[v]),
           entities[e].state = "accepted"
    PROVE  entities'[e].state = "accepted" \/ e \in swept'
  <1>1. entities'[e] = OrphanSuperseded(entities[e], e, assertions')
    BY DEF RollbackWrite
  <1>2. entities[e] \in Entity
    BY DEF RowsOK
  <1>3. \/ entities'[e] = entities[e]
        \/ entities'[e] = [entities[e] EXCEPT !.state = "superseded"]
    BY <1>1 DEF OrphanSuperseded
  <1>4. CASE entities'[e] = entities[e]
    BY <1>4
  <1>5. CASE entities'[e] = [entities[e] EXCEPT !.state = "superseded"]
    <2>1. entities'[e].state = "superseded"
      BY <1>2, <1>5 DEF Entity
    <2> QED
      BY <2>1 DEF RecordHistory
  <1> QED
    BY <1>3, <1>4, <1>5

\* A request looked up what its lookups have passed.
LEMMA LookupsAreTargets ==
    ASSUME NEW l \in Local, Sound(l), Current(l),
           l.pc \in {"publish_lookup", "publish_write"}, NEW i \in 1 .. l.index - 1
    PROVE  /\ Target(l, i) \in LookedUp(l)
           /\ Target(l, i) \in Entities
  <1>1. Target(l, i) \in LookedUp(l)
    BY DEF LookedUp
  <1>2. i \in 1 .. Len(l.payload)
    <2>1. CASE l.pc = "publish_write"
      BY <2>1 DEF Current, Local
    <2>2. CASE l.pc = "publish_lookup"
      <3>1. l.index \in 1 .. Len(l.payload)
        BY <2>2 DEF Sound, Walk
      <3>2. Len(l.payload) \in Nat
        BY DEF Local
      <3> QED
        BY <3>1, <3>2
    <2> QED
      BY <2>1, <2>2
  <1> QED
    BY <1>1, <1>2, TargetType

\* A publication disturbs no other request: what it adds to a candidate that
\* another request relies on is contended.
LEMMA PublicationSpares ==
    ASSUME IInv, ReviewInv, NEW w \in Workers, PublishWrite(w), RecordHistory(w),
           NEW v \in Workers, v # w, NEW l \in Local, l = local[v]
    PROVE  Current(l)'
  <1>a. /\ Current(l) /\ Sound(l)
        /\ contended \subseteq contended' /\ swept \subseteq swept'
    BY HistoryGrows DEF ReviewInv, LocalsCurrent, IInv, LocalOK
  <1>b. PICK s, a, d : Added(w, s, a, d)
    BY PublicationAdds
  <1>c. assertions' = assertions \union {a} /\ a.candidate = local[w].candidate
    BY <1>b DEF Added
  <1>d. local[w].candidate \notin contended =>
           \A b \in assertions : b.candidate # local[w].candidate
    BY FirstPublication
  <1>1. ASSUME l.pc \in PublishSteps \union {"validate_write"},
               l.candidate \notin contended'
        PROVE  \A b \in assertions' : b.candidate # l.candidate
    <2>1. Published
      <3>1. s \in snapshots' /\ s \notin snapshots
        BY <1>b DEF Added, PublishWrite, Insertable, GenerationFree, Generations
      <3> QED
        BY <3>1 DEF Published
    <2>2. local[w].candidate = l.candidate => l.candidate \in contended'
      BY <1>1, <2>1 DEF RecordHistory
    <2>3. \A b \in assertions : b.candidate # l.candidate
      BY <1>a, <1>1 DEF Current
    <2> QED
      BY <1>1, <1>c, <2>2, <2>3
  <1>2. ASSUME l.pc \in {"publish_lookup", "publish_write"},
               NEW i \in 1 .. l.index - 1
        PROVE  Located(l, i)'
    <2>1. Located(l, i) /\ Target(l, i) \in Entities
      BY <1>a, <1>2, LookupsAreTargets DEF Current
    <2>2. entities[Target(l, i)].state = "accepted" =>
             entities'[Target(l, i)].state = "accepted"
      BY <2>1, PublicationAccepts
    <2> QED
      BY <1>a, <2>1, <2>2 DEF Located
  <1>3. ASSUME l.pc = "rollback_write", l.candidate \notin contended',
               NEW b \in assertions', b.candidate = l.candidate, b.state = "accepted"
        PROVE  b.generation \in l.listed
    <2>1. \E x \in assertions : x.candidate = l.candidate
      BY <1>a, <1>3 DEF Current, RollbackSteps
    <2>2. b \in assertions
      BY <1>a, <1>c, <1>d, <1>3, <2>1
    <2> QED
      BY <1>a, <1>3, <2>2 DEF Current
  <1>4. l.pc \in RollbackSteps =>
           \E b \in assertions' : b.candidate = l.candidate /\ b.generation = l.generation
    BY <1>a, <1>c DEF Current
  <1>5. l.pc = "publish_write" => l.index = Len(l.payload) + 1
    BY <1>a DEF Current
  <1> QED
    BY <1>1, <1>2, <1>3, <1>4, <1>5 DEF Current

\* A rollback disturbs no other request: what it takes away from one that had
\* looked it up is swept.
LEMMA RollbackSpares ==
    ASSUME IInv, ReviewInv, NEW w \in Workers, RollbackWrite(w), RecordHistory(w),
           NEW v \in Workers, v # w, NEW l \in Local, l = local[v]
    PROVE  Current(l)'
  <1>a. /\ Current(l) /\ Sound(l) /\ RowsOK
        /\ contended \subseteq contended' /\ swept \subseteq swept'
        /\ \A a \in assertions : a \in Assertion
    BY HistoryGrows DEF ReviewInv, LocalsCurrent, IInv, LocalOK, RowsOK
  <1> DEFINE m == local[w]
  <1>b. assertions' = {Withdrawn(a, m) : a \in assertions}
    BY DEF RollbackWrite
  <1> HIDE DEF m
  <1>c. \A b \in assertions' : \E a \in assertions :
           /\ a.candidate = b.candidate /\ a.generation = b.generation
           /\ b.state = "accepted" => a.state = "accepted"
    BY <1>a, <1>b, WithdrawnKeeps
  <1>d. \A a \in assertions : \E b \in assertions' :
           a.candidate = b.candidate /\ a.generation = b.generation
    BY <1>a, <1>b, WithdrawnKeeps
  <1>1. ASSUME l.pc \in PublishSteps \union {"validate_write"},
               l.candidate \notin contended'
        PROVE  \A b \in assertions' : b.candidate # l.candidate
    <2>1. \A b \in assertions : b.candidate # l.candidate
      BY <1>a, <1>1 DEF Current
    <2> QED
      BY <1>c, <2>1
  <1>2. ASSUME l.pc \in {"publish_lookup", "publish_write"},
               NEW i \in 1 .. l.index - 1
        PROVE  Located(l, i)'
    <2>1. /\ Located(l, i)
          /\ Target(l, i) \in Entities /\ Target(l, i) \in LookedUp(local[v])
      BY <1>a, <1>2, LookupsAreTargets DEF Current
    <2>2. entities[Target(l, i)].state = "accepted" =>
             \/ entities'[Target(l, i)].state = "accepted"
             \/ Target(l, i) \in swept'
      BY <1>a, <2>1, RollbackSweeps
    <2> QED
      BY <1>a, <2>1, <2>2 DEF Located
  <1>3. ASSUME l.pc = "rollback_write", l.candidate \notin contended',
               NEW b \in assertions', b.candidate = l.candidate, b.state = "accepted"
        PROVE  b.generation \in l.listed
    <2>1. \A a \in assertions :
             a.candidate = l.candidate /\ a.state = "accepted" => a.generation \in l.listed
      BY <1>a, <1>3 DEF Current
    <2> QED
      BY <1>c, <1>3, <2>1
  <1>4. l.pc \in RollbackSteps =>
           \E b \in assertions' : b.candidate = l.candidate /\ b.generation = l.generation
    <2>1. l.pc \in RollbackSteps =>
             \E a \in assertions : a.candidate = l.candidate /\ a.generation = l.generation
      BY <1>a DEF Current
    <2> QED
      BY <1>d, <2>1
  <1>5. l.pc = "publish_write" => l.index = Len(l.payload) + 1
    BY <1>a DEF Current
  <1> QED
    BY <1>1, <1>2, <1>3, <1>4, <1>5 DEF Current

\* A step that leaves accepted memory alone disturbs nobody.
LEMMA QuietSpares ==
    ASSUME NEW l, UNCHANGED <<assertions, entities, contended, swept>>
    PROVE  /\ Current(l) => Current(l)'
           /\ Fresh(l) => Fresh(l)'
  <1>1. \A i : Located(l, i) => Located(l, i)'
    BY DEF Located
  <1>2. UNCHANGED <<AcceptedEntities, AcceptedAssertions>>
    BY DEF AcceptedEntities, AcceptedAssertions
  <1>3. Current(l) => Current(l)'
    BY <1>1 DEF Current
  <1>4. Fresh(l) => Fresh(l)'
    BY <1>2 DEF Fresh
  <1> QED
    BY <1>3, <1>4

LEMMA OthersCurrent ==
    ASSUME IInv, ReviewInv, NEW w \in Workers, RecordHistory(w),
           Request(w) \/ Proceed(w) \/ Crash(w),
           NEW v \in Workers, v # w
    PROVE  Current(local[v])' /\ (v \notin outrun' => Fresh(local[v])')
  <1>a. PICK l \in Local : /\ l = local[v] /\ l = local'[v]
                           /\ Current(l) /\ (v \notin outrun => Fresh(l))
    BY OthersKeep DEF IInv, RowsOK, ReviewInv, LocalsCurrent
  <1>1. Current(l)'
    <2>1. CASE PublishWrite(w)
      BY <1>a, <2>1, PublicationSpares
    <2>2. CASE RollbackWrite(w)
      BY <1>a, <2>2, RollbackSpares
    <2>3. CASE ~PublishWrite(w) /\ ~RollbackWrite(w)
      <3>1. UNCHANGED <<assertions, snapshots, entities>>
        BY <2>3, QuietStep
      <3>2. UNCHANGED <<contended, swept>>
        BY <3>1, QuietHistory
      <3> QED
        BY <1>a, <3>1, <3>2, QuietSpares
    <2> QED
      BY <2>1, <2>2, <2>3
  <1>2. ASSUME v \notin outrun' PROVE Fresh(l)'
    <2>1. CASE l.pc \notin ViewSteps
      BY <2>1 DEF Fresh
    <2>2. CASE l.pc \in ViewSteps
      <3>1. v \notin outrun /\ ~MemoryMoved
        BY <1>a, <1>2, <2>2 DEF RecordHistory
      <3>2. UNCHANGED <<AcceptedEntities, AcceptedAssertions>>
        BY <3>1 DEF MemoryMoved, AcceptedEntities, AcceptedAssertions
      <3> QED
        BY <1>a, <3>1, <3>2 DEF Fresh
    <2> QED
      BY <2>1, <2>2
  <1> QED
    BY <1>a, <1>1, <1>2, CurrentNext

LEMMA CurrentStep == IInv /\ ReviewInv /\ [Next]_vars => LocalsCurrent'
  <1> SUFFICES ASSUME IInv, ReviewInv, [Next]_vars, NEW v \in Workers
               PROVE  Current(local[v])' /\ (v \notin outrun' => Fresh(local[v])')
    BY DEF LocalsCurrent
  <1>1. CASE UNCHANGED vars
    <2>1. PICK k : k = local[v] /\ k = local'[v]
      BY <1>1 DEF vars
    <2>2. /\ UNCHANGED <<assertions, entities, contended, swept, outrun>>
          /\ Current(k) /\ (v \notin outrun => Fresh(k))
      BY <1>1, <2>1 DEF vars, tables, history, ReviewInv, LocalsCurrent
    <2>3. Current(k)' /\ (v \notin outrun => Fresh(k)')
      BY <2>2, QuietSpares
    <2> QED
      BY <2>1, <2>2, <2>3, CurrentNext
  <1>2. ASSUME NEW w \in Workers, RecordHistory(w), Request(w) \/ Proceed(w) \/ Crash(w)
        PROVE  Current(local[v])' /\ (v \notin outrun' => Fresh(local[v])')
    <2>1. CASE v # w
      BY <1>2, <2>1, OthersCurrent
    <2>2. CASE v = w
      <3>1. Current(local[w])' /\ (w \notin outrun => Fresh(local[w])')
        BY <1>2, RequestCurrent, ReadCurrent, OtherCurrent
      <3>2. ASSUME w \notin outrun' PROVE Fresh(local[w])'
        <4>1. CASE local'[w].pc \in ViewSteps
          <5>1. w \notin outrun
            BY <1>2, <3>2, <4>1 DEF RecordHistory
          <5> QED
            BY <3>1, <5>1
        <4>2. CASE local'[w].pc \notin ViewSteps
          BY <4>2 DEF Fresh
        <4> QED
          BY <4>1, <4>2
      <3> QED
        BY <2>2, <3>1, <3>2
    <2> QED
      BY <2>1, <2>2
  <1> QED
    BY <1>1, <1>2 DEF Next

\* Validation, and each of the decisions, leaves candidates that were published
\* decided.
LEMMA DecidedStep ==
    ASSUME IInv, ReviewInv, [Next]_vars PROVE PublishedIsDecided'
  <1>a. /\ \A a \in assertions : a.candidate \in Candidates
        /\ \A a \in assertions :
              a.candidate \notin contended => candidates[a.candidate] \in Decisive
        /\ \A a \in assertions : a \in Assertion
        /\ candidates \in [Candidates -> CandidateStates]
        /\ contended \subseteq contended'
    <2>1. contended \subseteq contended'
      BY HistoryGrows DEF Next, vars, history
    <2> QED
      BY <2>1 DEF IInv, RowsOK, Assertion, ReviewInv, PublishedIsDecided
  <1>b. ASSUME NEW c \in Candidates, NEW state,
               candidates' = [candidates EXCEPT ![c] = state],
               \/ state \in Decisive \/ candidates[c] \notin Decisive
               \/ c \notin contended => \A a \in assertions : a.candidate # c,
               UNCHANGED assertions
        PROVE  PublishedIsDecided'
    BY <1>a, <1>b DEF PublishedIsDecided
  <1>c. ASSUME NEW w \in Workers, local[w].pc # "idle"
        PROVE  local[w].candidate \in Candidates
    BY <1>c DEF IInv, LocalOK, Sound, Choice
  <1>d. ASSUME NEW w \in Workers PROVE Choice(local[w]) /\ Current(local[w])
    BY DEF IInv, LocalOK, Sound, ReviewInv, LocalsCurrent
  <1>1. ASSUME NEW w \in Workers, NEW c \in Candidates, Propose(w, c)
        PROVE  PublishedIsDecided'
    BY <1>1, <1>b DEF Propose, Decisive
  <1>2. ASSUME NEW w \in Workers, ValidateWrite(w) PROVE PublishedIsDecided'
    BY <1>2, <1>b, <1>c, <1>d DEF ValidateWrite, At, Current
  <1>3. ASSUME NEW w \in Workers, ResolveWrite(w) PROVE PublishedIsDecided'
    <2>1. CASE UNCHANGED candidates
      BY <1>3, <1>a, <2>1 DEF ResolveWrite, PublishedIsDecided
    <2>2. CASE candidates' = [candidates EXCEPT ![local[w].candidate] = "quarantined"]
      BY <1>3, <1>b, <1>c, <2>2 DEF ResolveWrite, At, Decisive
    <2> QED
      BY <1>3, <2>1, <2>2 DEF ResolveWrite
  <1>4. ASSUME NEW w \in Workers, ReviewWrite(w) PROVE PublishedIsDecided'
    <2>1. CASE UNCHANGED candidates
      BY <1>4, <1>a, <2>1 DEF ReviewWrite, PublishedIsDecided
    <2>2. CASE local[w].decision # "approve_for_commit"
      <3>1. local[w].decision \in {"reject", "quarantine"}
        BY <1>4, <1>d, <2>2 DEF ReviewWrite, At, Choice, OwnerDecisions
      <3>2. StateAfter[local[w].decision] \in Decisive
        BY <3>1 DEF StateAfter, Decisive
      <3> QED
        BY <1>4, <1>b, <1>c, <2>2, <3>2 DEF ReviewWrite, At
    <2> QED
      BY <1>4, <2>1, <2>2 DEF ReviewWrite
  <1>5. ASSUME NEW w \in Workers, DecideWrite(w) PROVE PublishedIsDecided'
    <2>1. local[w].decision \in {"reject", "quarantine"}
      BY <1>5, <1>d DEF DecideWrite, At, Choice
    <2>2. StateAfter[local[w].decision] \in Decisive
      BY <2>1 DEF StateAfter, Decisive
    <2> QED
      BY <1>5, <1>b, <1>c, <2>2 DEF DecideWrite, At
  <1>6. ASSUME NEW w \in Workers, PublishWrite(w) PROVE PublishedIsDecided'
    <2>1. PICK s, a, d : Added(w, s, a, d)
      BY <1>6, PublicationAdds
    <2>2. local[w].candidate \in Candidates
      BY <1>6, PublicationFacts
    <2>3. candidates' = [candidates EXCEPT ![local[w].candidate] = "accepted"]
      BY <1>6 DEF PublishWrite
    <2>4. assertions' = assertions \union {a} /\ a.candidate = local[w].candidate
      BY <2>1 DEF Added
    <2> QED
      BY <1>a, <2>2, <2>3, <2>4 DEF PublishedIsDecided, Decisive
  <1>7. ASSUME NEW w \in Workers, RollbackWrite(w) PROVE PublishedIsDecided'
    <2> DEFINE l == local[w]
    <2>1. assertions' = {Withdrawn(a, l) : a \in assertions} /\ UNCHANGED candidates
      BY <1>7 DEF RollbackWrite
    <2> HIDE DEF l
    <2> QED
      BY <1>a, <2>1, WithdrawnKeeps DEF PublishedIsDecided
  <1>8. CASE UNCHANGED <<candidates, assertions>>
    BY <1>8, <1>a DEF PublishedIsDecided
  <1> QED
    BY <1>1, <1>2, <1>3, <1>4, <1>5, <1>6, <1>7, <1>8, WritingSteps
       DEF tables, DecideRecord

LEMMA OnceStep ==
    ASSUME IInv, ReviewInv, [Next]_vars PROVE PublishedOnce'
  <1>a. PublishedOnce /\ \A a \in assertions : a \in Assertion
    BY DEF IInv, RowsOK, ReviewInv
  <1>1. ASSUME NEW w \in Workers, PublishWrite(w), RecordHistory(w)
        PROVE  PublishedOnce'
    <2>1. PICK s, a, d : Added(w, s, a, d)
      BY <1>1, PublicationAdds
    <2>2. assertions' = assertions \union {a} /\ a.candidate = local[w].candidate
      BY <2>1 DEF Added
    <2>3. contended \subseteq contended'
      BY <1>1, HistoryGrows
    <2>4. a.candidate \notin contended => \A b \in assertions : b.candidate # a.candidate
      BY <1>1, <2>2, FirstPublication
    <2> QED
      BY <1>a, <2>2, <2>3, <2>4 DEF PublishedOnce
  <1>2. ASSUME NEW w \in Workers, RollbackWrite(w), RecordHistory(w)
        PROVE  PublishedOnce'
    <2> DEFINE l == local[w]
    <2>1. assertions' = {Withdrawn(a, l) : a \in assertions}
      BY <1>2 DEF RollbackWrite
    <2> HIDE DEF l
    <2>2. contended \subseteq contended'
      BY <1>2, HistoryGrows
    <2> QED
      BY <1>a, <2>1, <2>2, WithdrawnKeeps DEF PublishedOnce
  <1>3. CASE UNCHANGED <<assertions, contended>>
    BY <1>a, <1>3 DEF PublishedOnce
  <1> QED
    BY <1>1, <1>2, <1>3, CanonSteps

LEMMA CanonStep ==
    ASSUME IInv, ReviewInv, [Next]_vars PROVE CanonIsConsistent'
  <1>a. /\ RowsOK /\ Asserted \ swept \subseteq AcceptedEntities
        /\ \A a \in assertions : a \in Assertion /\ a.entities \subseteq Entities
    BY DEF IInv, RowsOK, Assertion, ReviewInv, CanonIsConsistent
  <1>b. SUFFICES (Asserted \ swept)' \subseteq AcceptedEntities'
    BY EntityStep DEF CanonIsConsistent, AcceptedEntitiesAsserted
  <1>1. ASSUME NEW w \in Workers, PublishWrite(w), RecordHistory(w)
        PROVE  (Asserted \ swept)' \subseteq AcceptedEntities'
    <2>1. PICK s, a, d : Added(w, s, a, d)
      BY <1>1, PublicationAdds
    <2>2. PICK l \in Local : /\ l = local[w]
                             /\ l.pc = "publish_write"
                             /\ DOMAIN l.payload = 1 .. Len(l.payload)
                             /\ Current(l)
      BY <1>1, PublicationFacts DEF ReviewInv, LocalsCurrent
    <2>3. swept \subseteq swept'
      BY <1>1, HistoryGrows
    <2>4. AcceptedEntities \subseteq AcceptedEntities'
      BY <1>1, PublicationAccepts DEF AcceptedEntities
    <2>5. ASSUME NEW i \in 1 .. Len(l.payload)
          PROVE  Target(l, i) \in AcceptedEntities' \/ Target(l, i) \in swept
      <3>1. Target(l, i) \in Entities
        BY TargetType
      <3>2. i \in 1 .. l.index - 1
        BY <2>2 DEF Current, Local
      <3>3. Located(l, i)
        BY <2>2, <3>2 DEF Current
      <3> QED
        BY <1>1, <2>2, <3>1, <3>3, PublicationAccepts DEF Located, AcceptedEntities
    <2>6. a.entities \ swept \subseteq AcceptedEntities'
      BY <2>1, <2>2, <2>5 DEF Added
    <2>7. assertions' = assertions \union {a}
      BY <2>1 DEF Added
    <2>8. Asserted' \subseteq Asserted \union a.entities
      BY <2>7 DEF Asserted
    <2> QED
      BY <1>a, <2>3, <2>4, <2>6, <2>8
  <1>2. ASSUME NEW w \in Workers, RollbackWrite(w), RecordHistory(w)
        PROVE  (Asserted \ swept)' \subseteq AcceptedEntities'
    <2> DEFINE l == local[w]
    <2>1. /\ assertions' = {Withdrawn(a, l) : a \in assertions}
          /\ \A e \in Entities : entities'[e] = OrphanSuperseded(entities[e], e, assertions')
          /\ swept \subseteq swept'
      BY <1>2, HistoryGrows DEF RollbackWrite
    <2> HIDE DEF l
    <2>2. ASSUME NEW b \in assertions', b.state = "accepted", NEW e \in b.entities,
                 e \notin swept'
          PROVE  e \in AcceptedEntities'
      <3>1. PICK a \in assertions : b = Withdrawn(a, l)
        BY <2>1
      <3>2. a.state = "accepted" /\ e \in a.entities
        BY <1>a, <2>2, <3>1, WithdrawnKeeps
      <3>3. e \in Entities /\ e \in AcceptedEntities
        BY <1>a, <2>1, <2>2, <3>2 DEF Asserted
      <3>4. entities'[e] = entities[e]
        BY <2>1, <2>2, <3>3 DEF OrphanSuperseded
      <3> QED
        BY <3>3, <3>4 DEF AcceptedEntities
    <2> QED
      BY <2>2 DEF Asserted
  <1>3. CASE UNCHANGED <<assertions, entities, swept>>
    BY <1>a, <1>3 DEF Asserted, AcceptedEntities
  <1> QED
    BY <1>1, <1>2, <1>3, CanonSteps

\* A publication queues its assertions for indexing, and a rollback queues what
\* it withdraws for deletion: unless the candidate is contended, it has listed
\* all there is.
LEMMA ProjectionStep ==
    ASSUME IInv, ReviewInv, [Next]_vars PROVE ProjectionFollowsState'
  <1>a. /\ ProjectionFollowsState
        /\ \A a \in assertions : a \in Assertion
    BY DEF IInv, RowsOK, ReviewInv
  <1>1. ASSUME NEW w \in Workers, PublishWrite(w), RecordHistory(w)
        PROVE  ProjectionFollowsState'
    <2> DEFINE a == [candidate |-> local[w].candidate,
                     generation |-> local[w].generation,
                     entities |-> {Target(local[w], i) : i \in DOMAIN local[w].payload},
                     state |-> "accepted", projection |-> "upsert"]
    <2>1. /\ assertions' = assertions \union {a}
          /\ a.projection = "upsert" /\ a.state = "accepted"
      BY <1>1 DEF PublishWrite
    <2>2. contended \subseteq contended'
      BY <1>1, HistoryGrows
    <2> HIDE DEF a
    <2> QED
      BY <1>a, <2>1, <2>2 DEF ProjectionFollowsState
  <1>2. ASSUME NEW w \in Workers, RollbackWrite(w), RecordHistory(w)
        PROVE  ProjectionFollowsState'
    <2>1. PICK l : l = local[w] /\ l.pc = "rollback_write" /\ Current(l)
      BY <1>2 DEF ReviewInv, LocalsCurrent, RollbackWrite, At
    <2>2. /\ assertions' = {Withdrawn(a, l) : a \in assertions}
          /\ contended \subseteq contended'
      BY <1>2, <2>1, HistoryGrows DEF RollbackWrite
    <2>3. ASSUME NEW a \in assertions, a.candidate = l.candidate
          PROVE  /\ Withdrawn(a, l).state = "superseded"
                 /\ a.candidate \notin contended => Withdrawn(a, l).projection = "delete"
      <3>1. a.candidate \notin contended /\ a.state = "accepted" =>
               a.generation \in l.listed
        BY <2>1, <2>3 DEF Current
      <3>2. a.candidate \notin contended /\ a.state # "accepted" =>
               a.projection = "delete"
        BY <1>a DEF ProjectionFollowsState
      <3>3. a \in Assertion
        BY <1>a
      <3> QED
        BY <2>3, <3>1, <3>2, <3>3 DEF Withdrawn, Assertion
    <2>4. \A a \in assertions : a.candidate # l.candidate => Withdrawn(a, l) = a
      BY DEF Withdrawn
    <2>5. ASSUME NEW b \in assertions'
          PROVE  IF b.state = "accepted" THEN b.projection = "upsert"
                 ELSE b.candidate \notin contended' => b.projection = "delete"
      <3>1. PICK a \in assertions : b = Withdrawn(a, l) /\ b.candidate = a.candidate
        BY <1>a, <2>2, WithdrawnKeeps
      <3>2. CASE a.candidate = l.candidate
        BY <2>2, <2>3, <3>1, <3>2
      <3>3. CASE a.candidate # l.candidate
        BY <1>a, <2>2, <2>4, <3>1, <3>3 DEF ProjectionFollowsState
      <3> QED
        BY <3>2, <3>3
    <2> QED
      BY <2>5 DEF ProjectionFollowsState
  <1>3. CASE UNCHANGED <<assertions, contended>>
    BY <1>a, <1>3 DEF ProjectionFollowsState
  <1> QED
    BY <1>1, <1>2, <1>3, CanonSteps

LEMMA WithdrawalStep ==
    ASSUME IInv, ReviewInv, [Next]_vars PROVE WithdrawnByRollback'
  <1>a. /\ WithdrawnByRollback
        /\ \A a \in assertions : a \in Assertion
    BY DEF IInv, RowsOK, ReviewInv
  <1>1. ASSUME NEW w \in Workers, PublishWrite(w), UNCHANGED Rollbacks
        PROVE  WithdrawnByRollback'
    <2>1. PICK s, a, d : Added(w, s, a, d)
      BY <1>1, PublicationAdds
    <2>2. assertions' = assertions \union {a} /\ a.state = "accepted"
      BY <2>1 DEF Added
    <2> QED
      BY <1>1, <1>a, <2>2 DEF WithdrawnByRollback
  <1>2. ASSUME NEW w \in Workers, NEW d, RollbackWrite(w),
               d.generation = local[w].generation,
               d.candidate = local[w].candidate,
               Rollbacks' = Rollbacks \union {d}
        PROVE  WithdrawnByRollback'
    <2>1. PICK l : l = local[w] /\ l.pc = "rollback_write" /\ Current(l)
      BY <1>2 DEF ReviewInv, LocalsCurrent, RollbackWrite, At
    <2>2. assertions' = {Withdrawn(a, l) : a \in assertions}
      BY <1>2, <2>1 DEF RollbackWrite
    <2>3. /\ \E a \in assertions : /\ a.candidate = d.candidate
                                   /\ a.generation = d.generation
          /\ d.candidate = l.candidate
      BY <1>2, <2>1 DEF Current, RollbackSteps
    <2>4. \A a \in assertions : \E b \in assertions' :
             b.candidate = a.candidate /\ b.generation = a.generation
      BY <1>a, <2>2, WithdrawnKeeps
    <2>5. ASSUME NEW x \in Rollbacks'
          PROVE  \E b \in assertions' : /\ b.candidate = x.candidate
                                        /\ b.generation = x.generation
      <3>1. PICK a \in assertions : a.candidate = x.candidate /\ a.generation = x.generation
        BY <1>2, <1>a, <2>3 DEF WithdrawnByRollback
      <3> QED
        BY <2>4, <3>1
    <2>6. ASSUME NEW b \in assertions', b.state = "superseded"
          PROVE  \E x \in Rollbacks' : x.candidate = b.candidate
      <3>1. PICK a \in assertions : b = Withdrawn(a, l)
        BY <2>2
      <3>2. /\ b.candidate = a.candidate
            /\ a.candidate = l.candidate \/ a.state = "superseded"
        BY <1>a, <2>6, <3>1, WithdrawnKeeps
      <3> QED
        BY <1>2, <1>a, <2>3, <3>2 DEF WithdrawnByRollback
    <2> QED
      BY <2>5, <2>6 DEF WithdrawnByRollback
  <1>3. CASE UNCHANGED <<assertions, Rollbacks>>
    BY <1>3, <1>a DEF WithdrawnByRollback
  <1> QED
    BY <1>1, <1>2, <1>3, CanonSteps

\* While nothing was rolled back, what is accepted is all that was published.
LEMMA AllAccepted ==
    ASSUME IInv, ReviewInv, Rollbacks = {}, NEW g, \A a \in assertions : a.generation < g
    PROVE  /\ AcceptedEntities \ swept = EntitiesBefore(g) \ swept
           /\ AcceptedAssertions = AssertionsBefore(g)
  <1>1. \A a \in assertions : a.state = "accepted"
    BY DEF IInv, RowsOK, Assertion, ReviewInv, WithdrawnByRollback
  <1>2. {b \in assertions : b.state = "accepted"} = Before(g)
    BY <1>1 DEF Before
  <1>3. Asserted = EntitiesBefore(g) /\ AcceptedAssertions = AssertionsBefore(g)
    BY <1>2 DEF Asserted, EntitiesBefore, AcceptedAssertions, AssertionsBefore
  <1> QED
    BY <1>3 DEF ReviewInv, CanonIsConsistent

LEMMA RecallStep ==
    ASSUME IInv, ReviewInv, [Next]_vars PROVE SnapshotsRecall'
  <1>a. /\ SnapshotsRecall /\ WithdrawnByRollback
        /\ \A a \in assertions : a \in Assertion /\ a.generation \in Generations
        /\ \A s \in snapshots : s.generation \in Nat /\ s.generation \in Generations
    BY DEF IInv, RowsOK, ReviewInv, GenerationsAccounted, Generations, Snapshot
  <1>1. ASSUME NEW w \in Workers, PublishWrite(w), RecordHistory(w), UNCHANGED Rollbacks
        PROVE  SnapshotsRecall'
    <2>1. PICK s, a, d : Added(w, s, a, d)
      BY <1>1, PublicationAdds
    <2>2. PICK n \in Nat, l \in Local :
             /\ Generations = 1 .. n
             /\ l.generation = n + 1
             /\ l = local[w] /\ l.pc = "publish_write"
             /\ w \notin outrun => Fresh(l)
      BY <1>1, PublicationFacts DEF ReviewInv, LocalsCurrent
    <2>3. /\ assertions' = assertions \union {a} /\ a.generation = n + 1
          /\ \A t \in snapshots' : t \in snapshots \/ t = s
          /\ s.generation = n + 1
          /\ swept \subseteq swept' /\ stale \subseteq stale'
      BY <1>1, <2>1, <2>2, HistoryGrows DEF Added
    <2>4. ASSUME NEW g \in Nat, g <= n + 1
          PROVE  /\ EntitiesBefore(g)' = EntitiesBefore(g)
                 /\ AssertionsBefore(g)' = AssertionsBefore(g)
      <3>1. Before(g)' = Before(g)
        BY <2>3, <2>4 DEF Before
      <3> QED
        BY <3>1 DEF EntitiesBefore, AssertionsBefore
    <2>5. ASSUME NEW t \in snapshots, t.generation \notin stale',
                 \A x \in Rollbacks' : x.generation > t.generation
          PROVE  /\ t.view.entities \ swept' = EntitiesBefore(t.generation)' \ swept'
                 /\ t.view.assertions = AssertionsBefore(t.generation)'
      <3>1. t.generation \in Nat /\ t.generation <= n + 1
        BY <1>a, <2>2
      <3>2. /\ t.view.entities \ swept = EntitiesBefore(t.generation) \ swept
            /\ t.view.assertions = AssertionsBefore(t.generation)
        BY <1>1, <1>a, <2>3, <2>5 DEF SnapshotsRecall
      <3>3. /\ EntitiesBefore(t.generation)' = EntitiesBefore(t.generation)
            /\ AssertionsBefore(t.generation)' = AssertionsBefore(t.generation)
        BY <2>4, <3>1
      <3> QED
        BY <2>3, <3>2, <3>3
    <2>6. ASSUME s.generation \notin stale',
                 \A x \in Rollbacks' : x.generation > s.generation
          PROVE  /\ s.view.entities \ swept' = EntitiesBefore(s.generation)' \ swept'
                 /\ s.view.assertions = AssertionsBefore(s.generation)'
      <3>1. s \in snapshots' /\ s \notin snapshots
        BY <1>a, <2>1, <2>2, <2>3 DEF Added
      <3>2. w \notin outrun
        BY <1>1, <2>2, <2>3, <2>6, <3>1 DEF RecordHistory, Published
      <3>3. l.view.entities = AcceptedEntities /\ l.view.assertions = AcceptedAssertions
        BY <2>2, <3>2 DEF Fresh, ViewSteps, PublishSteps
      <3>4. Rollbacks = {}
        <4>1. ASSUME NEW x \in Rollbacks PROVE FALSE
          <5>1. x.generation \in 1 .. n
            BY <1>a, <2>2 DEF WithdrawnByRollback
          <5>2. x.generation > n + 1
            BY <1>1, <2>3, <2>6
          <5> QED
            BY <5>1, <5>2
        <4> QED
          BY <4>1
      <3>5. \A b \in assertions : b.generation < n + 1
        BY <1>a, <2>2
      <3>6. s.view = l.view
        <4> DEFINE new == [generation |-> l.generation, view |-> l.view]
        <4>1. snapshots' = snapshots \union {new}
          BY <1>1, <2>2 DEF PublishWrite
        <4> QED
          BY <3>1, <4>1
      <3>7. /\ AcceptedEntities \ swept = EntitiesBefore(n + 1) \ swept
            /\ AcceptedAssertions = AssertionsBefore(n + 1)
        BY <3>4, <3>5, AllAccepted
      <3>8. /\ EntitiesBefore(n + 1)' = EntitiesBefore(n + 1)
            /\ AssertionsBefore(n + 1)' = AssertionsBefore(n + 1)
        BY <2>4
      <3> QED
        BY <2>3, <3>3, <3>6, <3>7, <3>8
    <2> QED
      BY <2>3, <2>5, <2>6 DEF SnapshotsRecall
  <1>2. ASSUME NEW w \in Workers, NEW d, RollbackWrite(w), RecordHistory(w),
               Rollbacks' = Rollbacks \union {d}
        PROVE  SnapshotsRecall'
    <2> DEFINE l == local[w]
    <2>1. /\ assertions' = {Withdrawn(a, l) : a \in assertions}
          /\ UNCHANGED snapshots
          /\ swept \subseteq swept' /\ stale \subseteq stale'
      BY <1>2, HistoryGrows DEF RollbackWrite
    <2> HIDE DEF l
    <2>2. ASSUME NEW g
          PROVE  /\ EntitiesBefore(g)' = EntitiesBefore(g)
                 /\ AssertionsBefore(g)' = AssertionsBefore(g)
      <3>1. Before(g)' = {Withdrawn(a, l) : a \in Before(g)}
        BY <1>a, <2>1, WithdrawnKeeps DEF Before
      <3>2. \A a \in Before(g) : /\ Withdrawn(a, l).entities = a.entities
                                 /\ Withdrawn(a, l).candidate = a.candidate
                                 /\ Withdrawn(a, l).generation = a.generation
        BY <1>a, WithdrawnKeeps DEF Before
      <3>3. {b.entities : b \in Before(g)'} = {a.entities : a \in Before(g)}
        BY <3>1, <3>2
      <3>4. {<<b.candidate, b.generation>> : b \in Before(g)'} =
            {<<a.candidate, a.generation>> : a \in Before(g)}
        BY <3>1, <3>2
      <3> QED
        BY <3>3, <3>4 DEF EntitiesBefore, AssertionsBefore
    <2>3. ASSUME NEW t \in snapshots, t.generation \notin stale',
                 \A x \in Rollbacks' : x.generation > t.generation
          PROVE  /\ t.view.entities \ swept' = EntitiesBefore(t.generation)' \ swept'
                 /\ t.view.assertions = AssertionsBefore(t.generation)'
      <3>1. /\ t.view.entities \ swept = EntitiesBefore(t.generation) \ swept
            /\ t.view.assertions = AssertionsBefore(t.generation)
        BY <1>2, <1>a, <2>1, <2>3 DEF SnapshotsRecall
      <3>2. /\ EntitiesBefore(t.generation)' = EntitiesBefore(t.generation)
            /\ AssertionsBefore(t.generation)' = AssertionsBefore(t.generation)
        BY <2>2
      <3> QED
        BY <2>1, <3>1, <3>2
    <2> QED
      BY <2>1, <2>3 DEF SnapshotsRecall
  <1>3. CASE UNCHANGED <<assertions, snapshots, Rollbacks, swept, stale>>
    <2>1. \A g : /\ EntitiesBefore(g)' = EntitiesBefore(g)
                 /\ AssertionsBefore(g)' = AssertionsBefore(g)
      BY <1>3 DEF EntitiesBefore, AssertionsBefore, Before
    <2> QED
      BY <1>3, <1>a, <2>1 DEF SnapshotsRecall
  <1> QED
    BY <1>1, <1>2, <1>3, CanonSteps

LEMMA ReviewStep == IInv /\ ReviewInv /\ [Next]_vars => ReviewInv'
  <1> SUFFICES ASSUME IInv, ReviewInv, [Next]_vars PROVE ReviewInv'
    OBVIOUS
  <1>1. LocalsCurrent' /\ PublishedIsDecided'
    BY CurrentStep, DecidedStep
  <1>2. PublishedOnce' /\ CanonIsConsistent' /\ ProjectionFollowsState'
    BY OnceStep, CanonStep, ProjectionStep
  <1>3. WithdrawnByRollback' /\ SnapshotsRecall'
    BY WithdrawalStep, RecallStep
  <1> QED
    BY <1>1, <1>2, <1>3 DEF ReviewInv

\* What a rollback does when it undoes the last publication that stands.
Restores ==
    \A d \in decisions' \ decisions :
        d.type = "rollback" /\ UndoesLast(d) /\ UndoneCleanly(d) =>
            \E s \in snapshots :
                /\ s.generation = d.generation
                /\ s.view.assertions = AcceptedAssertions'
                /\ s.view.entities \ swept' = AcceptedEntities' \ swept'

LEMMA RestoreStep ==
    IInv /\ ReviewInv /\ ReviewInv' /\ [Next]_vars => [Restores]_vars
  <1> SUFFICES ASSUME IInv, ReviewInv, ReviewInv', [Next]_vars,
                      NEW d \in decisions' \ decisions,
                      d.type = "rollback", UndoesLast(d), UndoneCleanly(d)
               PROVE  \E s \in snapshots :
                         /\ s.generation = d.generation
                         /\ s.view.assertions = AcceptedAssertions'
                         /\ s.view.entities \ swept' = AcceptedEntities' \ swept'
    BY DEF Restores
  <1>1. d \in Rollbacks' /\ d \notin Rollbacks
    BY DEF Rollbacks
  <1>2. PICK w \in Workers : /\ RollbackWrite(w) /\ RecordHistory(w)
                             /\ d.generation = local[w].generation
                             /\ d.candidate = local[w].candidate
    BY <1>1, CanonSteps
  <1>3. PICK l : l = local[w] /\ l.pc = "rollback_write" /\ Current(l)
    BY <1>2 DEF ReviewInv, LocalsCurrent, RollbackWrite, At
  <1>4. /\ assertions' = {Withdrawn(a, l) : a \in assertions}
        /\ swept \subseteq swept'
        /\ \E b \in assertions : /\ b.candidate = l.candidate
                                 /\ b.generation = d.generation
    BY <1>2, <1>3, HistoryGrows DEF RollbackWrite, Current, RollbackSteps
  <1>5. /\ \A a \in assertions : a \in Assertion /\ a.generation \in Generations
        /\ \A a \in assertions : a.generation \in Nat
        /\ \A a, b \in assertions : a.generation = b.generation => a = b
    BY DEF IInv, RowsOK, GenerationsAccounted, Assertion
  <1>6. d.generation \in Nat
    BY <1>4, <1>5
  \* From this generation on, a candidate has one set of assertions.
  <1>7. ASSUME NEW a \in assertions, NEW b \in assertions, a.candidate = b.candidate,
               b.generation >= d.generation
        PROVE  a = b
    BY <1>7 DEF UndoneCleanly, ReviewInv, PublishedOnce
  <1>8. ASSUME NEW a \in assertions
        PROVE  /\ a.generation < d.generation =>
                     a.state = "accepted" /\ Withdrawn(a, l) = a
               /\ ~(a.generation < d.generation) => Withdrawn(a, l).state = "superseded"
    <2>1. ASSUME a.generation < d.generation
          PROVE  a.state = "accepted" /\ Withdrawn(a, l) = a
      <3>1. a.candidate # l.candidate
        BY <1>4, <1>5, <1>6, <1>7, <2>1
      <3>2. a.state # "superseded"
        <4>1. ASSUME NEW x \in Rollbacks PROVE x.candidate # a.candidate
          <5>1. PICK b \in assertions : b.candidate = x.candidate /\ b.generation = x.generation
            BY DEF ReviewInv, WithdrawnByRollback
          <5>2. b.generation > d.generation
            BY <5>1 DEF UndoesLast, Rollbacks
          <5> QED
            BY <1>5, <1>6, <1>7, <2>1, <5>1, <5>2
        <4> QED
          BY <4>1 DEF ReviewInv, WithdrawnByRollback
      <3> QED
        BY <1>5, <3>1, <3>2 DEF Withdrawn, Assertion
    <2>2. ASSUME ~(a.generation < d.generation)
          PROVE  Withdrawn(a, l).state = "superseded"
      <3>1. CASE a.generation = d.generation
        BY <1>4, <1>5, <3>1, WithdrawnKeeps
      <3>2. CASE a.generation > d.generation
        BY <1>5, <3>2, WithdrawnKeeps DEF UndoesLast
      <3> QED
        BY <1>5, <1>6, <2>2, <3>1, <3>2
    <2> QED
      BY <2>1, <2>2
  <1>9. {b \in assertions' : b.state = "accepted"} = Before(d.generation)
    BY <1>4, <1>8 DEF Before
  <1>10. /\ AcceptedEntities' \ swept' = EntitiesBefore(d.generation) \ swept'
         /\ AcceptedAssertions' = AssertionsBefore(d.generation)
    <2>1. Asserted' = UNION {a.entities : a \in {b \in assertions' : b.state = "accepted"}}
      BY DEF Asserted
    <2>2. AcceptedAssertions' =
             {<<a.candidate, a.generation>> : a \in {b \in assertions' : b.state = "accepted"}}
      BY DEF AcceptedAssertions
    <2>3. AcceptedEntities' \ swept' = Asserted' \ swept'
      BY DEF ReviewInv, CanonIsConsistent
    <2>4. /\ Asserted' = EntitiesBefore(d.generation)
          /\ AcceptedAssertions' = AssertionsBefore(d.generation)
      BY <1>9, <2>1, <2>2 DEF EntitiesBefore, AssertionsBefore
    <2> QED
      BY <2>3, <2>4
  <1>11. PICK s \in snapshots : s.generation = d.generation
    BY <1>4, <1>5 DEF Generations
  <1>12. /\ s.view.entities \ swept = EntitiesBefore(d.generation) \ swept
         /\ s.view.assertions = AssertionsBefore(d.generation)
    <2>1. \A x \in Rollbacks : x.generation > s.generation
      BY <1>11 DEF UndoesLast, Rollbacks
    <2>2. s.generation \notin stale
      BY <1>11 DEF UndoneCleanly
    <2> QED
      BY <1>11, <2>1, <2>2 DEF ReviewInv, SnapshotsRecall
  <1>13. /\ s.view.entities \ swept' = AcceptedEntities' \ swept'
         /\ s.view.assertions = AcceptedAssertions'
    BY <1>4, <1>10, <1>12
  <1> QED
    BY <1>11, <1>13

LEMMA ReviewInductive == Spec => []ReviewInv
  <1> QED
    BY ReviewInit, ReviewStep, Inductive, PTL DEF Spec

\* However requests interleave and stop: two generations of one candidate need
\* a publication that met another request which had read the candidate while it
\* was still open, because neither batch of publishMemoryCandidate nor
\* validateMemoryCandidate looks at the state it overwrites.
THEOREM CandidatePublishedOnce == Spec => []PublishedOnce
  <1>1. ReviewInv => PublishedOnce
    BY DEF ReviewInv
  <1> QED
    BY <1>1, ReviewInductive, PTL

\* However requests interleave and stop: no entity is accepted without an
\* accepted assertion, and an accepted assertion lacks only entities that a
\* rollback's orphan sweep superseded after a publication had looked them up.
THEOREM CanonStaysConsistent == Spec => []CanonIsConsistent
  <1>1. ReviewInv => CanonIsConsistent
    BY DEF ReviewInv
  <1> QED
    BY <1>1, ReviewInductive, PTL

\* However requests interleave and stop: accepted assertions stay queued for
\* indexing, and rollbackMemoryDecision, which lists what to delete before its
\* batch, misses withdrawn assertions of contended candidates only.
THEOREM ProjectionFollows == Spec => []ProjectionFollowsState
  <1>1. ReviewInv => ProjectionFollowsState
    BY DEF ReviewInv
  <1> QED
    BY <1>1, ReviewInductive, PTL

\* However requests interleave and stop: rollbackMemoryDecision, undoing the
\* last publication that stands, restores the accepted memory its snapshot
\* recorded, unless a publication since then was contended or outrun.
THEOREM UndoRestoresSnapshot == Spec => UndoRestores
  <1>1. IInv /\ ReviewInv /\ ReviewInv' /\ [Next]_vars => [Restores]_vars
    BY RestoreStep
  <1>2. UndoRestores <=> [][Restores]_vars
    BY DEF UndoRestores, Restores
  <1> QED
    BY <1>1, <1>2, ReviewInductive, Inductive, PTL DEF Spec

=============================================================================
