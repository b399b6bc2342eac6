------------------------- MODULE OwnerConsentProofs -------------------------
(***************************************************************************)
(* Type correctness of OwnerConsent, the order of its flows, and that what *)
(* was consented to once is done once, for any number of people, subjects, *)
(* states and requests, and whatever the store returns late.               *)
(***************************************************************************)
EXTENDS OwnerConsent, TLAPS

Entitled(op, subject, person) ==
    /\ person \in Allowed
    /\ [op |-> op, subject |-> subject, person |-> person] \in identified
    /\ <<op, subject>> \in consented

\* What a state proves to whoever presents it.
StatesAreEarned ==
    \A i \in Ids :
        /\ kv[i].phase # "fresh" => kv[i].origin \in Ids
        /\ kv[i].stage = "github" => <<kv[i].op, kv[i].subject>> \in consented
        /\ kv[i].stage = "decision" =>
              Entitled(kv[i].op, kv[i].subject, kv[i].person)

\* What a request has established when it has come to a step.
LocalsAreEarned ==
    \A w \in Workers : ~At(w, "idle") =>
        /\ local[w].id \in Ids /\ local[w].origin \in Ids
        /\ local[w].op \in Operations /\ local[w].subject \in Subjects
        /\ <<local[w].op, local[w].subject>> \in consented
        /\ local[w].pc \in {"render", "decide", "perform"} =>
              Entitled(local[w].op, local[w].subject, local[w].person)

DoneIsEarned ==
    \A e \in performed : Entitled(e.op, e.subject, e.person)

Earned ==
    /\ TypeOK
    /\ StatesAreEarned
    /\ LocalsAreEarned
    /\ DoneIsEarned

Reading == {"accept", "callback", "decide"}

\* What a request has read was stored, and belongs to the request's flow.
ReadsAreStored ==
    \A w \in Workers : local[w].pc \in Reading =>
        /\ kv[local[w].id].phase # "fresh"
        /\ kv[local[w].id].origin = local[w].origin

\* The inductive invariant of the flows.
IInv == Earned /\ ReadsAreStored

LEMMA InitEstablishes == Init => IInv
  <1> SUFFICES ASSUME Init PROVE IInv
    OBVIOUS
  <1> USE ConstantsAssumption DEF Init, Fresh, Idle
  <1>1. TypeOK
    BY DEF TypeOK, State, Stages, Local, Steps, AllOperations, Direct, Decided
  <1>2. StatesAreEarned /\ LocalsAreEarned /\ DoneIsEarned /\ ReadsAreStored
    BY DEF StatesAreEarned, LocalsAreEarned, DoneIsEarned, ReadsAreStored,
         Reading, At
  <1> QED
    BY <1>1, <1>2 DEF IInv, Earned

-----------------------------------------------------------------------------
(* The store and the locals.                                               *)

LEMMA PutKeeps ==
    ASSUME IInv, NEW i \in Ids, NEW stage \in Stages, NEW op \in Operations,
           NEW subject \in Subjects, NEW person \in People \union {NoOne},
           NEW origin \in Ids,
           Put(i, stage, op, subject, person, origin),
           person # NoOne <=> stage = "decision" /\ person \in Allowed,
           stage = "github" => <<op, subject>> \in consented,
           stage = "decision" => Entitled(op, subject, person),
           UNCHANGED <<consented, identified>>
    PROVE  /\ kv' \in [Ids -> State]
           /\ \A j \in Ids : kv'[j].person # NoOne <=>
                 kv'[j].stage = "decision" /\ kv'[j].person \in Allowed
           /\ StatesAreEarned'
  <1> DEFINE new == [phase |-> "stored", stage |-> stage, op |-> op,
                     subject |-> subject, person |-> person,
                     origin |-> origin]
  <1>1. new \in State
    BY ConstantsAssumption DEF State
  <1>2. kv \in [Ids -> State] /\ kv' = [kv EXCEPT ![i] = new]
    BY DEF IInv, Earned, TypeOK, Put
  <1>3. kv' \in [Ids -> State]
    BY <1>1, <1>2
  <1>4. \A j \in Ids : kv'[j].person # NoOne <=>
                 kv'[j].stage = "decision" /\ kv'[j].person \in Allowed
    BY <1>2 DEF IInv, Earned, TypeOK
  <1>5. StatesAreEarned'
    BY <1>2 DEF IInv, Earned, StatesAreEarned, Entitled
  <1> QED
    BY <1>3, <1>4, <1>5

LEMMA GoneKeeps ==
    ASSUME IInv, NEW i \in Ids, kv' = Deletes(i), kv[i].origin \in Ids,
           UNCHANGED <<consented, identified>>
    PROVE  /\ kv' \in [Ids -> State]
           /\ \A j \in Ids : kv'[j].person # NoOne <=>
                 kv'[j].stage = "decision" /\ kv'[j].person \in Allowed
           /\ StatesAreEarned'
  <1>1. kv \in [Ids -> State]
    BY DEF IInv, Earned, TypeOK
  <1>2. /\ kv'[i] = [kv[i] EXCEPT !.phase = "gone"]
        /\ \A j \in Ids \ {i} : kv'[j] = kv[j]
        /\ DOMAIN kv' = Ids /\ kv' = [j \in Ids |-> kv'[j]]
    BY <1>1 DEF Deletes
  <1>3. kv' \in [Ids -> State]
    <2>1. kv'[i] \in State
      BY <1>1, <1>2 DEF State
    <2> QED
      BY <1>1, <1>2, <2>1
  <1>4. \A j \in Ids : /\ kv'[j].stage = kv[j].stage
                       /\ kv'[j].op = kv[j].op
                       /\ kv'[j].subject = kv[j].subject
                       /\ kv'[j].person = kv[j].person
                       /\ kv'[j].origin = kv[j].origin
    <2>1. /\ kv'[i].stage = kv[i].stage
          /\ kv'[i].op = kv[i].op
          /\ kv'[i].subject = kv[i].subject
          /\ kv'[i].person = kv[i].person
          /\ kv'[i].origin = kv[i].origin
      BY <1>1, <1>2 DEF State
    <2> QED
      BY <1>2, <2>1
  <1>5. \A j \in Ids : kv'[j].person # NoOne <=>
                 kv'[j].stage = "decision" /\ kv'[j].person \in Allowed
    BY <1>4 DEF IInv, Earned, TypeOK
  <1>6. \A j \in Ids : kv'[j].phase # "fresh" => kv'[j].origin \in Ids
    <2>1. \A j \in Ids \ {i} : kv'[j].phase # "fresh" => kv[j].origin \in Ids
      BY <1>2 DEF IInv, Earned, StatesAreEarned
    <2> QED
      BY <1>4, <2>1
  <1>7. StatesAreEarned'
    BY <1>4, <1>6 DEF IInv, Earned, StatesAreEarned, Entitled
  <1> QED
    BY <1>3, <1>5, <1>7

LEMMA ReturnKeeps ==
    ASSUME IInv, NEW w \in Workers, Return(w),
           UNCHANGED <<consented, identified>>
    PROVE  local' \in [Workers -> Local] /\ LocalsAreEarned'
  <1>1. Idle \in Local
    BY ConstantsAssumption
       DEF Idle, Local, Steps, AllOperations, Direct, Decided
  <1>2. /\ local \in [Workers -> Local]
        /\ local' = [local EXCEPT ![w] = Idle]
    BY DEF IInv, Earned, TypeOK, Return
  <1>3. local' \in [Workers -> Local]
    BY <1>1, <1>2
  <1>4. \A v \in Workers : local'[v] = local[v] \/ local'[v].pc = "idle"
    BY <1>2 DEF Idle
  <1>5. LocalsAreEarned'
    BY <1>4 DEF IInv, Earned, LocalsAreEarned, At, Entitled
  <1> QED
    BY <1>3, <1>5

LEMMA StartKeeps ==
    ASSUME IInv, NEW w \in Workers, NEW step \in Steps, NEW i \in Ids,
           NEW op \in Operations, NEW subject \in Subjects,
           NEW person \in People \union {NoOne},
           Start(w, step, i, op, subject, person),
           kv[i].origin \in Ids,
           consented \subseteq consented', identified' = identified,
           <<op, subject>> \in consented',
           step \in {"render", "decide", "perform"} =>
              Entitled(op, subject, person)
    PROVE  local' \in [Workers -> Local] /\ LocalsAreEarned'
  <1> DEFINE new == [pc |-> step, id |-> i, op |-> op, subject |-> subject,
                     person |-> person, origin |-> kv[i].origin]
  <1>1. new \in Local
    BY ConstantsAssumption DEF Local
  <1>2. /\ local \in [Workers -> Local]
        /\ local' = [local EXCEPT ![w] = new]
    BY DEF IInv, Earned, TypeOK, Start
  <1>3. local' \in [Workers -> Local]
    BY <1>1, <1>2
  <1>4. \A v \in Workers \ {w} : local'[v] = local[v]
    BY <1>2
  <1>5. /\ local'[w].pc = step /\ local'[w].id = i /\ local'[w].op = op
        /\ local'[w].subject = subject /\ local'[w].person = person
        /\ local'[w].origin = kv[i].origin
    BY <1>2
  <1>6. LocalsAreEarned'
    <2> SUFFICES ASSUME NEW v \in Workers, local'[v].pc # "idle"
                 PROVE  /\ local'[v].id \in Ids /\ local'[v].origin \in Ids
                        /\ local'[v].op \in Operations
                        /\ local'[v].subject \in Subjects
                        /\ <<local'[v].op, local'[v].subject>> \in consented'
                        /\ local'[v].pc \in {"render", "decide", "perform"} =>
                              Entitled(local[v].op, local[v].subject,
                                       local[v].person)'
      BY DEF LocalsAreEarned, At
    <2>1. CASE v = w
      BY <2>1, <1>5 DEF Entitled
    <2>2. CASE v # w
      BY <2>2, <1>4 DEF IInv, Earned, LocalsAreEarned, At, Entitled
    <2> QED
      BY <2>1, <2>2
  <1> QED
    BY <1>3, <1>6

LEMMA GotoKeeps ==
    ASSUME IInv, NEW w \in Workers, NEW step \in Steps, ~At(w, "idle"),
           Goto(w, step), UNCHANGED <<consented, identified>>,
           step \in {"render", "decide", "perform"} =>
              Entitled(local[w].op, local[w].subject, local[w].person)
    PROVE  local' \in [Workers -> Local] /\ LocalsAreEarned'
  <1>1. local \in [Workers -> Local]
    BY DEF IInv, Earned, TypeOK
  <1>2. /\ local'[w] = [local[w] EXCEPT !.pc = step]
        /\ \A v \in Workers \ {w} : local'[v] = local[v]
        /\ local' = [v \in Workers |-> local'[v]]
    BY <1>1 DEF Goto
  <1>3. local'[w] \in Local
    BY <1>1, <1>2 DEF Local
  <1>4. /\ local'[w].pc = step /\ local'[w].id = local[w].id
        /\ local'[w].op = local[w].op
        /\ local'[w].subject = local[w].subject
        /\ local'[w].person = local[w].person
        /\ local'[w].origin = local[w].origin
    BY <1>1, <1>2 DEF Local
  <1>5. LocalsAreEarned'
    <2> SUFFICES ASSUME NEW v \in Workers, local'[v].pc # "idle"
                 PROVE  /\ local'[v].id \in Ids /\ local'[v].origin \in Ids
                        /\ local'[v].op \in Operations
                        /\ local'[v].subject \in Subjects
                        /\ <<local'[v].op, local'[v].subject>> \in consented'
                        /\ local'[v].pc \in {"render", "decide", "perform"} =>
                              Entitled(local[v].op, local[v].subject,
                                       local[v].person)'
      BY DEF LocalsAreEarned, At
    <2>1. CASE v = w
      BY <2>1, <1>4 DEF IInv, Earned, LocalsAreEarned, At, Entitled
    <2>2. CASE v # w
      BY <2>2, <1>2 DEF IInv, Earned, LocalsAreEarned, At, Entitled
    <2> QED
      BY <2>1, <2>2
  <1> QED
    BY <1>1, <1>2, <1>3, <1>5

\* Who has read a state of its flow twice, and what was done, is recorded.
LEMMA StartNotes ==
    ASSUME IInv, NEW w, NEW step, NEW i \in Ids, NEW op, NEW subject, NEW person,
           Start(w, step, i, op, subject, person),
           kv[i].phase # "fresh", UNCHANGED <<done, again>>
    PROVE  /\ doubled' \subseteq Ids /\ done' \subseteq Ids /\ again' \subseteq Ids
           /\ doubled \subseteq doubled'
  BY DEF IInv, Earned, TypeOK, StatesAreEarned, Start

LEMMA CookieKeeps ==
    ASSUME IInv, NEW p \in People, NEW name \in Cookie, NEW i \in Ids,
           SetCookie(p, name, i)
    PROVE  cookies' \in [People -> [Cookie -> Ids \union {NoId}]]
  BY DEF IInv, Earned, TypeOK, SetCookie

-----------------------------------------------------------------------------
(* One lemma per page.                                                     *)

LEMMA BeginStep ==
    ASSUME IInv, NEW w \in Workers, NEW p \in People, NEW op \in Operations,
           NEW subject \in Subjects, NEW i \in Ids,
           Begin(w, p, op, subject, i)
    PROVE  Earned'
  <1> USE DEF Begin
  <1>1. <<"consent", op>> \in Cookie
    BY DEF Cookie
  <1>2. cookies' \in [People -> [Cookie -> Ids \union {NoId}]]
    BY <1>1, CookieKeeps
  <1>3. /\ kv' \in [Ids -> State]
        /\ \A j \in Ids : kv'[j].person # NoOne <=>
              kv'[j].stage = "decision" /\ kv'[j].person \in Allowed
        /\ StatesAreEarned'
    BY PutKeeps DEF Stages
  <1>4. TypeOK'
    BY <1>2, <1>3 DEF IInv, Earned, TypeOK, history
  <1>5. LocalsAreEarned' /\ DoneIsEarned'
    BY DEF IInv, Earned, LocalsAreEarned, DoneIsEarned, At, Entitled
  <1> QED
    BY <1>3, <1>4, <1>5 DEF IInv, Earned

LEMMA AcceptReadStep ==
    ASSUME IInv, NEW w \in Workers, NEW p \in People, NEW op \in Operations,
           NEW subject \in Subjects, NEW i \in Ids,
           AcceptRead(w, p, op, subject, i)
    PROVE  Earned'
  <1>1. /\ kv[i].op = op /\ kv[i].subject = subject
        /\ kv[i].phase # "fresh"
        /\ consented' = consented \union {<<op, subject>>}
        /\ Start(w, "accept", i, op, subject, NoOne)
        /\ UNCHANGED <<kv, cookies, identified, performed, done, again>>
    BY DEF AcceptRead, TargetMatches, ReadableAt, Readable
  <1>2. local' \in [Workers -> Local] /\ LocalsAreEarned'
    <2>1. kv[i].origin \in Ids
      BY <1>1 DEF IInv, Earned, StatesAreEarned
    <2> QED
      BY <1>1, <2>1, StartKeeps DEF Steps
  <1>3. consented' \subseteq Operations \X Subjects
    BY <1>1 DEF IInv, Earned, TypeOK, history
  <1>4. TypeOK'
    BY <1>1, <1>2, <1>3, StartNotes DEF IInv, Earned, TypeOK, history
  <1>5. StatesAreEarned' /\ DoneIsEarned'
    BY <1>1 DEF IInv, Earned, StatesAreEarned, DoneIsEarned, Entitled
  <1> QED
    BY <1>2, <1>4, <1>5 DEF IInv, Earned

LEMMA UseUpStep ==
    ASSUME IInv, NEW w \in Workers,
           AcceptDelete(w) \/ CallbackDelete(w) \/ DecideDelete(w)
    PROVE  Earned'
  <1>1. /\ ~At(w, "idle") /\ UseUp(w)
        /\ UNCHANGED <<cookies, consented, identified, performed>>
    BY DEF AcceptDelete, CallbackDelete, DecideDelete, At
  <1>2. \E step \in {"redirect", "identify", "perform"} :
           Goto(w, step) /\ (step = "perform" => At(w, "decide"))
    BY DEF AcceptDelete, CallbackDelete, DecideDelete
  <1>3. local' \in [Workers -> Local] /\ LocalsAreEarned'
    <2>1. PICK step \in {"redirect", "identify", "perform"} :
             Goto(w, step) /\ (step = "perform" => At(w, "decide"))
      BY <1>2
    <2>2. step = "perform" =>
             Entitled(local[w].op, local[w].subject, local[w].person)
      BY <2>1, <1>1 DEF IInv, Earned, LocalsAreEarned, At
    <2>3. step \in Steps
      BY DEF Steps
    <2> QED
      BY <1>1, <2>1, <2>2, <2>3, GotoKeeps
  <1>4. UNCHANGED history
    BY DEF AcceptDelete, CallbackDelete, DecideDelete
  <1>5. PICK i \in Ids : i = local[w].id
    BY <1>1 DEF IInv, Earned, LocalsAreEarned
  <1>6. /\ kv' \in [Ids -> State]
        /\ \A j \in Ids : kv'[j].person # NoOne <=>
              kv'[j].stage = "decision" /\ kv'[j].person \in Allowed
        /\ StatesAreEarned'
    <2>1. local[w].pc \in Reading
      BY DEF AcceptDelete, CallbackDelete, DecideDelete, At, Reading
    <2>2. kv[i].origin \in Ids
      BY <1>1, <1>5, <2>1 DEF IInv, Earned, LocalsAreEarned, ReadsAreStored
    <2> QED
      BY <1>1, <1>5, <2>2, GoneKeeps DEF UseUp
  <1>7. TypeOK'
    BY <1>1, <1>3, <1>4, <1>6 DEF IInv, Earned, TypeOK, history
  <1>8. DoneIsEarned'
    BY <1>1 DEF IInv, Earned, DoneIsEarned, Entitled
  <1> QED
    BY <1>3, <1>6, <1>7, <1>8 DEF IInv, Earned

LEMMA AcceptRedirectStep ==
    ASSUME IInv, NEW w \in Workers, NEW i \in Ids, AcceptRedirect(w, i)
    PROVE  Earned'
  <1> USE DEF AcceptRedirect
  <1>1. /\ local[w].op \in Operations /\ local[w].subject \in Subjects
        /\ <<local[w].op, local[w].subject>> \in consented
        /\ local[w].origin \in Ids
    BY DEF IInv, Earned, LocalsAreEarned, At
  <1>2. /\ kv' \in [Ids -> State]
        /\ \A j \in Ids : kv'[j].person # NoOne <=>
              kv'[j].stage = "decision" /\ kv'[j].person \in Allowed
        /\ StatesAreEarned'
    BY <1>1, PutKeeps DEF Stages
  <1>3. local' \in [Workers -> Local] /\ LocalsAreEarned'
    BY ReturnKeeps
  <1>4. TypeOK' /\ DoneIsEarned'
    BY <1>2, <1>3 DEF IInv, Earned, TypeOK, history, DoneIsEarned, Entitled
  <1> QED
    BY <1>2, <1>3, <1>4 DEF IInv, Earned

LEMMA CallbackReadStep ==
    ASSUME IInv, NEW w \in Workers, NEW i \in Ids, CallbackRead(w, i)
    PROVE  Earned'
  <1>1. /\ kv[i].stage = "github" /\ kv[i].op \in Operations
        /\ Start(w, "callback", i, kv[i].op, kv[i].subject, NoOne)
        /\ UNCHANGED <<kv, cookies, consented, identified, performed, done, again>>
    BY DEF CallbackRead, ReadableAt, CallbackOperation
  <1>0. kv[i].phase # "fresh" /\ kv[i].origin \in Ids
    BY DEF CallbackRead, ReadableAt, Readable, IInv, Earned, StatesAreEarned
  <1>2. <<kv[i].op, kv[i].subject>> \in consented /\ kv[i].subject \in Subjects
    BY <1>1 DEF IInv, Earned, StatesAreEarned, TypeOK, history
  <1>3. local' \in [Workers -> Local] /\ LocalsAreEarned'
    BY <1>0, <1>1, <1>2, StartKeeps DEF Steps
  <1>4. TypeOK' /\ StatesAreEarned' /\ DoneIsEarned'
    BY <1>0, <1>1, <1>3, StartNotes
       DEF IInv, Earned, TypeOK, history, StatesAreEarned, DoneIsEarned, Entitled
  <1> QED
    BY <1>3, <1>4 DEF IInv, Earned

LEMMA IdentifyStep ==
    ASSUME IInv, NEW w \in Workers, NEW p \in People, Identify(w, p)
    PROVE  Earned'
  <1> DEFINE step == IF local[w].op \in Decided THEN "render" ELSE "perform"
             event == [op |-> local[w].op, subject |-> local[w].subject,
                       person |-> p]
  <1>1. /\ ~At(w, "idle") /\ p \in Allowed
        /\ identified' = identified \union {event}
        /\ UNCHANGED <<kv, cookies, consented, performed, history>>
        /\ local \in [Workers -> Local]
    BY DEF Identify, IsAllowed, IInv, Earned, TypeOK, At
  <1>2. /\ local[w].id \in Ids
        /\ local[w].op \in Operations /\ local[w].subject \in Subjects
        /\ <<local[w].op, local[w].subject>> \in consented
        /\ local[w].origin \in Ids
    BY <1>1 DEF IInv, Earned, LocalsAreEarned
  <1>3. /\ local'[w] = [local[w] EXCEPT !.pc = step, !.person = p]
        /\ \A v \in Workers \ {w} : local'[v] = local[v]
        /\ local' = [v \in Workers |-> local'[v]]
    BY <1>1 DEF Identify
  <1>4. local'[w] \in Local
    BY <1>1, <1>3 DEF Local, Steps
  <1>5. /\ local'[w].pc = step /\ local'[w].id = local[w].id
        /\ local'[w].op = local[w].op
        /\ local'[w].subject = local[w].subject
        /\ local'[w].person = p
        /\ local'[w].origin = local[w].origin
    BY <1>1, <1>3 DEF Local
  <1>6. Entitled(local[w].op, local[w].subject, local[w].person)'
    BY <1>1, <1>2, <1>5 DEF Entitled
  <1>7. LocalsAreEarned'
    <2> SUFFICES ASSUME NEW v \in Workers, local'[v].pc # "idle"
                 PROVE  /\ local'[v].id \in Ids /\ local'[v].origin \in Ids
                        /\ local'[v].op \in Operations
                        /\ local'[v].subject \in Subjects
                        /\ <<local'[v].op, local'[v].subject>> \in consented'
                        /\ local'[v].pc \in {"render", "decide", "perform"} =>
                              Entitled(local[v].op, local[v].subject,
                                       local[v].person)'
      BY DEF LocalsAreEarned, At
    <2>1. CASE v = w
      BY <2>1, <1>1, <1>2, <1>5, <1>6
    <2>2. CASE v # w
      BY <2>2, <1>1, <1>3 DEF IInv, Earned, LocalsAreEarned, At, Entitled
    <2> QED
      BY <2>1, <2>2
  <1>8. event \in Event
    BY <1>2 DEF Event
  <1>9. TypeOK'
    BY <1>1, <1>3, <1>4, <1>8 DEF IInv, Earned, TypeOK, history
  <1>10. StatesAreEarned' /\ DoneIsEarned'
    BY <1>1 DEF IInv, Earned, StatesAreEarned, DoneIsEarned, Entitled
  <1> QED
    BY <1>7, <1>9, <1>10 DEF IInv, Earned

LEMMA RenderStep ==
    ASSUME IInv, NEW w \in Workers, NEW p \in People, NEW i \in Ids,
           Render(w, p, i)
    PROVE  Earned'
  <1> USE DEF Render
  <1>1. /\ local[w].op \in Operations /\ local[w].subject \in Subjects
        /\ Entitled(local[w].op, local[w].subject, local[w].person)
        /\ local[w].origin \in Ids
    BY DEF IInv, Earned, LocalsAreEarned, At
  <1>2. local[w].person \in People \ {NoOne}
    BY <1>1, ConstantsAssumption DEF Entitled
  <1>3. /\ kv' \in [Ids -> State]
        /\ \A j \in Ids : kv'[j].person # NoOne <=>
              kv'[j].stage = "decision" /\ kv'[j].person \in Allowed
        /\ StatesAreEarned'
    <2>1. local[w].person \in Allowed
      BY <1>1 DEF Entitled
    <2> QED
      BY <1>1, <1>2, <2>1, PutKeeps DEF Stages
  <1>4. <<"decision", local[w].op>> \in Cookie
    BY <1>1 DEF Cookie
  <1>5. cookies' \in [People -> [Cookie -> Ids \union {NoId}]]
    BY <1>2, <1>4, CookieKeeps
  <1>6. local' \in [Workers -> Local] /\ LocalsAreEarned'
    BY ReturnKeeps
  <1>7. TypeOK' /\ DoneIsEarned'
    BY <1>3, <1>5, <1>6 DEF IInv, Earned, TypeOK, history, DoneIsEarned, Entitled
  <1> QED
    BY <1>3, <1>6, <1>7 DEF IInv, Earned

LEMMA DecideReadStep ==
    ASSUME IInv, NEW w \in Workers, NEW p \in People, NEW op \in Operations,
           NEW subject \in Subjects, NEW i \in Ids,
           DecideRead(w, p, op, subject, i)
    PROVE  Earned'
  <1>1. /\ kv[i].stage = "decision" /\ kv[i].op = op
        /\ kv[i].subject = subject
        /\ Start(w, "decide", i, op, subject, kv[i].person)
        /\ UNCHANGED <<kv, cookies, consented, identified, performed, done, again>>
    BY DEF DecideRead, ReadableAt, TargetMatches
  <1>0. kv[i].phase # "fresh" /\ kv[i].origin \in Ids
    BY DEF DecideRead, ReadableAt, Readable, IInv, Earned, StatesAreEarned
  <1>2. Entitled(op, subject, kv[i].person)
    BY <1>1 DEF IInv, Earned, StatesAreEarned
  <1>3. kv[i].person \in People /\ <<op, subject>> \in consented
    BY <1>2, ConstantsAssumption DEF Entitled
  <1>4. local' \in [Workers -> Local] /\ LocalsAreEarned'
    BY <1>0, <1>1, <1>2, <1>3, StartKeeps DEF Steps
  <1>5. TypeOK' /\ StatesAreEarned' /\ DoneIsEarned'
    BY <1>0, <1>1, <1>4, StartNotes
       DEF IInv, Earned, TypeOK, history, StatesAreEarned, DoneIsEarned, Entitled
  <1> QED
    BY <1>4, <1>5 DEF IInv, Earned

LEMMA PerformStep ==
    ASSUME IInv, NEW w \in Workers, Perform(w)
    PROVE  Earned'
  <1> USE DEF Perform
  <1>1. /\ local[w].op \in Operations /\ local[w].subject \in Subjects
        /\ Entitled(local[w].op, local[w].subject, local[w].person)
        /\ local[w].origin \in Ids
    BY DEF IInv, Earned, LocalsAreEarned, At
  <1>2. local' \in [Workers -> Local] /\ LocalsAreEarned'
    BY ReturnKeeps
  <1>3. performed' \subseteq [op: Operations, subject: Subjects,
                              person: People \union {NoOne}]
    BY <1>1, ConstantsAssumption DEF IInv, Earned, TypeOK, Entitled
  <1>4. TypeOK' /\ StatesAreEarned'
    <2>1. done' \subseteq Ids /\ again' \subseteq Ids /\ doubled' \subseteq Ids
      BY <1>1 DEF IInv, Earned, TypeOK
    <2>2. TypeOK'
      BY <1>2, <1>3, <2>1 DEF IInv, Earned, TypeOK
    <2>3. StatesAreEarned'
      BY DEF IInv, Earned, StatesAreEarned, Entitled
    <2> QED
      BY <2>2, <2>3
  <1>5. DoneIsEarned'
    <2>1. \A e \in performed' :
             \/ e \in performed
             \/ /\ e.op = local[w].op /\ e.subject = local[w].subject
                /\ e.person = local[w].person
      OBVIOUS
    <2>2. ASSUME NEW e \in performed'
          PROVE  /\ e.person \in Allowed
                 /\ [op |-> e.op, subject |-> e.subject, person |-> e.person]
                       \in identified
                 /\ <<e.op, e.subject>> \in consented
      BY <1>1, <2>1 DEF IInv, Earned, DoneIsEarned, Entitled
    <2> QED
      BY <2>2 DEF DoneIsEarned, Entitled
  <1> QED
    BY <1>2, <1>4, <1>5 DEF IInv, Earned

LEMMA ExpireStep ==
    ASSUME IInv, NEW i \in Ids, Expire(i)
    PROVE  Earned'
  <1> USE DEF Expire
  <1>1. /\ kv' \in [Ids -> State]
        /\ \A j \in Ids : kv'[j].person # NoOne <=>
              kv'[j].stage = "decision" /\ kv'[j].person \in Allowed
        /\ StatesAreEarned'
    <2>1. kv[i].origin \in Ids
      BY DEF IInv, Earned, StatesAreEarned
    <2> QED
      BY <2>1, GoneKeeps DEF Deletes
  <1> QED
    BY <1>1 DEF IInv, Earned, TypeOK, history, LocalsAreEarned, DoneIsEarned, At, Entitled

LEMMA FailStep ==
    ASSUME IInv, NEW w \in Workers, Fail(w)
    PROVE  Earned'
  <1>1. local' \in [Workers -> Local] /\ LocalsAreEarned'
    BY ReturnKeeps DEF Fail
  <1> QED
    BY <1>1 DEF Fail, IInv, Earned, TypeOK, history, StatesAreEarned, DoneIsEarned, Entitled

LEMMA StepEarns ==
    ASSUME IInv, [Next]_vars
    PROVE  Earned'
  <1>1. CASE UNCHANGED vars
    BY <1>1 DEF vars, history, IInv, Earned, TypeOK, StatesAreEarned,
         LocalsAreEarned, DoneIsEarned, At, Entitled
  <1>2. CASE \E i \in Ids : Expire(i)
    BY <1>2, ExpireStep
  <1>3. CASE \E w \in Workers : Fail(w)
    BY <1>3, FailStep
  <1>4. CASE \E w \in Workers : Page(w)
    BY <1>4, BeginStep, AcceptReadStep, CallbackReadStep, DecideReadStep
       DEF Page
  <1>5. CASE \E w \in Workers : Proceed(w)
    BY <1>5, UseUpStep, IdentifyStep, PerformStep, AcceptRedirectStep,
       RenderStep DEF Proceed
  <1> QED
    BY <1>1, <1>2, <1>3, <1>4, <1>5 DEF Next

-----------------------------------------------------------------------------
(* What every step does to the states and to the requests.                 *)

Idles(w) == local[w].pc = "idle"

OthersStay(w) == \A v \in Workers \ {w} : local'[v] = local[v]

Puts(i, origin) ==
    /\ kv[i].phase = "fresh"
    /\ kv'[i].phase = "stored" /\ kv'[i].origin = origin
    /\ \A j \in Ids \ {i} : kv'[j] = kv[j]
    /\ UNCHANGED history

Removes(i) ==
    /\ kv'[i].phase = "gone" /\ kv'[i].origin = kv[i].origin
    /\ \A j \in Ids \ {i} : kv'[j] = kv[j]
    /\ UNCHANGED history

\* A request reads a state,
Reads(w, i) ==
    /\ Idles(w) /\ kv[i].phase # "fresh"
    /\ local'[w].pc \in Reading /\ local'[w].id = i
    /\ local'[w].origin = kv[i].origin
    /\ doubled \subseteq doubled'
    /\ kv[i].phase = "gone" => kv[i].origin \in doubled'
    /\ \A v \in Workers : HasRead(v, i) => kv[i].origin \in doubled'
    /\ UNCHANGED <<kv, done, again>>

\* deletes it,
Uses(w) ==
    /\ local[w].pc \in Reading
    /\ local'[w].pc \notin Reading \union {"idle"}
    /\ local'[w].origin = local[w].origin
    /\ Removes(local[w].id)

\* goes on with what it has read,
GoesOn(w) ==
    /\ local[w].pc \notin Reading \union {"idle"}
    /\ local'[w].pc \notin Reading \union {"idle"}
    /\ local'[w].origin = local[w].origin
    /\ UNCHANGED <<kv, history>>

\* leaves it to another state,
Hands(w, i) ==
    /\ local[w].pc \notin Reading \union {"idle"}
    /\ local'[w].pc = "idle"
    /\ Puts(i, local[w].origin)

\* or does what its flow is for.
Performs(w) ==
    /\ local[w].pc \notin Reading \union {"idle"}
    /\ local'[w].pc = "idle"
    /\ done' = done \union {local[w].origin}
    /\ again' = again \union (done \intersect {local[w].origin})
    /\ UNCHANGED <<kv, doubled>>

Fails(w) ==
    /\ local'[w].pc = "idle"
    /\ UNCHANGED <<kv, history>>

Kinds ==
    \/ \E i \in Ids : Puts(i, i) /\ UNCHANGED local
    \/ \E i \in Ids : Removes(i) /\ UNCHANGED local /\ kv[i].phase = "stored"
    \/ UNCHANGED <<kv, local, history>>
    \/ \E w \in Workers :
          /\ OthersStay(w)
          /\ \/ \E i \in Ids : Reads(w, i) \/ Hands(w, i)
             \/ Uses(w) \/ GoesOn(w) \/ Performs(w) \/ Fails(w)

LEMMA PutPuts ==
    ASSUME IInv, NEW i \in Ids, NEW stage, NEW op, NEW subject, NEW person,
           NEW origin, Put(i, stage, op, subject, person, origin),
           UNCHANGED history
    PROVE  Puts(i, origin)
  <1> DEFINE new == [phase |-> "stored", stage |-> stage, op |-> op,
                     subject |-> subject, person |-> person, origin |-> origin]
  <1>1. kv[i].phase = "fresh" /\ kv' = [kv EXCEPT ![i] = new]
    BY DEF Put
  <1>2. new.phase = "stored" /\ new.origin = origin
    OBVIOUS
  <1> HIDE DEF new
  <1>3. kv'[i] = new /\ \A j \in Ids \ {i} : kv'[j] = kv[j]
    BY <1>1 DEF IInv, Earned, TypeOK
  <1> QED
    BY <1>1, <1>2, <1>3 DEF Puts

LEMMA DeleteRemoves ==
    ASSUME IInv, NEW i \in Ids, kv' = Deletes(i), UNCHANGED history
    PROVE  Removes(i)
  <1>1. PICK old \in State : old = kv[i]
    BY DEF IInv, Earned, TypeOK
  <1>2. kv' = [kv EXCEPT ![i] = [old EXCEPT !.phase = "gone"]]
    BY <1>1 DEF Deletes
  <1>3. /\ kv'[i] = [old EXCEPT !.phase = "gone"]
        /\ \A j \in Ids \ {i} : kv'[j] = kv[j]
    BY <1>2 DEF IInv, Earned, TypeOK
  <1> QED
    BY <1>1, <1>3 DEF Removes, State

LEMMA StartReads ==
    ASSUME IInv, NEW w \in Workers, NEW step \in Reading, NEW i \in Ids,
           NEW op, NEW subject, NEW person, At(w, "idle"), kv[i].phase # "fresh",
           Start(w, step, i, op, subject, person), UNCHANGED <<kv, done, again>>
    PROVE  Reads(w, i) /\ OthersStay(w)
  <1> DEFINE new == [pc |-> step, id |-> i, op |-> op, subject |-> subject,
                     person |-> person, origin |-> kv[i].origin]
  <1>1. local' = [local EXCEPT ![w] = new]
    BY DEF Start
  <1>2. new.pc = step /\ new.id = i /\ new.origin = kv[i].origin
    OBVIOUS
  <1> HIDE DEF new
  <1>3. local'[w] = new /\ OthersStay(w)
    BY <1>1 DEF IInv, Earned, TypeOK, OthersStay
  <1>4. /\ doubled \subseteq doubled'
        /\ kv[i].phase = "gone" => kv[i].origin \in doubled'
        /\ \A v \in Workers : HasRead(v, i) => kv[i].origin \in doubled'
    BY DEF Start
  <1> QED
    BY <1>2, <1>3, <1>4 DEF Reads, Idles, At

LEMMA ReturnEnds ==
    ASSUME IInv, NEW w \in Workers, Return(w)
    PROVE  local'[w].pc = "idle" /\ OthersStay(w)
  <1>1. Idle.pc = "idle"
    BY DEF Idle
  <1>2. local'[w] = Idle /\ OthersStay(w)
    BY DEF Return, IInv, Earned, TypeOK, OthersStay
  <1> QED
    BY <1>1, <1>2

LEMMA GotoGoes ==
    ASSUME IInv, NEW w \in Workers, NEW step, Goto(w, step)
    PROVE  /\ local'[w].pc = step /\ local'[w].origin = local[w].origin
           /\ OthersStay(w)
  <1>1. PICK old \in Local : old = local[w]
    BY DEF IInv, Earned, TypeOK
  <1>2. local' = [local EXCEPT ![w] = [old EXCEPT !.pc = step]]
    BY <1>1 DEF Goto
  <1>3. local'[w] = [old EXCEPT !.pc = step] /\ OthersStay(w)
    BY <1>2 DEF IInv, Earned, TypeOK, OthersStay
  <1> QED
    BY <1>1, <1>3 DEF Local

LEMMA StepIsOfAKind ==
    ASSUME IInv, [Next]_vars
    PROVE  Kinds
  <1>1. CASE UNCHANGED vars
    BY <1>1 DEF vars, Kinds
  <1>2. ASSUME NEW i \in Ids, Expire(i) PROVE Kinds
    BY <1>2, DeleteRemoves DEF Expire, Deletes, Kinds
  <1>3. ASSUME NEW w \in Workers, Fail(w) PROVE Kinds
    BY <1>3, ReturnEnds DEF Fail, Fails, Kinds
  <1>4. ASSUME NEW w \in Workers, NEW i \in Ids, NEW p \in People,
               NEW op \in Operations, NEW subject \in Subjects,
               Begin(w, p, op, subject, i)
        PROVE  Kinds
    BY <1>4, PutPuts DEF Begin, Kinds
  <1>5. ASSUME NEW w \in Workers, NEW i \in Ids, Reads(w, i), OthersStay(w)
        PROVE  Kinds
    BY <1>5 DEF Kinds
  <1>6. ASSUME NEW w \in Workers, NEW i \in Ids, NEW p \in People,
               NEW op \in Operations, NEW subject \in Subjects,
               AcceptRead(w, p, op, subject, i) \/ DecideRead(w, p, op, subject, i)
        PROVE  Kinds
    <2>1. /\ At(w, "idle") /\ kv[i].phase # "fresh"
          /\ UNCHANGED <<kv, done, again>>
      BY <1>6 DEF AcceptRead, DecideRead, ReadableAt, Readable
    <2>2. \E step \in Reading : \E subj, person :
             Start(w, step, i, kv[i].op, subj, person)
      <3>1. CASE AcceptRead(w, p, op, subject, i)
        BY <3>1 DEF AcceptRead, TargetMatches, Reading
      <3>2. CASE DecideRead(w, p, op, subject, i)
        BY <3>2 DEF DecideRead, TargetMatches, Reading
      <3> QED
        BY <1>6, <3>1, <3>2
    <2> QED
      BY <1>5, <2>1, <2>2, StartReads
  <1>7. ASSUME NEW w \in Workers, NEW i \in Ids, CallbackRead(w, i) PROVE Kinds
    <2>1. /\ At(w, "idle") /\ kv[i].phase # "fresh"
          /\ UNCHANGED <<kv, done, again>>
      BY <1>7 DEF CallbackRead, ReadableAt, Readable
    <2>2. PICK op : Start(w, "callback", i, op, kv[i].subject, NoOne)
      BY <1>7 DEF CallbackRead
    <2> QED
      BY <1>5, <2>1, <2>2, StartReads DEF Reading
  <1>8. ASSUME NEW w \in Workers,
               AcceptDelete(w) \/ CallbackDelete(w) \/ DecideDelete(w)
        PROVE  Kinds
    <2>1. PICK step \in {"redirect", "identify", "perform"} : Goto(w, step)
      BY <1>8 DEF AcceptDelete, CallbackDelete, DecideDelete
    <2>2. /\ local[w].pc \in Reading /\ UseUp(w) /\ UNCHANGED history
      BY <1>8 DEF AcceptDelete, CallbackDelete, DecideDelete, At, Reading
    <2>3. PICK i \in Ids : i = local[w].id
      BY <2>2 DEF IInv, Earned, LocalsAreEarned, At, Reading
    <2>4. Removes(i)
      BY <2>2, <2>3, DeleteRemoves DEF UseUp
    <2> QED
      BY <2>1, <2>2, <2>3, <2>4, GotoGoes DEF Uses, Kinds, Reading
  <1>9. ASSUME NEW w \in Workers, NEW p \in People, Identify(w, p) PROVE Kinds
    <2>1. PICK old \in Local : old = local[w]
      BY DEF IInv, Earned, TypeOK
    <2>2. PICK step \in {"render", "perform"} :
             local' = [local EXCEPT ![w] = [old EXCEPT !.pc = step, !.person = p]]
      BY <1>9, <2>1 DEF Identify, IInv, Earned, TypeOK
    <2>3. local'[w] = [old EXCEPT !.pc = step, !.person = p] /\ OthersStay(w)
      BY <2>2 DEF IInv, Earned, TypeOK, OthersStay
    <2>4. local'[w].pc = step /\ local'[w].origin = local[w].origin
      BY <2>1, <2>3 DEF Local
    <2>5. local[w].pc = "identify" /\ UNCHANGED <<kv, history>>
      BY <1>9 DEF Identify, At
    <2>6. GoesOn(w)
      BY <2>4, <2>5 DEF GoesOn, Reading
    <2> QED
      BY <2>3, <2>6 DEF Kinds
  <1>10. ASSUME NEW w \in Workers, NEW i \in Ids,
                AcceptRedirect(w, i) \/ \E p \in People : Render(w, p, i)
        PROVE  Kinds
    <2>1. /\ local[w].pc \notin Reading \union {"idle"}
          /\ Return(w) /\ UNCHANGED history
      BY <1>10 DEF AcceptRedirect, Render, At, Reading
    <2>2. Puts(i, local[w].origin)
      BY <1>10, PutPuts DEF AcceptRedirect, Render
    <2> QED
      BY <2>1, <2>2, ReturnEnds DEF Hands, Kinds
  <1>11. ASSUME NEW w \in Workers, Perform(w) PROVE Kinds
    <2>1. local[w].pc = "perform" /\ Return(w)
      BY <1>11 DEF Perform, At
    <2>2. /\ done' = done \union {local[w].origin}
          /\ again' = again \union (done \intersect {local[w].origin})
          /\ UNCHANGED <<kv, doubled>>
      BY <1>11 DEF Perform
    <2>3. Performs(w) /\ OthersStay(w)
      BY <2>1, <2>2, ReturnEnds DEF Performs, Reading
    <2> QED
      BY <2>3 DEF Kinds
  <1>12. CASE \E w \in Workers : Page(w)
    BY <1>12, <1>4, <1>6, <1>7 DEF Page
  <1>13. CASE \E w \in Workers : Proceed(w)
    BY <1>13, <1>8, <1>9, <1>10, <1>11 DEF Proceed
  <1> QED
    BY <1>1, <1>2, <1>3, <1>12, <1>13 DEF Next

LEMMA StepReads ==
    ASSUME IInv, Kinds
    PROVE  ReadsAreStored'
  <1> SUFFICES ASSUME NEW v \in Workers, local'[v].pc \in Reading
               PROVE  /\ kv'[local'[v].id].phase # "fresh"
                      /\ kv'[local'[v].id].origin = local'[v].origin
    BY DEF ReadsAreStored
  <1> USE DEF Reading
  <1>1. ASSUME NEW i \in Ids, kv[i].phase # "fresh"
        PROVE  kv'[i].phase # "fresh" /\ kv'[i].origin = kv[i].origin
    BY <1>1 DEF Kinds, Puts, Removes, Reads, Hands, Uses, GoesOn, Performs, Fails
  <1>2. CASE local'[v] = local[v]
    <2>1. PICK i \in Ids : i = local[v].id
      BY <1>2 DEF IInv, Earned, LocalsAreEarned, At
    <2>2. kv[i].phase # "fresh" /\ kv[i].origin = local[v].origin
      BY <1>2, <2>1 DEF IInv, ReadsAreStored
    <2> QED
      BY <1>1, <1>2, <2>1, <2>2
  <1>3. ASSUME NEW i \in Ids, Reads(v, i)
        PROVE  /\ kv'[local'[v].id].phase # "fresh"
               /\ kv'[local'[v].id].origin = local'[v].origin
    BY <1>3 DEF Reads
  <1>4. \/ local'[v] = local[v]
        \/ \E i \in Ids : Reads(v, i)
    BY DEF Kinds, OthersStay, Hands, Uses, GoesOn, Performs, Fails
  <1> QED
    BY <1>2, <1>3, <1>4

LEMMA StepKeeps == IInv /\ [Next]_vars => IInv'
  <1> SUFFICES ASSUME IInv, [Next]_vars PROVE IInv'
    OBVIOUS
  <1>1. Earned'
    BY StepEarns
  <1>2. ReadsAreStored'
    BY StepIsOfAKind, StepReads
  <1> QED
    BY <1>1, <1>2 DEF IInv

\* Every table and every local of a request for a page keeps its domain.
THEOREM ConsentTypeCorrect == Spec => []TypeOK
  <1>1. IInv => TypeOK
    BY DEF IInv, Earned
  <1> QED
    BY <1>1, InitEstablishes, StepKeeps, PTL DEF Spec

LEMMA EarnedIsInOrder == IInv => PerformedInOrder
  <1> SUFFICES ASSUME IInv, NEW e \in performed
               PROVE  /\ e.person \in Allowed
                      /\ e \in identified
                      /\ <<e.op, e.subject>> \in consented
    BY DEF PerformedInOrder
  <1>1. Entitled(e.op, e.subject, e.person)
    BY DEF IInv, Earned, DoneIsEarned
  <1>2. e = [op |-> e.op, subject |-> e.subject, person |-> e.person]
    BY DEF IInv, Earned, TypeOK
  <1> QED
    BY <1>1, <1>2 DEF Entitled

\* Nothing is done but for an allowed person, identified for it, after consent
\* to it, however the pages of several flows, tabs and people are mixed and
\* however late the store forgets a state.
THEOREM FlowsKeepTheirOrder == Spec => []PerformedInOrder
  <1>1. Spec => []IInv
    BY InitEstablishes, StepKeeps, PTL DEF Spec
  <1> QED
    BY <1>1, EarnedIsInOrder, PTL

-----------------------------------------------------------------------------
(* One flow is in one place.                                               *)

Active(w, o) == ~Idles(w) /\ local[w].origin = o

Stored(i, o) == kv[i].phase = "stored" /\ kv[i].origin = o

Untouched(o) == /\ \A w \in Workers : ~Active(w, o)
                /\ \A i \in Ids : ~Stored(i, o)

\* The flow of a consent is a state in the store, or a request that has read it
\* and maybe not yet deleted it, or is over.
OneFlow(o) ==
    /\ \A v, w \in Workers : Active(v, o) /\ Active(w, o) => v = w
    /\ \A i, j \in Ids : Stored(i, o) /\ Stored(j, o) => i = j
    /\ \A w \in Workers, i \in Ids :
          Active(w, o) /\ Stored(i, o) =>
             local[w].pc \in Reading /\ local[w].id = i
    /\ o \in done => Untouched(o)
    /\ kv[o].phase = "fresh" => Untouched(o) /\ o \notin done

FlowsAreSingle ==
    /\ \A o \in Ids \ doubled : OneFlow(o)
    /\ again \subseteq doubled

LEMMA InitIsSingle == Init => FlowsAreSingle
  BY DEF Init, Fresh, Idle, FlowsAreSingle, OneFlow, Untouched, Active, Idles,
         Stored

LEMMA PutIsSingle ==
    ASSUME NEW o \in Ids, OneFlow(o), NEW i \in Ids, Puts(i, i), UNCHANGED local
    PROVE  OneFlow(o)'
  <1>1. \A w \in Workers : Active(w, o)' <=> Active(w, o)
    BY DEF Active, Idles
  <1>2. UNCHANGED <<done, local>>
    BY DEF Puts, history
  <1>3. CASE o = i
    <2>1. Untouched(o) /\ o \notin done
      BY <1>3 DEF OneFlow, Puts
    <2>2. \A j \in Ids : Stored(j, o)' => j = i
      BY <2>1 DEF Puts, Stored, Untouched
    <2>3. kv'[o].phase # "fresh"
      BY <1>3 DEF Puts
    <2> QED
      BY <1>1, <1>2, <2>1, <2>2, <2>3 DEF OneFlow, Untouched
  <1>4. CASE o # i
    <2>1. \A j \in Ids : Stored(j, o)' <=> Stored(j, o)
      BY <1>4 DEF Puts, Stored
    <2>2. kv'[o] = kv[o]
      BY <1>4 DEF Puts
    <2> QED
      BY <1>1, <1>2, <2>1, <2>2 DEF OneFlow, Untouched
  <1> QED
    BY <1>3, <1>4

LEMMA RemoveIsSingle ==
    ASSUME NEW o \in Ids, OneFlow(o), NEW i \in Ids, Removes(i), UNCHANGED local
    PROVE  OneFlow(o)'
  <1>1. \A w \in Workers : Active(w, o)' <=> Active(w, o)
    BY DEF Active, Idles
  <1>2. \A j \in Ids : Stored(j, o)' => Stored(j, o)
    BY DEF Removes, Stored
  <1>3. kv'[o].phase = "fresh" => kv[o].phase = "fresh"
    BY DEF Removes
  <1>4. UNCHANGED <<done, local>>
    BY DEF Removes, history
  <1> QED
    BY <1>1, <1>2, <1>3, <1>4 DEF OneFlow, Untouched

\* A request that reads a state of a flow finds the flow nowhere else.
LEMMA ReadIsSingle ==
    ASSUME IInv, NEW o \in Ids, OneFlow(o), o \notin doubled',
           NEW w \in Workers, OthersStay(w), NEW i \in Ids, Reads(w, i)
    PROVE  OneFlow(o)'
  <1>1. \A v \in Workers \ {w} : Active(v, o)' <=> Active(v, o)
    BY DEF Active, Idles, OthersStay
  <1>2. UNCHANGED <<kv, done>>
    BY DEF Reads
  <1>3. \A j \in Ids : Stored(j, o)' <=> Stored(j, o)
    BY <1>2 DEF Stored
  <1>4. CASE kv[i].origin # o
    <2>1. ~Active(w, o)' /\ ~Active(w, o)
      BY <1>4 DEF Active, Reads, Idles
    <2>2. \A v \in Workers : Active(v, o)' => Active(v, o) /\ local'[v] = local[v]
      BY <1>1, <2>1 DEF OthersStay
    <2> QED
      BY <1>2, <1>3, <2>2 DEF OneFlow, Untouched
  <1>5. CASE kv[i].origin = o
    <2>1. Stored(i, o)
      <3>1. kv[i].phase \in {"fresh", "stored", "gone"}
        BY DEF IInv, Earned, TypeOK, State
      <3> QED
        BY <1>5, <3>1 DEF Reads, Stored
    <2>2. \A v \in Workers : ~Active(v, o)
      <3> SUFFICES ASSUME NEW v \in Workers, Active(v, o) PROVE FALSE
        OBVIOUS
      <3>1. local[v].pc \in Reading /\ local[v].id = i
        BY <2>1 DEF OneFlow
      <3>2. HasRead(v, i)
        BY <3>1 DEF HasRead, At, Reading
      <3> QED
        BY <1>5, <3>2 DEF Reads
    <2>3. \A v \in Workers : Active(v, o)' => v = w
      BY <1>1, <2>2
    <2>4. \A j \in Ids : Stored(j, o) => j = i
      BY <2>1 DEF OneFlow
    <2>5. local'[w].pc \in Reading /\ local'[w].id = i
      BY DEF Reads
    <2>6. o \notin done /\ kv[o].phase # "fresh"
      BY <2>1 DEF OneFlow, Untouched
    <2> QED
      BY <1>2, <1>3, <2>3, <2>4, <2>5, <2>6 DEF OneFlow
  <1> QED
    BY <1>4, <1>5

\* A request that has deleted what it had read holds the only copy.
LEMMA UseIsSingle ==
    ASSUME IInv, NEW o \in Ids, OneFlow(o), NEW w \in Workers, OthersStay(w),
           Uses(w)
    PROVE  OneFlow(o)'
  <1>1. PICK i \in Ids : i = local[w].id
    BY DEF IInv, Earned, LocalsAreEarned, At, Uses, Reading
  <1>2. Removes(i)
    BY <1>1 DEF Uses
  <1>3. \A v \in Workers : Active(v, o)' => Active(v, o)
    BY DEF Active, Idles, OthersStay, Uses, Reading
  <1>4. \A j \in Ids : Stored(j, o)' => Stored(j, o) /\ j # i
    BY <1>2 DEF Removes, Stored
  <1>5. UNCHANGED done /\ (kv'[o].phase = "fresh" => kv[o].phase = "fresh")
    BY <1>2 DEF Removes, history
  <1>6. \A v \in Workers, j \in Ids :
           Active(v, o)' /\ Stored(j, o)' =>
              local'[v].pc \in Reading /\ local'[v].id = j
    <2> SUFFICES ASSUME NEW v \in Workers, NEW j \in Ids,
                        Active(v, o)', Stored(j, o)'
                 PROVE  local'[v].pc \in Reading /\ local'[v].id = j
      OBVIOUS
    <2>1. local[v].pc \in Reading /\ local[v].id = j
      BY <1>3, <1>4 DEF OneFlow
    <2>2. v # w
      BY <1>1, <1>4, <2>1
    <2> QED
      BY <2>1, <2>2 DEF OthersStay
  <1> QED
    BY <1>3, <1>4, <1>5, <1>6 DEF OneFlow, Untouched

LEMMA GoOnIsSingle ==
    ASSUME NEW o \in Ids, OneFlow(o), NEW w \in Workers, OthersStay(w),
           GoesOn(w) \/ Fails(w)
    PROVE  OneFlow(o)'
  <1>1. \A v \in Workers : Active(v, o)' => Active(v, o)
    BY DEF Active, Idles, OthersStay, GoesOn, Fails, Reading
  <1>2. UNCHANGED <<kv, done>>
    BY DEF GoesOn, Fails, history
  <1>3. \A j \in Ids : Stored(j, o)' <=> Stored(j, o)
    BY <1>2 DEF Stored
  <1>4. \A v \in Workers, j \in Ids :
           Active(v, o)' /\ Stored(j, o)' =>
              local'[v].pc \in Reading /\ local'[v].id = j
    <2> SUFFICES ASSUME NEW v \in Workers, NEW j \in Ids,
                        Active(v, o)', Stored(j, o)'
                 PROVE  local'[v].pc \in Reading /\ local'[v].id = j
      OBVIOUS
    <2>1. local[v].pc \in Reading /\ local[v].id = j
      BY <1>1, <1>3 DEF OneFlow
    <2>2. v # w
      BY <2>1 DEF GoesOn, Fails, Active, Idles, Reading
    <2> QED
      BY <2>1, <2>2 DEF OthersStay
  <1> QED
    BY <1>1, <1>2, <1>3, <1>4 DEF OneFlow, Untouched

LEMMA HandIsSingle ==
    ASSUME NEW o \in Ids, OneFlow(o), NEW w \in Workers, OthersStay(w),
           NEW i \in Ids, Hands(w, i)
    PROVE  OneFlow(o)'
  <1>1. \A v \in Workers : Active(v, o)' => /\ Active(v, o) /\ v # w
                                            /\ local'[v] = local[v]
    BY DEF Active, Idles, OthersStay, Hands
  <1>2. UNCHANGED done /\ kv[i].phase = "fresh" /\ kv'[i].phase = "stored"
    BY DEF Hands, Puts, history
  <1>3. CASE local[w].origin # o
    <2>1. \A j \in Ids : Stored(j, o)' => Stored(j, o)
      BY <1>3 DEF Hands, Puts, Stored
    <2>2. kv'[o].phase = "fresh" => kv[o].phase = "fresh"
      BY DEF Hands, Puts
    <2> QED
      BY <1>1, <1>2, <2>1, <2>2 DEF OneFlow, Untouched
  <1>4. CASE local[w].origin = o
    <2>1. Active(w, o) /\ local[w].pc \notin Reading
      BY <1>4 DEF Active, Idles, Hands, Reading
    <2>2. \A j \in Ids : ~Stored(j, o)
      BY <2>1 DEF OneFlow
    <2>3. \A v \in Workers : ~Active(v, o)'
      BY <1>1, <2>1 DEF OneFlow
    <2>4. \A j \in Ids : Stored(j, o)' => j = i
      BY <2>2 DEF Hands, Puts, Stored
    <2>5. o \notin done /\ kv[o].phase # "fresh"
      BY <2>1 DEF OneFlow, Untouched
    <2>6. kv'[o].phase # "fresh"
      BY <2>5 DEF Hands, Puts
    <2> QED
      BY <1>2, <2>3, <2>4, <2>5, <2>6 DEF OneFlow
  <1> QED
    BY <1>3, <1>4

LEMMA PerformIsSingle ==
    ASSUME NEW o \in Ids, OneFlow(o), NEW w \in Workers, OthersStay(w),
           Performs(w)
    PROVE  OneFlow(o)' /\ (local[w].origin = o => o \notin done)
  <1>1. \A v \in Workers : Active(v, o)' => /\ Active(v, o) /\ v # w
                                            /\ local'[v] = local[v]
    BY DEF Active, Idles, OthersStay, Performs
  <1>2. UNCHANGED kv
    BY DEF Performs
  <1>3. \A j \in Ids : Stored(j, o)' <=> Stored(j, o)
    BY <1>2 DEF Stored
  <1>4. CASE local[w].origin # o
    <2>1. o \in done' <=> o \in done
      BY <1>4 DEF Performs
    <2> QED
      BY <1>1, <1>2, <1>3, <1>4, <2>1 DEF OneFlow, Untouched
  <1>5. CASE local[w].origin = o
    <2>1. Active(w, o) /\ local[w].pc \notin Reading
      BY <1>5 DEF Active, Idles, Performs, Reading
    <2>2. \A j \in Ids : ~Stored(j, o)
      BY <2>1 DEF OneFlow
    <2>3. \A v \in Workers : ~Active(v, o)'
      BY <1>1, <2>1 DEF OneFlow
    <2>4. o \notin done /\ kv[o].phase # "fresh"
      BY <2>1 DEF OneFlow, Untouched
    <2> QED
      BY <1>2, <1>3, <2>2, <2>3, <2>4 DEF OneFlow, Untouched
  <1> QED
    BY <1>4, <1>5

LEMMA StepIsSingle ==
    ASSUME IInv, FlowsAreSingle, [Next]_vars
    PROVE  FlowsAreSingle'
  <1>1. Kinds
    BY StepIsOfAKind
  <1>2. doubled \subseteq doubled'
    BY <1>1 DEF Kinds, Puts, Removes, Reads, Hands, Uses, GoesOn, Performs,
         Fails, history
  <1>3. ASSUME NEW o \in Ids \ doubled' PROVE OneFlow(o)'
    <2>1. o \in Ids /\ OneFlow(o)
      BY <1>2, <1>3 DEF FlowsAreSingle
    <2>2. CASE \E i \in Ids : Puts(i, i) /\ UNCHANGED local
      BY <2>1, <2>2, PutIsSingle
    <2>3. CASE \E i \in Ids : Removes(i) /\ UNCHANGED local
      BY <2>1, <2>3, RemoveIsSingle
    <2>4. CASE UNCHANGED <<kv, local, history>>
      BY <2>1, <2>4 DEF OneFlow, Untouched, Active, Idles, Stored, history
    <2>5. ASSUME NEW w \in Workers, OthersStay(w),
                 \/ \E i \in Ids : Reads(w, i) \/ Hands(w, i)
                 \/ Uses(w) \/ GoesOn(w) \/ Performs(w) \/ Fails(w)
          PROVE  OneFlow(o)'
      BY <1>3, <2>1, <2>5, ReadIsSingle, HandIsSingle, UseIsSingle,
         GoOnIsSingle, PerformIsSingle
    <2> QED
      BY <1>1, <2>2, <2>3, <2>4, <2>5 DEF Kinds
  <1>4. again' \subseteq doubled'
    <2>1. CASE UNCHANGED again
      BY <1>2, <2>1 DEF FlowsAreSingle
    <2>2. ASSUME NEW w \in Workers, OthersStay(w), Performs(w)
          PROVE  again' \subseteq doubled'
      <3>1. PICK o \in Ids : o = local[w].origin
        BY <2>2 DEF IInv, Earned, LocalsAreEarned, At, Performs, Reading
      <3>2. o \in done => o \in doubled
        BY <2>2, <3>1, PerformIsSingle DEF FlowsAreSingle
      <3>3. again' \subseteq again \union (done \intersect {o})
        BY <2>2, <3>1 DEF Performs
      <3> QED
        BY <1>2, <3>2, <3>3 DEF FlowsAreSingle
    <2>3. \/ UNCHANGED again
          \/ \E w \in Workers : OthersStay(w) /\ Performs(w)
      BY <1>1 DEF Kinds, Puts, Removes, Reads, Hands, Uses, GoesOn, Fails,
           history
    <2> QED
      BY <2>1, <2>2, <2>3
  <1> QED
    BY <1>3, <1>4 DEF FlowsAreSingle

\* What somebody said yes to is done a second time only if two requests had read
\* one state of its flow before either deleted it, or the store returned one it
\* had deleted: a page that is repeated later finds nothing to go on with.
THEOREM ConsentsAreDoneOnce == Spec => []DoneOnce
  <1>1. Init => IInv /\ FlowsAreSingle
    BY InitEstablishes, InitIsSingle
  <1>2. IInv /\ FlowsAreSingle /\ [Next]_vars => (IInv /\ FlowsAreSingle)'
    BY StepKeeps, StepIsSingle
  <1>3. FlowsAreSingle => DoneOnce
    BY DEF FlowsAreSingle, DoneOnce
  <1> QED
    BY <1>1, <1>2, <1>3, PTL DEF Spec

=============================================================================
