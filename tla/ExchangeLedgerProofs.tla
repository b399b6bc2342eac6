------------------------ MODULE ExchangeLedgerProofs ------------------------
(***************************************************************************)
(* Proofs about ExchangeLedger, for any sets of credentials, requests and  *)
(* consumers, any identifiers and any number of deliveries.                *)
(*                                                                         *)
(* The inductive invariant says of every request what its locals were      *)
(* drawn from: a mail's identifier has no row but the mail's own, an       *)
(* artifact is stored before its mail moves on, a receipt crosses the      *)
(* parties of the exchange it names, whoever saw one when it began will    *)
(* find it, and a mandate has gone to whoever is not left to reach.        *)
(***************************************************************************)
EXTENDS ExchangeLedger, TLAPS

-----------------------------------------------------------------------------
(* The inductive invariant.                                                *)

\* The row that email() makes of a mail.
IsMail(row) ==
    /\ row.state = "archived"
    /\ row.sender \in {Stranger, Unknown} /\ row.about = NoId

\* The row of a receipt: it goes back where its exchange came from.
IsReceipt(row) ==
    /\ row.state = "archived" /\ ~row.artifact
    /\ row.about \in Ids
    /\ mandates[row.about].state = "archived"
    /\ row.sender = mandates[row.about].recipient
    /\ row.recipient = mandates[row.about].sender
    /\ row.sender \in Personas /\ row.recipient \in Personas \union {Unknown}

\* No row of another kind has this identifier.
MailMayTake(i) == mandates[i].state \in {"none", "archived"}

\* The steps of a request, or of a consumer, that carries a mail.
Carrying == {"put", "hand_over", "store", "ack"}

CarriesMail(w) ==
    /\ local[w].id \in MailIds
    /\ MailMayTake(local[w].id)
    /\ IsMail(local[w].row)
    /\ local[w].row.artifact => At(w, "put") \/ local[w].id \in objects
    /\ At(w, "store") \/ At(w, "ack") => queue[local[w].id].status # "none"
    /\ At(w, "ack") /\ "archived" \in admitted =>
          mandates[local[w].id].state = "archived"

ReachesTheRest(w) ==
    LET i == local[w].id IN
    /\ i \in Ids
    /\ local[w].todo # {}
    /\ mandates[i].state = "dispatched"
    /\ Recipients(mandates[i].sender) \subseteq sent[i] \union local[w].todo

Acknowledges(w) ==
    /\ IsReceipt(local[w].row)
    /\ local[w].late => HasReceipt(local[w].row.about)
    /\ At(w, "receipt") => ~local[w].late

LocalOK(w) ==
    /\ local[w].pc \in Carrying => CarriesMail(w)
    /\ local[w].pc \in {"check", "receipt"} => Acknowledges(w)
    /\ local[w].pc = "reach" => ReachesTheRest(w)

\* A row is no receipt, or a receipt that answers.
RowOK(i) ==
    /\ mandates[i].state # "archived" =>
          mandates[i].about = NoId /\ ~mandates[i].artifact
    /\ mandates[i].about \in Ids => IsReceipt(mandates[i])
    /\ mandates[i].artifact => i \in objects

MessageOK(i) ==
    /\ queue[i].status = "none" => ~queue[i].row.artifact
    /\ queue[i].status # "none" => /\ i \in MailIds
                                   /\ IsMail(queue[i].row)
                                   /\ MailMayTake(i)
    /\ queue[i].row.artifact => i \in objects
    /\ queue[i].status = "acked" /\ "archived" \in admitted =>
          mandates[i].state = "archived"

\* The first half of PromiseKept.
Kept(i) ==
    \/ queue[i].status \in {"waiting", "dropped"}
    \/ mandates[i].state = "archived"
    \/ /\ mandates[i].state = "dispatched"
       /\ Recipients(mandates[i].sender) \subseteq sent[i]
    \/ "archived" \notin admitted /\ i \notin MandateIds

IInv ==
    /\ TypeOK
    /\ \A w \in Workers : LocalOK(w)
    /\ \A i \in Ids : RowOK(i) /\ MessageOK(i)
    /\ \A i \in told : Kept(i)

-----------------------------------------------------------------------------
(* What every step leaves alone: rows are inserted and stay, under an      *)
(* identifier nobody uses if they are mandates; sends and objects stay.    *)

RowStays(i) ==
    \/ mandates'[i] = mandates[i]
    \/ mandates[i].state = "none" /\ mandates'[i].state = "archived"
    \/ mandates[i].state = "none" /\ mandates'[i].state = "dispatched" /\ ~Used(i)

Grows ==
    /\ \A i \in Ids : RowStays(i) /\ sent[i] \subseteq sent'[i]
    /\ \A i \in Ids : queue[i].status # "none" => queue'[i].status # "none"
    /\ objects \subseteq objects'
    /\ admitted' = admitted

LEMMA InitEstablishes == Init => IInv
  <1> SUFFICES ASSUME Init PROVE IInv
    OBVIOUS
  <1>1. NoRow \in Row /\ NoRow.state = "none" /\ NoRow.about = NoId
        /\ NoRow.artifact = FALSE
    BY DEF NoRow, Row
  <1>2. Idle \in Local /\ Idle.pc = "idle"
    BY <1>1 DEF Idle, Local, Steps
  <1>3. [status |-> "none", tries |-> 0, row |-> NoRow] \in Message
    BY <1>1, ConstantsAssumption DEF Message
  <1>4. TypeOK
    BY <1>1, <1>2, <1>3 DEF Init, TypeOK
  <1>5. \A w \in Workers : local[w] = Idle
    BY DEF Init
  <1>6. \A w \in Workers : LocalOK(w)
    BY <1>2, <1>5 DEF LocalOK, Carrying
  <1>7. \A i \in Ids : mandates[i] = NoRow /\ queue[i].status = "none"
                       /\ queue[i].row = NoRow
    BY DEF Init
  <1>8. \A i \in Ids : RowOK(i) /\ MessageOK(i)
    BY <1>1, <1>7, ConstantsAssumption DEF RowOK, MessageOK, MailMayTake
  <1> QED
    BY <1>4, <1>6, <1>8 DEF IInv, Init

\* INSERT OR IGNORE of an exchange.
LEMMA ArchiveInserts ==
    ASSUME TypeOK, NEW i \in Ids, NEW row \in Row, row.state = "archived",
           Archive(i, row)
    PROVE  /\ mandates' \in [Ids -> Row]
           /\ \A j \in Ids \ {i} : mandates'[j] = mandates[j]
           /\ \/ mandates'[i] = mandates[i]
              \/ mandates[i].state = "none" /\ mandates'[i] = row
           /\ mandates[i].state = "none" /\ "archived" \in admitted =>
                 mandates'[i] = row
           /\ "archived" \notin admitted => mandates' = mandates
           /\ \A j \in Ids : RowStays(j)
  BY DEF TypeOK, Archive, RowStays

LEMMA ExchangeIsRow ==
    ASSUME NEW sender \in Personas \union {Stranger, Unknown},
           NEW recipient \in Personas \union {Unknown, Unmapped},
           NEW about \in Ids \union {NoId}, NEW artifact \in BOOLEAN
    PROVE  LET row == Exchange(sender, recipient, about, artifact) IN
           /\ row \in Row
           /\ row.state = "archived" /\ row.sender = sender
           /\ row.recipient = recipient /\ row.about = about
           /\ row.artifact = artifact
  BY DEF Exchange, Row

\* The rows that requests insert.
LEMMA CarriedRows ==
    ASSUME IInv, NEW w \in Workers,
           local[w].pc \in Carrying \union {"check", "receipt"}
    PROVE  local[w].row \in Row /\ local[w].row.state = "archived"
  BY DEF IInv, TypeOK, Local, LocalOK, CarriesMail, Acknowledges, IsMail, IsReceipt

LEMMA KindsAreIds ==
    ExchangeIds \subseteq Ids /\ MailIds \subseteq Ids /\ MandateIds \subseteq Ids
    /\ Requests \subseteq Workers /\ Consumers \subseteq Workers
  BY DEF Ids, Workers

\* DispatchMandate inserts one row, of an identifier that nobody uses.
LEMMA MandateInserts ==
    ASSUME IInv, NEW w \in Workers, NEW i \in Ids, NEW sender \in Senders,
           ~Used(i),
           mandates' = [mandates EXCEPT ![i] =
              [NoRow EXCEPT !.state = "dispatched", !.sender = sender]]
    PROVE  /\ mandates' \in [Ids -> Row]
           /\ \A j \in Ids \ {i} : mandates'[j] = mandates[j]
           /\ mandates[i].state = "none"
           /\ mandates'[i].state = "dispatched" /\ mandates'[i].sender = sender
           /\ mandates'[i].about = NoId /\ mandates'[i].artifact = FALSE
           /\ \A j \in Ids : RowStays(j)
  <1>1. PICK row \in Row : /\ row = [NoRow EXCEPT !.state = "dispatched",
                                                  !.sender = sender]
                           /\ row.state = "dispatched" /\ row.sender = sender
                           /\ row.about = NoId /\ row.artifact = FALSE
    <2>0. NoRow \in Row /\ NoRow.about = NoId /\ NoRow.artifact = FALSE
      BY DEF NoRow, Row
    <2>1. PICK none \in Row : none = NoRow /\ none.about = NoId
                             /\ none.artifact = FALSE
      BY <2>0
    <2>2. [none EXCEPT !.state = "dispatched", !.sender = sender] \in Row
      BY DEF Row
    <2> QED
      BY <2>1, <2>2 DEF Row
  <1>2. mandates \in [Ids -> Row] /\ mandates' = [mandates EXCEPT ![i] = row]
    BY <1>1 DEF IInv, TypeOK
  <1>3. mandates[i].state = "none"
    BY DEF Used
  <1> QED
    BY <1>1, <1>2, <1>3 DEF RowStays

-----------------------------------------------------------------------------
(* Types, and what stays.                                                  *)

LEMMA IdleIsLocal == Idle \in Local /\ Idle.pc = "idle"
  BY ConstantsAssumption DEF Idle, NoRow, Local, Row, Steps

LEMMA GotoIsTyped ==
    ASSUME IInv, NEW w \in Workers, NEW step \in Steps, Goto(w, step)
    PROVE  /\ local' \in [Workers -> Local]
           /\ \A v \in Workers \ {w} : local'[v] = local[v]
           /\ local'[w].pc = step /\ local'[w].id = local[w].id
           /\ local'[w].row = local[w].row /\ local'[w].todo = local[w].todo
           /\ local'[w].late = local[w].late
  <1>1. PICK old \in Local : old = local[w]
    BY DEF IInv, TypeOK
  <1>2. local' = [local EXCEPT ![w] = [old EXCEPT !.pc = step]]
    BY <1>1 DEF Goto
  <1>3. [old EXCEPT !.pc = step] \in Local
    BY DEF Local
  <1> QED
    BY <1>1, <1>2, <1>3 DEF IInv, TypeOK, Local

LEMMA ReturnIsTyped ==
    ASSUME IInv, NEW w \in Workers, Return(w)
    PROVE  /\ local' \in [Workers -> Local]
           /\ \A v \in Workers \ {w} : local'[v] = local[v]
           /\ local'[w].pc = "idle"
  <1>1. Idle \in Local /\ Idle.pc = "idle"
    BY ConstantsAssumption DEF Idle, NoRow, Local, Row, Steps
  <1> QED
    BY <1>1 DEF IInv, TypeOK, Return

\* A request starts or goes on with these locals.
LEMMA SetIsTyped ==
    ASSUME IInv, NEW w \in Workers, NEW l \in Local,
           local' = [local EXCEPT ![w] = l]
    PROVE  /\ local' \in [Workers -> Local]
           /\ \A v \in Workers \ {w} : local'[v] = local[v]
           /\ local'[w] = l
  BY DEF IInv, TypeOK

\* ReachRecipient, when somebody is left.
LEMMA ReachIsTyped ==
    ASSUME IInv, NEW w \in Workers, NEW p,
           local' = [local EXCEPT ![w].todo = @ \ {p}]
    PROVE  /\ local' \in [Workers -> Local]
           /\ \A v \in Workers \ {w} : local'[v] = local[v]
           /\ local'[w].pc = local[w].pc /\ local'[w].id = local[w].id
           /\ local'[w].todo = local[w].todo \ {p}
  <1>1. PICK old \in Local : old = local[w]
    BY DEF IInv, TypeOK
  <1>2. local' = [local EXCEPT ![w] = [old EXCEPT !.todo = old.todo \ {p}]]
    BY <1>1
  <1>3. [old EXCEPT !.todo = old.todo \ {p}] \in Local
    BY DEF Local
  <1> QED
    BY <1>1, <1>2, <1>3 DEF IInv, TypeOK, Local

\* ReceiveMail and Deliver start a request with these locals.
LEMMA CarrierIsLocal ==
    ASSUME NEW step \in Steps, NEW i \in Ids, NEW row \in Row
    PROVE  /\ Carrier(step, i, row) \in Local
           /\ Carrier(step, i, row).pc = step /\ Carrier(step, i, row).id = i
           /\ Carrier(step, i, row).row = row
  <1>1. PICK idle \in Local : idle = Idle
    BY IdleIsLocal
  <1>2. PICK l : l = [idle EXCEPT !.pc = step, !.id = i, !.row = row]
    OBVIOUS
  <1>3. l = Carrier(step, i, row)
    BY <1>1, <1>2 DEF Carrier
  <1>4. l \in Local
    BY <1>2 DEF Local
  <1>5. l.pc = step /\ l.id = i /\ l.row = row
    BY <1>2 DEF Local
  <1> QED
    BY <1>3, <1>4, <1>5

LEMMA CarryStarts ==
    ASSUME IInv, NEW w \in Workers, NEW step \in Steps, NEW i \in Ids,
           NEW row \in Row, local' = [local EXCEPT ![w] = Carrier(step, i, row)]
    PROVE  /\ local' \in [Workers -> Local]
           /\ \A v \in Workers \ {w} : local'[v] = local[v]
           /\ local'[w].pc = step /\ local'[w].id = i /\ local'[w].row = row
  <1>1. PICK l : l = Carrier(step, i, row)
    OBVIOUS
  <1>2. l \in Local /\ l.pc = step /\ l.id = i /\ l.row = row
    BY <1>1, CarrierIsLocal
  <1>3. local' = [local EXCEPT ![w] = l]
    BY <1>1
  <1> QED
    BY <1>2, <1>3, SetIsTyped

\* So does AcknowledgeRead,
LEMMA AcknowledgeStarts ==
    ASSUME IInv, NEW w \in Workers, NEW row \in Row,
           NEW late \in BOOLEAN,
           local' = [local EXCEPT ![w] =
              [Idle EXCEPT !.pc = "check", !.late = late, !.row = row]]
    PROVE  /\ local' \in [Workers -> Local]
           /\ \A v \in Workers \ {w} : local'[v] = local[v]
           /\ local'[w].pc = "check" /\ local'[w].late = late /\ local'[w].row = row
  <1>1. PICK idle \in Local : idle = Idle
    BY IdleIsLocal
  <1>2. PICK l : l = [idle EXCEPT !.pc = "check", !.late = late, !.row = row]
    OBVIOUS
  <1>3. l \in Local
    BY <1>2 DEF Local, Steps
  <1>4. l.pc = "check" /\ l.late = late /\ l.row = row
    BY <1>2 DEF Local
  <1>5. local' = [local EXCEPT ![w] = l]
    BY <1>1, <1>2
  <1> QED
    BY <1>3, <1>4, <1>5, SetIsTyped

\* and DispatchMandate.
LEMMA ReachStarts ==
    ASSUME IInv, NEW w \in Workers, NEW i \in Ids,
           NEW todo \in SUBSET Personas,
           local' = [local EXCEPT ![w] =
              [Idle EXCEPT !.pc = "reach", !.id = i, !.todo = todo]]
    PROVE  /\ local' \in [Workers -> Local]
           /\ \A v \in Workers \ {w} : local'[v] = local[v]
           /\ local'[w].pc = "reach" /\ local'[w].id = i /\ local'[w].todo = todo
  <1>1. PICK idle \in Local : idle = Idle
    BY IdleIsLocal
  <1>2. PICK l : l = [idle EXCEPT !.pc = "reach", !.id = i, !.todo = todo]
    OBVIOUS
  <1>3. l \in Local
    BY <1>2 DEF Local, Steps
  <1>4. l.pc = "reach" /\ l.id = i /\ l.todo = todo
    BY <1>2 DEF Local
  <1>5. local' = [local EXCEPT ![w] = l]
    BY <1>1, <1>2
  <1> QED
    BY <1>3, <1>4, <1>5, SetIsTyped

LEMMA MailIsReceived ==
    ASSUME NEW w, ReceiveMail(w)
    PROVE  \E i \in MailIds, row \in Row, step \in Steps :
              /\ ~Used(i)
              /\ IsMail(row)
              /\ step = IF row.artifact THEN "put" ELSE "hand_over"
              /\ local' = [local EXCEPT ![w] = Carrier(step, i, row)]
              /\ UNCHANGED <<mandates, sent, seen, objects, queue, told>>
  <1>1. PICK i \in MailIds, large \in BOOLEAN, sender \in {Stranger, Unknown},
             recipient \in Personas \union {Unmapped} :
           /\ ~Used(i)
           /\ local' = [local EXCEPT ![w] =
                 Carrier(IF large THEN "put" ELSE "hand_over", i,
                         Exchange(sender, recipient, NoId, large))]
           /\ UNCHANGED <<mandates, sent, seen, objects, queue, told>>
    BY DEF ReceiveMail, IsNew
  <1>2. PICK row \in Row : /\ row = Exchange(sender, recipient, NoId, large)
                           /\ IsMail(row) /\ row.artifact = large
    BY ExchangeIsRow DEF IsMail
  <1>3. PICK step \in Steps : step = IF large THEN "put" ELSE "hand_over"
    BY DEF Steps
  <1> QED
    BY <1>1, <1>2, <1>3

LEMMA ExchangeIsFound ==
    ASSUME NEW w, AcknowledgeRead(w)
    PROVE  \E e \in Ids, row \in Row, late \in BOOLEAN :
              /\ row.about = e
              /\ IsReceipt(row)
              /\ late = HasReceipt(e)
              /\ local' = [local EXCEPT ![w] =
                    [Idle EXCEPT !.pc = "check", !.late = late, !.row = row]]
              /\ UNCHANGED <<mandates, sent, seen, objects, queue, told>>
  <1>1. PICK e \in Ids :
           /\ mandates[e].state = "archived"
           /\ mandates[e].recipient \in Personas
           /\ mandates[e].sender \in Personas \union {Unknown}
           /\ local' = [local EXCEPT ![w] =
                 [Idle EXCEPT !.pc = "check", !.late = HasReceipt(e),
                              !.row = Exchange(mandates[e].recipient,
                                               mandates[e].sender, e, FALSE)]]
           /\ UNCHANGED <<mandates, sent, seen, objects, queue, told>>
    BY DEF AcknowledgeRead, IsCredential
  <1>2. PICK row \in Row :
           /\ row = Exchange(mandates[e].recipient, mandates[e].sender, e, FALSE)
           /\ row.about = e /\ IsReceipt(row)
    <2>1. LET row == Exchange(mandates[e].recipient, mandates[e].sender, e, FALSE) IN
          /\ row \in Row
          /\ row.state = "archived" /\ row.sender = mandates[e].recipient
          /\ row.recipient = mandates[e].sender /\ row.about = e
          /\ row.artifact = FALSE
      BY <1>1 DEF Exchange, Row
    <2> QED
      <3>1. PICK row \in Row :
               row = Exchange(mandates[e].recipient, mandates[e].sender, e, FALSE)
        BY <2>1
      <3>2. row.about = e /\ IsReceipt(row)
        BY <1>1, <2>1, <3>1 DEF IsReceipt
      <3> QED
        BY <3>1, <3>2
  <1>3. PICK late \in BOOLEAN : late = HasReceipt(e)
    BY DEF HasReceipt
  <1> QED
    BY <1>1, <1>2, <1>3

LEMMA StepTypes ==
    ASSUME IInv, [Next]_vars
    PROVE  TypeOK' /\ Grows
  <1> USE KindsAreIds DEF Grows, RowStays
  <1>0. TypeOK /\ UNCHANGED admitted
    BY DEF IInv, Next, vars
  <1>1. CASE UNCHANGED vars
    BY <1>0, <1>1 DEF vars, TypeOK
  <1>2. ASSUME NEW w \in Requests, DispatchExchange(w) PROVE TypeOK' /\ Grows
    <2>1. PICK i \in ExchangeIds, sender \in Personas, recipient \in Personas :
             /\ Archive(i, Exchange(sender, recipient, NoId, FALSE))
             /\ Answer(w, i)
             /\ UNCHANGED <<sent, seen, objects, queue>>
      BY <1>2 DEF DispatchExchange
    <2>2. /\ Exchange(sender, recipient, NoId, FALSE) \in Row
          /\ Exchange(sender, recipient, NoId, FALSE).state = "archived"
      BY DEF Exchange, Row
    <2>3. /\ mandates' \in [Ids -> Row]
          /\ \A j \in Ids : RowStays(j)
      BY <1>0, <2>1, <2>2, ArchiveInserts
    <2> QED
      BY <1>0, <2>1, <2>3, ReturnIsTyped DEF TypeOK, Answer
  <1>3. ASSUME NEW w \in Requests, ReceiveMail(w) PROVE TypeOK' /\ Grows
    <2>1. PICK i \in MailIds, row \in Row, step \in Steps :
             /\ ~Used(i)
             /\ IsMail(row)
             /\ step = IF row.artifact THEN "put" ELSE "hand_over"
             /\ local' = [local EXCEPT ![w] = Carrier(step, i, row)]
             /\ UNCHANGED <<mandates, sent, seen, objects, queue, told>>
      BY <1>3, MailIsReceived
    <2>2. local' \in [Workers -> Local]
      BY <2>1, CarryStarts
    <2> QED
      BY <1>0, <2>1, <2>2 DEF TypeOK
  <1>4. ASSUME NEW w \in Requests, PutMail(w) PROVE TypeOK' /\ Grows
    <2>1. local[w].id \in Ids
      BY <1>4 DEF PutMail, IInv, LocalOK, CarriesMail, Carrying, At
    <2> QED
      BY <1>0, <1>4, <2>1, GotoIsTyped DEF TypeOK, PutMail, Steps
  <1>5. ASSUME NEW w \in Requests, BufferMail(w) PROVE TypeOK' /\ Grows
    <2>1. local[w].id \in Ids /\ local[w].row \in Row
      BY <1>5, CarriedRows DEF BufferMail, IInv, LocalOK, CarriesMail, Carrying, At
    <2>2. [status |-> "waiting", tries |-> 0, row |-> local[w].row] \in Message
      BY <2>1, ConstantsAssumption DEF Message
    <2> QED
      BY <1>0, <1>5, <2>1, <2>2, ReturnIsTyped DEF TypeOK, BufferMail, Answer
  <1>6. ASSUME NEW w \in Requests, StoreMail(w) PROVE TypeOK' /\ Grows
    <2>1. /\ local[w].id \in Ids
          /\ local[w].row \in Row /\ local[w].row.state = "archived"
      BY <1>6, CarriedRows DEF StoreMail, IInv, LocalOK, CarriesMail, Carrying, At
    <2> QED
      BY <1>0, <1>6, <2>1, ReturnIsTyped, ArchiveInserts
         DEF TypeOK, StoreMail, Answer
  <1>7. ASSUME NEW w \in Requests, AcknowledgeRead(w) PROVE TypeOK' /\ Grows
    <2>1. PICK e \in Ids, row \in Row, late \in BOOLEAN :
             /\ local' = [local EXCEPT ![w] =
                   [Idle EXCEPT !.pc = "check", !.late = late, !.row = row]]
             /\ UNCHANGED <<mandates, sent, seen, objects, queue, told>>
      BY <1>7, ExchangeIsFound
    <2>2. local' \in [Workers -> Local]
      BY <2>1, AcknowledgeStarts
    <2> QED
      BY <1>0, <2>1, <2>2 DEF TypeOK
  <1>8. ASSUME NEW w \in Requests, AcknowledgeCheck(w) PROVE TypeOK' /\ Grows
    <2>1. local' \in [Workers -> Local]
      BY <1>8, GotoIsTyped, ReturnIsTyped DEF AcknowledgeCheck, Steps
    <2> QED
      BY <1>0, <1>8, <2>1 DEF TypeOK, AcknowledgeCheck
  <1>9. ASSUME NEW w \in Requests, AcknowledgeWrite(w) PROVE TypeOK' /\ Grows
    <2>1. PICK i \in ExchangeIds :
             /\ Archive(i, local[w].row)
             /\ Answer(w, i)
             /\ UNCHANGED <<sent, seen, objects, queue>>
      BY <1>9 DEF AcknowledgeWrite
    <2>2. local[w].row \in Row /\ local[w].row.state = "archived"
      BY <1>9, CarriedRows DEF AcknowledgeWrite, At
    <2>3. mandates' \in [Ids -> Row] /\ \A j \in Ids : RowStays(j)
      BY <1>0, <2>1, <2>2, ArchiveInserts
    <2> QED
      BY <1>0, <2>1, <2>3, ReturnIsTyped DEF TypeOK, Answer
  <1>10. ASSUME NEW w \in Requests, DispatchMandate(w) PROVE TypeOK' /\ Grows
    <2>1. PICK i \in MandateIds, sender \in Senders :
             /\ ~Used(i)
             /\ mandates' = [mandates EXCEPT ![i] =
                   [NoRow EXCEPT !.state = "dispatched", !.sender = sender]]
             /\ local' = [local EXCEPT ![w] =
                   [Idle EXCEPT !.pc = "reach", !.id = i,
                                !.todo = Recipients(sender)]]
             /\ UNCHANGED <<sent, seen, objects, queue, told>>
      BY <1>10 DEF DispatchMandate, IsNew
    <2>2. Recipients(sender) \in SUBSET Personas
      BY DEF Recipients
    <2>3. local' \in [Workers -> Local]
      BY <2>1, <2>2, ReachStarts
    <2>4. mandates' \in [Ids -> Row] /\ \A j \in Ids : RowStays(j)
      BY <2>1, MandateInserts
    <2> QED
      BY <1>0, <2>1, <2>3, <2>4 DEF TypeOK
  <1>11. ASSUME NEW w \in Requests, ReachRecipient(w) PROVE TypeOK' /\ Grows
    <2>1. local[w].id \in Ids /\ local[w].todo \in SUBSET Personas
      BY <1>11 DEF ReachRecipient, IInv, TypeOK, Local, LocalOK,
                   ReachesTheRest, At
    <2>2. PICK p \in local[w].todo :
             /\ sent' = [sent EXCEPT ![local[w].id] = @ \union {p}]
             /\ \/ Answer(w, local[w].id)
                \/ /\ local' = [local EXCEPT ![w].todo = @ \ {p}]
                   /\ UNCHANGED told
             /\ UNCHANGED <<mandates, seen, objects, queue>>
      BY <1>11 DEF ReachRecipient
    <2>3. local' \in [Workers -> Local] /\ told' \subseteq Ids
      BY <1>0, <2>1, <2>2, ReturnIsTyped, ReachIsTyped DEF Answer, TypeOK
    <2> QED
      BY <1>0, <2>1, <2>2, <2>3 DEF TypeOK
  <1>12. ASSUME NEW c \in Consumers, StoreMessage(c) PROVE TypeOK' /\ Grows
    <2>1. /\ local[c].id \in Ids
          /\ local[c].row \in Row /\ local[c].row.state = "archived"
      BY <1>12, CarriedRows DEF StoreMessage, IInv, LocalOK, CarriesMail, Carrying, At
    <2> QED
      BY <1>0, <1>12, <2>1, GotoIsTyped, ArchiveInserts
         DEF TypeOK, StoreMessage, Steps
  <1>13. ASSUME NEW c \in Consumers, AckMessage(c) PROVE TypeOK' /\ Grows
    <2>1. local[c].id \in Ids
      BY <1>13 DEF AckMessage, IInv, LocalOK, CarriesMail, Carrying, At
    <2>2. queue' \in [Ids -> Message]
      BY <1>0, <1>13, <2>1 DEF TypeOK, AckMessage, Message
    <2> QED
      BY <1>0, <1>13, <2>2, ReturnIsTyped DEF TypeOK, AckMessage
  <1>14. ASSUME NEW i \in Ids, Deliver(i) PROVE TypeOK' /\ Grows
    <2>1. PICK c \in Consumers :
             /\ queue[i].tries < MaxTries
             /\ queue' = [queue EXCEPT ![i].tries = @ + 1]
             /\ local' = [local EXCEPT ![c] = Carrier("store", i, queue[i].row)]
             /\ UNCHANGED <<mandates, sent, seen, objects, told>>
      BY <1>14 DEF Deliver
    <2>2. queue[i].row \in Row /\ queue[i].tries + 1 \in 0..MaxTries
      BY <1>0, <2>1, ConstantsAssumption DEF TypeOK, Message
    <2>3. queue' \in [Ids -> Message]
      BY <1>0, <2>1, <2>2 DEF TypeOK, Message
    <2>4. local' \in [Workers -> Local]
      <3>1. "store" \in Steps
        BY DEF Steps
      <3> QED
        BY <2>1, <2>2, <3>1, CarryStarts
    <2> QED
      BY <1>0, <2>1, <2>3, <2>4 DEF TypeOK
  <1>15. ASSUME NEW i \in Ids, Drop(i) PROVE TypeOK' /\ Grows
    BY <1>0, <1>15 DEF TypeOK, Drop, Message
  <1>16. ASSUME NEW i \in Ids, AcknowledgeMandate(i) PROVE TypeOK' /\ Grows
    BY <1>0, <1>16 DEF TypeOK, AcknowledgeMandate
  <1>17. ASSUME NEW w \in Workers, Stop(w) PROVE TypeOK' /\ Grows
    BY <1>0, <1>17, ReturnIsTyped DEF TypeOK, Stop
  <1> QED
    BY <1>1, <1>2, <1>3, <1>4, <1>5, <1>6, <1>7, <1>8, <1>9, <1>10, <1>11,
       <1>12, <1>13, <1>14, <1>15, <1>16, <1>17 DEF Next

-----------------------------------------------------------------------------
(* What requests hold stays true while others work.                        *)

LEMMA InsertedStays ==
    ASSUME Grows, NEW i \in Ids, mandates[i].state # "none"
    PROVE  mandates'[i] = mandates[i]
  BY DEF Grows, RowStays

\* Who uses an identifier keeps mandates away from it.
LEMMA TakeStays ==
    ASSUME Grows, NEW i \in Ids, MailMayTake(i), Used(i)
    PROVE  MailMayTake(i)'
  BY DEF Grows, RowStays, MailMayTake

\* A receipt answers for good.
LEMMA ReceiptStays ==
    ASSUME Grows, NEW row, IsReceipt(row)
    PROVE  IsReceipt(row)'
  <1>1. /\ row.about \in Ids
        /\ mandates[row.about].state # "none"
    BY DEF IsReceipt
  <1>2. mandates'[row.about] = mandates[row.about]
    BY <1>1, InsertedStays
  <1> QED
    BY <1>2 DEF IsReceipt

LEMMA MandateStays ==
    ASSUME Grows, NEW i \in Ids, NEW todo,
           mandates[i].state = "dispatched",
           Recipients(mandates[i].sender) \subseteq sent[i] \union todo
    PROVE  /\ mandates'[i] = mandates[i]
           /\ Recipients(mandates'[i].sender) \subseteq sent'[i] \union todo
  <1>1. mandates'[i] = mandates[i] /\ sent[i] \subseteq sent'[i]
    BY InsertedStays DEF Grows
  <1> QED
    BY <1>1

\* A mail and what became of it, whoever carries it.
LEMMA CarriedStays ==
    ASSUME IInv, Grows, NEW w \in Workers, CarriesMail(w),
           local'[w].id = local[w].id, local'[w].row = local[w].row,
           local'[w].pc = local[w].pc
    PROVE  CarriesMail(w)'
  <1>1. local[w].id \in Ids /\ MailMayTake(local[w].id)
    BY KindsAreIds DEF CarriesMail
  <1>2. MailMayTake(local[w].id)'
    <2>1. Used(local[w].id)
      BY DEF Used
    <2>2. PICK i \in Ids : i = local[w].id
      BY <1>1
    <2>3. MailMayTake(i)'
      BY <1>1, <2>1, <2>2, TakeStays
    <2> QED
      BY <1>1, <2>2, <2>3, InsertedStays DEF MailMayTake
  <1> QED
    BY <1>1, <1>2, InsertedStays DEF CarriesMail, At, Grows, IsMail

\* So does the receipt that somebody saw.
LEMMA SeenStays ==
    ASSUME IInv, Grows, NEW e \in Ids, HasReceipt(e)
    PROVE  HasReceipt(e)'
  <1>1. PICK i \in Ids : mandates[i].about = e
    BY DEF HasReceipt
  <1>2. mandates[i].state # "none"
    BY <1>1, ConstantsAssumption DEF IInv, RowOK
  <1>3. mandates'[i].about = e
    BY <1>1, <1>2, InsertedStays
  <1> QED
    BY <1>3 DEF HasReceipt

LEMMA AcknowledgesStays ==
    ASSUME IInv, Grows, NEW w \in Workers, Acknowledges(w),
           local'[w].row = local[w].row, local'[w].late = local[w].late,
           local'[w].pc = "receipt" => local[w].pc = "receipt" \/ ~local[w].late
    PROVE  Acknowledges(w)'
  <1>1. PICK row : row = local[w].row
    OBVIOUS
  <1>2. IsReceipt(row) /\ row.about \in Ids
    BY <1>1 DEF Acknowledges, IsReceipt
  <1>3. IsReceipt(row)'
    BY <1>2, ReceiptStays
  <1>4. PICK e \in Ids : e = row.about
    BY <1>2
  <1>5. HasReceipt(e) => HasReceipt(e)'
    BY SeenStays
  <1>6. local'[w].row = row /\ (HasReceipt(e)' => HasReceipt(local[w].row.about)')
    BY <1>1, <1>4 DEF HasReceipt
  <1>7. IsReceipt(local[w].row)'
    BY <1>3, <1>6 DEF IsReceipt
  <1>8. local'[w].late => HasReceipt(local[w].row.about)'
    BY <1>1, <1>4, <1>5, <1>6 DEF Acknowledges
  <1> QED
    BY <1>7, <1>8 DEF Acknowledges, At

LEMMA LocalStays ==
    ASSUME IInv, Grows, NEW w \in Workers, local'[w] = local[w]
    PROVE  LocalOK(w)'
  <1>1. ASSUME local[w].pc \in Carrying PROVE CarriesMail(w)'
    BY <1>1, CarriedStays DEF IInv, LocalOK
  <1>2. ASSUME local[w].pc \in {"check", "receipt"} PROVE Acknowledges(w)'
    <2>1. Acknowledges(w)
      BY <1>2 DEF IInv, LocalOK
    <2> QED
      BY <2>1, AcknowledgesStays
  <1>3. ASSUME local[w].pc = "reach" PROVE ReachesTheRest(w)'
    BY <1>3, MandateStays DEF IInv, LocalOK, ReachesTheRest
  <1> QED
    BY <1>1, <1>2, <1>3 DEF LocalOK

LEMMA OneMoves ==
    ASSUME IInv, Grows, NEW w \in Workers, LocalOK(w)',
           \A v \in Workers \ {w} : local'[v] = local[v]
    PROVE  \A v \in Workers : LocalOK(v)'
  BY LocalStays

LEMMA ReturnKeeps ==
    ASSUME IInv, Grows, NEW w \in Workers, Return(w)
    PROVE  \A v \in Workers : LocalOK(v)'
  <1>1. LocalOK(w)'
    BY ReturnIsTyped DEF LocalOK, Carrying
  <1> QED
    BY <1>1, ReturnIsTyped, OneMoves

\* A request starts or goes on to carry a mail.
LEMMA CarryKeeps ==
    ASSUME IInv, Grows, NEW w \in Workers, CarriesMail(w)',
           local'[w].pc \in Carrying,
           \A v \in Workers \ {w} : local'[v] = local[v]
    PROVE  \A v \in Workers : LocalOK(v)'
  <1>1. LocalOK(w)'
    BY DEF LocalOK, Carrying
  <1> QED
    BY <1>1, OneMoves

LEMMA StepLocals ==
    ASSUME IInv, [Next]_vars
    PROVE  \A w \in Workers : LocalOK(w)'
  <1>0. /\ Grows /\ TypeOK
    BY StepTypes DEF IInv
  <1> USE <1>0, KindsAreIds
  <1>1. CASE UNCHANGED <<local>>
    BY <1>1, LocalStays
  <1>2. ASSUME NEW w \in Workers, Return(w) PROVE \A v \in Workers : LocalOK(v)'
    BY <1>2, ReturnKeeps
  <1>3. ASSUME NEW w \in Requests, ReceiveMail(w)
        PROVE  \A v \in Workers : LocalOK(v)'
    <2>1. PICK i \in MailIds, row \in Row, step \in Steps :
             /\ ~Used(i)
             /\ IsMail(row)
             /\ step = IF row.artifact THEN "put" ELSE "hand_over"
             /\ local' = [local EXCEPT ![w] = Carrier(step, i, row)]
             /\ UNCHANGED <<mandates, sent, seen, objects, queue, told>>
      BY <1>3, MailIsReceived
    <2>2. /\ \A v \in Workers \ {w} : local'[v] = local[v]
          /\ local'[w].pc = step /\ local'[w].id = i /\ local'[w].row = row
      <3>1. i \in Ids /\ w \in Workers
        OBVIOUS
      <3>2. local' = [local EXCEPT ![w] = Carrier(step, i, row)]
        BY <2>1
      <3> QED
        BY <3>1, <3>2, CarryStarts
    <2>3. mandates'[i].state = "none"
      BY <2>1 DEF Used
    <2>4. CarriesMail(w)'
      BY <2>1, <2>2, <2>3 DEF CarriesMail, MailMayTake, IsMail, At
    <2> QED
      BY <2>1, <2>2, <2>4, CarryKeeps DEF Carrying
  <1>4. ASSUME NEW w \in Requests, PutMail(w)
        PROVE  \A v \in Workers : LocalOK(v)'
    <2>1. CarriesMail(w)
      BY <1>4 DEF PutMail, At, IInv, LocalOK, Carrying
    <2>2. /\ \A v \in Workers \ {w} : local'[v] = local[v]
          /\ local'[w].pc = "hand_over"
          /\ local'[w].id = local[w].id /\ local'[w].row = local[w].row
      BY <1>4, GotoIsTyped DEF PutMail, Steps
    <2>3. CarriesMail(w)'
      BY <1>4, <2>1, <2>2 DEF PutMail, CarriesMail, MailMayTake, IsMail, At
    <2> QED
      BY <2>2, <2>3, CarryKeeps DEF Carrying
  <1>5. ASSUME NEW w \in Requests, AcknowledgeRead(w)
        PROVE  \A v \in Workers : LocalOK(v)'
    <2>1. PICK e \in Ids, row \in Row, late \in BOOLEAN :
             /\ row.about = e
             /\ IsReceipt(row)
             /\ late = HasReceipt(e)
             /\ local' = [local EXCEPT ![w] =
                   [Idle EXCEPT !.pc = "check", !.late = late, !.row = row]]
             /\ UNCHANGED <<mandates, sent, seen, objects, queue, told>>
      BY <1>5, ExchangeIsFound
    <2>2. /\ \A v \in Workers \ {w} : local'[v] = local[v]
          /\ local'[w].pc = "check" /\ local'[w].row = row
          /\ local'[w].late = late
      BY <2>1, AcknowledgeStarts
    <2>3. Acknowledges(w)'
      BY <2>1, <2>2 DEF Acknowledges, IsReceipt, HasReceipt, At
    <2>4. LocalOK(w)'
      BY <2>2, <2>3 DEF LocalOK, Carrying
    <2> QED
      BY <2>2, <2>4, OneMoves
  <1>6. ASSUME NEW w \in Requests, AcknowledgeCheck(w)
        PROVE  \A v \in Workers : LocalOK(v)'
    <2>1. CASE ~Acknowledged(local[w].row.about) /\ Goto(w, "receipt")
      <3>1. /\ \A v \in Workers \ {w} : local'[v] = local[v]
            /\ local'[w].pc = "receipt" /\ local'[w].row = local[w].row
            /\ local'[w].late = local[w].late
        BY <2>1, GotoIsTyped DEF Steps
      <3>2. Acknowledges(w)
        BY <1>6 DEF AcknowledgeCheck, At, IInv, LocalOK
      <3>3. ~local[w].late
        <4>1. local[w].row.about \in Ids
          BY <3>2 DEF Acknowledges, IsReceipt
        <4>2. ~HasReceipt(local[w].row.about)
          BY <2>1, <4>1, ConstantsAssumption
             DEF Acknowledged, HasReceipt, IInv, RowOK
        <4> QED
          BY <3>2, <4>2 DEF Acknowledges
      <3>4. Acknowledges(w)'
        BY <3>1, <3>2, <3>3, AcknowledgesStays
      <3>5. LocalOK(w)'
        BY <3>1, <3>4 DEF LocalOK, Carrying
      <3> QED
        BY <3>1, <3>5, OneMoves
    <2> QED
      BY <1>2, <1>6, <2>1 DEF AcknowledgeCheck
  <1>7. ASSUME NEW w \in Requests, DispatchMandate(w)
        PROVE  \A v \in Workers : LocalOK(v)'
    <2>1. PICK i \in MandateIds, sender \in Senders :
             /\ ~Used(i)
             /\ Recipients(sender) # {}
             /\ mandates' = [mandates EXCEPT ![i] =
                   [NoRow EXCEPT !.state = "dispatched", !.sender = sender]]
             /\ local' = [local EXCEPT ![w] =
                   [Idle EXCEPT !.pc = "reach", !.id = i,
                                !.todo = Recipients(sender)]]
      BY <1>7 DEF DispatchMandate, IsNew
    <2>2. /\ \A v \in Workers \ {w} : local'[v] = local[v]
          /\ local'[w].pc = "reach" /\ local'[w].id = i
          /\ local'[w].todo = Recipients(sender)
      <3>1. Recipients(sender) \in SUBSET Personas
        BY DEF Recipients
      <3>2. local' = [local EXCEPT ![w] =
               [Idle EXCEPT !.pc = "reach", !.id = i, !.todo = Recipients(sender)]]
        BY <2>1
      <3>3. PICK todo \in SUBSET Personas : todo = Recipients(sender)
        BY <3>1
      <3>4. local' = [local EXCEPT ![w] =
               [Idle EXCEPT !.pc = "reach", !.id = i, !.todo = todo]]
        BY <3>2, <3>3
      <3>5. i \in Ids /\ w \in Workers
        OBVIOUS
      <3> QED
        BY <3>3, <3>4, <3>5, ReachStarts
    <2>3. mandates'[i].state = "dispatched" /\ mandates'[i].sender = sender
      BY <2>1, MandateInserts
    <2>4. ReachesTheRest(w)'
      BY <2>1, <2>2, <2>3 DEF ReachesTheRest
    <2>5. LocalOK(w)'
      BY <2>2, <2>4 DEF LocalOK, Carrying
    <2> QED
      BY <2>2, <2>5, OneMoves
  <1>8. ASSUME NEW w \in Requests, ReachRecipient(w)
        PROVE  \A v \in Workers : LocalOK(v)'
    <2>1. PICK p \in local[w].todo :
             /\ sent' = [sent EXCEPT ![local[w].id] = @ \union {p}]
             /\ \/ Return(w)
                \/ /\ local[w].todo # {p}
                   /\ local' = [local EXCEPT ![w].todo = @ \ {p}]
             /\ UNCHANGED mandates
      BY <1>8 DEF ReachRecipient, Answer
    <2>2. local[w].pc = "reach" /\ ReachesTheRest(w)
      BY <1>8 DEF ReachRecipient, At, IInv, LocalOK
    <2>3. CASE /\ local[w].todo # {p}
               /\ local' = [local EXCEPT ![w].todo = @ \ {p}]
      <3>1. /\ \A v \in Workers \ {w} : local'[v] = local[v]
            /\ local'[w].pc = "reach" /\ local'[w].id = local[w].id
            /\ local'[w].todo = local[w].todo \ {p}
        BY <2>2, <2>3, ReachIsTyped
      <3>2. sent'[local[w].id] = sent[local[w].id] \union {p}
        BY <2>1, <2>2 DEF TypeOK, ReachesTheRest
      <3>3. ReachesTheRest(w)'
        BY <2>1, <2>2, <2>3, <3>1, <3>2 DEF ReachesTheRest
      <3>4. LocalOK(w)'
        BY <3>1, <3>3 DEF LocalOK, Carrying
      <3> QED
        BY <3>1, <3>4, OneMoves
    <2> QED
      BY <1>2, <2>1, <2>3
  <1>9. ASSUME NEW c \in Consumers, StoreMessage(c)
        PROVE  \A v \in Workers : LocalOK(v)'
    <2>1. CarriesMail(c)
      BY <1>9 DEF StoreMessage, At, IInv, LocalOK, Carrying
    <2>2. /\ \A v \in Workers \ {c} : local'[v] = local[v]
          /\ local'[c].pc = "ack"
          /\ local'[c].id = local[c].id /\ local'[c].row = local[c].row
      BY <1>9, GotoIsTyped DEF StoreMessage, Steps
    <2>3. PICK i \in Ids : i = local[c].id
      BY <2>1 DEF CarriesMail
    <2>4. local[c].row \in Row /\ local[c].row.state = "archived"
      BY <1>9, CarriedRows DEF StoreMessage, At, Carrying
    <2>5. /\ \/ mandates'[i] = mandates[i]
             \/ mandates'[i].state = "archived"
          /\ mandates[i].state = "none" /\ "archived" \in admitted =>
                mandates'[i].state = "archived"
      BY <1>9, <2>3, <2>4, ArchiveInserts DEF StoreMessage
    <2>6. /\ MailMayTake(i)'
          /\ "archived" \in admitted => mandates'[i].state = "archived"
      BY <2>1, <2>3, <2>5 DEF CarriesMail, MailMayTake
    <2>7. CarriesMail(c)'
      BY <1>9, <2>1, <2>2, <2>3, <2>6
         DEF StoreMessage, CarriesMail, MailMayTake, IsMail, At, Grows
    <2> QED
      BY <2>2, <2>7, CarryKeeps DEF Carrying
  <1>10. ASSUME NEW i \in Ids, Deliver(i)
         PROVE  \A v \in Workers : LocalOK(v)'
    <2>1. PICK c \in Consumers :
             /\ queue[i].status = "waiting"
             /\ local' = [local EXCEPT ![c] = Carrier("store", i, queue[i].row)]
             /\ UNCHANGED <<mandates, objects>>
      BY <1>10 DEF Deliver
    <2>2. /\ \A v \in Workers \ {c} : local'[v] = local[v]
          /\ local'[c].pc = "store" /\ local'[c].id = i
          /\ local'[c].row = queue[i].row
      <3>1. queue[i].row \in Row /\ "store" \in Steps
        BY DEF TypeOK, Message, Steps
      <3>2. PICK row \in Row, step \in Steps : row = queue[i].row /\ step = "store"
        BY <3>1
      <3>3. local' = [local EXCEPT ![c] = Carrier(step, i, row)]
        BY <2>1, <3>2
      <3>4. c \in Workers
        OBVIOUS
      <3>5. /\ \A v \in Workers \ {c} : local'[v] = local[v]
            /\ local'[c].pc = step /\ local'[c].id = i /\ local'[c].row = row
        BY <3>3, <3>4, CarryStarts
      <3> QED
        BY <3>2, <3>5
    <2>3. /\ IsMail(queue[i].row) /\ MailMayTake(i) /\ i \in MailIds
          /\ queue[i].row.artifact => i \in objects
      BY <2>1 DEF IInv, MessageOK
    <2>4. CarriesMail(c)'
      BY <2>1, <2>2, <2>3 DEF CarriesMail, MailMayTake, IsMail, At, Grows
    <2> QED
      BY <2>2, <2>4, CarryKeeps DEF Carrying
  <1> QED
    BY <1>1, <1>2, <1>3, <1>4, <1>5, <1>6, <1>7, <1>8, <1>9, <1>10
       DEF Next, vars, DispatchExchange, BufferMail, StoreMail, AckMessage,
           AcknowledgeWrite, Answer, Drop, AcknowledgeMandate, Stop

-----------------------------------------------------------------------------
(* The rows and the messages.                                              *)

LEMMA OldRowStaysOK ==
    ASSUME IInv, Grows, NEW i \in Ids, mandates'[i] = mandates[i]
    PROVE  RowOK(i)'
  <1>1. RowOK(i)
    BY DEF IInv
  <1>2. ASSUME mandates[i].about \in Ids PROVE IsReceipt(mandates[i])'
    <2>1. PICK row : row = mandates[i]
      OBVIOUS
    <2>2. IsReceipt(row)'
      BY <1>1, <1>2, <2>1, ReceiptStays DEF RowOK
    <2> QED
      BY <2>1, <2>2 DEF IsReceipt
  <1> QED
    BY <1>1, <1>2 DEF RowOK, Grows, IsReceipt

\* A row that a request inserts is an exchange between two credentials, a
\* mail whose artifact is stored, or a receipt.
LEMMA InsertedIsOK ==
    ASSUME IInv, Grows, NEW i \in Ids, NEW row \in Row, Archive(i, row),
           row.state = "archived",
           \/ row.about = NoId /\ ~row.artifact
           \/ IsMail(row) /\ (row.artifact => i \in objects)
           \/ IsReceipt(row)
    PROVE  \A j \in Ids : RowOK(j)'
  <1>1. /\ \A j \in Ids \ {i} : mandates'[j] = mandates[j]
        /\ \/ mandates'[i] = mandates[i]
           \/ mandates[i].state = "none" /\ mandates'[i] = row
    BY ArchiveInserts DEF IInv
  <1>2. ASSUME mandates'[i] = row PROVE RowOK(i)'
    <2>1. IsReceipt(row) => IsReceipt(row)'
      BY ReceiptStays
    <2>2. IsReceipt(row)' => IsReceipt(mandates[i])'
      BY <1>2 DEF IsReceipt
    <2>3. mandates'[i].about \in Ids => IsReceipt(mandates[i])'
      BY <1>2, <2>1, <2>2, ConstantsAssumption DEF IsMail
    <2>4. mandates'[i].artifact => i \in objects'
      BY <1>2 DEF Grows, IsReceipt
    <2> QED
      BY <1>2, <2>3, <2>4 DEF RowOK
  <1> QED
    BY <1>1, <1>2, OldRowStaysOK

LEMMA StepRows ==
    ASSUME IInv, [Next]_vars
    PROVE  \A i \in Ids : RowOK(i)'
  <1>0. Grows
    BY StepTypes
  <1> USE <1>0, KindsAreIds
  <1>1. CASE UNCHANGED mandates
    BY <1>1, OldRowStaysOK
  <1>2. ASSUME NEW w \in Requests, DispatchExchange(w)
        PROVE  \A i \in Ids : RowOK(i)'
    <2>1. PICK i \in ExchangeIds, sender \in Personas, recipient \in Personas :
             Archive(i, Exchange(sender, recipient, NoId, FALSE))
      BY <1>2 DEF DispatchExchange
    <2>2. LET row == Exchange(sender, recipient, NoId, FALSE) IN
          /\ row \in Row /\ row.state = "archived"
          /\ row.about = NoId /\ ~row.artifact
      BY DEF Exchange, Row
    <2> QED
      BY <2>1, <2>2, InsertedIsOK
  <1>3. ASSUME NEW w \in Workers, CarriesMail(w), local[w].pc \in Carrying,
               ~At(w, "put"), Archive(local[w].id, local[w].row)
        PROVE  \A i \in Ids : RowOK(i)'
    <2>1. local[w].row \in Row /\ local[w].row.state = "archived"
      BY <1>3, CarriedRows
    <2> QED
      BY <1>3, <2>1, InsertedIsOK DEF CarriesMail
  <1>4. ASSUME NEW w \in Workers, At(w, "hand_over") \/ At(w, "store")
        PROVE  CarriesMail(w) /\ ~At(w, "put") /\ local[w].pc \in Carrying
    BY <1>4 DEF IInv, LocalOK, Carrying, At
  <1>5. ASSUME NEW w \in Requests, AcknowledgeWrite(w)
        PROVE  \A i \in Ids : RowOK(i)'
    <2>1. IsReceipt(local[w].row)
      BY <1>5 DEF AcknowledgeWrite, At, IInv, LocalOK, Acknowledges
    <2>2. local[w].row \in Row /\ local[w].row.state = "archived"
      BY <1>5, CarriedRows DEF AcknowledgeWrite, At
    <2> QED
      BY <1>5, <2>1, <2>2, InsertedIsOK DEF AcknowledgeWrite
  <1>6. ASSUME NEW w \in Requests, DispatchMandate(w)
        PROVE  \A i \in Ids : RowOK(i)'
    <2>1. PICK i \in MandateIds, sender \in Senders :
             /\ ~Used(i)
             /\ mandates' = [mandates EXCEPT ![i] =
                   [NoRow EXCEPT !.state = "dispatched", !.sender = sender]]
      BY <1>6 DEF DispatchMandate, IsNew
    <2>2. RowOK(i)'
      BY <2>1, MandateInserts, ConstantsAssumption DEF RowOK
    <2>3. \A j \in Ids \ {i} : mandates'[j] = mandates[j]
      BY <2>1, MandateInserts
    <2> QED
      BY <2>2, <2>3, OldRowStaysOK
  <1> QED
    BY <1>1, <1>2, <1>3, <1>4, <1>5, <1>6
       DEF Next, vars, ReceiveMail, PutMail, BufferMail, StoreMail,
           AcknowledgeRead, AcknowledgeCheck, ReachRecipient, StoreMessage,
           AckMessage, Deliver, Drop, AcknowledgeMandate, Stop

\* A message that stays, or only counts a delivery.
LEMMA MessageStays ==
    ASSUME IInv, Grows, NEW i \in Ids,
           queue'[i].row = queue[i].row, queue'[i].status = queue[i].status
    PROVE  MessageOK(i)'
  <1>1. MessageOK(i)
    BY DEF IInv
  <1>2. queue[i].status # "none" => MailMayTake(i)'
    <2> SUFFICES ASSUME queue[i].status # "none" PROVE MailMayTake(i)'
      OBVIOUS
    <2>1. Used(i) /\ MailMayTake(i)
      BY <1>1 DEF Used, MessageOK
    <2> QED
      BY <2>1, TakeStays
  <1>3. mandates[i].state = "archived" => mandates'[i].state = "archived"
    BY InsertedStays
  <1> QED
    BY <1>1, <1>2, <1>3 DEF MessageOK, Grows, IsMail

LEMMA StepMessages ==
    ASSUME IInv, [Next]_vars
    PROVE  \A i \in Ids : MessageOK(i)'
  <1>0. Grows /\ TypeOK
    BY StepTypes DEF IInv
  <1> USE <1>0, KindsAreIds
  <1>1. CASE UNCHANGED queue
    BY <1>1, MessageStays
  <1>2. ASSUME NEW w \in Requests, BufferMail(w)
        PROVE  \A i \in Ids : MessageOK(i)'
    <2>1. CarriesMail(w) /\ ~At(w, "put")
      BY <1>2 DEF BufferMail, At, IInv, LocalOK, Carrying
    <2>2. PICK i \in Ids : i = local[w].id
      BY <2>1 DEF CarriesMail
    <2>3. /\ queue' = [queue EXCEPT ![i] =
                [status |-> "waiting", tries |-> 0, row |-> local[w].row]]
          /\ UNCHANGED <<mandates, objects>>
      BY <1>2, <2>2 DEF BufferMail
    <2>4. queue'[i].status = "waiting" /\ queue'[i].row = local[w].row
      BY <2>3 DEF TypeOK
    <2>5. MessageOK(i)'
      BY <2>1, <2>2, <2>3, <2>4 DEF MessageOK, CarriesMail, MailMayTake, IsMail
    <2>6. \A j \in Ids \ {i} : queue'[j] = queue[j]
      BY <2>3 DEF TypeOK
    <2> QED
      BY <2>5, <2>6, MessageStays
  <1>3. ASSUME NEW i \in Ids, Deliver(i)
        PROVE  \A j \in Ids : MessageOK(j)'
    <2>1. queue' = [queue EXCEPT ![i].tries = @ + 1]
      BY <1>3 DEF Deliver
    <2>2. \A j \in Ids : /\ queue'[j].row = queue[j].row
                         /\ queue'[j].status = queue[j].status
      BY <2>1 DEF TypeOK, Message
    <2> QED
      BY <2>2, MessageStays
  <1>4. ASSUME NEW c \in Consumers, AckMessage(c)
        PROVE  \A i \in Ids : MessageOK(i)'
    <2>1. CarriesMail(c) /\ At(c, "ack")
      BY <1>4 DEF AckMessage, At, IInv, LocalOK, Carrying
    <2>2. PICK i \in Ids : i = local[c].id
      BY <2>1 DEF CarriesMail
    <2>3. /\ \A j \in Ids \ {i} : queue'[j] = queue[j]
          /\ queue'[i].row = queue[i].row /\ queue'[i].status = "acked"
      BY <1>4, <2>2 DEF AckMessage, TypeOK, Message
    <2>4. UNCHANGED <<mandates, objects>>
      BY <1>4 DEF AckMessage
    <2>5. queue[i].status # "none"
      BY <2>1, <2>2 DEF CarriesMail
    <2>6. MessageOK(i)'
      BY <2>1, <2>2, <2>3, <2>4, <2>5
         DEF MessageOK, IInv, CarriesMail, MailMayTake, IsMail, Grows
    <2> QED
      BY <2>3, <2>6, MessageStays
  <1>5. ASSUME NEW i \in Ids, Drop(i)
        PROVE  \A j \in Ids : MessageOK(j)'
    <2>1. /\ \A j \in Ids \ {i} : queue'[j] = queue[j]
          /\ queue'[i].row = queue[i].row /\ queue'[i].status = "dropped"
          /\ UNCHANGED <<mandates, objects>>
          /\ queue[i].status = "waiting"
      BY <1>5 DEF Drop, TypeOK, Message
    <2>2. MessageOK(i)'
      BY <2>1 DEF IInv, MessageOK, MailMayTake, IsMail
    <2> QED
      BY <2>1, <2>2, MessageStays
  <1> QED
    BY <1>1, <1>2, <1>3, <1>4, <1>5
       DEF Next, vars, DispatchExchange, ReceiveMail, PutMail, StoreMail,
           AcknowledgeRead, AcknowledgeCheck, AcknowledgeWrite,
           DispatchMandate, ReachRecipient, StoreMessage, AcknowledgeMandate,
           Stop

-----------------------------------------------------------------------------
(* What callers were told.                                                 *)

\* A message may be acknowledged once its row is there, and not before.
LEMMA KeptStays ==
    ASSUME IInv, Grows, NEW i \in Ids, Kept(i),
           \/ queue[i].status \in {"waiting", "dropped"} =>
                 queue'[i].status \in {"waiting", "dropped"}
           \/ mandates'[i].state = "archived"
    PROVE  Kept(i)'
  <1>1. mandates[i].state # "none" =>
           mandates'[i] = mandates[i] /\ sent[i] \subseteq sent'[i]
    BY InsertedStays DEF Grows
  <1> QED
    BY <1>1 DEF Kept, Grows

LEMMA StepTold ==
    ASSUME IInv, [Next]_vars
    PROVE  \A i \in told' : Kept(i)'
  <1>0. /\ Grows /\ TypeOK
        /\ \A i \in told : i \in Ids /\ Kept(i)
    BY StepTypes DEF IInv, TypeOK
  <1> USE <1>0, KindsAreIds
  <1>1. CASE UNCHANGED <<queue, told>>
    BY <1>1, KeptStays
  <1>2. ASSUME NEW i \in Ids, Kept(i)', told' = told \union {i}, UNCHANGED queue
        PROVE  \A j \in told' : Kept(j)'
    BY <1>2, KeptStays
  <1>3. ASSUME NEW w \in Requests, DispatchExchange(w)
        PROVE  \A i \in told' : Kept(i)'
    <2>1. PICK i \in ExchangeIds, sender \in Personas, recipient \in Personas :
             /\ ~Used(i)
             /\ Archive(i, Exchange(sender, recipient, NoId, FALSE))
             /\ told' = told \union {i}
             /\ UNCHANGED queue
      BY <1>3 DEF DispatchExchange, IsNew, Answer
    <2>2. LET row == Exchange(sender, recipient, NoId, FALSE) IN
          row \in Row /\ row.state = "archived"
      BY DEF Exchange, Row
    <2>3. "archived" \in admitted => mandates'[i].state = "archived"
      BY <2>1, <2>2, ArchiveInserts DEF Used
    <2>4. i \notin MandateIds
      BY ConstantsAssumption
    <2> QED
      BY <1>2, <2>1, <2>3, <2>4 DEF Kept, Grows
  <1>4. ASSUME NEW w \in Requests, BufferMail(w)
        PROVE  \A i \in told' : Kept(i)'
    <2>1. PICK i \in Ids : i = local[w].id
      BY <1>4 DEF BufferMail, At, IInv, LocalOK, Carrying, CarriesMail
    <2>2. /\ queue'[i].status = "waiting"
          /\ \A j \in Ids \ {i} : queue'[j] = queue[j]
          /\ told' = told \union {i}
      BY <1>4, <2>1 DEF BufferMail, Answer, TypeOK
    <2> QED
      BY <2>2, KeptStays DEF Kept
  <1>5. ASSUME NEW w \in Requests, StoreMail(w)
        PROVE  \A i \in told' : Kept(i)'
    <2>1. CarriesMail(w)
      BY <1>5 DEF StoreMail, At, IInv, LocalOK, Carrying
    <2>2. PICK i \in Ids : i = local[w].id
      BY <2>1 DEF CarriesMail
    <2>3. local[w].row \in Row /\ local[w].row.state = "archived"
      BY <1>5, CarriedRows DEF StoreMail, At, Carrying
    <2>4. "archived" \in admitted => mandates'[i].state = "archived"
      BY <1>5, <2>1, <2>2, <2>3, ArchiveInserts
         DEF StoreMail, CarriesMail, MailMayTake
    <2>5. i \notin MandateIds
      BY <2>1, <2>2, ConstantsAssumption DEF CarriesMail
    <2> QED
      BY <1>2, <1>5, <2>2, <2>4, <2>5 DEF Kept, Grows, StoreMail, Answer
  <1>6. ASSUME NEW w \in Requests, AcknowledgeWrite(w)
        PROVE  \A i \in told' : Kept(i)'
    <2>1. PICK i \in ExchangeIds : /\ ~Used(i)
                                   /\ Archive(i, local[w].row)
                                   /\ told' = told \union {i}
                                   /\ UNCHANGED queue
      BY <1>6 DEF AcknowledgeWrite, IsNew, Answer
    <2>2. local[w].row \in Row /\ local[w].row.state = "archived"
      BY <1>6, CarriedRows DEF AcknowledgeWrite, At
    <2>3. "archived" \in admitted => mandates'[i].state = "archived"
      BY <2>1, <2>2, ArchiveInserts DEF Used
    <2>4. i \notin MandateIds
      BY ConstantsAssumption
    <2> QED
      BY <1>2, <2>1, <2>3, <2>4 DEF Kept, Grows
  <1>7. ASSUME NEW w \in Requests, ReachRecipient(w)
        PROVE  \A i \in told' : Kept(i)'
    <2>1. ReachesTheRest(w)
      BY <1>7 DEF ReachRecipient, At, IInv, LocalOK
    <2>2. PICK i \in Ids : i = local[w].id
      BY <2>1 DEF ReachesTheRest
    <2>3. PICK p \in local[w].todo :
             /\ sent' = [sent EXCEPT ![i] = @ \union {p}]
             /\ \/ local[w].todo = {p} /\ told' = told \union {i}
                \/ UNCHANGED told
             /\ UNCHANGED <<mandates, queue>>
      BY <1>7, <2>2 DEF ReachRecipient, Answer
    <2>4. CASE local[w].todo = {p} /\ told' = told \union {i}
      <3>1. sent'[i] = sent[i] \union {p}
        BY <2>3 DEF TypeOK
      <3>2. Kept(i)'
        BY <2>1, <2>2, <2>3, <2>4, <3>1 DEF ReachesTheRest, Kept
      <3> QED
        BY <1>2, <2>3, <2>4, <3>2
    <2> QED
      BY <1>1, <2>3, <2>4
  <1>8. ASSUME NEW c \in Consumers, AckMessage(c)
        PROVE  \A i \in told' : Kept(i)'
    <2>1. CarriesMail(c) /\ At(c, "ack")
      BY <1>8 DEF AckMessage, At, IInv, LocalOK, Carrying
    <2>2. PICK i \in Ids : i = local[c].id
      BY <2>1 DEF CarriesMail
    <2>3. /\ \A j \in Ids \ {i} : queue'[j] = queue[j]
          /\ UNCHANGED <<mandates, told>>
      BY <1>8, <2>2 DEF AckMessage, TypeOK
    <2>4. "archived" \in admitted => mandates'[i].state = "archived"
      BY <2>1, <2>2, <2>3 DEF CarriesMail
    <2>5. i \notin MandateIds
      BY <2>1, <2>2, ConstantsAssumption DEF CarriesMail
    <2>6. Kept(i)'
      BY <2>4, <2>5 DEF Kept, Grows
    <2> QED
      BY <2>3, <2>6, KeptStays
  <1>9. ASSUME NEW i \in Ids, Deliver(i) PROVE \A j \in told' : Kept(j)'
    <2>1. /\ \A j \in Ids : queue'[j].status = queue[j].status
          /\ UNCHANGED told
      BY <1>9 DEF Deliver, TypeOK, Message
    <2> QED
      BY <2>1, KeptStays
  <1>10. ASSUME NEW i \in Ids, Drop(i) PROVE \A j \in told' : Kept(j)'
    <2>1. /\ \A j \in Ids \ {i} : queue'[j] = queue[j]
          /\ queue'[i].status = "dropped"
          /\ UNCHANGED told
      BY <1>10 DEF Drop, TypeOK, Message
    <2> QED
      BY <2>1, KeptStays
  <1> QED
    BY <1>1, <1>3, <1>4, <1>5, <1>6, <1>7, <1>8, <1>9, <1>10
       DEF Next, vars, ReceiveMail, PutMail, AcknowledgeRead,
           AcknowledgeCheck, DispatchMandate, StoreMessage,
           AcknowledgeMandate, Stop

LEMMA StepKeeps == IInv /\ [Next]_vars => IInv'
  BY StepTypes, StepLocals, StepRows, StepMessages, StepTold DEF IInv

\* The tables, the queue and the locals of requests hold what the handlers
\* write.  A receipt is from a credential, and to a credential or to "unknown":
\* never to the address of a mail.
THEOREM LedgerTypeCorrect == Spec => []TypeOK
  <1>1. IInv => TypeOK
    BY DEF IInv
  <1> QED
    BY <1>1, InitEstablishes, StepKeeps, PTL DEF Spec

\* With any number of requests, consumers and deliveries, whatever throws or is
\* cut off, and whatever the table admits: who was told that a mandate was
\* dispatched was told so when it had gone to all; who was told of an exchange
\* or a mail finds its row, or the queue has its message or gave it up, unless
\* the table refuses every such row; a stored object is where its row says.
THEOREM PromisesAreKept == Spec => []PromiseKept
  <1>1. IInv => PromiseKept
    BY DEF IInv, RowOK, MessageOK, Kept, PromiseKept
  <1> QED
    BY <1>1, InitEstablishes, StepKeeps, PTL DEF Spec

\* An acknowledgement that begins when its exchange has a receipt inserts
\* none, however many requests acknowledge it at a time and wherever others
\* stopped; each receipt crosses the parties of its exchange.
THEOREM ReceiptsAreAnswers == Spec => []ReceiptsAnswer
  <1>1. IInv => ReceiptsAnswer
    <2> SUFFICES ASSUME IInv PROVE ReceiptsAnswer
      OBVIOUS
    <2>1. \A w \in Requests : At(w, "receipt") => ~local[w].late
      BY KindsAreIds DEF IInv, LocalOK, Acknowledges, At
    <2>2. \A i \in Ids : mandates[i].about \in Ids => IsReceipt(mandates[i])
      BY DEF IInv, RowOK
    <2> QED
      BY <2>1, <2>2 DEF ReceiptsAnswer, IsReceipt
  <1> QED
    BY <1>1, InitEstablishes, StepKeeps, PTL DEF Spec

-----------------------------------------------------------------------------
(* Where the table does not admit what the handlers write.                 *)

\* Nothing that INSERT OR IGNORE is given is stored: callers are told of
\* exchanges that are not there, and messages are acknowledged and lost.
NothingArchived ==
    "archived" \notin admitted => \A i \in Ids : mandates[i].state # "archived"

\* Under a CHECK like that of migration 001 no exchange or mail is ever stored,
\* though INSERT OR IGNORE reports no error: the finding of run finding_ledger
\* is the rule there, and not a matter of timing.
THEOREM UncheckedIsNeverStored == Spec => []NothingArchived
  <1>1. Init => NothingArchived
    BY DEF Init, NoRow, NothingArchived
  <1>2. IInv /\ NothingArchived /\ [Next]_vars => NothingArchived'
    <2> SUFFICES ASSUME IInv, NothingArchived, [Next]_vars,
                        "archived" \notin admitted'
                 PROVE  \A i \in Ids : mandates'[i].state # "archived"
      BY DEF NothingArchived
    <2>0. /\ "archived" \notin admitted
          /\ \A i \in Ids : mandates[i].state # "archived"
      BY DEF NothingArchived, Next, vars
    <2> USE <2>0, KindsAreIds
    <2>1. ASSUME NEW i, NEW row, row.state = "archived", Archive(i, row)
          PROVE  UNCHANGED mandates
      BY <2>1 DEF Archive
    <2>2. ASSUME NEW w \in Requests, DispatchExchange(w)
          PROVE  UNCHANGED mandates
      BY <2>1, <2>2 DEF DispatchExchange, Exchange
    <2>3. ASSUME NEW w \in Workers, StoreMail(w) \/ StoreMessage(w)
          PROVE  UNCHANGED mandates
      BY <2>1, <2>3, CarriedRows DEF StoreMail, StoreMessage, At, Carrying
    <2>4. ASSUME NEW w \in Requests, AcknowledgeWrite(w)
          PROVE  UNCHANGED mandates
      BY <2>1, <2>4, CarriedRows DEF AcknowledgeWrite, At
    <2>5. ASSUME NEW w \in Requests, DispatchMandate(w)
          PROVE  \A i \in Ids : mandates'[i].state # "archived"
      <3>1. PICK i \in MandateIds, sender \in Senders :
               /\ ~Used(i)
               /\ mandates' = [mandates EXCEPT ![i] =
                     [NoRow EXCEPT !.state = "dispatched", !.sender = sender]]
        BY <2>5 DEF DispatchMandate, IsNew
      <3> QED
        BY <3>1, MandateInserts
    <2> QED
      BY <2>2, <2>3, <2>4, <2>5
         DEF Next, vars, ReceiveMail, PutMail, BufferMail, AcknowledgeRead,
             AcknowledgeCheck, ReachRecipient, AckMessage, Deliver, Drop,
             AcknowledgeMandate, Stop
  <1> QED
    BY <1>1, <1>2, InitEstablishes, StepKeeps, PTL DEF Spec

=============================================================================
