--------------------------- MODULE ExchangeLedger ---------------------------
(***************************************************************************)
(* Exchanges and mandates of index.js, which share the table mandates:     *)
(* exchanges submitted by the API, mails buffered by the queue or stored   *)
(* at once, their acknowledgement by a receipt that is itself an exchange, *)
(* and mandates with the personas they are sent to.                        *)
(*                                                                         *)
(* Every D1 statement, object write and queue call is a step.  Any of them *)
(* may throw, before or after it took effect, and any request may be cut   *)
(* off.  The queue delivers at least once, in any order, and MaxTries      *)
(* times at most; the same message may be with two consumers at a time.    *)
(***************************************************************************)
EXTENDS Naturals

CONSTANTS
    Personas,   \* credentials that receive exchanges and mandates
    Senders,    \* credentials that dispatch mandates
    Requests,   \* workers that run HTTP and mail handlers
    Consumers,  \* workers that run the queue handler
    ExchangeIds, MailIds, MandateIds,
                \* identifiers of rows: random, so each kind may have its own
    Tables,     \* the CHECKs table mandates may have: the states each admits
    Buffered,   \* may MATRIX_EMAIL_QUEUE be bound? (a set of answers)
    MaxTries,   \* deliveries of a message before the queue gives up
    Stranger,   \* who sends a mail: its address
    Unknown,    \* who sends a mail without a sender: the word "unknown"
    Unmapped,   \* the recipient of a mandate, or of a mail to nobody here
    NoId

Workers == Requests \union Consumers
Ids == ExchangeIds \union MailIds \union MandateIds

ASSUME ConstantsAssumption ==
    /\ Ids \subseteq Nat /\ NoId \notin Ids
    /\ MandateIds \intersect (ExchangeIds \union MailIds) = {}
    /\ Requests \intersect Consumers = {}
    /\ Stranger \notin Personas \union {Unknown, Unmapped}
    /\ Unknown \notin Personas /\ Unmapped \notin Personas
    /\ Buffered \subseteq BOOLEAN
    /\ MaxTries \in Nat \ {0}

\* The CHECK of migration 001.  It creates the table IF NOT EXISTS: one that
\* is there keeps its own.
CheckedStates ==
    {"draft", "dispatched", "active", "closed", "expired", "cancelled"}

VARIABLES
    admitted,   \* the states that the CHECK of table mandates admits
    mandates,   \* table mandates, by identifier
    sent,       \* mandate_recipients: to whom a mandate has gone
    seen,       \* the rows among them with an acknowledged_at
    objects,    \* MATRIX_ARTIFACTS: the mails stored outside the message
    queue,      \* MATRIX_EMAIL_QUEUE: what became of each message
    local,      \* the locals of each request
    told        \* whose caller was told that all went well (history)

vars == <<admitted, mandates, sent, seen, objects, queue, local, told>>

Row ==
    [state:     {"none", "archived", "dispatched"},
     sender:    Personas \union Senders \union {Stranger, Unknown},
     recipient: Personas \union {Unknown, Unmapped},
     about:     Ids \union {NoId},      \* the exchange a receipt acknowledges
     artifact:  BOOLEAN]                \* is the payload in an object?

Message ==
    [status: {"none", "waiting", "acked", "dropped"},
     tries:  0..MaxTries,
     row:    Row]

Steps == {"idle", "put", "hand_over", "store", "ack", "check", "receipt", "reach"}

Local ==
    [pc:   Steps,
     id:   Ids \union {NoId},
     row:  Row,
     todo: SUBSET Personas,     \* whom a mandate has yet to reach
     late: BOOLEAN]             \* was a receipt there when it began? (history)

NoRow == [state |-> "none", sender |-> Stranger, recipient |-> Unmapped,
          about |-> NoId, artifact |-> FALSE]

Idle == [pc |-> "idle", id |-> NoId, row |-> NoRow, todo |-> {}, late |-> FALSE]

\* Who carries a mail to its row.
Carrier(step, i, row) == [Idle EXCEPT !.pc = step, !.id = i, !.row = row]

At(w, step) == local[w].pc = step

TypeOK ==
    /\ admitted \in Tables
    /\ mandates \in [Ids -> Row]
    /\ sent \in [Ids -> SUBSET Personas]
    /\ seen \in [Ids -> SUBSET Personas]
    /\ objects \subseteq Ids
    /\ queue \in [Ids -> Message]
    /\ local \in [Workers -> Local]
    /\ told \subseteq Ids

Init ==
    /\ admitted \in Tables
    /\ mandates = [i \in Ids |-> NoRow]
    /\ sent = [i \in Ids |-> {}]
    /\ seen = [i \in Ids |-> {}]
    /\ objects = {}
    /\ queue = [i \in Ids |-> [status |-> "none", tries |-> 0, row |-> NoRow]]
    /\ local = [w \in Workers |-> Idle]
    /\ told = {}

Used(i) ==
    \/ mandates[i].state # "none" \/ queue[i].status # "none"
    \/ i \in objects
    \/ \E w \in Workers : local[w].id = i

\* crypto.randomUUID: which unused identifier it is does not matter.
IsNew(i, kind) == ~Used(i) /\ \A j \in kind : j < i => Used(j)

Exchange(sender, recipient, about, artifact) ==
    [state |-> "archived", sender |-> sender, recipient |-> recipient,
     about |-> about, artifact |-> artifact]

\* INSERT OR IGNORE passes over a row that is there, and over one that the
\* CHECK of the table refuses.
Archive(i, row) ==
    mandates' = IF mandates[i].state = "none" /\ row.state \in admitted
                THEN [mandates EXCEPT ![i] = row]
                ELSE mandates

Goto(w, step) == local' = [local EXCEPT ![w].pc = step]

Return(w) == local' = [local EXCEPT ![w] = Idle]

\* The handler returns, and its caller may count on what it answers.  Its last
\* call may throw after it took effect instead: the caller is told nothing,
\* and all else is the same, so that case needs no step of its own.
Answer(w, i) ==
    /\ Return(w)
    /\ told' = told \union {i}

-----------------------------------------------------------------------------
(* handleExchangeDispatch.  A payload that does not fit the row is refused *)
(* before anything is written: prepareTextExchangePayload names its        *)
(* parameter content_type and reads contentType, which is not defined.     *)

DispatchExchange(w) ==
    \E i \in ExchangeIds, sender, recipient \in Personas :
        /\ At(w, "idle") /\ IsNew(i, ExchangeIds)
        /\ Archive(i, Exchange(sender, recipient, NoId, FALSE))
        /\ Answer(w, i)
        /\ UNCHANGED <<sent, seen, objects, queue>>

-----------------------------------------------------------------------------
(* email: a large mail is stored as an object first, then the message is   *)
(* buffered, or stored when no queue is bound.                             *)

ReceiveMail(w) ==
    \E i \in MailIds, large \in BOOLEAN, sender \in {Stranger, Unknown},
       recipient \in Personas \union {Unmapped} :
        /\ At(w, "idle") /\ IsNew(i, MailIds)
        /\ local' = [local EXCEPT ![w] =
              Carrier(IF large THEN "put" ELSE "hand_over", i,
                      Exchange(sender, recipient, NoId, large))]
        /\ UNCHANGED <<mandates, sent, seen, objects, queue, told>>

PutMail(w) ==
    /\ At(w, "put")
    /\ objects' = objects \union {local[w].id}
    /\ Goto(w, "hand_over")
    /\ UNCHANGED <<mandates, sent, seen, queue, told>>

BufferMail(w) ==
    /\ At(w, "hand_over") /\ TRUE \in Buffered
    /\ queue' = [queue EXCEPT ![local[w].id] =
          [status |-> "waiting", tries |-> 0, row |-> local[w].row]]
    /\ Answer(w, local[w].id)
    /\ UNCHANGED <<mandates, sent, seen, objects>>

StoreMail(w) ==
    /\ At(w, "hand_over") /\ FALSE \in Buffered
    /\ Archive(local[w].id, local[w].row)
    /\ Answer(w, local[w].id)
    /\ UNCHANGED <<sent, seen, objects, queue>>

-----------------------------------------------------------------------------
(* queue: the handler takes the messages of a batch one after the other.   *)

Deliver(i) ==
    \E c \in Consumers :
        /\ At(c, "idle")
        /\ queue[i].status = "waiting" /\ queue[i].tries < MaxTries
        /\ queue' = [queue EXCEPT ![i].tries = @ + 1]
        /\ local' = [local EXCEPT ![c] =
              Carrier("store", i, queue[i].row)]
        /\ UNCHANGED <<mandates, sent, seen, objects, told>>

StoreMessageOrNot(c) ==             \* mutant: an insert that throws is acknowledged
    /\ At(c, "store")
    /\ Archive(local[c].id, local[c].row) \/ UNCHANGED mandates
    /\ Goto(c, "ack")
    /\ UNCHANGED <<sent, seen, objects, queue, told>>

StoreMessage(c) ==
    /\ At(c, "store")
    /\ Archive(local[c].id, local[c].row)
    /\ Goto(c, "ack")
    /\ UNCHANGED <<sent, seen, objects, queue, told>>

AckMessage(c) ==
    /\ At(c, "ack")
    /\ queue' = [queue EXCEPT ![local[c].id].status = "acked"]
    /\ Return(c)
    /\ UNCHANGED <<mandates, sent, seen, objects, told>>

\* The queue gives up a message that came back each time.
Drop(i) ==
    /\ queue[i].status = "waiting" /\ queue[i].tries = MaxTries
    /\ \A c \in Consumers : local[c].id # i
    /\ queue' = [queue EXCEPT ![i].status = "dropped"]
    /\ UNCHANGED <<mandates, sent, seen, objects, local, told>>

-----------------------------------------------------------------------------
(* handleExchangeAcknowledge, by the one an exchange is addressed to.  Its *)
(* sender must look like a credential: an address does not, but "unknown"  *)
(* does, and is sent a receipt that nobody receives.  The receipt is       *)
(* looked up by its title, which names the exchange.                       *)

AnySender(sender) == TRUE           \* mutant: whoever sent it gets a receipt

\* normalizeCredentialId
IsCredential(sender) == sender \in Personas \union {Unknown}

\* (history)
HasReceipt(e) == \E i \in Ids : mandates[i].about = e

AcknowledgeRead(w) ==
    \E e \in Ids :
        /\ At(w, "idle")
        /\ mandates[e].state = "archived"
        /\ mandates[e].recipient \in Personas
        /\ IsCredential(mandates[e].sender)
        /\ local' = [local EXCEPT ![w] =
              [Idle EXCEPT !.pc = "check", !.late = HasReceipt(e),
                           !.row = Exchange(mandates[e].recipient,
                                            mandates[e].sender, e, FALSE)]]
        /\ UNCHANGED <<mandates, sent, seen, objects, queue, told>>

NeverAcknowledged(e) == FALSE       \* mutant: an earlier receipt is not looked up

Acknowledged(e) ==
    \E i \in Ids : mandates[i].state = "archived" /\ mandates[i].about = e

AcknowledgeCheck(w) ==
    /\ At(w, "check")
    /\ \/ Acknowledged(local[w].row.about) /\ Return(w)
       \/ ~Acknowledged(local[w].row.about) /\ Goto(w, "receipt")
    /\ UNCHANGED <<mandates, sent, seen, objects, queue, told>>

AcknowledgeWrite(w) ==
    \E i \in ExchangeIds :
        /\ At(w, "receipt") /\ IsNew(i, ExchangeIds)
        /\ Archive(i, local[w].row)
        /\ Answer(w, i)
        /\ UNCHANGED <<sent, seen, objects, queue>>

-----------------------------------------------------------------------------
(* Mandates.  A mandate is inserted once: a caller who names it again is   *)
(* refused by the primary key, and changes nothing.                        *)

Recipients(sender) == Personas \ {sender}

DispatchMandate(w) ==
    \E i \in MandateIds, sender \in Senders :
        /\ At(w, "idle") /\ IsNew(i, MandateIds)
        /\ Recipients(sender) # {}
        /\ "dispatched" \in admitted
        /\ mandates' = [mandates EXCEPT ![i] =
              [NoRow EXCEPT !.state = "dispatched", !.sender = sender]]
        /\ local' = [local EXCEPT ![w] =
              [Idle EXCEPT !.pc = "reach", !.id = i, !.todo = Recipients(sender)]]
        /\ UNCHANGED <<sent, seen, objects, queue, told>>

ReachRecipient(w) ==
    \E p \in local[w].todo :
        /\ At(w, "reach")
        /\ sent' = [sent EXCEPT ![local[w].id] = @ \union {p}]
        /\ \/ local[w].todo = {p} /\ Answer(w, local[w].id)
           \/ /\ local[w].todo # {p}
              /\ local' = [local EXCEPT ![w].todo = @ \ {p}]
              /\ UNCHANGED told
        /\ UNCHANGED <<mandates, seen, objects, queue>>

AcknowledgeMandate(i) ==
    \E p \in sent[i] :
        /\ seen' = [seen EXCEPT ![i] = @ \union {p}]
        /\ UNCHANGED <<mandates, sent, objects, queue, local, told>>

-----------------------------------------------------------------------------

\* A call throws, or the request is cut off.  A message whose consumer stops,
\* or asks for a retry, stays in the queue.
Stop(w) ==
    /\ ~At(w, "idle")
    /\ Return(w)
    /\ UNCHANGED <<mandates, sent, seen, objects, queue, told>>

Next ==
    /\ \/ \E w \in Requests :
             \/ DispatchExchange(w)
             \/ ReceiveMail(w) \/ PutMail(w) \/ BufferMail(w) \/ StoreMail(w)
             \/ AcknowledgeRead(w) \/ AcknowledgeCheck(w) \/ AcknowledgeWrite(w)
             \/ DispatchMandate(w) \/ ReachRecipient(w)
       \/ \E c \in Consumers : StoreMessage(c) \/ AckMessage(c)
       \/ \E i \in Ids : Deliver(i) \/ Drop(i) \/ AcknowledgeMandate(i)
       \/ \E w \in Workers : Stop(w)
    /\ UNCHANGED admitted

Spec == Init /\ [][Next]_vars

-----------------------------------------------------------------------------
(* Properties.                                                             *)

\* Whoever was told that an exchange was submitted, a mail taken, an exchange
\* acknowledged or a mandate dispatched was told the truth, whatever stopped
\* on the way: the row is there, or its message waits or came back MaxTries
\* times, and a mandate has gone to everybody.  The exception is a table that
\* refuses what the handlers write, as LoggedIsStored says below: it keeps no
\* exchange and no mail, but of a mandate nobody is told in vain.  A mail that
\* was stored as an object is found under the key its row or message names.
PromiseKept ==
    /\ \A i \in told :
          \/ queue[i].status \in {"waiting", "dropped"}
          \/ mandates[i].state = "archived"
          \/ /\ mandates[i].state = "dispatched"
             /\ Recipients(mandates[i].sender) \subseteq sent[i]
          \/ "archived" \notin admitted /\ i \notin MandateIds
    /\ \A i \in Ids :
          mandates[i].artifact \/ queue[i].row.artifact => i \in objects

\* The receipt is looked up and then inserted, without a unique index:
\* acknowledgements that overlap may insert one each, but none that begins
\* when a receipt is there adds another.  Each receipt goes from the one who
\* received the exchange to the one who sent it.
ReceiptsAnswer ==
    /\ \A w \in Requests : At(w, "receipt") => ~local[w].late
    /\ \A i, e \in Ids :
          mandates[i].about = e =>
             /\ mandates[i].sender = mandates[e].recipient
             /\ mandates[i].recipient = mandates[e].sender

-----------------------------------------------------------------------------
(* What the code says of itself, and the schema does not keep.             *)

\* index.js logs of every message it acknowledges: "Stored exchange".
LoggedIsStored ==
    \A i \in Ids : queue[i].status = "acked" => mandates[i].state = "archived"

=============================================================================
