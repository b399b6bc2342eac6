\* API, mail, queue, acknowledgements and mandates, with the table of migration
\* 001 and with one that admits the states the handlers write.
SPECIFICATION Spec
CONSTANTS
    Personas = {p1, p2}
    Requests = {w1, w2}
    Consumers = {c1, c2}
    ExchangeIds = {1, 2}
    MailIds = {5}
    MandateIds = {6}
    Senders = {root}
    Tables <- MCTables
    Buffered <- MCBuffered
    MaxTries = 2
    Stranger = Stranger
    Unknown = Unknown
    Unmapped = Unmapped
    NoId = NoId
SYMMETRY Symmetry
INVARIANTS
    TypeOK
    PromiseKept
    ReceiptsAnswer
