\* The table as migration 001 creates it.
SPECIFICATION Spec
CONSTANTS
    Personas = {p1, p2}
    Requests = {w1, w2}
    Consumers = {c1, c2}
    ExchangeIds = {1, 2, 3}
    MailIds = {5}
    MandateIds = {6}
    Senders = {root}
    Tables <- MCChecked
    Buffered <- MCBuffered
    MaxTries = 2
    Stranger = Stranger
    Unknown = Unknown
    Unmapped = Unmapped
    NoId = NoId
INVARIANTS
    LoggedIsStored
