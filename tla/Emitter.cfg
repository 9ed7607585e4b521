SPECIFICATION EmitterSpec
CONSTANTS
    Session = {c1, c2, c3}
    Capacity = 1
    Retries = 1
    Sinks = {TRUE, FALSE}
INVARIANTS
    EmitterTypeOK
    RecordsAccounted
    BoundedSends
    SentInOrder
PROPERTY
    QueueDrains
