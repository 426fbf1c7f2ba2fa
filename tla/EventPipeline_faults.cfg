\* Every fault the code can meet: failed and partial inserts, an event that
\* fails validation, a restart, overlapping flushes.
SPECIFICATION FairSpec
CONSTANTS
    e1 = e1  e2 = e2  e3 = e3  e4 = e4
    m1 = m1  m2 = m2  m3 = m3
    Event <- MCEvent
    Malformed <- MCMalformed
    Delivery = {m1, m2, m3}
    Carried <- MCCarried
    BatchSize = 2
    Flush = {f1, f2}
    MaxCrash = 1
    StoreFails = TRUE
INVARIANTS TypeOK LossHasCause BatchesCoverBuffer DuplicateHasCause FullBufferIsFlushing
PROPERTIES EveryEventAccountedFor BufferDrains ImplementsEventLog
