\* A healthy store, valid events, no restart: README.md:31 against the code.
SPECIFICATION Spec
CONSTANTS
    e1 = e1  e2 = e2  e3 = e3  e4 = e4
    m1 = m1  m2 = m2  m3 = m3
    Event <- MCEvent
    Malformed = {}
    Delivery = {m1, m2, m3}
    Carried <- MCCarried
    BatchSize = 3
    Flush = {f1}
    MaxCrash = 0
    StoreFails = FALSE
INVARIANT PushedEventsAreKept
