\* Two publications under one client-supplied id, a response, failing database
\* operations and a restart.  Every command may come to its end, so the system
\* may stop.
SPECIFICATION FairSpec
CONSTANTS
    p1 = p1  p2 = p2  r1 = r1  r2 = r2  c1 = c1  c2 = c2
    Publication = {p1, p2}
    CommandId = {c1}
    IdOf <- SharedId
    Response = {r1}
    About <- OneAboutC1
    MaxCrash = 1
    DbFails = TRUE
    None = None
CHECK_DEADLOCK FALSE
INVARIANTS TypeOK PendingHasLiveTimer ArmedTimerIsReachable WrongTimeoutHasCause
PROPERTIES OutcomeReplacedOnlyByRace EveryAckedCommandGetsVerdict
