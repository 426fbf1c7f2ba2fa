\* Convergence: two devices, of which one may be deleted under a sweep, reports
\* that a sweep overtakes.
SPECIFICATION FairSpec
CONSTANTS
    d1 = d1  d2 = d2  b1 = b1  b2 = b2
    Device = {d1, d2}
    Beat = {b1, b2}
    BeatOf <- OneEach
    Sweep = {s1}
    Timeouts = {0}
    Default = 1
    MaxTime = 2
    MaxConfig = 1
    MayDelete = TRUE
    DbFails = FALSE
    Never = Never
PROPERTY StatusConverges
