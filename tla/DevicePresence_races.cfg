\* Reports of one device against overlapping sweeps, a change of timeout and
\* failing saves.
SPECIFICATION Spec
CONSTANTS
    d1 = d1  d2 = d2  b1 = b1  b2 = b2
    Device = {d1}
    Beat = {b1, b2}
    BeatOf <- AllOfOne
    Sweep = {s1, s2}
    Timeouts = {0}
    Default = 1
    MaxTime = 2
    MaxConfig = 1
    MayDelete = FALSE
    DbFails = TRUE
    Never = Never
INVARIANTS TypeOK OfflineWhileFreshHasCause
PROPERTY UndisturbedSweepIsRight
SYMMETRY Alike
