SPECIFICATION Spec
CONSTANTS
    Device = {d1, d2}
    Group = {g1, g2}
    Existing = {g1}
    Firmware = {f1, f2}
    Category = {k1}
    Template = {t1, t2, t3}
    Name = {n1, n2}
    Range = {r1, r2}
    MaxCalls = 2
    MetricsCalls = 3
    MetricsClicks = 1
    MaxFaults = 1
    FewClicks = 2
    MoreClicks = 3
    WizardClicks = 7
    None = None
INVARIANTS
    TypeOK
    StatusIsReported
    LoadingMeansRunning
    TablesMatch
    StepIsBacked
    StrandedHasCause
PROPERTIES
    PagesSettle
    UpdateSavesTicked
CHECK_DEADLOCK FALSE
