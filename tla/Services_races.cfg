SPECIFICATION Spec
CONSTANTS
    Device = {d1, d2}
    Serial = {s1}
    Firmware = {f1, f2}
    Category = {k1}
    File = {x1, x2}
    Request = {q0, q1, q2}
    Earlier = q0
    Period = 3
    MaxTime = 9
    MaxFaults = 1
    None = None
INVARIANTS
    TypeOK
    MembershipDriftHasCause
    SendRecords
    FirmwareIsWhole
    CertificateMatchesKey
    ActiveLossHasCause
    OverwriteHasCause
    AvailabilityInRange
CHECK_DEADLOCK FALSE
