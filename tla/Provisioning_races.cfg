\* One device, three operations of any kind, two of them at a time, and a page
\* that puts rows which it loaded earlier.
SPECIFICATION Spec
CONSTANTS
    Device = {d1}
    Template = {t1, t2}
    FirstTemplate = t1
    Certificate = {x1, x2}
    UserId = {u1, u2}
    ObjectId = {u1, u2}
    Page = {p1}
    Call = {c1, c2}
    MaxCalls = 3
    MaxToken = 2
    DbFails = TRUE
    None = None
    t1 = t1
    x1 = x1
    x2 = x2
    u1 = u1
    u2 = u2
SYMMETRY Alike
INVARIANTS TypeOK HandedTokenIsStored DanglingHasCause RevokedHasNoActiveCertificate ProvisionedIsEquipped
PROPERTY ClaimOverridesOnlyByRace
