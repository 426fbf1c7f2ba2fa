\* The id the controller passes, one operation at a time, a store that never fails.
SPECIFICATION Spec
CONSTANTS
    Device = {d1}
    Template = {t1, t2}
    FirstTemplate = t1
    Certificate = {x1, x2}
    UserId = {placeholder}
    ObjectId = {u1, u2}
    Page = {}
    Call = {c1}
    MaxCalls = 2
    MaxToken = 2
    DbFails = FALSE
    None = None
    t1 = t1
    x1 = x1
    x2 = x2
    u1 = u1
    u2 = u2
PROPERTY CheckedClaimSucceeds
