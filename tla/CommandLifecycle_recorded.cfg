\* The comment at mqtt.service.ts:288 against the stored records.
SPECIFICATION Spec
CONSTANTS
    p1 = p1  p2 = p2  r1 = r1  r2 = r2  c1 = c1  c2 = c2
    Publication = {p1, p2}
    CommandId = {c1, c2}
    IdOf <- FreshIds
    Response = {r1, r2}
    About <- OneEach
    MaxCrash = 0
    DbFails = FALSE
    None = None
CHECK_DEADLOCK FALSE
INVARIANT TimeoutIsRecorded
