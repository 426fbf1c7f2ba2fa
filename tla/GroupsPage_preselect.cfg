SPECIFICATION Spec
CONSTANTS
    Path = "/device-groups"
    Group = {g1, g2}
    Existing = {g1, g2}
    Device = {d1, d2}
    MaxCalls = 2
    MaxClicks = 3
    MaxFaults = 0
    None = None
PROPERTY MembersArePreselected
CHECK_DEADLOCK FALSE
