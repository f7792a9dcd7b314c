CONSTANTS
    Sessions = {s1}
    Digests = {d1}
    None = None
    MaxClaims = 2
    Capability = "agent.execute.application.v1"
    Publishers = {p1}
    Unverifiable = {}
    MaxStored = 2
SPECIFICATION DispatchFairSpec
CHECK_DEADLOCK FALSE
PROPERTIES  SettledLeavesBus
