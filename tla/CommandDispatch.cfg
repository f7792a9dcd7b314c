CONSTANTS
    Sessions = {s1, s2}
    Digests = {d1, d2}
    None = None
    MaxClaims = 1
    Capability = "index.ingest.v1"
    Publishers = {p1, p2}
    Unverifiable = {d2}
    MaxStored = 2
SPECIFICATION DispatchSpec
CHECK_DEADLOCK FALSE
SYMMETRY Symmetry
INVARIANTS DispatchTypeOK OneEnvelope 
