CONSTANTS
    Sessions = {s1, s2}
    Digests = {d1, d2}
    None = None
    MaxClaims = 3
    Capability = "index.ingest.v1"
SPECIFICATION Spec
CHECK_DEADLOCK FALSE
SYMMETRY Symmetry
INVARIANTS TypeOK SingleOwner AtMostOneInvocation NoReexecution
    AuthorityExcludesRetirement SettlementMatchesOutput AckedMeansFinal
PROPERTIES ImplementsContract FinalIsFinal CancelStopsWork StaleFenceWritesNothing
