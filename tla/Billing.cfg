SPECIFICATION Spec
CONSTANTS
    Calls = {c1, c2}
    Payloads <- MCPayloads
    TrialLength = 1
    CycleLength = 1
    MaxTime = 3
    MaxSubs = 2
    MaxEvents = 2
SYMMETRY Interchangeable
INVARIANTS TypeOK PlanAsBought ProcessedWasApplied CancellationAccepted
PROPERTIES ExpiryUndoneByNewer IndexLostOnlyToStaleRead ImplementsContract
CHECK_DEADLOCK FALSE
