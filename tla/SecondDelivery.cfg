SPECIFICATION RedeliverySpec
CONSTANTS
    Pushes = {1, 2}
    Ignored = {}
    Passers = {"p", "q"}
    MaxRedeliveries = 2
    Backoff = 1
    PassLimit = 1
    Window = 4
    Slots = {1, 2}
    Faults = 2
    Horizon = 5
INVARIANTS ExtraAttemptIsHarmless
CHECK_DEADLOCK FALSE
