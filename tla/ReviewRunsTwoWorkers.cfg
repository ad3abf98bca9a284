SPECIFICATION Spec
CONSTANTS
    Runs = {r1}
    Heads = {h1}
    Requests = {a1}
    Workers = {w1, w2}
    PublishTries = 2
    DeliveryLimit = 1
    StaleLimit = 0
    QueuedLimit = 1
    NoHead = NoHead
    NoRun = NoRun
    NoMsg = NoMsg
SYMMETRY Symmetry
INVARIANTS OneOwner OneReviewPerRun AckedRunWasTaken IInv
PROPERTIES SweepSparesProgress
