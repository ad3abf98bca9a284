SPECIFICATION Spec
CONSTANTS
    Runs = {r1, r2}
    Heads = {h1}
    Requests = {a1, a2}
    Workers = {w1}
    PublishTries = 1
    DeliveryLimit = 0
    StaleLimit = 0
    QueuedLimit = 1
    NoHead = NoHead
    NoRun = NoRun
    NoMsg = NoMsg
SYMMETRY Symmetry
PROPERTIES TerminalIsFrozen KeepsPromise
