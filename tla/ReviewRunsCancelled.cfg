SPECIFICATION Spec
CONSTANTS
    Runs = {r1}
    Heads = {h1}
    Requests = {a1}
    Workers = {w1}
    PublishTries = 1
    DeliveryLimit = 0
    StaleLimit = 0
    QueuedLimit = 1
    NoHead = NoHead
    NoRun = NoRun
    NoMsg = NoMsg
PROPERTIES CancelledRunDoesNotPost
