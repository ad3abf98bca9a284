SPECIFICATION FairSpec
CONSTANTS
    Runs = {r1}
    Heads = {h1}
    Requests = {a1}
    Workers = {w1}
    PublishTries = 2
    DeliveryLimit = 1
    StaleLimit = 0
    QueuedLimit = 1
    NoHead = NoHead
    NoRun = NoRun
    NoMsg = NoMsg
PROPERTIES EveryRunFinishes EveryMessageSettles
