\* Spec 5(c) and S6: no trigger reaches an agent whose process was stopped.
\* TLC finds a message queued before sub.Drain() handed to the handler
\* after StopWorkload stopped the process.
CONSTANTS
    Ids = {w1}
    s1 = s1
    s2 = s2
    Subjects <- MCSubjects
    TriggerLists <- MCTriggerLists
    Stoppers = {c1}
    Deployer = dep
    NoId = NoId
    NoReq = NoReq
    MaxNodeStops = 1
    ClosingWidth = 8
    Headers <- MCHeaders
    RuntimeBits = 8
    MaxPublishes = 2

SPECIFICATION TSpec

PROPERTY TriggerOnlyToRunning

CHECK_DEADLOCK FALSE
