\* Trigger dispatch composed with the pool core: every delivered trigger
\* ends in a function-exec event.  One agent whose requests have zero, one
\* or two triggers, one control-plane stopper (so that a stop can drain a
\* subscription with messages still queued), two publishes.
CONSTANTS
    Ids = {w1}
    s1 = s1
    s2 = s2
    Subjects <- MCSubjects
    TriggerLists <- MCTriggerLists
    Stoppers = {c1}
    Deployer = dep
    NoId = NoId
    NoReq = NoReq
    MaxNodeStops = 1
    ClosingWidth = 8
    Headers <- MCHeaders
    RuntimeBits = 8
    MaxPublishes = 2

SPECIFICATION TFairSpec

INVARIANT TriggersTypeOK
INVARIANT TriggerOnlyToAccepted
INVARIANT MessagesAccounted
PROPERTY ExecOutcomeReported

\* States after a panic have no successor (the node has crashed).
CHECK_DEADLOCK FALSE
