\* A second agent's handshake times out after a first one succeeded: the
\* callback drops it from pendingAgents, does not cancel the node, and
\* never stops its process (expected: TimedOutStopped violated).
CONSTANTS
    Ids = {w1, w2}
    s1 = s1
    s2 = s2
    Subjects <- MCSubjects
    TriggerLists <- MCTriggerLists
    Stoppers = {c1}
    Deployer = dep
    NoId = NoId
    NoReq = NoReq
    MaxNodeStops = 2
    ClosingWidth = 8

SPECIFICATION Spec

INVARIANT TimedOutStopped

CHECK_DEADLOCK FALSE
