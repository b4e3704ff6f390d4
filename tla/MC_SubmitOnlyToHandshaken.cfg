\* An agent is selected and sent a deploy before its handshake succeeded
\* (expected: SubmitOnlyToHandshaken violated).
CONSTANTS
    Ids = {w1, w2}
    s1 = s1
    s2 = s2
    Subjects <- MCSubjects
    TriggerLists <- MCTriggerLists
    Stoppers = {c1}
    Deployer = dep
    NoId = NoId
    NoReq = NoReq
    MaxNodeStops = 2
    ClosingWidth = 8

SPECIFICATION Spec

INVARIANT SubmitOnlyToHandshaken

CHECK_DEADLOCK FALSE
