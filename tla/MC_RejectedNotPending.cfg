\* A rejected deploy's rollback stop succeeds and DeployWorkload returns,
\* yet the agent is still in pendingAgents (expected: RejectedNotPending
\* violated).
CONSTANTS
    Ids = {w1, w2}
    s1 = s1
    s2 = s2
    Subjects <- MCSubjects
    TriggerLists <- MCTriggerLists
    Stoppers = {c1}
    Deployer = dep
    NoId = NoId
    NoReq = NoReq
    MaxNodeStops = 2
    ClosingWidth = 8

SPECIFICATION Spec

PROPERTY RejectedNotPending

CHECK_DEADLOCK FALSE
