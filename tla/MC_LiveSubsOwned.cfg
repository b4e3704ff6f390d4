\* A control-plane stop drains subz while the deploy is still subscribing;
\* the later subscription is never drained and the workload leaves
\* activeAgents (expected: LiveSubsOwned violated).
CONSTANTS
    Ids = {w1, w2}
    s1 = s1
    s2 = s2
    Subjects <- MCSubjects
    TriggerLists <- MCTriggerLists
    Stoppers = {c1}
    Deployer = dep
    NoId = NoId
    NoReq = NoReq
    MaxNodeStops = 2
    ClosingWidth = 8

SPECIFICATION Spec

INVARIANT LiveSubsOwned

CHECK_DEADLOCK FALSE
