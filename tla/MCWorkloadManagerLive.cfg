\* Liveness: every deploy, rollback stop included, returns.  One agent is
\* enough: the only waits are on the stop mutex of the deployed workload,
\* here contended by the rollback and two control-plane stoppers.
CONSTANTS
    Ids = {w1}
    s1 = s1
    s2 = s2
    Subjects <- MCSubjects
    TriggerLists <- MCTriggerLists
    Stoppers = {c1, c2}
    Deployer = dep
    NoId = NoId
    NoReq = NoReq
    MaxNodeStops = 2
    ClosingWidth = 8

SPECIFICATION FairSpec


PROPERTY DeployCompletes

\* States after a panic have no successor (the node has crashed).
CHECK_DEADLOCK FALSE
