\* Safety of the pool core and its refinement of AgentPool: two agents,
\* one control-plane stopper.
CONSTANTS
    Ids = {w1, w2}
    s1 = s1
    s2 = s2
    Subjects <- MCSubjects
    TriggerLists <- MCTriggerLists
    Stoppers = {c1}
    Deployer = dep
    NoId = NoId
    NoReq = NoReq
    MaxNodeStops = 2
    ClosingWidth = 8

SPECIFICATION Spec

INVARIANT TypeOK
INVARIANT PoolDisjoint
INVARIANT ActiveOwned
INVARIANT ActiveListed
INVARIANT NoDeadlock
INVARIANT StopExclusive
INVARIANT StopHeldByStopper

\* The pool core implements the abstract lifecycle of AgentPool.
PROPERTY PoolRefinement
\* A workload leaves activeAgents only after its process has stopped.
PROPERTY ActiveLeavesStopped

\* The only states without a successor are those after a panic (the node
\* process has crashed); NoDeadlock checks that every other state has one.
CHECK_DEADLOCK FALSE
