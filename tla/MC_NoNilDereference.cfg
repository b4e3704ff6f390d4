\* A control-plane stop of a workload whose deploy still awaits the
\* agent's answer calls Undeploy on a nil agent client (expected:
\* NoNilDereference violated).
CONSTANTS
    Ids = {w1, w2}
    s1 = s1
    s2 = s2
    Subjects <- MCSubjects
    TriggerLists <- MCTriggerLists
    Stoppers = {c1}
    Deployer = dep
    NoId = NoId
    NoReq = NoReq
    MaxNodeStops = 2
    ClosingWidth = 8

SPECIFICATION Spec

INVARIANT NoNilDereference

CHECK_DEADLOCK FALSE
