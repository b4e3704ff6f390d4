\* Spec 8.4: a trigger is forwarded only after the deploy that declared
\* it returned success.  TLC finds a message handled while DeployWorkload
\* is still subscribing the second trigger subject.
CONSTANTS
    Ids = {w1}
    s1 = s1
    s2 = s2
    Subjects <- MCSubjects
    TriggerLists <- MCTriggerLists
    Stoppers = {c1}
    Deployer = dep
    NoId = NoId
    NoReq = NoReq
    MaxNodeStops = 1
    ClosingWidth = 8
    Headers <- MCHeaders
    RuntimeBits = 8
    MaxPublishes = 2

SPECIFICATION TSpec

INVARIANT TriggerAfterDeploy

CHECK_DEADLOCK FALSE
