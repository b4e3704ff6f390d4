\* Two agents handshake at once and both callbacks write the handshakes
\* map with no lock (expected: NoMapRace violated).
CONSTANTS
    Ids = {w1, w2}
    s1 = s1
    s2 = s2
    Subjects <- MCSubjects
    TriggerLists <- MCTriggerLists
    Stoppers = {c1}
    Deployer = dep
    NoId = NoId
    NoReq = NoReq
    MaxNodeStops = 2
    ClosingWidth = 8

SPECIFICATION Spec

INVARIANT NoMapRace

CHECK_DEADLOCK FALSE
