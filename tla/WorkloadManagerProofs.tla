----------------------- MODULE WorkloadManagerProofs -----------------------
(***************************************************************************)
(* Proofs about the pool core of WorkloadManager, for every value of the   *)
(* constants that satisfies ConstantsAssumption.                           *)
(*                                                                         *)
(* TypeOK is not inductive on its own: DeploySubscribed appends            *)
(* dReq[dIdx] to subz and StopReturn adds sId[c] to clientDrained, which   *)
(* are well typed only because the goroutine's locals are set while it is *)
(* inside DeployWorkload or StopWorkload (LocalsOK).  PoolDisjoint needs   *)
(* that ids in the pool and the ids of running processes were handed out  *)
(* by the process manager (Admitted), since OnProcessStarted adds a fresh  *)
(* id to pendingAgents without looking at activeAgents.                    *)
(***************************************************************************)
EXTENDS WorkloadManager, TLAPS

\* The locals of DeployWorkload and StopWorkload are set while they run.
LocalsOK ==
    /\ dpc # "idle" => dId \in Ids /\ dReq \in TriggerLists
    /\ dpc = "subscribe" => dIdx \in 1..Len(dReq)
    /\ \A c \in Callers : spc[c] # "idle" => sId[c] \in Ids

\* Every id in the pool or with a running process was warmed by the
\* process manager.
Admitted == pending \cup active \cup pmProcs \subseteq started

IInv == TypeOK /\ LocalsOK /\ Admitted /\ PoolDisjoint

\* IInv holds in the initial state of NewWorkloadManager.
LEMMA InitIInv == Init => IInv
<1> SUFFICES ASSUME Init PROVE IInv
  OBVIOUS
<1> USE DEF Init
<1>1. EnvTypeOK
  BY ConstantsAssumption DEF EnvTypeOK, HsStates
<1>5. PoolTypeOK
  BY DEF PoolTypeOK
<1>2. DeployTypeOK /\ StopTypeOK
  BY ConstantsAssumption
     DEF DeployTypeOK, StopTypeOK, Callers, DeployPcs, StopPcs, Results
<1>3. LocalsOK /\ Admitted /\ PoolDisjoint
  BY DEF LocalsOK, Admitted, PoolDisjoint
<1>4. QED
  BY <1>1, <1>5, <1>2, <1>3 DEF IInv, TypeOK

\* Returning from StopWorkload leaves its locals well typed.
LEMMA StopReturnType ==
    ASSUME StopTypeOK, NEW c \in Callers, NEW locked \in BOOLEAN,
           StopReturn(c, locked)
    PROVE  StopTypeOK'
BY ConstantsAssumption DEF StopTypeOK, StopReturn, Callers, StopPcs

\* Every step of every goroutine, and every stutter, preserves IInv.  One
\* step per action, and under it one per part of IInv.
LEMMA StepIInv == IInv /\ [Next]_vars => IInv'
<1> SUFFICES ASSUME IInv, [Next]_vars PROVE IInv'
  OBVIOUS
<1> USE ConstantsAssumption
        DEF IInv, TypeOK, EnvTypeOK, PoolTypeOK, DeployTypeOK, StopTypeOK,
            LocalsOK, Admitted, PoolDisjoint, Callers, HsStates, DeployPcs,
            StopPcs, Results, PoolMutexFree, LookupWorkload,
            pmVars, agentVars, poolVars, nodeVars, deployVars, stopVars
<1>1. ASSUME NEW w \in Ids, OnProcessStarted(w)
      PROVE  IInv'
  <2>1. EnvTypeOK'
    BY <1>1 DEF OnProcessStarted
  <2>2. PoolTypeOK'
    BY <1>1 DEF OnProcessStarted
  <2>3. DeployTypeOK'
    BY <1>1 DEF OnProcessStarted
  <2>4. StopTypeOK'
    BY <1>1 DEF OnProcessStarted
  <2>5. LocalsOK'
    BY <1>1 DEF OnProcessStarted
  <2>6. Admitted'
    BY <1>1 DEF OnProcessStarted
  <2>7. PoolDisjoint'
    BY <1>1 DEF OnProcessStarted
  <2>8. QED
    BY <2>1, <2>2, <2>3, <2>4, <2>5, <2>6, <2>7
<1>2. ASSUME NEW w \in Ids, AgentHandshakeSucceeded(w)
      PROVE  IInv'
  <2>1. EnvTypeOK'
    BY <1>2 DEF AgentHandshakeSucceeded
  <2>2. PoolTypeOK'
    BY <1>2 DEF AgentHandshakeSucceeded
  <2>3. DeployTypeOK'
    BY <1>2 DEF AgentHandshakeSucceeded
  <2>4. StopTypeOK'
    BY <1>2 DEF AgentHandshakeSucceeded
  <2>5. LocalsOK'
    BY <1>2 DEF AgentHandshakeSucceeded
  <2>6. Admitted'
    BY <1>2 DEF AgentHandshakeSucceeded
  <2>7. PoolDisjoint'
    BY <1>2 DEF AgentHandshakeSucceeded
  <2>8. QED
    BY <2>1, <2>2, <2>3, <2>4, <2>5, <2>6, <2>7
<1>3. ASSUME NEW w \in Ids, AgentHandshakeTimedOut(w)
      PROVE  IInv'
  <2>1. EnvTypeOK'
    BY <1>3 DEF AgentHandshakeTimedOut
  <2>2. PoolTypeOK'
    BY <1>3 DEF AgentHandshakeTimedOut
  <2>3. DeployTypeOK'
    BY <1>3 DEF AgentHandshakeTimedOut
  <2>4. StopTypeOK'
    BY <1>3 DEF AgentHandshakeTimedOut
  <2>5. LocalsOK'
    BY <1>3 DEF AgentHandshakeTimedOut
  <2>6. Admitted'
    BY <1>3 DEF AgentHandshakeTimedOut
  <2>7. PoolDisjoint'
    BY <1>3 DEF AgentHandshakeTimedOut
  <2>8. QED
    BY <2>1, <2>2, <2>3, <2>4, <2>5, <2>6, <2>7
<1>4. ASSUME DeployNoAgent
      PROVE  IInv'
  <2>1. EnvTypeOK'
    BY <1>4 DEF DeployNoAgent
  <2>2. PoolTypeOK'
    BY <1>4 DEF DeployNoAgent
  <2>3. DeployTypeOK'
    BY <1>4 DEF DeployNoAgent
  <2>4. StopTypeOK'
    BY <1>4 DEF DeployNoAgent
  <2>5. LocalsOK'
    BY <1>4 DEF DeployNoAgent
  <2>6. Admitted'
    BY <1>4 DEF DeployNoAgent
  <2>7. PoolDisjoint'
    BY <1>4 DEF DeployNoAgent
  <2>8. QED
    BY <2>1, <2>2, <2>3, <2>4, <2>5, <2>6, <2>7
<1>5. ASSUME NEW w \in Ids, NEW r \in TriggerLists, DeployPrepare(w, r)
      PROVE  IInv'
  <2>1. EnvTypeOK'
    <3>1. CASE w \in pmProcs /\ pmReq' = [pmReq EXCEPT ![w] = r]
      BY <1>5, <3>1 DEF DeployPrepare
    <3>2. CASE UNCHANGED pmReq
      BY <1>5, <3>2 DEF DeployPrepare
    <3>3. QED
      BY <1>5, <3>1, <3>2 DEF DeployPrepare
  <2>2. PoolTypeOK'
    BY <1>5 DEF DeployPrepare
  <2>3. DeployTypeOK'
    BY <1>5 DEF DeployPrepare
  <2>4. StopTypeOK'
    BY <1>5 DEF DeployPrepare
  <2>5. LocalsOK'
    BY <1>5 DEF DeployPrepare
  <2>6. Admitted'
    BY <1>5 DEF DeployPrepare
  <2>7. PoolDisjoint'
    BY <1>5 DEF DeployPrepare
  <2>8. QED
    BY <2>1, <2>2, <2>3, <2>4, <2>5, <2>6, <2>7
<1>6. ASSUME DeploySubmitFails
      PROVE  IInv'
  <2>1. EnvTypeOK'
    BY <1>6 DEF DeploySubmitFails, DeployReturn
  <2>2. PoolTypeOK'
    BY <1>6 DEF DeploySubmitFails, DeployReturn
  <2>3. DeployTypeOK'
    BY <1>6 DEF DeploySubmitFails, DeployReturn
  <2>4. StopTypeOK'
    BY <1>6 DEF DeploySubmitFails, DeployReturn
  <2>5. LocalsOK'
    BY <1>6 DEF DeploySubmitFails, DeployReturn
  <2>6. Admitted'
    BY <1>6 DEF DeploySubmitFails, DeployReturn
  <2>7. PoolDisjoint'
    BY <1>6 DEF DeploySubmitFails, DeployReturn
  <2>8. QED
    BY <2>1, <2>2, <2>3, <2>4, <2>5, <2>6, <2>7
<1>7. ASSUME DeployAccepted
      PROVE  IInv'
  <2>1. EnvTypeOK'
    BY <1>7 DEF DeployAccepted, DeployReturn
  <2>2. PoolTypeOK'
    BY <1>7 DEF DeployAccepted, DeployReturn
  <2>3. DeployTypeOK'
    BY <1>7 DEF DeployAccepted, DeployReturn
  <2>4. StopTypeOK'
    BY <1>7 DEF DeployAccepted, DeployReturn
  <2>5. LocalsOK'
    BY <1>7 DEF DeployAccepted, DeployReturn
  <2>6. Admitted'
    BY <1>7 DEF DeployAccepted, DeployReturn
  <2>7. PoolDisjoint'
    BY <1>7 DEF DeployAccepted, DeployReturn
  <2>8. QED
    BY <2>1, <2>2, <2>3, <2>4, <2>5, <2>6, <2>7
<1>8. ASSUME DeployRejected
      PROVE  IInv'
  <2>1. EnvTypeOK'
    BY <1>8 DEF DeployRejected, CallStop
  <2>2. PoolTypeOK'
    BY <1>8 DEF DeployRejected, CallStop
  <2>3. DeployTypeOK'
    BY <1>8 DEF DeployRejected, CallStop
  <2>4. StopTypeOK'
    BY <1>8 DEF DeployRejected, CallStop
  <2>5. LocalsOK'
    BY <1>8 DEF DeployRejected, CallStop
  <2>6. Admitted'
    BY <1>8 DEF DeployRejected, CallStop
  <2>7. PoolDisjoint'
    BY <1>8 DEF DeployRejected, CallStop
  <2>8. QED
    BY <2>1, <2>2, <2>3, <2>4, <2>5, <2>6, <2>7
<1>9. ASSUME DeploySubscribed
      PROVE  IInv'
  <2>1. EnvTypeOK'
    BY <1>9 DEF DeploySubscribed, DeployReturn
  <2>2. PoolTypeOK'
    BY <1>9 DEF DeploySubscribed, DeployReturn
  <2>3. DeployTypeOK'
    BY <1>9 DEF DeploySubscribed, DeployReturn
  <2>4. StopTypeOK'
    BY <1>9 DEF DeploySubscribed, DeployReturn
  <2>5. LocalsOK'
    BY <1>9 DEF DeploySubscribed, DeployReturn
  <2>6. Admitted'
    BY <1>9 DEF DeploySubscribed, DeployReturn
  <2>7. PoolDisjoint'
    BY <1>9 DEF DeploySubscribed, DeployReturn
  <2>8. QED
    BY <2>1, <2>2, <2>3, <2>4, <2>5, <2>6, <2>7
<1>10. ASSUME DeploySubscribeFails
      PROVE  IInv'
  <2>1. EnvTypeOK'
    BY <1>10 DEF DeploySubscribeFails, CallStop
  <2>2. PoolTypeOK'
    BY <1>10 DEF DeploySubscribeFails, CallStop
  <2>3. DeployTypeOK'
    BY <1>10 DEF DeploySubscribeFails, CallStop
  <2>4. StopTypeOK'
    BY <1>10 DEF DeploySubscribeFails, CallStop
  <2>5. LocalsOK'
    BY <1>10 DEF DeploySubscribeFails, CallStop
  <2>6. Admitted'
    BY <1>10 DEF DeploySubscribeFails, CallStop
  <2>7. PoolDisjoint'
    BY <1>10 DEF DeploySubscribeFails, CallStop
  <2>8. QED
    BY <2>1, <2>2, <2>3, <2>4, <2>5, <2>6, <2>7
<1>11. ASSUME NEW c \in Callers, StopLookup(c)
      PROVE  IInv'
  <2>1. EnvTypeOK'
    BY <1>11 DEF StopLookup, StopReturn, DeployReturn
  <2>2. PoolTypeOK'
    BY <1>11 DEF StopLookup, StopReturn, DeployReturn
  <2>3. DeployTypeOK'
    BY <1>11 DEF StopLookup, StopReturn, DeployReturn
  <2>4. StopTypeOK'
    <3>1. CASE sId[c] \notin pmProcs
      <4>1. StopReturn(c, FALSE)
        BY <1>11, <3>1 DEF StopLookup
      <4>2. QED
        BY <4>1, StopReturnType
    <3>2. CASE sId[c] \in pmProcs
      <4>1. /\ sReq' = [sReq EXCEPT ![c] = (pmReq[sId[c]] # NoReq)]
            /\ spc' = [spc EXCEPT ![c] = "getmutex"]
            /\ UNCHANGED <<sId, sUndeploy, sDrainClient>>
        BY <1>11, <3>2 DEF StopLookup
      <4>2. QED
        BY <4>1 DEF StopTypeOK, StopPcs
    <3>3. QED
      BY <3>1, <3>2
  <2>5. LocalsOK'
    BY <1>11 DEF StopLookup, StopReturn, DeployReturn
  <2>6. Admitted'
    BY <1>11 DEF StopLookup, StopReturn, DeployReturn
  <2>7. PoolDisjoint'
    BY <1>11 DEF StopLookup, StopReturn, DeployReturn
  <2>8. QED
    BY <2>1, <2>2, <2>3, <2>4, <2>5, <2>6, <2>7
<1>12. ASSUME NEW c \in Callers, StopGetMutex(c)
      PROVE  IInv'
  <2>1. EnvTypeOK'
    BY <1>12 DEF StopGetMutex
  <2>2. PoolTypeOK'
    BY <1>12 DEF StopGetMutex
  <2>3. DeployTypeOK'
    BY <1>12 DEF StopGetMutex
  <2>4. StopTypeOK'
    BY <1>12 DEF StopGetMutex
  <2>5. LocalsOK'
    BY <1>12 DEF StopGetMutex
  <2>6. Admitted'
    BY <1>12 DEF StopGetMutex
  <2>7. PoolDisjoint'
    BY <1>12 DEF StopGetMutex
  <2>8. QED
    BY <2>1, <2>2, <2>3, <2>4, <2>5, <2>6, <2>7
<1>13. ASSUME NEW c \in Callers, StopLock(c)
      PROVE  IInv'
  <2>1. EnvTypeOK'
    BY <1>13 DEF StopLock
  <2>2. PoolTypeOK'
    BY <1>13 DEF StopLock
  <2>3. DeployTypeOK'
    BY <1>13 DEF StopLock
  <2>4. StopTypeOK'
    BY <1>13 DEF StopLock
  <2>5. LocalsOK'
    BY <1>13 DEF StopLock
  <2>6. Admitted'
    BY <1>13 DEF StopLock
  <2>7. PoolDisjoint'
    BY <1>13 DEF StopLock
  <2>8. QED
    BY <2>1, <2>2, <2>3, <2>4, <2>5, <2>6, <2>7
<1>14. ASSUME NEW c \in Callers, StopDrain(c)
      PROVE  IInv'
  <2>1. EnvTypeOK'
    BY <1>14 DEF StopDrain, Range
  <2>2. PoolTypeOK'
    BY <1>14 DEF StopDrain, Range
  <2>3. DeployTypeOK'
    BY <1>14 DEF StopDrain, Range
  <2>4. StopTypeOK'
    BY <1>14 DEF StopDrain, Range
  <2>5. LocalsOK'
    BY <1>14 DEF StopDrain, Range
  <2>6. Admitted'
    BY <1>14 DEF StopDrain, Range
  <2>7. PoolDisjoint'
    BY <1>14 DEF StopDrain, Range
  <2>8. QED
    BY <2>1, <2>2, <2>3, <2>4, <2>5, <2>6, <2>7
<1>15. ASSUME NEW c \in Callers, StopUndeploy(c)
      PROVE  IInv'
  <2>1. EnvTypeOK'
    BY <1>15 DEF StopUndeploy
  <2>2. PoolTypeOK'
    BY <1>15 DEF StopUndeploy
  <2>3. DeployTypeOK'
    BY <1>15 DEF StopUndeploy
  <2>4. StopTypeOK'
    BY <1>15 DEF StopUndeploy
  <2>5. LocalsOK'
    BY <1>15 DEF StopUndeploy
  <2>6. Admitted'
    BY <1>15 DEF StopUndeploy
  <2>7. PoolDisjoint'
    BY <1>15 DEF StopUndeploy
  <2>8. QED
    BY <2>1, <2>2, <2>3, <2>4, <2>5, <2>6, <2>7
<1>16. ASSUME NEW c \in Callers, StopProcess(c)
      PROVE  IInv'
  <2>1. EnvTypeOK'
    <3>1. CASE pmReq' = [pmReq EXCEPT ![sId[c]] = NoReq] /\ pmProcs' = pmProcs \ {sId[c]}
      BY <1>16, <3>1 DEF StopProcess, StopReturn, DeployReturn
    <3>2. CASE UNCHANGED pmVars
      BY <1>16, <3>2 DEF StopProcess, StopReturn, DeployReturn
    <3>3. QED
      BY <1>16, <3>1, <3>2 DEF StopProcess, StopReturn, DeployReturn
  <2>2. PoolTypeOK'
    BY <1>16 DEF StopProcess, StopReturn, DeployReturn
  <2>3. DeployTypeOK'
    BY <1>16 DEF StopProcess, StopReturn, DeployReturn
  <2>4. StopTypeOK'
    <3>1. StopTypeOK
      BY DEF IInv, TypeOK
    <3>2. CASE StopReturn(c, TRUE)
      BY <3>1, <3>2, StopReturnType
    <3>3. CASE spc' = [spc EXCEPT ![c] = "delete"]
               /\ UNCHANGED <<sId, sUndeploy, sReq, sDrainClient>>
      BY <3>1, <3>3 DEF StopTypeOK, StopPcs
    <3>4. QED
      BY <1>16, <3>2, <3>3 DEF StopProcess
  <2>5. LocalsOK'
    BY <1>16 DEF StopProcess, StopReturn, DeployReturn
  <2>6. Admitted'
    BY <1>16 DEF StopProcess, StopReturn, DeployReturn
  <2>7. PoolDisjoint'
    BY <1>16 DEF StopProcess, StopReturn, DeployReturn
  <2>8. QED
    BY <2>1, <2>2, <2>3, <2>4, <2>5, <2>6, <2>7
<1>17. ASSUME NEW c \in Callers, StopDelete(c)
      PROVE  IInv'
  <2>1. EnvTypeOK'
    BY <1>17 DEF StopDelete, StopReturn, DeployReturn
  <2>2. PoolTypeOK'
    BY <1>17 DEF StopDelete, StopReturn, DeployReturn
  <2>3. DeployTypeOK'
    BY <1>17 DEF StopDelete, StopReturn, DeployReturn
  <2>4. StopTypeOK'
    BY <1>17 DEF StopDelete, StopReturn, DeployReturn
  <2>5. LocalsOK'
    BY <1>17 DEF StopDelete, StopReturn, DeployReturn
  <2>6. Admitted'
    BY <1>17 DEF StopDelete, StopReturn, DeployReturn
  <2>7. PoolDisjoint'
    BY <1>17 DEF StopDelete, StopReturn, DeployReturn
  <2>8. QED
    BY <2>1, <2>2, <2>3, <2>4, <2>5, <2>6, <2>7
<1>18. ASSUME NEW c \in Stoppers, NEW w \in Ids, StopRequest(c, w)
      PROVE  IInv'
  <2>1. EnvTypeOK'
    BY <1>18 DEF StopRequest, CallStop
  <2>2. PoolTypeOK'
    BY <1>18 DEF StopRequest, CallStop
  <2>3. DeployTypeOK'
    BY <1>18 DEF StopRequest, CallStop
  <2>4. StopTypeOK'
    BY <1>18 DEF StopRequest, CallStop
  <2>5. LocalsOK'
    BY <1>18 DEF StopRequest, CallStop
  <2>6. Admitted'
    BY <1>18 DEF StopRequest, CallStop
  <2>7. PoolDisjoint'
    BY <1>18 DEF StopRequest, CallStop
  <2>8. QED
    BY <2>1, <2>2, <2>3, <2>4, <2>5, <2>6, <2>7
<1>19. ASSUME NodeStop
      PROVE  IInv'
  <2>1. EnvTypeOK'
    BY <1>19 DEF NodeStop
  <2>2. PoolTypeOK'
    BY <1>19 DEF NodeStop
  <2>3. DeployTypeOK'
    <3>1. 2^ClosingWidth \in Nat \ {0}
      BY ConstantsAssumption
    <3>2. closing' \in Nat
      BY <1>19, <3>1 DEF NodeStop
    <3>3. nodeStops' \in Nat /\ pmStops' \in Nat
      <4>1. nodeStops' = nodeStops + 1
        BY <1>19 DEF NodeStop
      <4>2. pmStops' \in {pmStops, pmStops + 1}
        BY <1>19 DEF NodeStop
      <4>3. QED
        BY <4>1, <4>2
    <3>4. UNCHANGED <<cancelled, panicked, deployVars>>
      BY <1>19 DEF NodeStop
    <3>5. QED
      BY <3>2, <3>3, <3>4
  <2>4. StopTypeOK'
    BY <1>19 DEF NodeStop
  <2>5. LocalsOK'
    BY <1>19 DEF NodeStop
  <2>6. Admitted'
    BY <1>19 DEF NodeStop
  <2>7. PoolDisjoint'
    BY <1>19 DEF NodeStop
  <2>8. QED
    BY <2>1, <2>2, <2>3, <2>4, <2>5, <2>6, <2>7
<1>22. ASSUME Start
      PROVE  IInv'
  <2>1. EnvTypeOK'
    BY <1>22 DEF Start
  <2>2. PoolTypeOK'
    BY <1>22 DEF Start
  <2>3. DeployTypeOK'
    BY <1>22 DEF Start
  <2>4. StopTypeOK'
    BY <1>22 DEF Start
  <2>5. LocalsOK'
    BY <1>22 DEF Start
  <2>6. Admitted'
    BY <1>22 DEF Start
  <2>7. PoolDisjoint'
    BY <1>22 DEF Start
  <2>8. QED
    BY <2>1, <2>2, <2>3, <2>4, <2>5, <2>6, <2>7
<1>20. CASE UNCHANGED vars
  BY <1>20 DEF vars
<1>21. QED
  BY <1>22, <1>1, <1>2, <1>3, <1>4, <1>5, <1>6, <1>7, <1>8, <1>9, <1>10, <1>11, <1>12, <1>13, <1>14, <1>15, <1>16, <1>17, <1>18, <1>19, <1>20 DEF Next, StopStep, DeployStep

-----------------------------------------------------------------------------
(***************************************************************************)
(* Ownership of the stop mutex.  ActiveOwned is not inductive: the accept  *)
(* path adds dId to activeAgents, so the deployed id must already own a    *)
(* stop mutex (SubmitPending, PendingOwned); StopDelete removes the mutex, *)
(* so the id it deletes must have no running process left that a deploy   *)
(* could still accept on (DeleteStopped); and OnProcessStarted adds a      *)
(* fresh id, which is none of the ids a goroutine is working on            *)
(* (LocalsStarted).  BoundRunning ties a bound request to a running        *)
(* process, so that a control-plane stop only names warmed ids.           *)
(***************************************************************************)

\* Pending agents with a running process own a stop mutex.
PendingOwned == pending \cap pmProcs \subseteq stopMutex

\* While the deploy waits for the agent's answer its agent is still pending
\* (the timeout callback needs the pool mutex the deploy holds).
SubmitPending == dpc = "submit" => dId \in pending

\* procMan.Lookup finds a request only for a running process.
BoundRunning == \A w \in Ids : pmReq[w] # NoReq => w \in pmProcs

\* The ids DeployWorkload and StopWorkload work on were warmed.
LocalsStarted ==
    /\ dpc # "idle" => dId \in started
    /\ \A c \in Callers : spc[c] # "idle" => sId[c] \in started

\* A StopWorkload about to delete the maps' entries has stopped the process.
DeleteStopped == \A c \in Callers : spc[c] = "delete" => sId[c] \notin pmProcs

OInv ==
    /\ ActiveOwned /\ PendingOwned /\ SubmitPending /\ BoundRunning
    /\ LocalsStarted /\ DeleteStopped

\* OInv holds initially.
LEMMA InitOInv == Init => OInv
BY DEF Init, OInv, ActiveOwned, PendingOwned, SubmitPending, BoundRunning,
       LocalsStarted, DeleteStopped

\* Every step preserves OInv, given IInv in the state it starts from.
LEMMA StepOInv == IInv /\ OInv /\ [Next]_vars => OInv'
<1> SUFFICES ASSUME IInv, OInv, [Next]_vars PROVE OInv'
  OBVIOUS
<1> USE ConstantsAssumption
        DEF IInv, TypeOK, EnvTypeOK, PoolTypeOK, DeployTypeOK, StopTypeOK,
            LocalsOK, Admitted, OInv, ActiveOwned, PendingOwned,
            SubmitPending, BoundRunning, LocalsStarted, DeleteStopped,
            Callers, PoolMutexFree, LookupWorkload,
            pmVars, agentVars, poolVars, nodeVars, deployVars, stopVars
<1>1. ASSUME NEW w \in Ids, OnProcessStarted(w)
      PROVE  OInv'
  <2>1. ActiveOwned'
    BY <1>1 DEF OnProcessStarted
  <2>2. PendingOwned'
    BY <1>1 DEF OnProcessStarted
  <2>3. SubmitPending'
    BY <1>1 DEF OnProcessStarted
  <2>4. BoundRunning'
    BY <1>1 DEF OnProcessStarted
  <2>5. LocalsStarted'
    BY <1>1 DEF OnProcessStarted
  <2>6. DeleteStopped'
    BY <1>1 DEF OnProcessStarted
  <2>7. QED
    BY <2>1, <2>2, <2>3, <2>4, <2>5, <2>6
<1>2. ASSUME NEW w \in Ids, AgentHandshakeSucceeded(w)
      PROVE  OInv'
  <2>1. ActiveOwned'
    BY <1>2 DEF AgentHandshakeSucceeded
  <2>2. PendingOwned'
    BY <1>2 DEF AgentHandshakeSucceeded
  <2>3. SubmitPending'
    BY <1>2 DEF AgentHandshakeSucceeded
  <2>4. BoundRunning'
    BY <1>2 DEF AgentHandshakeSucceeded
  <2>5. LocalsStarted'
    BY <1>2 DEF AgentHandshakeSucceeded
  <2>6. DeleteStopped'
    BY <1>2 DEF AgentHandshakeSucceeded
  <2>7. QED
    BY <2>1, <2>2, <2>3, <2>4, <2>5, <2>6
<1>3. ASSUME NEW w \in Ids, AgentHandshakeTimedOut(w)
      PROVE  OInv'
  <2>1. ActiveOwned'
    BY <1>3 DEF AgentHandshakeTimedOut
  <2>2. PendingOwned'
    BY <1>3 DEF AgentHandshakeTimedOut
  <2>3. SubmitPending'
    BY <1>3 DEF AgentHandshakeTimedOut
  <2>4. BoundRunning'
    BY <1>3 DEF AgentHandshakeTimedOut
  <2>5. LocalsStarted'
    BY <1>3 DEF AgentHandshakeTimedOut
  <2>6. DeleteStopped'
    BY <1>3 DEF AgentHandshakeTimedOut
  <2>7. QED
    BY <2>1, <2>2, <2>3, <2>4, <2>5, <2>6
<1>4. ASSUME DeployNoAgent
      PROVE  OInv'
  <2>1. ActiveOwned'
    BY <1>4 DEF DeployNoAgent
  <2>2. PendingOwned'
    BY <1>4 DEF DeployNoAgent
  <2>3. SubmitPending'
    BY <1>4 DEF DeployNoAgent
  <2>4. BoundRunning'
    BY <1>4 DEF DeployNoAgent
  <2>5. LocalsStarted'
    BY <1>4 DEF DeployNoAgent
  <2>6. DeleteStopped'
    BY <1>4 DEF DeployNoAgent
  <2>7. QED
    BY <2>1, <2>2, <2>3, <2>4, <2>5, <2>6
<1>5. ASSUME NEW w \in Ids, NEW r \in TriggerLists, DeployPrepare(w, r)
      PROVE  OInv'
  <2>1. ActiveOwned'
    BY <1>5 DEF DeployPrepare
  <2>2. PendingOwned'
    BY <1>5 DEF DeployPrepare
  <2>3. SubmitPending'
    BY <1>5 DEF DeployPrepare
  <2>4. BoundRunning'
    BY <1>5 DEF DeployPrepare
  <2>5. LocalsStarted'
    BY <1>5 DEF DeployPrepare
  <2>6. DeleteStopped'
    BY <1>5 DEF DeployPrepare
  <2>7. QED
    BY <2>1, <2>2, <2>3, <2>4, <2>5, <2>6
<1>6. ASSUME DeploySubmitFails
      PROVE  OInv'
  <2>1. ActiveOwned'
    BY <1>6 DEF DeploySubmitFails, DeployReturn
  <2>2. PendingOwned'
    BY <1>6 DEF DeploySubmitFails, DeployReturn
  <2>3. SubmitPending'
    BY <1>6 DEF DeploySubmitFails, DeployReturn
  <2>4. BoundRunning'
    BY <1>6 DEF DeploySubmitFails, DeployReturn
  <2>5. LocalsStarted'
    BY <1>6 DEF DeploySubmitFails, DeployReturn
  <2>6. DeleteStopped'
    BY <1>6 DEF DeploySubmitFails, DeployReturn
  <2>7. QED
    BY <2>1, <2>2, <2>3, <2>4, <2>5, <2>6
<1>7. ASSUME DeployAccepted
      PROVE  OInv'
  <2>1. ActiveOwned'
    BY <1>7 DEF DeployAccepted, DeployReturn
  <2>2. PendingOwned'
    BY <1>7 DEF DeployAccepted, DeployReturn
  <2>3. SubmitPending'
    BY <1>7 DEF DeployAccepted, DeployReturn
  <2>4. BoundRunning'
    BY <1>7 DEF DeployAccepted, DeployReturn
  <2>5. LocalsStarted'
    BY <1>7 DEF DeployAccepted, DeployReturn
  <2>6. DeleteStopped'
    BY <1>7 DEF DeployAccepted, DeployReturn
  <2>7. QED
    BY <2>1, <2>2, <2>3, <2>4, <2>5, <2>6
<1>8. ASSUME DeployRejected
      PROVE  OInv'
  <2>1. ActiveOwned'
    BY <1>8 DEF DeployRejected, CallStop
  <2>2. PendingOwned'
    BY <1>8 DEF DeployRejected, CallStop
  <2>3. SubmitPending'
    BY <1>8 DEF DeployRejected, CallStop
  <2>4. BoundRunning'
    BY <1>8 DEF DeployRejected, CallStop
  <2>5. LocalsStarted'
    BY <1>8 DEF DeployRejected, CallStop
  <2>6. DeleteStopped'
    BY <1>8 DEF DeployRejected, CallStop
  <2>7. QED
    BY <2>1, <2>2, <2>3, <2>4, <2>5, <2>6
<1>9. ASSUME DeploySubscribed
      PROVE  OInv'
  <2>1. ActiveOwned'
    BY <1>9 DEF DeploySubscribed, DeployReturn
  <2>2. PendingOwned'
    BY <1>9 DEF DeploySubscribed, DeployReturn
  <2>3. SubmitPending'
    BY <1>9 DEF DeploySubscribed, DeployReturn
  <2>4. BoundRunning'
    BY <1>9 DEF DeploySubscribed, DeployReturn
  <2>5. LocalsStarted'
    BY <1>9 DEF DeploySubscribed, DeployReturn
  <2>6. DeleteStopped'
    BY <1>9 DEF DeploySubscribed, DeployReturn
  <2>7. QED
    BY <2>1, <2>2, <2>3, <2>4, <2>5, <2>6
<1>10. ASSUME DeploySubscribeFails
      PROVE  OInv'
  <2>1. ActiveOwned'
    BY <1>10 DEF DeploySubscribeFails, CallStop
  <2>2. PendingOwned'
    BY <1>10 DEF DeploySubscribeFails, CallStop
  <2>3. SubmitPending'
    BY <1>10 DEF DeploySubscribeFails, CallStop
  <2>4. BoundRunning'
    BY <1>10 DEF DeploySubscribeFails, CallStop
  <2>5. LocalsStarted'
    BY <1>10 DEF DeploySubscribeFails, CallStop
  <2>6. DeleteStopped'
    BY <1>10 DEF DeploySubscribeFails, CallStop
  <2>7. QED
    BY <2>1, <2>2, <2>3, <2>4, <2>5, <2>6
<1>11. ASSUME NEW c \in Callers, StopLookup(c)
      PROVE  OInv'
  <2>1. ActiveOwned'
    BY <1>11 DEF StopLookup, StopReturn, DeployReturn
  <2>2. PendingOwned'
    BY <1>11 DEF StopLookup, StopReturn, DeployReturn
  <2>3. SubmitPending'
    BY <1>11 DEF StopLookup, StopReturn, DeployReturn
  <2>4. BoundRunning'
    BY <1>11 DEF StopLookup, StopReturn, DeployReturn
  <2>5. LocalsStarted'
    <3>1. CASE sId[c] \notin pmProcs
      <4>1. StopReturn(c, FALSE) /\ UNCHANGED pmVars
        BY <1>11, <3>1 DEF StopLookup
      <4>2. QED
        BY <4>1 DEF StopReturn, DeployReturn
    <3>2. CASE sId[c] \in pmProcs
      <4>1. /\ spc[c] = "lookup"
            /\ spc' = [spc EXCEPT ![c] = "getmutex"]
            /\ UNCHANGED <<pmVars, deployVars, sId>>
        BY <1>11, <3>2 DEF StopLookup
      <4>2. QED
        BY <4>1
    <3>3. QED
      BY <3>1, <3>2
  <2>6. DeleteStopped'
    BY <1>11 DEF StopLookup, StopReturn, DeployReturn
  <2>7. QED
    BY <2>1, <2>2, <2>3, <2>4, <2>5, <2>6
<1>12. ASSUME NEW c \in Callers, StopGetMutex(c)
      PROVE  OInv'
  <2>1. ActiveOwned'
    BY <1>12 DEF StopGetMutex
  <2>2. PendingOwned'
    BY <1>12 DEF StopGetMutex
  <2>3. SubmitPending'
    BY <1>12 DEF StopGetMutex
  <2>4. BoundRunning'
    BY <1>12 DEF StopGetMutex
  <2>5. LocalsStarted'
    BY <1>12 DEF StopGetMutex
  <2>6. DeleteStopped'
    BY <1>12 DEF StopGetMutex
  <2>7. QED
    BY <2>1, <2>2, <2>3, <2>4, <2>5, <2>6
<1>13. ASSUME NEW c \in Callers, StopLock(c)
      PROVE  OInv'
  <2>1. ActiveOwned'
    BY <1>13 DEF StopLock
  <2>2. PendingOwned'
    BY <1>13 DEF StopLock
  <2>3. SubmitPending'
    BY <1>13 DEF StopLock
  <2>4. BoundRunning'
    BY <1>13 DEF StopLock
  <2>5. LocalsStarted'
    BY <1>13 DEF StopLock
  <2>6. DeleteStopped'
    BY <1>13 DEF StopLock
  <2>7. QED
    BY <2>1, <2>2, <2>3, <2>4, <2>5, <2>6
<1>14. ASSUME NEW c \in Callers, StopDrain(c)
      PROVE  OInv'
  <2>1. ActiveOwned'
    BY <1>14 DEF StopDrain
  <2>2. PendingOwned'
    BY <1>14 DEF StopDrain
  <2>3. SubmitPending'
    BY <1>14 DEF StopDrain
  <2>4. BoundRunning'
    BY <1>14 DEF StopDrain
  <2>5. LocalsStarted'
    BY <1>14 DEF StopDrain
  <2>6. DeleteStopped'
    BY <1>14 DEF StopDrain
  <2>7. QED
    BY <2>1, <2>2, <2>3, <2>4, <2>5, <2>6
<1>15. ASSUME NEW c \in Callers, StopUndeploy(c)
      PROVE  OInv'
  <2>1. ActiveOwned'
    BY <1>15 DEF StopUndeploy
  <2>2. PendingOwned'
    BY <1>15 DEF StopUndeploy
  <2>3. SubmitPending'
    BY <1>15 DEF StopUndeploy
  <2>4. BoundRunning'
    BY <1>15 DEF StopUndeploy
  <2>5. LocalsStarted'
    BY <1>15 DEF StopUndeploy
  <2>6. DeleteStopped'
    BY <1>15 DEF StopUndeploy
  <2>7. QED
    BY <2>1, <2>2, <2>3, <2>4, <2>5, <2>6
<1>16. ASSUME NEW c \in Callers, StopProcess(c)
      PROVE  OInv'
  <2>1. ActiveOwned'
    BY <1>16 DEF StopProcess, StopReturn, DeployReturn
  <2>2. PendingOwned'
    BY <1>16 DEF StopProcess, StopReturn, DeployReturn
  <2>3. SubmitPending'
    BY <1>16 DEF StopProcess, StopReturn, DeployReturn
  <2>4. BoundRunning'
    <3>1. CASE UNCHANGED pmVars
      BY <3>1
    <3>2. CASE /\ pmProcs' = pmProcs \ {sId[c]}
               /\ pmReq' = [pmReq EXCEPT ![sId[c]] = NoReq]
      BY <3>2
    <3>3. QED
      BY <1>16, <3>1, <3>2 DEF StopProcess, StopReturn
  <2>5. LocalsStarted'
    BY <1>16 DEF StopProcess, StopReturn, DeployReturn
  <2>6. DeleteStopped'
    <3>1. CASE StopReturn(c, TRUE) /\ UNCHANGED pmVars
      BY <3>1 DEF StopReturn
    <3>2. CASE /\ pmProcs' = pmProcs \ {sId[c]}
               /\ spc' = [spc EXCEPT ![c] = "delete"]
               /\ UNCHANGED sId
      BY <3>2
    <3>3. QED
      BY <1>16, <3>1, <3>2 DEF StopProcess
  <2>7. QED
    BY <2>1, <2>2, <2>3, <2>4, <2>5, <2>6
<1>17. ASSUME NEW c \in Callers, StopDelete(c)
      PROVE  OInv'
  <2>1. ActiveOwned'
    BY <1>17 DEF StopDelete, StopReturn, DeployReturn
  <2>2. PendingOwned'
    BY <1>17 DEF StopDelete, StopReturn, DeployReturn
  <2>3. SubmitPending'
    BY <1>17 DEF StopDelete, StopReturn, DeployReturn
  <2>4. BoundRunning'
    BY <1>17 DEF StopDelete, StopReturn, DeployReturn
  <2>5. LocalsStarted'
    BY <1>17 DEF StopDelete, StopReturn, DeployReturn
  <2>6. DeleteStopped'
    BY <1>17 DEF StopDelete, StopReturn, DeployReturn
  <2>7. QED
    BY <2>1, <2>2, <2>3, <2>4, <2>5, <2>6
<1>18. ASSUME NEW c \in Stoppers, NEW w \in Ids, StopRequest(c, w)
      PROVE  OInv'
  <2>1. ActiveOwned'
    BY <1>18 DEF StopRequest, CallStop
  <2>2. PendingOwned'
    BY <1>18 DEF StopRequest, CallStop
  <2>3. SubmitPending'
    BY <1>18 DEF StopRequest, CallStop
  <2>4. BoundRunning'
    BY <1>18 DEF StopRequest, CallStop
  <2>5. LocalsStarted'
    BY <1>18 DEF StopRequest, CallStop
  <2>6. DeleteStopped'
    BY <1>18 DEF StopRequest, CallStop
  <2>7. QED
    BY <2>1, <2>2, <2>3, <2>4, <2>5, <2>6
<1>19. ASSUME NodeStop
      PROVE  OInv'
  <2>1. ActiveOwned'
    BY <1>19 DEF NodeStop
  <2>2. PendingOwned'
    BY <1>19 DEF NodeStop
  <2>3. SubmitPending'
    BY <1>19 DEF NodeStop
  <2>4. BoundRunning'
    BY <1>19 DEF NodeStop
  <2>5. LocalsStarted'
    BY <1>19 DEF NodeStop
  <2>6. DeleteStopped'
    BY <1>19 DEF NodeStop
  <2>7. QED
    BY <2>1, <2>2, <2>3, <2>4, <2>5, <2>6
<1>22. ASSUME Start
      PROVE  OInv'
  <2>1. ActiveOwned'
    BY <1>22 DEF Start
  <2>2. PendingOwned'
    BY <1>22 DEF Start
  <2>3. SubmitPending'
    BY <1>22 DEF Start
  <2>4. BoundRunning'
    BY <1>22 DEF Start
  <2>5. LocalsStarted'
    BY <1>22 DEF Start
  <2>6. DeleteStopped'
    BY <1>22 DEF Start
  <2>7. QED
    BY <2>1, <2>2, <2>3, <2>4, <2>5, <2>6
<1>20. CASE UNCHANGED vars
  BY <1>20 DEF vars
<1>21. QED
  BY <1>22, <1>1, <1>2, <1>3, <1>4, <1>5, <1>6, <1>7, <1>8, <1>9, <1>10, <1>11, <1>12, <1>13, <1>14, <1>15, <1>16, <1>17, <1>18, <1>19, <1>20
     DEF Next, StopStep, DeployStep

\* The agent-client maps stay well typed in every reachable state.
THEOREM TypeCorrect == Spec => []TypeOK
<1>1. Spec => []IInv
  BY InitIInv, StepIInv, PTL DEF Spec
<1>2. QED
  BY <1>1, PTL DEF IInv

\* (I1) No workload id is ever both in pendingAgents and in activeAgents,
\* whatever the interleaving of deploys, handshakes and stops.
THEOREM PoolDisjointness == Spec => []PoolDisjoint
<1>1. Spec => []IInv
  BY InitIInv, StepIInv, PTL DEF Spec
<1>2. QED
  BY <1>1, PTL DEF IInv
\* (I2) Every workload in activeAgents owns its stop mutex, so a
\* StopWorkload of an active workload finds a non-nil mutex to lock,
\* whatever the interleaving of deploys, rollbacks and control-plane stops.
THEOREM ActiveOwnership == Spec => []ActiveOwned
<1>1. Init => IInv /\ OInv
  BY InitIInv, InitOInv
<1>2. IInv /\ OInv /\ [Next]_vars => IInv' /\ OInv'
  BY StepIInv, StepOInv
<1>3. Spec => [](IInv /\ OInv)
  BY <1>1, <1>2, PTL DEF Spec
<1>4. QED
  BY <1>3, PTL DEF OInv

-----------------------------------------------------------------------------
(***************************************************************************)
(* Refinement of AgentPool.  Only four actions touch pendingAgents,        *)
(* activeAgents or the warmed ids: OnProcessStarted, the handshake timeout *)
(* DeployAccepted and StopWorkload's delete; every other step leaves each *)
(* slot as it is.  Each of the four moves one slot one step forward:      *)
(* OnProcessStarted needs a fresh id outside the pool (Admitted),          *)
(* DeployAccepted needs its agent still pending (SubmitPending), and the   *)
(* timeout and the delete need the pool sets disjoint (PoolDisjoint) and  *)
(* inside the warmed ids (Admitted).                                       *)
(***************************************************************************)

\* A step that leaves the pool sets and the warmed ids alone leaves every
\* slot alone.
LEMMA SlotUnchanged ==
    ASSUME UNCHANGED <<pending, active, started>>
    PROVE  PoolSlot' = PoolSlot
BY DEF PoolSlot

\* Every step other than the four that move a slot leaves the pool sets
\* and the warmed ids alone.
OtherStep ==
    \/ \E w \in Ids : AgentHandshakeSucceeded(w)
    \/ DeployNoAgent
    \/ \E w \in Ids, r \in TriggerLists : DeployPrepare(w, r)
    \/ DeploySubmitFails \/ DeployRejected
    \/ DeploySubscribed \/ DeploySubscribeFails
    \/ \E c \in Callers : \/ StopLookup(c) \/ StopGetMutex(c) \/ StopLock(c)
                         \/ StopDrain(c) \/ StopUndeploy(c) \/ StopProcess(c)
    \/ \E c \in Stoppers, w \in Ids : StopRequest(c, w)
    \/ Start \/ NodeStop

LEMMA OtherStepKeepsPool ==
    ASSUME OtherStep
    PROVE  UNCHANGED <<pending, active, started>>
<1> USE DEF pmVars, agentVars, poolVars, nodeVars, deployVars, stopVars
<1>1. CASE \E w \in Ids : AgentHandshakeSucceeded(w)
  BY <1>1 DEF AgentHandshakeSucceeded
<1>2. CASE DeployNoAgent \/ DeploySubmitFails \/ DeployRejected
  BY <1>2 DEF DeployNoAgent, DeploySubmitFails, DeployRejected, DeployReturn
<1>3. CASE \E w \in Ids, r \in TriggerLists : DeployPrepare(w, r)
  BY <1>3 DEF DeployPrepare
<1>4. CASE DeploySubscribed \/ DeploySubscribeFails
  BY <1>4 DEF DeploySubscribed, DeploySubscribeFails, DeployReturn
<1>5. CASE \E c \in Callers : StopLookup(c) \/ StopGetMutex(c) \/ StopLock(c)
  BY <1>5 DEF StopLookup, StopGetMutex, StopLock, StopReturn, DeployReturn
<1>6. CASE \E c \in Callers : StopDrain(c) \/ StopUndeploy(c) \/ StopProcess(c)
  BY <1>6 DEF StopDrain, StopUndeploy, StopProcess, StopReturn, DeployReturn
<1>7. CASE \E c \in Stoppers, w \in Ids : StopRequest(c, w)
  BY <1>7 DEF StopRequest, CallStop
<1>8. CASE Start
  BY <1>8 DEF Start
<1>9. CASE NodeStop
  BY <1>9 DEF NodeStop
<1>10. QED
  BY <1>1, <1>2, <1>3, <1>4, <1>5, <1>6, <1>7, <1>8, <1>9 DEF OtherStep


\* A slot that moves: if the pool sets and the warmed ids change only at w
\* and w's slot becomes b, PoolSlot changes only at w.
LEMMA SlotMoves ==
    ASSUME NEW w \in Ids, NEW b,
           \A v \in Ids \ {w} : /\ (v \in active') = (v \in active)
                                /\ (v \in pending') = (v \in pending)
                                /\ (v \in started') = (v \in started),
           PoolSlot'[w] = b
    PROVE  PoolSlot' = [PoolSlot EXCEPT ![w] = b]
BY DEF PoolSlot

\* Every step of the pool core is a step of AgentPool or leaves every slot
\* as it is.
LEMMA StepRefines == IInv /\ OInv /\ [Next]_vars => [AP!Next]_PoolSlot
<1> SUFFICES ASSUME IInv, OInv, [Next]_vars PROVE [AP!Next]_PoolSlot
  OBVIOUS
<1>0. /\ Admitted /\ PoolDisjoint /\ LocalsOK /\ SubmitPending
      /\ sId \in [Callers -> Ids \cup {NoId}]
  BY DEF IInv, OInv, TypeOK, StopTypeOK
<1>1. ASSUME NEW w \in Ids, OnProcessStarted(w)
      PROVE  [AP!Next]_PoolSlot
  <2>1. /\ w \notin active /\ w \notin pending /\ w \notin started
        /\ active' = active /\ started' = started \cup {w}
    BY <1>0, <1>1 DEF OnProcessStarted, Admitted
  <2>2. PoolSlot[w] = "free"
    BY <2>1 DEF PoolSlot
  <2>3. CASE pending' = pending \cup {w}
    <3>1. PoolSlot'[w] = "pending"
      BY <2>1, <2>3 DEF PoolSlot
    <3>2. PoolSlot' = [PoolSlot EXCEPT ![w] = "pending"]
      BY <2>1, <2>3, <3>1, SlotMoves
    <3>3. QED
      BY <2>2, <3>2 DEF AP!Next, AP!Warm, AP!Move
  <2>4. CASE pending' = pending
    <3>1. PoolSlot'[w] = "gone"
      BY <2>1, <2>4 DEF PoolSlot
    <3>2. PoolSlot' = [PoolSlot EXCEPT ![w] = "gone"]
      BY <2>1, <2>4, <3>1, SlotMoves
    <3>3. QED
      BY <2>2, <3>2 DEF AP!Next, AP!Discard, AP!Move
  <2>5. QED
    BY <1>1, <2>3, <2>4 DEF OnProcessStarted
<1>2. ASSUME NEW w \in Ids, AgentHandshakeTimedOut(w)
      PROVE  [AP!Next]_PoolSlot
  <2>1. /\ pending' = pending \ {w} /\ active' = active /\ started' = started
    BY <1>2 DEF AgentHandshakeTimedOut, pmVars
  <2>2. CASE w \in pending
    <3>1. w \notin active /\ w \in started
      BY <1>0, <2>2 DEF PoolDisjoint, Admitted
    <3>2. PoolSlot[w] = "pending" /\ PoolSlot'[w] = "gone"
      BY <2>1, <2>2, <3>1 DEF PoolSlot
    <3>3. PoolSlot' = [PoolSlot EXCEPT ![w] = "gone"]
      BY <2>1, <3>2, SlotMoves
    <3>4. QED
      BY <3>2, <3>3 DEF AP!Next, AP!Expire, AP!Move
  <2>3. CASE w \notin pending
    BY <2>1, <2>3, SlotUnchanged
  <2>4. QED
    BY <2>2, <2>3
<1>3. ASSUME DeployAccepted
      PROVE  [AP!Next]_PoolSlot
  <2>1. /\ dId \in Ids /\ dId \in pending /\ dId \notin active
        /\ active' = active \cup {dId} /\ pending' = pending \ {dId}
        /\ started' = started
    BY <1>0, <1>3 DEF DeployAccepted, SubmitPending, LocalsOK, PoolDisjoint, pmVars
  <2>2. PoolSlot[dId] = "pending" /\ PoolSlot'[dId] = "active"
    BY <2>1 DEF PoolSlot
  <2>3. PoolSlot' = [PoolSlot EXCEPT ![dId] = "active"]
    BY <2>1, <2>2, SlotMoves
  <2>4. QED
    BY <2>1, <2>2, <2>3 DEF AP!Next, AP!Deploy, AP!Move
<1>4. ASSUME NEW c \in Callers, StopDelete(c)
      PROVE  [AP!Next]_PoolSlot
  <2> DEFINE w == sId[c]
  <2>1. /\ w \in Ids
        /\ active' = active \ {w} /\ pending' = pending /\ started' = started
    BY <1>0, <1>4 DEF StopDelete, StopReturn, LocalsOK, pmVars
  <2>2. CASE w \in active
    <3>1. w \notin pending /\ w \in started
      BY <1>0, <2>2 DEF PoolDisjoint, Admitted
    <3>2. PoolSlot[w] = "active" /\ PoolSlot'[w] = "gone"
      BY <2>1, <2>2, <3>1 DEF PoolSlot
    <3>3. PoolSlot' = [PoolSlot EXCEPT ![w] = "gone"]
      BY <2>1, <3>2, SlotMoves
    <3>4. QED
      BY <2>1, <3>2, <3>3 DEF AP!Next, AP!Retire, AP!Move
  <2>3. CASE w \notin active
    BY <2>1, <2>3, SlotUnchanged
  <2>4. QED
    BY <2>2, <2>3
<1>5. CASE OtherStep
  BY <1>5, OtherStepKeepsPool, SlotUnchanged
<1>6. CASE UNCHANGED vars
  BY <1>6, SlotUnchanged DEF vars, pmVars, poolVars
<1>7. QED
  BY <1>1, <1>2, <1>3, <1>4, <1>5, <1>6 DEF Next, OtherStep, StopStep, DeployStep

\* Spec section 3: the pool of the code implements the abstract lifecycle
\* of AgentPool under the refinement mapping PoolSlot.  Admission, deploys,
\* handshake timeouts and StopWorkload only move an agent forward; a
\* stopped or timed-out agent never re-enters the pool and a deployed one
\* is never selectable again, for every interleaving and every size of
\* the pool.
THEOREM PoolRefines == Spec => PoolRefinement
<1>1. Init => AP!Init
  BY DEF Init, AP!Init, PoolSlot
<1>2. Spec => [](IInv /\ OInv)
  BY InitIInv, InitOInv, StepIInv, StepOInv, PTL DEF Spec
<1>3. QED
  BY <1>1, <1>2, StepRefines, PTL DEF Spec, PoolRefinement, AP!Spec


-----------------------------------------------------------------------------
(***************************************************************************)
(* Active workloads are listed.  ActiveListed is inductive together with   *)
(* SubmitBound: the request bound by PrepareWorkload stays bound while the *)
(* deploy waits for the agent's answer, unless a control-plane stop has    *)
(* already stopped the process, in which case the agent cannot accept.    *)
(* StopProcess removes a process and its request in one step and moves    *)
(* its StopWorkload to the delete that removes the workload from           *)
(* activeAgents; OnProcessStarted adds a fresh id, never the deploy's.     *)
(***************************************************************************)

\* While the deploy waits for the answer of a running agent, its request
\* is bound.
SubmitBound == dpc = "submit" /\ dId \in pmProcs => pmReq[dId] # NoReq

\* The deploy goroutine is inside its rollback StopWorkload exactly while
\* DeployWorkload is in its stop phase.
DeployerInStop == (spc[Deployer] # "idle") <=> (dpc = "stop")

LInv == ActiveListed /\ SubmitBound /\ DeployerInStop

\* LInv holds initially.
LEMMA InitLInv == Init => LInv
BY DEF Init, LInv, ActiveListed, SubmitBound, DeployerInStop, Callers

\* Every step preserves LInv, given IInv and OInv in the state it starts
\* from.
LEMMA StepLInv == IInv /\ OInv /\ LInv /\ [Next]_vars => LInv'
<1> SUFFICES ASSUME IInv, OInv, LInv, [Next]_vars PROVE LInv'
  OBVIOUS
<1> USE ConstantsAssumption
        DEF IInv, TypeOK, EnvTypeOK, PoolTypeOK, DeployTypeOK, StopTypeOK,
            LocalsOK, Admitted, PoolDisjoint, OInv, LocalsStarted,
            SubmitPending, LInv, ActiveListed, SubmitBound, DeployerInStop,
            RunningWorkloads,
            LookupWorkload, Callers, PoolMutexFree,
            pmVars, agentVars, poolVars, nodeVars, deployVars, stopVars
<1>1. ASSUME NEW w \in Ids, OnProcessStarted(w)
      PROVE  LInv'
  <2>1. dpc # "idle" => w # dId
    BY <1>1 DEF OnProcessStarted
  <2>2. QED
    BY <1>1, <2>1 DEF OnProcessStarted
<1>2. ASSUME NEW w \in Ids, AgentHandshakeSucceeded(w)
      PROVE  LInv'
  BY <1>2 DEF AgentHandshakeSucceeded
<1>3. ASSUME NEW w \in Ids, AgentHandshakeTimedOut(w)
      PROVE  LInv'
  BY <1>3 DEF AgentHandshakeTimedOut
<1>4. ASSUME DeployNoAgent
      PROVE  LInv'
  BY <1>4 DEF DeployNoAgent
<1>5. ASSUME NEW w \in Ids, NEW r \in TriggerLists, DeployPrepare(w, r)
      PROVE  LInv'
  <2>1. w \notin active
    BY <1>5 DEF DeployPrepare
  <2>2. ActiveListed'
    BY <1>5, <2>1 DEF DeployPrepare
  <2>3. SubmitBound' /\ DeployerInStop'
    BY <1>5 DEF DeployPrepare
  <2>4. QED
    BY <2>2, <2>3
<1>6. ASSUME DeploySubmitFails
      PROVE  LInv'
  BY <1>6 DEF DeploySubmitFails, DeployReturn
<1>7. ASSUME DeployAccepted
      PROVE  LInv'
  <2>1. ActiveListed'
    BY <1>7 DEF DeployAccepted, DeployReturn
  <2>2. SubmitBound' /\ DeployerInStop'
    BY <1>7 DEF DeployAccepted, DeployReturn
  <2>3. QED
    BY <2>1, <2>2
<1>8. ASSUME DeployRejected
      PROVE  LInv'
  <2>1. spc[Deployer] = "idle"
    BY <1>8 DEF DeployRejected
  <2>2. ActiveListed'
    BY <1>8, <2>1 DEF DeployRejected, CallStop
  <2>3. SubmitBound' /\ DeployerInStop'
    BY <1>8 DEF DeployRejected, CallStop
  <2>4. QED
    BY <2>2, <2>3
<1>9. ASSUME DeploySubscribed
      PROVE  LInv'
  BY <1>9 DEF DeploySubscribed, DeployReturn
<1>10. ASSUME DeploySubscribeFails
       PROVE  LInv'
  <2>1. spc[Deployer] = "idle"
    BY <1>10 DEF DeploySubscribeFails
  <2>2. ActiveListed'
    BY <1>10, <2>1 DEF DeploySubscribeFails, CallStop
  <2>3. SubmitBound' /\ DeployerInStop'
    BY <1>10 DEF DeploySubscribeFails, CallStop
  <2>4. QED
    BY <2>2, <2>3
<1>11. ASSUME NEW c \in Callers, StopLookup(c)
       PROVE  LInv'
  <2>1. CASE /\ sId[c] \notin pmProcs
             /\ StopReturn(c, FALSE)
             /\ UNCHANGED <<pmVars, agentHs, pending, active, handshakes,
                            stopMutex, subz, drained, nodeVars, dResult>>
    <3>1. ActiveListed'
      BY <1>11, <2>1 DEF StopLookup, StopReturn, DeployReturn
    <3>2. SubmitBound'
      BY <1>11, <2>1 DEF StopReturn, DeployReturn
    <3>3. DeployerInStop'
      BY <1>11, <2>1 DEF StopReturn, DeployReturn
    <3>4. QED
      BY <3>1, <3>2, <3>3
  <2>2. CASE /\ sId[c] \in pmProcs
             /\ sReq' = [sReq EXCEPT ![c] = (LookupWorkload(sId[c]) # NoReq)]
             /\ spc' = [spc EXCEPT ![c] = "getmutex"]
             /\ UNCHANGED <<pmVars, agentVars, poolVars, nodeVars, deployVars,
                            sId, sUndeploy, sDrainClient>>
    BY <1>11, <2>2 DEF StopLookup
  <2>3. QED
    BY <1>11, <2>1, <2>2 DEF StopLookup
<1>12. ASSUME NEW c \in Callers, StopGetMutex(c)
       PROVE  LInv'
  BY <1>12 DEF StopGetMutex
<1>13. ASSUME NEW c \in Callers, StopLock(c)
       PROVE  LInv'
  BY <1>13 DEF StopLock
<1>14. ASSUME NEW c \in Callers, StopDrain(c)
       PROVE  LInv'
  BY <1>14 DEF StopDrain
<1>15. ASSUME NEW c \in Callers, StopUndeploy(c)
       PROVE  LInv'
  BY <1>15 DEF StopUndeploy
<1>16. ASSUME NEW c \in Callers, StopProcess(c)
       PROVE  LInv'
  <2>1. CASE StopReturn(c, TRUE)
              /\ UNCHANGED <<pmVars, agentHs, pending, active, handshakes,
                             stopMutex, subz, drained, nodeVars, dResult>>
    BY <1>16, <2>1 DEF StopProcess, StopReturn, DeployReturn
  <2>2. CASE /\ pmProcs' = pmProcs \ {sId[c]}
             /\ pmReq' = [pmReq EXCEPT ![sId[c]] = NoReq]
             /\ spc' = [spc EXCEPT ![c] = "delete"]
             /\ UNCHANGED <<pmState, started, pmClosed, agentVars, poolVars,
                            nodeVars, deployVars, sId, sUndeploy, sReq,
                            sDrainClient>>
    <3>1. ActiveListed'
      BY <1>16, <2>2 DEF StopProcess
    <3>2. SubmitBound' /\ DeployerInStop'
      BY <1>16, <2>2 DEF StopProcess
    <3>3. QED
      BY <3>1, <3>2
  <2>3. QED
    BY <1>16, <2>1, <2>2 DEF StopProcess
<1>17. ASSUME NEW c \in Callers, StopDelete(c)
       PROVE  LInv'
  BY <1>17 DEF StopDelete, StopReturn, DeployReturn
<1>18. ASSUME NEW c \in Stoppers, NEW w \in Ids, StopRequest(c, w)
       PROVE  LInv'
  BY <1>18 DEF StopRequest, CallStop
<1>19. ASSUME NodeStop
       PROVE  LInv'
  BY <1>19 DEF NodeStop
<1>20. ASSUME Start
       PROVE  LInv'
  BY <1>20 DEF Start
<1>21. CASE UNCHANGED vars
  BY <1>21 DEF vars
<1>22. QED
  BY <1>1, <1>2, <1>3, <1>4, <1>5, <1>6, <1>7, <1>8, <1>9, <1>10, <1>11,
     <1>12, <1>13, <1>14, <1>15, <1>16, <1>17, <1>18, <1>19, <1>20, <1>21
  DEF Next, StopStep, DeployStep

\* A workload in activeAgents is listed by RunningWorkloads, except in the
\* one step between StopWorkload stopping its process and deleting it,
\* for every interleaving of deploys, rollbacks and control-plane stops.
THEOREM ActiveListing == Spec => []ActiveListed
<1>1. Init => IInv /\ OInv /\ LInv
  BY InitIInv, InitOInv, InitLInv
<1>2. IInv /\ OInv /\ LInv /\ [Next]_vars => IInv' /\ OInv' /\ LInv'
  BY StepIInv, StepOInv, StepLInv
<1>3. Spec => [](IInv /\ OInv /\ LInv)
  BY <1>1, <1>2, PTL DEF Spec
<1>4. QED
  BY <1>3, PTL DEF LInv

-----------------------------------------------------------------------------
(***************************************************************************)
(* Only StopWorkload's delete removes an id from activeAgents, and the     *)
(* delete is reached only after StopProcess has stopped the id's process   *)
(* (DeleteStopped, a conjunct of OInv).                                    *)
(***************************************************************************)

\* Every step removes from activeAgents only ids whose process has stopped.
LEMMA StepActiveLeaves ==
    IInv /\ OInv /\ [Next]_vars => \A w \in active \ active' : w \notin pmProcs'
<1> SUFFICES ASSUME IInv, OInv, [Next]_vars
             PROVE  \A w \in active \ active' : w \notin pmProcs'
  OBVIOUS
<1>1. ASSUME NEW w \in Ids, OnProcessStarted(w)
      PROVE  \A v \in active \ active' : v \notin pmProcs'
  BY <1>1 DEF OnProcessStarted
<1>2. ASSUME NEW w \in Ids, AgentHandshakeTimedOut(w)
      PROVE  \A v \in active \ active' : v \notin pmProcs'
  BY <1>2 DEF AgentHandshakeTimedOut
<1>3. ASSUME DeployAccepted
      PROVE  \A v \in active \ active' : v \notin pmProcs'
  BY <1>3 DEF DeployAccepted
<1>4. ASSUME NEW c \in Callers, StopDelete(c)
      PROVE  \A v \in active \ active' : v \notin pmProcs'
  <2>1. active' = active \ {sId[c]} /\ pmProcs' = pmProcs
    BY <1>4 DEF StopDelete, pmVars
  <2>2. sId[c] \notin pmProcs
    BY <1>4 DEF StopDelete, OInv, DeleteStopped
  <2>3. QED
    BY <2>1, <2>2
<1>5. CASE OtherStep
  BY <1>5, OtherStepKeepsPool
<1>6. CASE UNCHANGED vars
  BY <1>6 DEF vars, poolVars
<1>7. QED
  BY <1>1, <1>2, <1>3, <1>4, <1>5, <1>6 DEF Next, OtherStep, StopStep, DeployStep

\* StopWorkload deletes an id from activeAgents only after StopProcess has
\* stopped its process, for every interleaving of deploys, rollbacks and
\* control-plane stops and every number of agents and stoppers: no active
\* workload is forgotten while its agent still runs.
THEOREM ActiveStopsFirst == Spec => ActiveLeavesStopped
<1>1. Spec => [](IInv /\ OInv)
  BY InitIInv, InitOInv, StepIInv, StepOInv, PTL DEF Spec
<1>2. IInv /\ OInv /\ [Next]_vars
        => [\A w \in active \ active' : w \notin pmProcs']_vars
  BY StepActiveLeaves
<1>3. QED
  BY <1>1, <1>2, PTL DEF Spec, ActiveLeavesStopped

=============================================================================
