--------------------------- MODULE StopMutexProofs ---------------------------
(***************************************************************************)
(* TLAPS proofs about the stop mutex of StopWorkload.                      *)
(*                                                                         *)
(* A goroutine c is in StopWorkload's critical section when spc[c] is in   *)
(* StopCritical: it has returned from mutex.Lock() and not yet run the     *)
(* deferred Unlock.  MInv says that such a goroutine holds the mutex of    *)
(* its id (HeldByCritical), that no two of them work on the same id        *)
(* (StopExclusive), and that the locked mutexes are exactly theirs         *)
(* (StopHeldByStopper).  Its step proof needs IInv for the types and       *)
(* DeployerInStop (a conjunct of LInv) for the two rollback stops of       *)
(* DeployWorkload, which start the deployer's StopWorkload without looking *)
(* at its program counter.                                                 *)
(***************************************************************************)
EXTENDS WorkloadManagerProofs, TLAPS

\* A goroutine in the critical section holds the mutex of its workload.
HeldByCritical == \A c \in Callers : spc[c] \in StopCritical => sId[c] \in stopHeld

MInv == HeldByCritical /\ StopExclusive /\ StopHeldByStopper

\* In a step of goroutine c, the locked mutexes lose c's id if c was in the
\* critical section and gain its new id if c is in it afterwards.
HeldMoves(c) ==
    stopHeld' = (stopHeld \ (IF spc[c] \in StopCritical THEN {sId[c]} ELSE {}))
                \cup (IF spc'[c] \in StopCritical THEN {sId'[c]} ELSE {})

-----------------------------------------------------------------------------
\* MInv holds initially: every StopWorkload goroutine is idle.
LEMMA InitMInv == Init => MInv
BY DEF Init, MInv, HeldByCritical, StopExclusive, StopHeldByStopper, StopCritical

\* The set of locked mutexes changes with goroutine c alone: c's id leaves
\* it when c leaves the critical section and enters it when c enters.
\* With StopExclusive no other goroutine in the critical section has c's id.
LEMMA HeldSetStep ==
    ASSUME StopHeldByStopper, StopExclusive, NEW c \in Callers,
           \A d \in Callers \ {c} : spc'[d] = spc[d] /\ sId'[d] = sId[d],
           HeldMoves(c)
    PROVE  StopHeldByStopper'
<1> DEFINE Others == {sId[d] : d \in {e \in Callers \ {c} : spc[e] \in StopCritical}}
<1>1. stopHeld = Others \cup (IF spc[c] \in StopCritical THEN {sId[c]} ELSE {})
  BY DEF StopHeldByStopper
<1>2. {sId'[d] : d \in {e \in Callers : spc'[e] \in StopCritical}}
        = Others \cup (IF spc'[c] \in StopCritical THEN {sId'[c]} ELSE {})
  OBVIOUS
<1>3. spc[c] \in StopCritical => sId[c] \notin Others
  BY DEF StopExclusive
<1>4. QED
  BY <1>1, <1>2, <1>3 DEF StopHeldByStopper, HeldMoves

\* A step in which only goroutine c may change its program counter or id
\* keeps MInv when c's new state respects the mutex and the mutex of every
\* other goroutine in the critical section stays held.
LEMMA OneCallerStep ==
    ASSUME MInv, NEW c \in Callers,
           \A d \in Callers \ {c} : spc'[d] = spc[d] /\ sId'[d] = sId[d],
           HeldMoves(c),
           spc'[c] \in StopCritical =>
               /\ sId'[c] \in stopHeld'
               /\ \A d \in Callers \ {c} : spc[d] \in StopCritical => sId[d] # sId'[c],
           \A d \in Callers \ {c} : spc[d] \in StopCritical => sId[d] \in stopHeld'
    PROVE  MInv'
<1>1. HeldByCritical' /\ StopExclusive'
  BY DEF MInv, HeldByCritical, StopExclusive
<1>2. StopHeldByStopper'
  BY HeldSetStep DEF MInv
<1>3. QED
  BY <1>1, <1>2 DEF MInv

\* Starting StopWorkload from idle, as StopRequest and the deploy's
\* rollbacks do, moves the goroutine to the lookup.
LEMMA CallStopMInv ==
    ASSUME MInv, StopTypeOK, NEW c \in Callers, NEW w, NEW u,
           spc[c] = "idle", CallStop(c, w, u), UNCHANGED stopHeld
    PROVE  MInv'
<1>1. spc'[c] = "lookup" /\ "lookup" \notin StopCritical
  BY DEF CallStop, StopTypeOK, StopCritical
<1>2. \A d \in Callers \ {c} : spc'[d] = spc[d] /\ sId'[d] = sId[d]
  BY DEF CallStop, StopTypeOK
<1>3. \A d \in Callers \ {c} : spc[d] \in StopCritical => sId[d] \in stopHeld'
  BY DEF MInv, HeldByCritical
<1>4. HeldMoves(c)
  BY <1>1 DEF HeldMoves, StopCritical
<1>5. QED
  BY <1>1, <1>2, <1>3, <1>4, OneCallerStep

\* Returning from StopWorkload after the lock (the deferred Unlock) leaves
\* the critical section and releases only the returning goroutine's mutex.
LEMMA ReleaseMInv ==
    ASSUME MInv, StopTypeOK, NEW c \in Callers, spc[c] \in StopCritical,
           StopReturn(c, TRUE)
    PROVE  MInv'
<1>1. spc'[c] = "idle" /\ "idle" \notin StopCritical
  BY DEF StopReturn, StopTypeOK, StopCritical
<1>2. \A d \in Callers \ {c} : spc'[d] = spc[d] /\ sId'[d] = sId[d]
  BY DEF StopReturn, StopTypeOK
<1>3. \A d \in Callers \ {c} : spc[d] \in StopCritical => sId[d] \in stopHeld'
  BY DEF StopReturn, MInv, HeldByCritical, StopExclusive
<1>4. HeldMoves(c)
  BY <1>1 DEF StopReturn, HeldMoves
<1>5. QED
  BY <1>1, <1>2, <1>3, <1>4, OneCallerStep

\* A step inside the critical section that keeps the id and the held
\* mutexes keeps MInv.
LEMMA InsideMInv ==
    ASSUME MInv, StopTypeOK, NEW c \in Callers, spc[c] \in StopCritical,
           NEW pc \in StopCritical,
           spc' = [spc EXCEPT ![c] = pc] \/ UNCHANGED spc,
           UNCHANGED <<sId, stopHeld>>
    PROVE  MInv'
<1>1. \A d \in Callers \ {c} : spc'[d] = spc[d] /\ sId'[d] = sId[d]
  BY DEF StopTypeOK
<1>2. sId'[c] \in stopHeld'
  BY DEF MInv, HeldByCritical
<1>3. \A d \in Callers \ {c} : spc[d] \in StopCritical => sId[d] # sId'[c]
  BY DEF MInv, StopExclusive
<1>4. \A d \in Callers \ {c} : spc[d] \in StopCritical => sId[d] \in stopHeld'
  BY DEF MInv, HeldByCritical
<1>5. spc'[c] \in StopCritical
  BY DEF StopTypeOK
<1>6. HeldMoves(c)
  BY <1>2, <1>5 DEF HeldMoves
<1>7. QED
  BY <1>1, <1>2, <1>3, <1>4, <1>6, OneCallerStep

\* A step that leaves every StopWorkload goroutine and the held mutexes
\* alone keeps MInv.
LEMMA FrameMInv ==
    ASSUME MInv, UNCHANGED <<spc, sId, stopHeld>>
    PROVE  MInv'
BY DEF MInv, HeldByCritical, StopExclusive, StopHeldByStopper

\* Every step keeps MInv.  One step per action of StopWorkload; the other
\* actions leave the goroutines of StopWorkload and the mutexes alone.
LEMMA StepMInv == IInv /\ LInv /\ MInv /\ [Next]_vars => MInv'
<1> SUFFICES ASSUME IInv, LInv, MInv, [Next]_vars PROVE MInv'
  OBVIOUS
<1>0. StopTypeOK
  BY DEF IInv, TypeOK
<1>1. CASE \/ \E w \in Ids : \/ OnProcessStarted(w)
                              \/ AgentHandshakeSucceeded(w)
                              \/ AgentHandshakeTimedOut(w)
           \/ DeployNoAgent \/ \E w \in Ids, r \in TriggerLists : DeployPrepare(w, r)
           \/ DeploySubmitFails \/ DeployAccepted \/ DeploySubscribed
           \/ Start \/ NodeStop
  <2>1. UNCHANGED <<spc, sId, stopHeld>>
    BY <1>1 DEF OnProcessStarted, AgentHandshakeSucceeded, AgentHandshakeTimedOut,
                DeployNoAgent, DeployPrepare, DeploySubmitFails, DeployAccepted,
                DeploySubscribed, Start, NodeStop, DeployReturn, stopVars, poolVars
  <2>2. QED
    BY <2>1, FrameMInv
<1>2. CASE DeployRejected \/ DeploySubscribeFails
  <2>1. spc[Deployer] = "idle"
    BY <1>2, <1>0 DEF DeployRejected, DeploySubscribeFails, LInv, DeployerInStop
  <2>2. \E u \in BOOLEAN : CallStop(Deployer, dId, u) /\ UNCHANGED stopHeld
    BY <1>2 DEF DeployRejected, DeploySubscribeFails, poolVars
  <2>3. QED
    BY <1>0, <2>1, <2>2, CallStopMInv DEF Callers
<1>3. ASSUME NEW c \in Stoppers, NEW w \in Ids, StopRequest(c, w)
      PROVE  MInv'
  BY <1>0, <1>3, CallStopMInv DEF StopRequest, Callers, poolVars
<1>4. ASSUME NEW c \in Callers, StopLookup(c) PROVE MInv'
  <2>1. spc[c] = "lookup" /\ "lookup" \notin StopCritical
    BY <1>4 DEF StopLookup, StopCritical
  <2>2. spc'[c] \notin StopCritical
    BY <1>0, <1>4 DEF StopLookup, StopReturn, StopCritical, StopTypeOK
  <2>3. \A d \in Callers \ {c} : spc'[d] = spc[d] /\ sId'[d] = sId[d]
    BY <1>0, <1>4 DEF StopLookup, StopReturn, StopTypeOK
  <2>4. UNCHANGED stopHeld
    BY <1>4 DEF StopLookup, StopReturn, poolVars
  <2>5. HeldMoves(c)
    BY <2>1, <2>2, <2>4 DEF HeldMoves
  <2>6. QED
    BY <2>2, <2>3, <2>4, <2>5, OneCallerStep DEF MInv, HeldByCritical
<1>5. ASSUME NEW c \in Callers, StopGetMutex(c) PROVE MInv'
  <2>1. spc'[c] \notin StopCritical
    BY <1>0, <1>5 DEF StopGetMutex, StopCritical, StopTypeOK
  <2>2. \A d \in Callers \ {c} : spc'[d] = spc[d] /\ sId'[d] = sId[d]
    BY <1>0, <1>5 DEF StopGetMutex, StopTypeOK
  <2>3. UNCHANGED stopHeld
    BY <1>5 DEF StopGetMutex, poolVars
  <2>4. spc[c] \notin StopCritical
    BY <1>5 DEF StopGetMutex, StopCritical
  <2>5. HeldMoves(c)
    BY <2>1, <2>3, <2>4 DEF HeldMoves
  <2>6. QED
    BY <2>1, <2>2, <2>3, <2>5, OneCallerStep DEF MInv, HeldByCritical
<1>6. ASSUME NEW c \in Callers, StopLock(c) PROVE MInv'
  <2>1. spc' = [spc EXCEPT ![c] = "drain"] /\ UNCHANGED sId
        /\ sId[c] \notin stopHeld /\ stopHeld' = stopHeld \cup {sId[c]}
    BY <1>6 DEF StopLock
  <2>2. \A d \in Callers \ {c} : spc'[d] = spc[d] /\ sId'[d] = sId[d]
    BY <1>0, <2>1 DEF StopTypeOK
  <2>3. \A d \in Callers \ {c} : spc[d] \in StopCritical => sId[d] # sId'[c]
    BY <2>1 DEF MInv, HeldByCritical
  <2>4. spc[c] \notin StopCritical /\ spc'[c] \in StopCritical
    BY <1>0, <1>6 DEF StopLock, StopCritical, StopTypeOK
  <2>5. HeldMoves(c)
    BY <2>1, <2>4 DEF HeldMoves
  <2>6. QED
    BY <2>1, <2>2, <2>3, <2>5, OneCallerStep DEF MInv, HeldByCritical
<1>7. ASSUME NEW c \in Callers, StopDrain(c) \/ StopUndeploy(c) PROVE MInv'
  <2>1. spc[c] \in StopCritical
    BY <1>7 DEF StopDrain, StopUndeploy, StopCritical
  <2>2. \/ spc' = [spc EXCEPT ![c] = "undeploy"]
        \/ spc' = [spc EXCEPT ![c] = "stopproc"]
        \/ UNCHANGED spc
    BY <1>7 DEF StopDrain, StopUndeploy
  <2>3. UNCHANGED <<sId, stopHeld>>
    BY <1>7 DEF StopDrain, StopUndeploy, poolVars
  <2>4. "undeploy" \in StopCritical /\ "stopproc" \in StopCritical
    BY DEF StopCritical
  <2>5. QED
    BY <1>0, <2>1, <2>2, <2>3, <2>4, InsideMInv
<1>8. ASSUME NEW c \in Callers, StopProcess(c) PROVE MInv'
  <2>1. spc[c] \in StopCritical
    BY <1>8 DEF StopProcess, StopCritical
  <2>2. CASE StopReturn(c, TRUE)
    BY <1>0, <2>1, <2>2, ReleaseMInv
  <2>3. CASE spc' = [spc EXCEPT ![c] = "delete"] /\ UNCHANGED <<sId, stopHeld>>
    <3>1. "delete" \in StopCritical
      BY DEF StopCritical
    <3>2. QED
      BY <1>0, <2>1, <2>3, <3>1, InsideMInv
  <2>4. QED
    BY <1>8, <2>2, <2>3 DEF StopProcess, poolVars
<1>9. ASSUME NEW c \in Callers, StopDelete(c) PROVE MInv'
  BY <1>0, <1>9, ReleaseMInv DEF StopDelete, StopCritical
<1>10. CASE UNCHANGED vars
  BY <1>10, FrameMInv DEF vars, poolVars, stopVars
<1>11. QED
  BY <1>1, <1>2, <1>3, <1>4, <1>5, <1>6, <1>7, <1>8, <1>9, <1>10
     DEF Next, StopStep, DeployStep

\* IInv, OInv, LInv and MInv together hold in every reachable state.
LEMMA AllInvariants == Spec => [](IInv /\ OInv /\ LInv /\ MInv)
<1>1. Init => IInv /\ OInv /\ LInv /\ MInv
  BY InitIInv, InitOInv, InitLInv, InitMInv
<1>2. IInv /\ OInv /\ LInv /\ MInv /\ [Next]_vars
        => IInv' /\ OInv' /\ LInv' /\ MInv'
  BY StepIInv, StepOInv, StepLInv, StepMInv
<1>3. QED
  BY <1>1, <1>2, PTL DEF Spec

-----------------------------------------------------------------------------
\* For every number of agents and stoppers, two StopWorkload goroutines on
\* the same workload (control-plane stops and the deploy's rollback) are
\* never both between mutex.Lock() and the deferred Unlock: the drain,
\* undeploy, StopProcess and deletes of one stop never interleave with
\* those of another stop of the same workload.
THEOREM StopMutualExclusion == Spec => []StopExclusive
BY AllInvariants, PTL DEF MInv

\* No StopWorkload leaks its mutex, for every instance: a workload's stop
\* mutex is locked exactly while some StopWorkload on that workload is between
\* mutex.Lock() and the deferred Unlock, so after every stop returns (also
\* through the early return of a failed StopProcess) the next
\* stop of the workload can take the lock.
THEOREM StopLocksReleased == Spec => []StopHeldByStopper
BY AllInvariants, PTL DEF MInv

=============================================================================
