----------------------- MODULE WorkloadTriggersProofs -----------------------
(***************************************************************************)
(* TLAPS proofs about the trigger dispatcher composed with the pool core.  *)
(*                                                                         *)
(* Every step of the composition is a step of the core or leaves the      *)
(* core's variables alone, so the core's invariants IInv and OInv and its  *)
(* refinement of AgentPool carry over.  On top of them, TInv says where a  *)
(* message can be: a subscription only exists for an agent that has       *)
(* accepted its deploy (its AgentPool slot is active or gone, and the      *)
(* refinement shows that such a slot never goes back), a message is only   *)
(* queued or handled on an installed subscription, and every delivered    *)
(* message is queued, in flight or has produced one exec event.            *)
(***************************************************************************)
EXTENDS WorkloadTriggers, WorkloadManagerProofs, TLAPS

\* The AgentPool slots of an agent that has accepted a deploy.
Accepted == {"active", "gone"}

\* The counters and handler states are well typed (the type of runTimeNano
\* needs the value of ParseInt's fold, see the README).
CountersOK ==
    /\ queue \in [Handles -> Nat]
    /\ hpc \in [Handles -> {"idle", "run"}]
    /\ delivered \in [Handles -> Nat]
    /\ execEvents \in [Handles -> Nat]
    /\ forwarded \subseteq Handles

\* Only an agent that has accepted its deploy has trigger subscriptions.
SubzAccepted == \A w \in Ids : subz[w] # <<>> => PoolSlot[w] \in Accepted

\* Messages are queued and handled only on installed subscriptions.
QueuedSubscribed ==
    \A h \in Handles :
        queue[h] > 0 \/ hpc[h] = "run" => h[2] \in Range(subz[h[1]])

TInv ==
    /\ CountersOK /\ SubzAccepted /\ QueuedSubscribed
    /\ TriggerOnlyToAccepted /\ MessagesAccounted

-----------------------------------------------------------------------------
\* A step of the composition is a step of the pool core or a stutter of it.
LEMMA CoreProjection == [TNext]_tvars => [Next]_vars
<1>1. CASE CoreStep
  BY <1>1 DEF CoreStep
<1>2. CASE ~panicked /\ \E s \in Subjects : Publish(s)
  BY <1>2 DEF Publish
<1>3. CASE ~panicked /\ \E h \in Handles : HandlerStep(h)
  BY <1>3 DEF HandlerStep, HandlerStart, HandlerReturn
<1>4. CASE UNCHANGED tvars
  BY <1>4 DEF tvars
<1>5. QED
  BY <1>1, <1>2, <1>3, <1>4 DEF TNext

\* The core's inductive invariants hold in every state of the composition.
LEMMA CoreInvariants == TSpec => [](IInv /\ OInv)
<1>1. TInit => IInv /\ OInv
  BY InitIInv, InitOInv DEF TInit
<1>2. IInv /\ OInv /\ [TNext]_tvars => IInv' /\ OInv'
  BY CoreProjection, StepIInv, StepOInv
<1>3. QED
  BY <1>1, <1>2, PTL DEF TSpec

\* A slot that is active or gone stays so in every step of AgentPool.
LEMMA AcceptedStays ==
    ASSUME [AP!Next]_PoolSlot, NEW v \in Ids, PoolSlot[v] \in Accepted
    PROVE  PoolSlot'[v] \in Accepted
<1>1. CASE PoolSlot' = PoolSlot
  BY <1>1
<1>2. ASSUME NEW w \in Ids, NEW a, NEW b,
             PoolSlot[w] = a, PoolSlot' = [PoolSlot EXCEPT ![w] = b],
             a \in {"free", "pending"} \/ b = "gone"
      PROVE  PoolSlot'[v] \in Accepted
  <2>1. v # w \/ b = "gone"
    BY <1>2 DEF Accepted
  <2>2. QED
    BY <1>2, <2>1 DEF PoolSlot, Accepted
<1>3. QED
  BY <1>1, <1>2 DEF AP!Next, AP!Warm, AP!Discard, AP!Deploy, AP!Expire,
                    AP!Retire, AP!Move

\* The only step that changes subz appends a subject for the deployed id,
\* which is active.
LEMMA SubzStep ==
    ASSUME [Next]_vars
    PROVE  \/ subz' = subz
           \/ /\ dpc = "subscribe" /\ dId \in active
              /\ subz' = [subz EXCEPT ![dId] = Append(@, dReq[dIdx])]
<1>1. CASE DeploySubscribed
  BY <1>1 DEF DeploySubscribed
<1>2. CASE OtherStep /\ ~DeploySubscribed
  <2> USE DEF pmVars, agentVars, poolVars, nodeVars, deployVars, stopVars
  <2>1. CASE \E w \in Ids : AgentHandshakeSucceeded(w) \/ OnProcessStarted(w)
                                 \/ AgentHandshakeTimedOut(w)
    BY <2>1 DEF AgentHandshakeSucceeded, OnProcessStarted, AgentHandshakeTimedOut
  <2>2. CASE DeployNoAgent \/ DeploySubmitFails \/ DeployRejected
                \/ DeployAccepted \/ DeploySubscribeFails
    BY <2>2 DEF DeployNoAgent, DeploySubmitFails, DeployRejected,
                DeployAccepted, DeploySubscribeFails, DeployReturn
  <2>3. CASE \E w \in Ids, r \in TriggerLists : DeployPrepare(w, r)
    BY <2>3 DEF DeployPrepare
  <2>4. CASE \E c \in Callers : StopLookup(c) \/ StopGetMutex(c) \/ StopLock(c)
    BY <2>4 DEF StopLookup, StopGetMutex, StopLock, StopReturn, DeployReturn
  <2>5. CASE \E c \in Callers : StopDrain(c) \/ StopUndeploy(c)
                                 \/ StopProcess(c) \/ StopDelete(c)
    BY <2>5 DEF StopDrain, StopUndeploy, StopProcess, StopDelete, StopReturn,
                DeployReturn
  <2>6. CASE \E c \in Stoppers, w \in Ids : StopRequest(c, w)
    BY <2>6 DEF StopRequest, CallStop
  <2>7. CASE Start \/ NodeStop
    BY <2>7 DEF Start, NodeStop
  <2>8. QED
    BY <1>2, <2>1, <2>2, <2>3, <2>4, <2>5, <2>6, <2>7 DEF OtherStep
<1>3. ASSUME NEW w \in Ids,
             OnProcessStarted(w) \/ AgentHandshakeTimedOut(w)
      PROVE  subz' = subz
  BY <1>3 DEF OnProcessStarted, AgentHandshakeTimedOut, poolVars
<1>4. CASE DeployAccepted
  BY <1>4 DEF DeployAccepted
<1>5. ASSUME NEW c \in Callers, StopDelete(c)
      PROVE  subz' = subz
  BY <1>5 DEF StopDelete
<1>6. CASE UNCHANGED vars
  BY <1>6 DEF vars, poolVars
<1>7. QED
  BY <1>1, <1>2, <1>3, <1>4, <1>5, <1>6 DEF Next, OtherStep, StopStep, DeployStep

\* Appending keeps every subject already subscribed.
LEMMA AppendRange ==
    ASSUME NEW S, NEW s \in Seq(S), NEW x
    PROVE  Range(s) \subseteq Range(Append(s, x))
BY DEF Range

\* The trigger invariant holds initially.
LEMMA InitTInv == TInit => TInv
BY DEF TInit, Init, TInv, CountersOK, SubzAccepted, QueuedSubscribed,
       TriggerOnlyToAccepted, MessagesAccounted

\* A step of the pool core leaves the queues and handlers alone, and only
\* adds subscriptions, for an active agent.
LEMMA CoreStepTInv ==
    ASSUME IInv, OInv, TInv, CoreStep
    PROVE  TInv'
<1>1. [Next]_vars
  BY DEF CoreStep
<1>2. \A v \in Ids : PoolSlot[v] \in Accepted => PoolSlot'[v] \in Accepted
  BY <1>1, StepRefines, AcceptedStays
<1>3. UNCHANGED <<queue, hpc, delivered, execEvents, forwarded>>
  BY DEF CoreStep
<1>4. /\ subz \in [Ids -> Seq(Subjects)]
      /\ \A w \in Ids : subz'[w] = subz[w]
                          \/ subz'[w] = Append(subz[w], dReq[dIdx])
      /\ \A w \in Ids : subz'[w] # subz[w] => w = dId /\ PoolSlot[w] = "active"
      /\ DOMAIN subz' = Ids
  <2>1. subz \in [Ids -> Seq(Subjects)]
    BY DEF IInv, TypeOK, PoolTypeOK
  <2>2. CASE subz' = subz
    BY <2>1, <2>2
  <2>3. CASE dpc = "subscribe" /\ dId \in active
             /\ subz' = [subz EXCEPT ![dId] = Append(@, dReq[dIdx])]
    BY <2>1, <2>3 DEF PoolSlot
  <2>4. QED
    BY <1>1, <2>2, <2>3, SubzStep
<1>5. \A w \in Ids : Range(subz[w]) \subseteq Range(subz'[w])
  BY <1>4, AppendRange
<1>6. SubzAccepted'
  <2> SUFFICES ASSUME NEW w \in Ids, subz'[w] # <<>>
               PROVE  PoolSlot'[w] \in Accepted
    BY DEF SubzAccepted
  <2>1. CASE subz'[w] = subz[w]
    BY <1>2, <2>1 DEF TInv, SubzAccepted
  <2>2. CASE subz'[w] # subz[w]
    BY <1>2, <1>4, <2>2 DEF Accepted
  <2>3. QED
    BY <2>1, <2>2
<1>7. QueuedSubscribed'
  BY <1>3, <1>5 DEF TInv, QueuedSubscribed, Handles
<1>8. CountersOK' /\ MessagesAccounted'
  BY <1>3 DEF TInv, CountersOK, MessagesAccounted
<1>9. TriggerOnlyToAccepted'
  <2> SUFFICES ASSUME NEW h \in forwarded' PROVE PoolSlot'[h[1]] \in Accepted
    BY DEF TriggerOnlyToAccepted, Accepted
  <2>1. h \in forwarded /\ h[1] \in Ids
    BY <1>3 DEF TInv, CountersOK, Handles
  <2>2. PoolSlot[h[1]] \in Accepted
    BY <2>1 DEF TInv, TriggerOnlyToAccepted, Accepted
  <2>3. QED
    BY <1>2, <2>1, <2>2
<1>10. QED
  BY <1>6, <1>7, <1>8, <1>9 DEF TInv

\* A subject is in the range of the empty sequence of no agent.
LEMMA SubscribedNonEmpty ==
    ASSUME NEW sq, NEW x \in Range(sq), sq = <<>>
    PROVE  FALSE
BY DEF Range

\* The bus delivers a message to every live subscription on its subject:
\* the queue and the delivery count of each grow together.
LEMMA PublishTInv ==
    ASSUME TInv, NEW s \in Subjects, Publish(s)
    PROVE  TInv'
<1>1. UNCHANGED <<vars, hpc, execEvents, forwarded>> /\ PoolSlot' = PoolSlot
  BY SlotUnchanged DEF Publish, vars, pmVars, poolVars
<1>2. CountersOK' /\ MessagesAccounted'
  BY <1>1 DEF Publish, TInv, CountersOK, MessagesAccounted
<1>3. QueuedSubscribed'
  BY <1>1 DEF Publish, Live, TInv, CountersOK, QueuedSubscribed, vars, poolVars
<1>4. SubzAccepted' /\ TriggerOnlyToAccepted'
  BY <1>1 DEF TInv, SubzAccepted, TriggerOnlyToAccepted, vars, poolVars
<1>5. QED
  BY <1>2, <1>3, <1>4 DEF TInv

\* The handler goroutine takes a queued message and calls RunTrigger on
\* the captured client.
LEMMA HandlerStartTInv ==
    ASSUME TInv, NEW h \in Handles, HandlerStart(h)
    PROVE  TInv'
<1>1. UNCHANGED <<vars, delivered, execEvents>> /\ PoolSlot' = PoolSlot
  BY SlotUnchanged DEF HandlerStart, vars, pmVars, poolVars
<1>2. h[2] \in Range(subz[h[1]]) /\ h[1] \in Ids
  BY DEF HandlerStart, TInv, QueuedSubscribed, Handles
<1>3. PoolSlot[h[1]] \in Accepted
  <2>1. subz[h[1]] # <<>>
    BY <1>2, SubscribedNonEmpty
  <2>2. QED
    BY <1>2, <2>1 DEF TInv, SubzAccepted
<1>4. CountersOK' /\ MessagesAccounted'
  BY <1>1 DEF HandlerStart, TInv, CountersOK, MessagesAccounted
<1>5. QueuedSubscribed'
  BY <1>1, <1>2 DEF HandlerStart, TInv, CountersOK, QueuedSubscribed, vars, poolVars
<1>6. TriggerOnlyToAccepted'
  BY <1>1, <1>3 DEF HandlerStart, TInv, TriggerOnlyToAccepted, Accepted
<1>7. SubzAccepted'
  BY <1>1 DEF TInv, SubzAccepted, vars, poolVars
<1>8. QED
  BY <1>4, <1>5, <1>6, <1>7 DEF TInv

\* RunTrigger returns and the handler publishes its function-exec event.
LEMMA HandlerReturnTInv ==
    ASSUME TInv, NEW h \in Handles, HandlerReturn(h)
    PROVE  TInv'
<1>1. UNCHANGED <<vars, queue, delivered, forwarded>> /\ PoolSlot' = PoolSlot
  BY SlotUnchanged DEF HandlerReturn, vars, pmVars, poolVars
<1>2. CountersOK' /\ MessagesAccounted'
  BY <1>1 DEF HandlerReturn, TInv, CountersOK, MessagesAccounted
<1>3. QueuedSubscribed'
  BY <1>1 DEF HandlerReturn, TInv, CountersOK, QueuedSubscribed, vars, poolVars
<1>4. SubzAccepted' /\ TriggerOnlyToAccepted'
  BY <1>1 DEF TInv, SubzAccepted, TriggerOnlyToAccepted, vars, poolVars
<1>5. QED
  BY <1>2, <1>3, <1>4 DEF TInv

\* TInv, with the core's invariants, is inductive for the composition.
LEMMA StepTInv == IInv /\ OInv /\ TInv /\ [TNext]_tvars => TInv'
<1> SUFFICES ASSUME IInv, OInv, TInv, [TNext]_tvars PROVE TInv'
  OBVIOUS
<1>1. CASE CoreStep
  BY <1>1, CoreStepTInv
<1>2. CASE ~panicked /\ \E s \in Subjects : Publish(s)
  BY <1>2, PublishTInv
<1>3. CASE ~panicked /\ \E h \in Handles : HandlerStep(h)
  BY <1>3, HandlerStartTInv, HandlerReturnTInv DEF HandlerStep
<1>4. CASE UNCHANGED tvars
  <2>1. UNCHANGED <<vars, queue, hpc, delivered, execEvents, forwarded>>
    BY <1>4 DEF tvars, trigVars
  <2>2. PoolSlot' = PoolSlot
    BY <2>1, SlotUnchanged DEF vars, pmVars, poolVars
  <2>3. QED
    BY <2>1, <2>2 DEF TInv, CountersOK, SubzAccepted, QueuedSubscribed,
                      TriggerOnlyToAccepted, MessagesAccounted, vars, poolVars
<1>5. QED
  BY <1>1, <1>2, <1>3, <1>4 DEF TNext

\* TInv holds in every state of the composition.
LEMMA TInvariant == TSpec => []TInv
<1>1. TInit => IInv /\ OInv /\ TInv
  BY InitIInv, InitOInv, InitTInv DEF TInit
<1>2. IInv /\ OInv /\ TInv /\ [TNext]_tvars => (IInv /\ OInv /\ TInv)'
  BY CoreProjection, StepIInv, StepOInv, StepTInv
<1>3. QED
  BY <1>1, <1>2, PTL DEF TSpec

-----------------------------------------------------------------------------
\* Spec 4.E: the trigger handler forwards a message to an agent only once
\* that agent has accepted its deploy (its slot in AgentPool is active or
\* gone), whatever the interleaving of deploys, stops and handler
\* goroutines.
THEOREM TriggersReachAccepted == TSpec => []TriggerOnlyToAccepted
BY TInvariant, PTL DEF TInv

\* No trigger message is lost or duplicated between the bus and the
\* handler: for every subscription, each message the bus delivered is
\* still queued, is in RunTrigger, or has produced one function-exec event.
THEOREM TriggerAccounting == TSpec => []MessagesAccounted
BY TInvariant, PTL DEF TInv

=============================================================================
