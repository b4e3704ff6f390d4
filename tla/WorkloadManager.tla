--------------------------- MODULE WorkloadManager ---------------------------
(***************************************************************************)
(* The pool and lifecycle core of the nex node's workload manager          *)
(* (src/internal/node/workload_mgr.go): admission of warmed agents         *)
(* (OnProcessStarted), the handshake callbacks, DeployWorkload with its    *)
(* trigger-subject subscriptions and rollbacks, StopWorkload, and the      *)
(* one-shot node Stop latch.                                               *)
(*                                                                         *)
(* Threads.  DeployWorkload holds the pool mutex for its whole body, so    *)
(* deploys are serialised; one Deployer thread stands for all of them and  *)
(* dpc = "idle" means that the pool mutex is free.  OnProcessStarted and   *)
(* agentHandshakeTimedOut take the pool mutex and are atomic steps enabled *)
(* only while it is free.  StopWorkload takes no pool mutex: it is run by  *)
(* the Deployer (rollback, with the pool mutex still held) and by the      *)
(* control-plane callers in Stoppers, one step per interleaving point.     *)
(* agentHandshakeSucceeded takes no lock at all.                           *)
(*                                                                         *)
(* Data.  An agent client is named by its workload id; a deploy request by *)
(* the sequence of its trigger subjects, the only part of it the core's    *)
(* control flow reads; a subscription handle by <<id, subject>>.           *)
(***************************************************************************)
EXTENDS Naturals, Sequences, FiniteSets, Functions

CONSTANTS
    Ids,           \* workload ids the process manager may hand out
    Subjects,      \* trigger subjects
    TriggerLists,  \* deploy requests, abstracted to their trigger subjects
    Stoppers,      \* control-plane goroutines that call StopWorkload
    Deployer,      \* the goroutine running DeployWorkload
    NoId,          \* "no workload id" (an unset local)
    NoReq,         \* Lookup returned nil: no deploy request bound
    MaxNodeStops,  \* bound on calls of WorkloadManager.Stop
    ClosingWidth   \* bit width of the closing counter (32 in the code)

ASSUME ConstantsAssumption ==
    /\ TriggerLists \subseteq Seq(Subjects)
    /\ \A r \in TriggerLists : \A i, j \in DOMAIN r : i # j => r[i] # r[j]
    /\ Deployer \notin Stoppers
    /\ NoId \notin Ids
    /\ NoReq \notin TriggerLists
    /\ MaxNodeStops \in Nat
    /\ ClosingWidth \in Nat \ {0}
    /\ 2^ClosingWidth \in Nat \ {0}

Callers == Stoppers \cup {Deployer}

DeployPcs == {"idle", "submit", "subscribe", "stop"}
StopPcs   == {"idle", "lookup", "getmutex", "lock", "drain", "undeploy",
              "stopproc", "delete"}
HsStates  == {"none", "waiting", "ok", "timedout"}
Results   == {"none", "ok", "no_agent", "prepare_failed", "submit_failed",
              "rejected", "trigger_failed"}

VARIABLES
    \* process manager (external contract, spec section 6)
    pmState,        \* "init" before procMan.Start, then "running" or "failed"
    started,        \* ids the process manager has warmed
    pmProcs,        \* ids whose process is running
    pmReq,          \* pmReq[w]: deploy request bound by PrepareWorkload
    pmClosed,       \* procMan.Stop() has succeeded
    \* agent clients (external contract)
    agentHs,        \* handshake state of the client of w
    clientDrained,  \* clients on which Drain() has been called
    \* WorkloadManager fields
    pending,        \* DOMAIN pendingAgents
    active,         \* DOMAIN activeAgents
    handshakes,     \* DOMAIN handshakes
    stopMutex,      \* DOMAIN stopMutex
    stopHeld,       \* ids whose stop mutex is locked
    subz,           \* subz[w]: trigger subjects subscribed for w, in order
    drained,        \* subscription handles on which Drain() was called
    cancelled,      \* w.cancel() has been called
    closing,        \* the closing counter of Stop(), ClosingWidth bits wide
    nodeStops,      \* calls of Stop() so far (bounded by MaxNodeStops)
    pmStops,        \* calls of procMan.Stop() so far
    panicked,       \* a nil pointer was dereferenced: the node crashed
    \* DeployWorkload's locals
    dpc, dId, dReq, dIdx, dResult,
    \* StopWorkload's locals, per calling goroutine
    spc, sId, sUndeploy, sReq, sDrainClient

pmVars     == <<pmState, started, pmProcs, pmReq, pmClosed>>
agentVars  == <<agentHs, clientDrained>>
poolVars   == <<pending, active, handshakes, stopMutex, stopHeld, subz, drained>>
nodeVars   == <<cancelled, closing, nodeStops, pmStops, panicked>>
deployVars == <<dpc, dId, dReq, dIdx, dResult>>
stopVars   == <<spc, sId, sUndeploy, sReq, sDrainClient>>
vars == <<pmVars, agentVars, poolVars, nodeVars, deployVars, stopVars>>

-----------------------------------------------------------------------------
\* The type invariant, in one part per group of variables.
EnvTypeOK ==
    /\ pmState \in {"init", "running", "failed"}
    /\ started \subseteq Ids
    /\ pmProcs \subseteq Ids
    /\ pmReq \in [Ids -> TriggerLists \cup {NoReq}]
    /\ pmClosed \in BOOLEAN
    /\ agentHs \in [Ids -> HsStates]
    /\ clientDrained \subseteq Ids

PoolTypeOK ==
    /\ pending \subseteq Ids
    /\ active \subseteq Ids
    /\ handshakes \subseteq Ids
    /\ stopMutex \subseteq Ids
    /\ stopHeld \subseteq Ids
    /\ subz \in [Ids -> Seq(Subjects)]
    /\ drained \subseteq Ids \X Subjects

DeployTypeOK ==
    /\ cancelled \in BOOLEAN
    /\ closing \in Nat
    /\ nodeStops \in Nat
    /\ pmStops \in Nat
    /\ panicked \in BOOLEAN
    /\ dpc \in DeployPcs
    /\ dId \in Ids \cup {NoId}
    /\ dReq \in TriggerLists \cup {NoReq}
    /\ dIdx \in Nat
    /\ dResult \in Results

StopTypeOK ==
    /\ spc \in [Callers -> StopPcs]
    /\ sId \in [Callers -> Ids \cup {NoId}]
    /\ sUndeploy \in [Callers -> BOOLEAN]
    /\ sReq \in [Callers -> BOOLEAN]
    /\ sDrainClient \in [Callers -> BOOLEAN]

TypeOK == EnvTypeOK /\ PoolTypeOK /\ DeployTypeOK /\ StopTypeOK

\* NewWorkloadManager: every map empty, nothing running.
Init ==
    /\ pmState = "init"
    /\ started = {} /\ pmProcs = {} /\ pmClosed = FALSE
    /\ pmReq = [w \in Ids |-> NoReq]
    /\ agentHs = [w \in Ids |-> "none"]
    /\ clientDrained = {}
    /\ pending = {} /\ active = {} /\ handshakes = {}
    /\ stopMutex = {} /\ stopHeld = {}
    /\ subz = [w \in Ids |-> <<>>]
    /\ drained = {}
    /\ cancelled = FALSE /\ closing = 0 /\ panicked = FALSE
    /\ nodeStops = 0 /\ pmStops = 0
    /\ dpc = "idle" /\ dId = NoId /\ dReq = NoReq /\ dIdx = 0
    /\ dResult = "none"
    /\ spc = [c \in Callers |-> "idle"]
    /\ sId = [c \in Callers |-> NoId]
    /\ sUndeploy = [c \in Callers |-> FALSE]
    /\ sReq = [c \in Callers |-> FALSE]
    /\ sDrainClient = [c \in Callers |-> FALSE]

PoolMutexFree == dpc = "idle"

-----------------------------------------------------------------------------
(***************************************************************************)
(* Admission and handshake callbacks.                                      *)
(***************************************************************************)

\* Bug variant: OnProcessStarted forgets w.stopMutex[id] = &sync.Mutex{}.
OnProcessStartedNoMutex(w) ==
    /\ PoolMutexFree
    /\ pmState = "running" /\ ~pmClosed
    /\ w \notin started
    /\ started' = started \cup {w}
    /\ pmProcs' = pmProcs \cup {w}
    /\ \/ /\ pending' = pending \cup {w}
          /\ agentHs' = [agentHs EXCEPT ![w] = "waiting"]
       \/ UNCHANGED <<pending, agentHs>>
    /\ UNCHANGED <<pmState, pmReq, pmClosed, clientDrained, active, handshakes,
                   stopMutex, stopHeld, subz, drained, nodeVars, deployVars,
                   stopVars>>

\* The process manager warms a fresh process and calls OnProcessStarted(w),
\* which, under the pool mutex, starts an agent client; if Start fails it
\* logs and returns without touching pool state.
OnProcessStarted(w) ==
    /\ PoolMutexFree
    /\ pmState = "running" /\ ~pmClosed
    /\ w \notin started
    /\ started' = started \cup {w}
    /\ pmProcs' = pmProcs \cup {w}
    /\ \/ /\ pending' = pending \cup {w}
          /\ stopMutex' = stopMutex \cup {w}
          /\ agentHs' = [agentHs EXCEPT ![w] = "waiting"]
       \/ UNCHANGED <<pending, stopMutex, agentHs>>
    /\ UNCHANGED <<pmState, pmReq, pmClosed, clientDrained, active, handshakes,
                   stopHeld, subz, drained, nodeVars, deployVars, stopVars>>

\* The agent's handshake arrives before the client's timer fires; the
\* callback records it in the handshakes map without taking any lock.
AgentHandshakeSucceeded(w) ==
    /\ agentHs[w] = "waiting"
    /\ w \in pmProcs
    /\ w \notin clientDrained
    /\ agentHs' = [agentHs EXCEPT ![w] = "ok"]
    /\ handshakes' = handshakes \cup {w}
    /\ UNCHANGED <<pmVars, clientDrained, pending, active, stopMutex,
                   stopHeld, subz, drained, nodeVars, deployVars, stopVars>>

\* The client's timer fires with no handshake received: under the pool
\* mutex drop w from pending, and cancel the node if no handshake has ever
\* succeeded.  The process and the stop mutex are left as they are.
AgentHandshakeTimedOut(w) ==
    /\ PoolMutexFree
    /\ agentHs[w] = "waiting"
    /\ agentHs' = [agentHs EXCEPT ![w] = "timedout"]
    /\ pending' = pending \ {w}
    /\ cancelled' = (cancelled \/ handshakes = {})
    /\ UNCHANGED <<pmVars, clientDrained, active, handshakes, stopMutex,
                   stopHeld, subz, drained, closing, nodeStops, pmStops,
                   panicked, deployVars, stopVars>>

-----------------------------------------------------------------------------
(***************************************************************************)
(* DeployWorkload.  The pool mutex is taken at entry and released at every *)
(* return (dpc back to "idle").                                            *)
(***************************************************************************)

\* DeployWorkload returns: the pool mutex is released and its locals die.
DeployReturn ==
    /\ dpc' = "idle" /\ dId' = NoId /\ dReq' = NoReq /\ dIdx' = 0

\* The goroutine c enters StopWorkload(w, u).
CallStop(c, w, u) ==
    /\ spc' = [spc EXCEPT ![c] = "lookup"]
    /\ sId' = [sId EXCEPT ![c] = w]
    /\ sUndeploy' = [sUndeploy EXCEPT ![c] = u]
    /\ UNCHANGED <<sReq, sDrainClient>>

\* selectRandomAgent finds pendingAgents empty.
DeployNoAgent ==
    /\ PoolMutexFree
    /\ pending = {}
    /\ dResult' = "no_agent"
    /\ UNCHANGED <<pmVars, agentVars, poolVars, nodeVars, dpc, dId, dReq,
                   dIdx, stopVars>>

\* selectRandomAgent returns any pending agent w, then PrepareWorkload binds
\* request r to w's process, or fails and the deploy returns an error.
DeployPrepare(w, r) ==
    /\ PoolMutexFree
    /\ w \in pending
    /\ \/ /\ w \in pmProcs
          /\ pmReq' = [pmReq EXCEPT ![w] = r]
          /\ dpc' = "submit" /\ dId' = w /\ dReq' = r
          /\ UNCHANGED <<dIdx, dResult>>
       \/ /\ dResult' = "prepare_failed"
          /\ UNCHANGED <<pmReq, dpc, dId, dReq, dIdx>>
    /\ UNCHANGED <<pmState, started, pmProcs, pmClosed, agentVars, poolVars,
                   nodeVars, stopVars>>

\* agentClient.DeployWorkload returns an error (lost request, lost reply,
\* timeout): the deploy returns an error and leaves the pool untouched.
DeploySubmitFails ==
    /\ dpc = "submit"
    /\ DeployReturn
    /\ dResult' = "submit_failed"
    /\ UNCHANGED <<pmVars, agentVars, poolVars, nodeVars, stopVars>>

\* Bug variant: the accept path adds to activeAgents but never deletes the
\* client from pendingAgents.
DeployAcceptedKeepsPending ==
    /\ dpc = "submit"
    /\ dId \in pmProcs
    /\ active' = active \cup {dId}
    /\ IF dReq = <<>>
         THEN DeployReturn /\ dResult' = "ok"
         ELSE /\ dpc' = "subscribe" /\ dIdx' = 1
              /\ UNCHANGED <<dId, dReq, dResult>>
    /\ UNCHANGED <<pmVars, agentVars, pending, handshakes, stopMutex,
                   stopHeld, subz, drained, nodeVars, stopVars>>

\* The agent accepts: move the client from pending to active, then
\* subscribe to the request's trigger subjects, if any.
DeployAccepted ==
    /\ dpc = "submit"
    /\ dId \in pmProcs
    /\ active' = active \cup {dId}
    /\ pending' = pending \ {dId}
    /\ IF dReq = <<>>
         THEN DeployReturn /\ dResult' = "ok"
         ELSE /\ dpc' = "subscribe" /\ dIdx' = 1
              /\ UNCHANGED <<dId, dReq, dResult>>
    /\ UNCHANGED <<pmVars, agentVars, handshakes, stopMutex, stopHeld, subz,
                   drained, nodeVars, stopVars>>

\* The agent rejects: StopWorkload(w, false), then return the rejection.
DeployRejected ==
    /\ dpc = "submit"
    /\ dId \in pmProcs
    /\ dpc' = "stop"
    /\ dResult' = "rejected"
    /\ CallStop(Deployer, dId, FALSE)
    /\ UNCHANGED <<pmVars, agentVars, poolVars, nodeVars, dId, dReq, dIdx>>

\* Bug variant: the whole TriggerSubjects slice is recorded as one handle.
DeploySubscribedWholeList ==
    /\ dpc = "subscribe"
    /\ dId \in active
    /\ subz' = [subz EXCEPT ![dId] = Append(@, dReq)]
    /\ IF dIdx = Len(dReq)
         THEN DeployReturn /\ dResult' = "ok"
         ELSE dIdx' = dIdx + 1 /\ UNCHANGED <<dpc, dId, dReq, dResult>>
    /\ UNCHANGED <<pmVars, agentVars, pending, active, handshakes, stopMutex,
                   stopHeld, drained, nodeVars, stopVars>>

\* generateTriggerHandler finds the client in activeAgents and
\* nc.Subscribe succeeds: append the handle to subz[w].
DeploySubscribed ==
    /\ dpc = "subscribe"
    /\ dId \in active
    /\ subz' = [subz EXCEPT ![dId] = Append(@, dReq[dIdx])]
    /\ IF dIdx = Len(dReq)
         THEN DeployReturn /\ dResult' = "ok"
         ELSE dIdx' = dIdx + 1 /\ UNCHANGED <<dpc, dId, dReq, dResult>>
    /\ UNCHANGED <<pmVars, agentVars, pending, active, handshakes, stopMutex,
                   stopHeld, drained, nodeVars, stopVars>>

\* nc.Subscribe fails (the bus refuses, or the handler is nil because the
\* client is no longer in activeAgents): StopWorkload(w, true), then
\* return the error.
DeploySubscribeFails ==
    /\ dpc = "subscribe"
    /\ dpc' = "stop"
    /\ dResult' = "trigger_failed"
    /\ CallStop(Deployer, dId, TRUE)
    /\ UNCHANGED <<pmVars, agentVars, poolVars, nodeVars, dId, dReq, dIdx>>

-----------------------------------------------------------------------------
(***************************************************************************)
(* StopWorkload(id, undeploy), one step per interleaving point, run by     *)
(* the goroutine c with id = sId[c].                                       *)
(***************************************************************************)

\* Return from StopWorkload: the deferred agentClient.Drain() (registered
\* in the undeploy branch) runs, then the deferred mutex.Unlock() when the
\* mutex was taken; a Deployer in rollback then returns from the deploy.
StopReturn(c, locked) ==
    /\ spc' = [spc EXCEPT ![c] = "idle"]
    /\ sDrainClient' = [sDrainClient EXCEPT ![c] = FALSE]
    /\ clientDrained' = IF sDrainClient[c] THEN clientDrained \cup {sId[c]}
                                            ELSE clientDrained
    /\ stopHeld' = IF locked THEN stopHeld \ {sId[c]} ELSE stopHeld
    /\ sId' = [sId EXCEPT ![c] = NoId]
    /\ sUndeploy' = [sUndeploy EXCEPT ![c] = FALSE]
    /\ sReq' = [sReq EXCEPT ![c] = FALSE]
    /\ IF c = Deployer THEN DeployReturn ELSE UNCHANGED <<dpc, dId, dReq, dIdx>>

\* LookupWorkload / procMan.Lookup: the deploy request bound to w, if any.
LookupWorkload(w) == pmReq[w]

\* RunningWorkloads: a summary of every process procMan.ListProcesses()
\* returns, each dereferencing the process's deploy request.  A listed
\* process with no request bound would be a nil dereference; the ids it
\* can report are the running ones with a request bound.
RunningWorkloads == {w \in pmProcs : LookupWorkload(w) # NoReq}

\* procMan.Lookup(id): an error (the process is unknown) is returned
\* unchanged; otherwise remember whether a deploy request is bound.
StopLookup(c) ==
    /\ spc[c] = "lookup"
    /\ \/ /\ sId[c] \notin pmProcs
          /\ StopReturn(c, FALSE)
          /\ UNCHANGED <<pmVars, agentHs, pending, active, handshakes,
                         stopMutex, subz, drained, nodeVars, dResult>>
       \/ /\ sId[c] \in pmProcs
          /\ sReq' = [sReq EXCEPT ![c] = (LookupWorkload(sId[c]) # NoReq)]
          /\ spc' = [spc EXCEPT ![c] = "getmutex"]
          /\ UNCHANGED <<pmVars, agentVars, poolVars, nodeVars, deployVars,
                         sId, sUndeploy, sDrainClient>>

\* mutex := w.stopMutex[id]; a missing entry yields a nil *sync.Mutex and
\* mutex.Lock() panics.
StopGetMutex(c) ==
    /\ spc[c] = "getmutex"
    /\ IF sId[c] \in stopMutex
         THEN spc' = [spc EXCEPT ![c] = "lock"] /\ UNCHANGED panicked
         ELSE panicked' = TRUE /\ UNCHANGED spc
    /\ UNCHANGED <<pmVars, agentVars, poolVars, cancelled, closing,
                   nodeStops, pmStops, deployVars, sId, sUndeploy, sReq,
                   sDrainClient>>

\* Bug variant: StopWorkload also takes the pool mutex before the stop
\* mutex, against the lock order.
StopLockUnderPoolMutex(c) ==
    /\ spc[c] = "lock"
    /\ PoolMutexFree
    /\ sId[c] \notin stopHeld
    /\ stopHeld' = stopHeld \cup {sId[c]}
    /\ spc' = [spc EXCEPT ![c] = "drain"]
    /\ UNCHANGED <<pmVars, agentVars, pending, active, handshakes, stopMutex,
                   subz, drained, nodeVars, deployVars, sId, sUndeploy, sReq,
                   sDrainClient>>

\* Bug variant: the mutex is unlocked at once (mutex.Lock(); mutex.Unlock())
\* instead of by a deferred Unlock at return.
StopLockNoDefer(c) ==
    /\ spc[c] = "lock"
    /\ sId[c] \notin stopHeld
    /\ spc' = [spc EXCEPT ![c] = "drain"]
    /\ UNCHANGED <<pmVars, agentVars, poolVars, nodeVars, deployVars, sId,
                   sUndeploy, sReq, sDrainClient>>

\* mutex.Lock() (blocks while another goroutine holds it).
StopLock(c) ==
    /\ spc[c] = "lock"
    /\ sId[c] \notin stopHeld
    /\ stopHeld' = stopHeld \cup {sId[c]}
    /\ spc' = [spc EXCEPT ![c] = "drain"]
    /\ UNCHANGED <<pmVars, agentVars, pending, active, handshakes, stopMutex,
                   subz, drained, nodeVars, deployVars, sId, sUndeploy, sReq,
                   sDrainClient>>

\* sub.Drain() on every subscription in subz[id]; the range expression is
\* evaluated once, and Drain only marks the subscription (errors are logged).
StopDrain(c) ==
    /\ spc[c] = "drain"
    /\ drained' = drained \cup {<<sId[c], s>> : s \in Range(subz[sId[c]])}
    /\ spc' = [spc EXCEPT ![c] = "undeploy"]
    /\ UNCHANGED <<pmVars, agentVars, pending, active, handshakes, stopMutex,
                   stopHeld, subz, nodeVars, deployVars, sId, sUndeploy, sReq,
                   sDrainClient>>

\* If undeploy and a request was found: agentClient := w.activeAgents[id],
\* defer its Drain, call Undeploy (an error is logged).  A missing entry is
\* a nil *AgentClient and Undeploy panics.
StopUndeploy(c) ==
    /\ spc[c] = "undeploy"
    /\ \/ /\ ~(sReq[c] /\ sUndeploy[c])
          /\ spc' = [spc EXCEPT ![c] = "stopproc"]
          /\ UNCHANGED <<panicked, sDrainClient>>
       \/ /\ sReq[c] /\ sUndeploy[c]
          /\ sId[c] \in active
          /\ spc' = [spc EXCEPT ![c] = "stopproc"]
          /\ sDrainClient' = [sDrainClient EXCEPT ![c] = TRUE]
          /\ UNCHANGED panicked
       \/ /\ sReq[c] /\ sUndeploy[c]
          /\ sId[c] \notin active
          /\ panicked' = TRUE
          /\ UNCHANGED <<spc, sDrainClient>>
    /\ UNCHANGED <<pmVars, agentVars, poolVars, cancelled, closing,
                   nodeStops, pmStops, deployVars, sId, sUndeploy, sReq>>

\* Bug variant: the error return of StopProcess skips mutex.Unlock().
StopProcessNoUnlock(c) ==
    /\ spc[c] = "stopproc"
    /\ \/ /\ StopReturn(c, FALSE)
          /\ UNCHANGED <<pmVars, agentHs, pending, active, handshakes,
                         stopMutex, subz, drained, nodeVars, dResult>>
       \/ /\ pmProcs' = pmProcs \ {sId[c]}
          /\ pmReq' = [pmReq EXCEPT ![sId[c]] = NoReq]
          /\ spc' = [spc EXCEPT ![c] = "delete"]
          /\ UNCHANGED <<pmState, started, pmClosed, agentVars, poolVars, nodeVars,
                         deployVars, sId, sUndeploy, sReq, sDrainClient>>

\* Bug variant: an error of StopProcess is ignored and the stop goes on
\* to delete the workload.
StopProcessIgnoresError(c) ==
    /\ spc[c] = "stopproc"
    /\ \/ /\ pmProcs' = pmProcs \ {sId[c]}
          /\ pmReq' = [pmReq EXCEPT ![sId[c]] = NoReq]
       \/ UNCHANGED <<pmProcs, pmReq>>
    /\ spc' = [spc EXCEPT ![c] = "delete"]
    /\ UNCHANGED <<pmState, started, pmClosed, agentVars, poolVars, nodeVars,
                   deployVars, sId, sUndeploy, sReq, sDrainClient>>

\* procMan.StopProcess(id): on failure return the error (the deferred
\* calls run, the pool maps are left alone).
StopProcess(c) ==
    /\ spc[c] = "stopproc"
    /\ \/ /\ StopReturn(c, TRUE)
          /\ UNCHANGED <<pmVars, agentHs, pending, active, handshakes,
                         stopMutex, subz, drained, nodeVars, dResult>>
       \/ /\ pmProcs' = pmProcs \ {sId[c]}
          /\ pmReq' = [pmReq EXCEPT ![sId[c]] = NoReq]
          /\ spc' = [spc EXCEPT ![c] = "delete"]
          /\ UNCHANGED <<pmState, started, pmClosed, agentVars, poolVars, nodeVars,
                         deployVars, sId, sUndeploy, sReq, sDrainClient>>

\* Bug variant: the stop deletes the stop mutex but not the active entry.
StopDeleteKeepsActive(c) ==
    /\ spc[c] = "delete"
    /\ stopMutex' = stopMutex \ {sId[c]}
    /\ StopReturn(c, TRUE)
    /\ UNCHANGED <<pmVars, agentHs, pending, active, handshakes, subz, drained,
                   nodeVars, dResult>>

\* delete(activeAgents, id); delete(stopMutex, id); publish the stopped
\* event and return nil.  pendingAgents, handshakes and subz are untouched.
StopDelete(c) ==
    /\ spc[c] = "delete"
    /\ active' = active \ {sId[c]}
    /\ stopMutex' = stopMutex \ {sId[c]}
    /\ StopReturn(c, TRUE)
    /\ UNCHANGED <<pmVars, agentHs, pending, handshakes, subz, drained,
                   nodeVars, dResult>>

StopStep(c) ==
    \/ StopLookup(c) \/ StopGetMutex(c) \/ StopDrain(c)
    \/ StopUndeploy(c) \/ StopProcess(c) \/ StopDelete(c)

-----------------------------------------------------------------------------
(***************************************************************************)
(* The environment: control-plane stop requests and node shutdown.         *)
(***************************************************************************)

\* The control API's stop handler finds a deploy request for w through
\* LookupWorkload and calls StopWorkload(w, true).
StopRequest(c, w) ==
    /\ spc[c] = "idle"
    /\ LookupWorkload(w) # NoReq
    /\ CallStop(c, w, TRUE)
    /\ UNCHANGED <<pmVars, agentVars, poolVars, nodeVars, deployVars>>

\* WorkloadManager.Start(): procMan.Start(w) begins warming processes; on
\* an error the node's context is cancelled.
Start ==
    /\ pmState = "init"
    /\ \/ pmState' = "running" /\ UNCHANGED cancelled
       \/ pmState' = "failed" /\ cancelled' = TRUE
    /\ UNCHANGED <<started, pmProcs, pmReq, pmClosed, agentVars, poolVars,
                   closing, nodeStops, pmStops, panicked, deployVars, stopVars>>

\* WorkloadManager.Stop(): atomic.AddUint32(&closing, 1) == 1 lets the
\* caller that moves the counter to 1 stop the process manager, which may
\* fail; every other call returns nil at once.  The counter wraps at
\* 2^ClosingWidth.
NodeStop ==
    /\ nodeStops < MaxNodeStops
    /\ nodeStops' = nodeStops + 1
    /\ closing' = (closing + 1) % (2^ClosingWidth)
    /\ IF closing' = 1
         THEN /\ pmStops' = pmStops + 1
              /\ pmClosed' \in {pmClosed, TRUE}
         ELSE UNCHANGED <<pmStops, pmClosed>>
    /\ UNCHANGED <<pmState, started, pmProcs, pmReq, agentVars, poolVars,
                   cancelled, panicked, deployVars, stopVars>>

DeployStep ==
    \/ DeploySubmitFails \/ DeployAccepted \/ DeployRejected
    \/ DeploySubscribed \/ DeploySubscribeFails

\* Every goroutine stops for good once the node has panicked.
Next ==
    /\ ~panicked
    /\ \/ \E w \in Ids : OnProcessStarted(w)
       \/ \E w \in Ids : AgentHandshakeSucceeded(w)
       \/ \E w \in Ids : AgentHandshakeTimedOut(w)
       \/ DeployNoAgent
       \/ \E w \in Ids, r \in TriggerLists : DeployPrepare(w, r)
       \/ DeployStep
       \/ \E c \in Callers : StopStep(c) \/ StopLock(c)
       \/ \E c \in Stoppers, w \in Ids : StopRequest(c, w)
       \/ Start
       \/ NodeStop

Spec == Init /\ [][Next]_vars

\* Goroutines that have been scheduled keep running: the deploy and every
\* StopWorkload call are weakly fair, and acquiring a stop mutex is strongly
\* fair (sync.Mutex switches to FIFO hand-off when a waiter starves).
Fairness ==
    /\ WF_vars(~panicked /\ DeployStep)
    /\ \A c \in Callers : WF_vars(~panicked /\ StopStep(c))
    /\ \A c \in Callers : SF_vars(~panicked /\ StopLock(c))

FairSpec == Spec /\ Fairness

-----------------------------------------------------------------------------
(***************************************************************************)
(* Properties.                                                             *)
(***************************************************************************)

\* (I1) No workload id is in both pendingAgents and activeAgents: the
\* pending-to-active move of DeployWorkload, admission in OnProcessStarted
\* and the deletes of the timeout and stop paths keep them disjoint.
PoolDisjoint == pending \cap active = {}

\* (I2) Every id in activeAgents still owns its stop mutex, whatever the
\* interleaving of deploys, rollbacks and control-plane stops: a stop whose
\* id is active when it reads stopMutex[id] finds the mutex.  (A second stop
\* that reads it after the first has deleted the id is NoNilDereference.)
ActiveOwned == active \subseteq stopMutex

\* The lock order (pool mutex, then stop mutex; StopWorkload never takes
\* the pool mutex) leaves no state of a running node in which every
\* goroutine is blocked, even when a rollback stop waits for a
\* control-plane stop of the same workload.
NoDeadlock == panicked \/ ENABLED Next

\* A DeployWorkload call, including its rollback StopWorkload, returns
\* (releases the pool mutex) unless the node crashes.
DeployCompletes == (dpc # "idle") ~> (dpc = "idle" \/ panicked)

\* Spec section 3 and scenario S3: a rejected deploy moves the agent from
\* pending to stopped, so when DeployWorkload returns from its rollback
\* StopWorkload(id, false) with the process stopped, the id is no longer in
\* pendingAgents (a dead agent must not be selectable by the next deploy).
RejectedNotPending ==
    [][dpc = "stop" /\ dpc' = "idle" /\ dResult = "rejected" /\ dId \notin pmProcs'
         => dId \notin pending']_vars

\* Spec sections 3 and 5(a): a deploy request is sent only to an agent
\* whose handshake has succeeded.
SubmitOnlyToHandshaken == dpc = "submit" => dId \in handshakes

\* The node never dereferences a nil stop mutex or a nil agent client in
\* StopWorkload (spec section 9: a double stop is to be detected and
\* rejected cleanly).
NoNilDereference == ~panicked


\* Spec section 5(b): no trigger can arrive for a workload that is not in
\* activeAgents, i.e. every subscription in subz that has not been drained
\* belongs to an active workload.
LiveSubsOwned ==
    \A w \in Ids : \A s \in Range(subz[w]) :
        <<w, s>> \notin drained => w \in active

\* Spec section 3 (lifecycle): a handshake timeout moves the agent from
\* created-and-started directly to stopped.  A process whose handshake
\* timed out is therefore not running, unless some StopWorkload is stopping
\* it or the node is going down (cancelled by the first-handshake policy,
\* or the process manager stopped).
TimedOutStopped ==
    \A w \in pmProcs :
        agentHs[w] = "timedout" =>
            \/ \E c \in Callers : spc[c] # "idle" /\ sId[c] = w
            \/ cancelled \/ pmClosed

\* The Go map operations each goroutine may run in its next step, as
\* <<goroutine, map, "r" or "w">>.  Lookups, assignments, deletes and range
\* loops count; len() does not, as the runtime's map checks do not see it.
MapAccess ==
    { <<c, "stopMutex", "r">> : c \in {c \in Callers : spc[c] = "getmutex"} }
    \cup { <<c, "subz", "r">> : c \in {c \in Callers : spc[c] = "drain"} }
    \cup { <<c, "activeAgents", "r">> :
             c \in {c \in Callers : spc[c] = "undeploy" /\ sReq[c] /\ sUndeploy[c]} }
    \cup { <<c, m, "w">> : c \in {c \in Callers : spc[c] = "delete"},
                           m \in {"activeAgents", "stopMutex"} }
    \cup (IF dpc = "submit" /\ dId \in pmProcs
            THEN {<<Deployer, "activeAgents", "w">>, <<Deployer, "pendingAgents", "w">>}
            ELSE {})
    \cup (IF dpc = "subscribe"
            THEN {<<Deployer, "activeAgents", "r">>, <<Deployer, "subz", "w">>}
            ELSE {})
    \cup (IF PoolMutexFree /\ pmState = "running" /\ ~pmClosed /\ started # Ids
            THEN {<<Deployer, "pendingAgents", "w">>, <<Deployer, "stopMutex", "w">>}
            ELSE {})
    \cup { <<w, "handshakes", "w">> :
             w \in {w \in Ids : agentHs[w] = "waiting" /\ w \in pmProcs
                                /\ w \notin clientDrained} }

\* Spec section 5 (locking discipline): the pool mutex guards every pool
\* map, and handshakes is written only under it.  No two goroutines can be
\* about to access the same Go map at once with at least one of them
\* writing (the runtime aborts on such an overlap): StopWorkload's deletes
\* run without the pool mutex, agentHandshakeSucceeded takes no lock.
NoMapRace ==
    \A a, b \in MapAccess :
        a[1] # b[1] /\ a[2] = b[2] => a[3] = "r" /\ b[3] = "r"



\* Every workload in activeAgents is listed by RunningWorkloads, except
\* while the StopWorkload that has just stopped its process is about to
\* delete it: a deploy binds the request before the agent accepts, a stop
\* that races the deploy makes it fail, and a stopped process leaves
\* activeAgents in the same StopWorkload call.
ActiveListed ==
    \A w \in active :
        \/ w \in RunningWorkloads
        \/ \E c \in Callers : spc[c] = "delete" /\ sId[c] = w


\* A workload leaves activeAgents only once its process has stopped: the
\* delete at the end of StopWorkload follows a successful StopProcess of
\* the same id, even when a rollback and a control-plane stop interleave,
\* so no active workload is forgotten while its agent still runs.
ActiveLeavesStopped ==
    [][\A w \in active \ active' : w \notin pmProcs']_vars

\* The steps of StopWorkload between mutex.Lock() and the deferred Unlock.
StopCritical == {"drain", "undeploy", "stopproc", "delete"}

\* The stop mutex serialises StopWorkload: two goroutines stopping the same
\* workload (a control-plane stop and a deploy's rollback, or two
\* control-plane stops) are never both between Lock and the deferred Unlock.
StopExclusive ==
    \A c1, c2 \in Callers :
        c1 # c2 /\ spc[c1] \in StopCritical /\ spc[c2] \in StopCritical
            => sId[c1] # sId[c2]

\* No stop mutex is leaked: a mutex is locked exactly when a StopWorkload
\* goroutine for its workload is between Lock and the deferred Unlock, so
\* every return path of StopWorkload unlocks what it locked.
StopHeldByStopper ==
    stopHeld = {sId[c] : c \in {d \in Callers : spc[d] \in StopCritical}}

\* The refinement mapping onto AgentPool: the lifecycle slot of each agent,
\* read off activeAgents, pendingAgents and the ids the process manager
\* has warmed.
PoolSlot ==
    [w \in Ids |-> IF w \in active THEN "active"
                   ELSE IF w \in pending THEN "pending"
                   ELSE IF w \in started THEN "gone"
                   ELSE "free"]

AP == INSTANCE AgentPool WITH slot <- PoolSlot

\* Spec section 3 (lifecycle warmed -> handshaken -> deployed -> stopped):
\* the pool implements AgentPool, i.e. admission, deploys, handshake
\* timeouts and StopWorkload only ever move an agent forward through its
\* lifecycle; a stopped or timed-out agent never re-enters the pool and
\* a deployed one is never selectable again.
PoolRefinement == AP!Spec

=============================================================================
