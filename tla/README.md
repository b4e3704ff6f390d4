# Formal models of the nex workload manager

This directory holds the TLA+ models, TLC configurations and TLAPS proofs
for the coordination core of the nex node: `src/internal/node/workload_mgr.go`.
`spec.md` describes that core as components A–G. The core keeps a pool of
warmed agent processes. It deploys workloads onto them, attaches trigger
subscriptions, and stops them again, all while the process manager's
callbacks, the agents' handshake timers and control-plane stop requests run
concurrently.

## 1. The system and its parts

| part (spec) | code | state it changes | in the model |
|---|---|---|---|
| A Agent client (external) | not in `src/` | handshake state, drained | `agentHs`, `clientDrained` (from the spec) |
| B Process manager (external) | not in `src/` | warmed ids, running processes, bound deploy request | `started`, `pmProcs`, `pmReq`, `pmClosed` (from the spec) |
| C Pool & lifecycle core | the `WorkloadManager` struct, `Start`, `OnProcessStarted`, `agentHandshakeTimedOut`, `agentHandshakeSucceeded`, `selectRandomAgent` | `pendingAgents`, `activeAgents`, `handshakes`, `stopMutex`, the pool mutex, `cancel` | `WorkloadManager.tla` |
| D Deployment orchestrator | `DeployWorkload` | the pool maps, `subz` | `WorkloadManager.tla` |
| E Trigger dispatcher | `generateTriggerHandler` and its closure | counters, published events | `WorkloadTriggers.tla`, composed with the core |
| F Stop/undeploy controller | `StopWorkload`, `Stop` | `activeAgents`, `stopMutex`, the stop mutexes, `closing`, subscriptions and clients drained | `WorkloadManager.tla` |
| queries | `LookupWorkload`, `RunningWorkloads` | none | operators of `WorkloadManager.tla` |
| G Event/log relay | not in `src/` | none | not modelled |
| control API | `src/control-api/utils.go` | none | `NATSDigest.tla` (`SanitizeNATSDigest`); the message types are not modelled |
| abstract pool lifecycle (spec 3, 4.C) | none | none | `AgentPool.tla`, implemented by the core |

How the parts interact:

1. The process manager calls `OnProcessStarted(id)` for each warmed process. Under the pool mutex, this starts an agent client, puts it into `pendingAgents` and creates `stopMutex[id]`.
2. The client's timer then calls one of two callbacks:
   - `agentHandshakeSucceeded` writes `handshakes[id]` and takes no lock;
   - `agentHandshakeTimedOut` deletes the pending entry under the pool mutex. It cancels the node when no handshake has ever succeeded.
3. `DeployWorkload` holds the pool mutex for its whole body. It:
   1. selects any pending agent;
   2. binds the request at the process manager;
   3. submits it to the agent;
   4. on acceptance, moves the agent from pending to active and subscribes to each trigger subject, appending to `subz[id]`.

   A rejection, or a failed subscription, rolls back by calling `StopWorkload` with the pool mutex still held.
4. `StopWorkload(id, undeploy)` takes no pool mutex. It runs on the deployer and on control-plane goroutines. Its steps:
   1. look up the request;
   2. lock `stopMutex[id]`;
   3. drain the subscriptions;
   4. if `undeploy` is set, fetch the active client, defer its `Drain` and send an `Undeploy`;
   5. stop the process;
   6. delete the `activeAgents` and `stopMutex` entries.

   The deferred calls run at every return.
5. `Stop()` uses an atomic counter as a one-shot latch. The first caller stops the process manager.
6. Each trigger subscription of a deployed workload has its own goroutine. It takes one queued message at a time and calls `RunTrigger` on the agent client it captured at subscription time. It then publishes a function-exec event and, on success, adds the `x-nex-runtime-ns` header to `functionRunTimeNano`. No lock is taken, so the handlers interleave freely with deploys and stops.

### Hazards

These are the behaviours that are hard to test. `PROJECT.json` lists each one at its source line.

- Interleavings of a deploy with a concurrent control-plane stop:
  - `deployRequest` is read before the stop mutex is taken, and is stale when used;
  - `subz` is appended after a stop has ranged over it.
- A double stop locks a nil mutex (the stale `stopMutex` lookup).
- A control-plane stop and the deploy's rollback stop of the same workload run at once. Only the per-workload stop mutex keeps their drains, undeploys, `StopProcess` calls and deletes apart.
- A partial failure, where `StopProcess` fails after the client's drain was deferred.
- The lock order. A rollback stop waits on a stop mutex while it holds the pool mutex.
- Admission that puts the client into the pool before its handshake.
- A leaked process after a handshake timeout, once another agent's handshake has succeeded.
- A process manager `Stop` that fails and is never retried.
- Asynchronous `sub.Drain` with triggers still in flight.
- Unlocked Go map writes (`handshakes`, and the deletes in `StopWorkload`).
- A trigger that reaches the agent before its deploy has succeeded, or after its process was stopped.
- A runtime header that does not parse, or is out of range, and is still counted.
- A digest whose base64 padding contains `=` as well as the separator.
- A listing (`RunningWorkloads`) that misses an active workload, or dereferences a process's nil request.

## 2. Modules

### `WorkloadManager.tla`: parts B, C, D, F and the control-plane caller

**State.** Each Go map becomes the set of its keys, or a function on the ids:

| variable | code |
|---|---|
| `pending` | `pendingAgents` |
| `active` | `activeAgents` |
| `handshakes` | `handshakes` |
| `stopMutex` | the keys of `stopMutex` |
| `stopHeld` | which of those mutexes are locked |
| `subz[w]` | the subjects subscribed for `w`, in order |
| `drained` | the `<<id, subject>>` handles on which `Drain` was called |
| `cancelled` | `w.cancel()` has been called |
| `closing` | the `closing` counter of `Stop` |
| `panicked` | a nil pointer was dereferenced |

The variable `panicked` stands for a nil dereference, which crashes the Go process. After it, no step is possible.

The locals of the running `DeployWorkload` are `dpc`, `dId`, `dReq`, `dIdx` and `dResult`. The locals of each `StopWorkload` call, one per calling goroutine `c`, are `spc[c]`, `sId[c]`, `sUndeploy[c]`, `sReq[c]` and `sDrainClient[c]`.

**Abstractions.**

- A deploy request is abstracted to its list of trigger subjects. `<<>>` is a request without triggers. This is the only part of a request that the core's control flow reads.
- Deploys are serialised by the pool mutex. So one `Deployer` thread stands for all `DeployWorkload` calls, and `dpc = "idle"` means the pool mutex is free (`PoolMutexFree`).
- `OnProcessStarted` and `agentHandshakeTimedOut` hold the pool mutex for their whole body. Each is therefore one atomic step, enabled only while that mutex is free.

**Actions.** Each action is one segment of code between two interleaving points. Every early return is an action or a disjunct of its own.

| action | code |
|---|---|
| `OnProcessStarted(w)` | lines 318-340, including a client `Start` that fails |
| `AgentHandshakeSucceeded(w)` | lines 355-358 |
| `AgentHandshakeTimedOut(w)` | lines 342-353 |
| `DeployNoAgent` | `selectRandomAgent` returns no agent (lines 443-456) |
| `DeployPrepare(w, r)` | selection and `PrepareWorkload`, success or failure (154-163) |
| `DeploySubmitFails` | 171-174 |
| `DeployAccepted` | 176-180 |
| `DeploySubscribed` | one trigger subject (182-202) |
| `DeploySubscribeFails` | 183-193 |
| `DeployRejected` | 204-207 |
| `StopLookup` | 269-273 |
| `StopGetMutex` | 275 |
| `StopLock` | 276-277 |
| `StopDrain` | 281-288 |
| `StopUndeploy` | 290-300 |
| `StopProcess` | 302-306 |
| `StopDelete` | 308-313 |
| `StopReturn` | the deferred `Drain` and `Unlock` (277, 292-294); when the caller is the deployer, the deploy also returns |
| `NodeStop` | `Stop` (253-265), the latch counted modulo `2^ClosingWidth`; the winner's `procMan.Stop` may fail |
| `Start` | `Start` (137-146): the process manager starts, or fails and cancels the node |
| `StopRequest(c, w)` | the control API's stop handler, modelled from the spec: `StopWorkload(w, true)` for a workload with a bound request |

**Queries.** The queries change no state. `LookupWorkload(w)` is `pmReq[w]`. `RunningWorkloads` is the set of running processes with a request bound. The code dereferences each listed process's request, so a listed process without one would crash the listing.

**Constants.**

| constant | meaning |
|---|---|
| `Ids` | the workload ids |
| `Subjects` | the trigger subjects |
| `TriggerLists` | the requests |
| `Stoppers` | the control-plane goroutines |
| `Deployer` | the deploying goroutine |
| `NoId`, `NoReq` | null values |
| `MaxNodeStops` | the bound on `Stop` calls |
| `ClosingWidth` | the bit width of `closing` (32 in the code) |

`ConstantsAssumption` states what the proofs need of them.

**Modules that use it.**

- `MCWorkloadManager.tla` instantiates it with two subjects and the trigger lists `<<>>`, `<<s1>>` and `<<s1, s2>>`. These cover no trigger, a single trigger, and a second subscription after a first one succeeded.
- `WorkloadManagerProofs.tla` holds the TLAPS proofs about the core, and `WorkloadTriggersProofs.tla` those about the composition with the trigger handler.
- `StopMutexProofs.tla` extends `WorkloadManagerProofs.tla` with the proofs about the stop mutex.

### `WorkloadTriggers.tla`: part E composed with the core

This module EXTENDS `WorkloadManager`. A subscription is named by its handle `<<w, s>>`. The bus is modelled from the spec, as are `Publish`, `Live` and `CanRespond`.

| variable | meaning |
|---|---|
| `queue[h]` | messages delivered to `h` and not yet handled |
| `hpc[h]` | `"run"` while `RunTrigger` is in flight |
| `published` | messages published so far, bounded by `MaxPublishes` |
| `runTimeNano` | `functionRunTimeNano` |
| `delivered`, `execEvents`, `forwarded`, `okDeployed` | history variables for the properties |

| action | code |
|---|---|
| `Publish(s)` | the bus: one copy to every live (subscribed, not drained) handle on `s` |
| `HandlerStart(h)` | the closure takes a message and sends `RunTrigger` (lines 361-382) |
| `HandlerReturn(h)` | `RunTrigger` returns an error, or a response whose header is parsed, published and counted (382-440) |
| `CoreStep` | any step of `WorkloadManager` |

`ParseInt` is `strconv.ParseInt(s, 10, RuntimeBits)`, modelled by what it does:

- a syntax error yields 0;
- an out-of-range value is clamped to the nearest bound;
- both report an error.

`sub.Drain()` only stops new deliveries. Messages already queued are still handled. A panic of the node ends every handler.

`MCWorkloadTriggers.tla` uses one agent and one stopper. Its headers are a missing one (`<<>>`), `"42"` and `"300"`, which is out of range for `RuntimeBits = 8`.

### `AgentPool.tla`: the abstract pool lifecycle

This module has one variable, `slot[w]`, which is one of `free`, `pending`, `active` or `gone`. Its actions `Warm`, `Discard`, `Deploy`, `Expire` and `Retire` only move a slot forward.

`WorkloadManager` maps onto it with `PoolSlot`:

- active if the id is in `activeAgents`;
- else pending if it is in `pendingAgents`;
- else gone if it was warmed;
- else free.

It instantiates `AP == INSTANCE AgentPool WITH slot <- PoolSlot`, and `PoolRefinement == AP!Spec` is the property.

### `NATSDigest.tla`: `SanitizeNATSDigest`

Go strings are byte sequences here. The code's parts are modelled by what they do:

- `strings.Cut` at the first `=` (`CutIndex`);
- `base64.URLEncoding.DecodeString` (`Decode`), which skips CR and LF, needs whole 4-character groups with up to two trailing `=`, and does not check the trailing bits.

`Encode` is the reference: `EncodeToString`, the way NATS forms a digest. The variable `hash` grows one byte at a time from `{0, 107, 190, 251, 255}`, up to four bytes. This covers every padding case and letters, digits, `-` and `_` in the encoding.

## 3. Runs

| run | cfg | checks | result |
|---|---|---|---|
| core_safety | `MCWorkloadManager.cfg` | `TypeOK`, `PoolDisjoint`, `ActiveOwned`, `ActiveListed`, `NoDeadlock`, `StopExclusive`, `StopHeldByStopper`, `PoolRefinement`, `ActiveLeavesStopped` | pass, 3.6 M states |
| deploy_liveness | `MCWorkloadManagerLive.cfg` | `DeployCompletes` | pass, 82 k states |
| trigger_liveness | `MCTriggersLive.cfg` | `TriggersTypeOK`, `ExecOutcomeReported`, `TriggerOnlyToAccepted`, `MessagesAccounted` | pass, 131 k states |
| digest_round_trip | `MCNATSDigest.cfg` | `DigestRoundTrip` | pass, 781 states |
| rejected_stays_pending | `MC_RejectedNotPending.cfg` | `RejectedNotPending` | violated |
| submit_before_handshake | `MC_SubmitOnlyToHandshaken.cfg` | `SubmitOnlyToHandshaken` | violated |
| nil_dereference | `MC_NoNilDereference.cfg` | `NoNilDereference` | violated |
| live_sub_after_stop | `MC_LiveSubsOwned.cfg` | `LiveSubsOwned` | violated |
| orphan_process | `MC_TimedOutStopped.cfg` | `TimedOutStopped` | violated |
| go_map_race | `MC_NoMapRace.cfg` | `NoMapRace` | violated |
| trigger_before_deploy | `MC_TriggerAfterDeploy.cfg` | `TriggerAfterDeploy` | violated |
| trigger_after_stop | `MC_TriggerOnlyToRunning.cfg` | `TriggerOnlyToRunning` | violated |

What the passing runs check:

- **`PoolDisjoint`** (spec I1): no id is in `pendingAgents` and `activeAgents` at once.
- **`ActiveOwned`** (spec I2): every active id still has its stop mutex, so a stop that reads `stopMutex[id]` while the id is active finds the mutex. It does not cover a second stop that reads the entry after a first stop deleted it, with the id already gone from `activeAgents`. That case is finding 3 (`NoNilDereference`).
- **`ActiveListed`**: every active workload is listed by `RunningWorkloads`, except in the one step between `StopProcess` and the delete of the stop that removes it. A deploy binds the request before the agent accepts. A stop that races the deploy makes the deploy fail.
- **`NoDeadlock`**: every state of a live node has a successor. The lock order (pool mutex, then stop mutex, and `StopWorkload` never takes the pool mutex) leaves no cycle of waits, even when a rollback stop waits for a control-plane stop of the same workload.
- **`StopExclusive`**: two `StopWorkload` calls on the same workload are never both between `mutex.Lock()` and the deferred `Unlock`. The two calls are a control-plane stop and the deploy's rollback.
- **`StopHeldByStopper`**: a workload's stop mutex is locked exactly while some `StopWorkload` on that workload is in that critical section. No return path leaks the lock, including the early return of a failed `StopProcess`.
- **`DeployCompletes`**: every deploy, rollback included, returns and releases the pool mutex, unless the node crashes.
- **`ExecOutcomeReported`**: every message delivered to a trigger subscription, drained or not, ends in a function-exec event, unless the node crashes.
- **`PoolRefinement`**: the core implements `AgentPool`. Every step of the core is a forward move of one slot or leaves every slot alone. A stopped or timed-out agent never re-enters the pool, and an active one is never selected again.
- **`ActiveLeavesStopped`** (an action property): a step that removes a workload from `activeAgents` happens only after its process has stopped. A failed `StopProcess` returns with the workload still active, so a running process is never forgotten. The price is that its drained client stays in `activeAgents`, which breaks spec I5. No run checks I5.
- **`TriggerOnlyToAccepted`** (spec 4.E): the handler calls `RunTrigger` only for an agent that accepted its deploy, whose `AgentPool` slot is active or gone. A trigger may still precede the end of its deploy (finding 7), but it never reaches an agent that is only pending.
- **`MessagesAccounted`**: for every subscription, the messages the bus delivered equal those queued, plus the one in `RunTrigger`, plus the exec events published. The handler loses and duplicates none, whatever the header.
- **`DigestRoundTrip`**: `SanitizeNATSDigest` returns the raw hash of every digest NATS forms. The cut happens at the separator, not at a padding `=`.

Each of these properties has a mutant: a plausible bug in the code that TLC catches. The mutant is written as a variant of one definition, defined just before it.

| property | mutant | bug |
|---|---|---|
| `TypeOK` | `DeploySubscribedWholeList` | records the whole subject slice as one handle |
| `PoolDisjoint` | `DeployAcceptedKeepsPending` | the accept path forgets the pending delete |
| `ActiveOwned` | `OnProcessStartedNoMutex` | admission forgets `stopMutex[id]` |
| `ActiveListed` | `StopDeleteKeepsActive` | the stop forgets `delete(activeAgents, id)` |
| `NoDeadlock` | `StopLockUnderPoolMutex` | `StopWorkload` also takes the pool mutex |
| `DeployCompletes` | `StopProcessNoUnlock` | the error return skips `Unlock` |
| `StopExclusive` | `StopLockNoDefer` | `mutex.Unlock()` runs at once instead of deferred |
| `StopHeldByStopper` | `StopProcessNoUnlock` | the error return skips `Unlock` |
| `TriggersTypeOK` | `HandlerStartEmptyQueue` | the handler runs with nothing queued |
| `ExecOutcomeReported` | `HandlerReturnSkipsBadHeader` | a bad header ends the handler before the event |
| `PoolRefinement` | `DeployAcceptedKeepsPending` | an accepted agent stays selectable |
| `DigestRoundTrip` | `SanitizeCutLast` | the input is cut at its last `=` |
| `ActiveLeavesStopped` | `StopProcessIgnoresError` | the stop ignores `StopProcess`'s error and deletes |
| `TriggerOnlyToAccepted` | `DeployAcceptedKeepsPending` | an accepted agent stays pending |
| `MessagesAccounted` | `HandlerReturnSkipsBadHeader` | a bad header ends the handler before the event |

**Findings.** The violation runs are disagreements between the code and `spec.md`, or its comments. `PROJECT.json` gives each finding with its source line.

1. A rejected deploy leaves the dead agent in `pendingAgents`. `RejectedNotPending` is an action property checked at the step where `DeployWorkload` returns from its rollback `StopWorkload(id, false)` with the process stopped. A fix that deletes `pendingAgents[id]` in the stop's delete step satisfies it. The code fails it, because nothing deletes the entry. This contradicts spec section 3 (rejection moves the agent from pending to stopped) and scenario S3.
2. Agents are selectable before their handshake. This contradicts spec sections 3 and 5(a), and the comment on `pendingAgents`.
3. A control-plane stop that races a deploy dereferences a nil agent client, and a double stop locks a nil mutex. Both crash the node, where spec section 9 asks for a clean rejection.
4. A stop that runs during trigger subscription leaves an undrained subscription for a workload that is no longer active. This contradicts spec 5(b).
5. A handshake timeout after another agent's handshake succeeded deletes only `pendingAgents[id]`. It does not cancel the node, and nothing stops the process (`TimedOutStopped`). This contradicts the lifecycle of spec section 3, where a timeout moves the agent directly to stopped. A failed client `Start` also leaves its process running, but spec 4.C prescribes that return, so no property counts it.
6. The unlocked `handshakes` write and the unlocked deletes of `StopWorkload` can overlap other accesses to the same Go map. The runtime aborts on such an overlap.
7. A trigger reaches the agent while the deploy is still subscribing, and that deploy may still roll back. This contradicts spec 8.4.
8. A message queued before the asynchronous `sub.Drain()` is forwarded after the process was stopped. This contradicts spec ordering guarantee (c) and scenario S6.

**Bounds.** Why the bounds are enough:

- Two ids are the fewest with which admission, a deploy and a concurrent stop involve different agents. With them, a second deploy can pick the agent a rejected deploy left behind, and one agent's handshake can succeed while the other's times out without cancelling the node.
- Three trigger lists cover zero, one and two subscriptions. Two are needed for a stop to fall between two subscriptions, and for a trigger to arrive between them.
- One control-plane stopper plus the deployer's rollback gives two concurrent `StopWorkload` calls in the safety run.
- The deploy liveness run uses one id and two stoppers. It therefore has three goroutines contending for one stop mutex, which is where a wait could be lost. It does this at a size TLC checks in seconds.
- The trigger runs use one id, one stopper and two publishes. That allows a message queued before a drain and a second one after it.
- `MaxNodeStops = 2` covers the first `Stop` call and a later one.
- The digest run covers hashes of zero to four bytes. That is every padding case, and more than one group.

**Fairness.** The core's fairness is `FairSpec`:

- weak fairness for the deploy and for every `StopWorkload` step, because a runnable goroutine is eventually scheduled;
- strong fairness for acquiring a stop mutex, because Go's `sync.Mutex` enters starvation mode and hands the lock FIFO to a waiter blocked for more than 1 ms.

`TFairSpec` makes each trigger handler weakly fair. The bus runs one goroutine per subscription, and `RunTrigger` ends in a response, an error or the client's timeout. Nothing is assumed about the environment: admission, handshakes, publishes, control-plane stops and node stops may stop happening at any time.

`CHECK_DEADLOCK FALSE` is set because the only terminal states are panics, where the real process has crashed, and the bounds of the history counters. `NoDeadlock` checks every other state of the core.

## 4. Proofs (`WorkloadManagerProofs.tla`, `StopMutexProofs.tla`, `WorkloadTriggersProofs.tla`, TLAPS)

These theorems hold for every value of the constants that satisfies `ConstantsAssumption`. That assumption says:

- the trigger lists are duplicate-free sequences of subjects;
- the deployer is not a stopper;
- the null values are fresh;
- the bounds are natural numbers.

The theorems:

- **`TypeCorrect`**: `Spec => []TypeOK`.
- **`PoolDisjointness`**: `Spec => []PoolDisjoint` (I1).
- **`ActiveOwnership`**: `Spec => []ActiveOwned` (I2).
- **`ActiveListing`**: `Spec => []ActiveListed`.
- **`PoolRefines`**: `Spec => PoolRefinement`. The core implements the abstract lifecycle of `AgentPool`.
- **`ActiveStopsFirst`**: `Spec => ActiveLeavesStopped`, the action property.
- **`StopMutualExclusion`** (in `StopMutexProofs`): `Spec => []StopExclusive`.
- **`StopLocksReleased`** (in `StopMutexProofs`): `Spec => []StopHeldByStopper`.
- **`TriggersReachAccepted`** (in `WorkloadTriggersProofs`): `TSpec => []TriggerOnlyToAccepted`.
- **`TriggerAccounting`** (in `WorkloadTriggersProofs`): `TSpec => []MessagesAccounted`.

The trigger theorems need nothing of `TriggersAssumption`: they hold for any headers, bit size and bound on publishes.

### The inductive invariant `IInv`

`IInv == TypeOK /\ LocalsOK /\ Admitted /\ PoolDisjoint`.

`TypeOK` alone is not inductive. For example, `DeploySubscribed` appends `dReq[dIdx]`, which is a subject only because `dIdx` lies in `1..Len(dReq)` while the deploy is subscribing (`LocalsOK`). `PoolDisjoint` needs `Admitted`: every pooled or running id was warmed. This matters because `OnProcessStarted` adds a fresh id to `pending` without looking at `active`.

### The inductive invariant `OInv`

`ActiveOwned` is kept by `OInv`, whose step lemma assumes `IInv`. It needs five more conjuncts:

- `SubmitPending`: the deployed id is still pending while the deploy waits, because the timeout needs the pool mutex.
- `PendingOwned`: a pending id with a running process owns its mutex. With `SubmitPending`, this is why the accept path adds an owner of a mutex.
- `DeleteStopped`: a `StopWorkload` at the delete step has stopped the process. This is why the delete cannot strand an id that a deploy could still accept.
- `LocalsStarted`: the ids that goroutines work on were warmed, so admission of a fresh id touches none of them.
- `BoundRunning`: a bound request implies a running process.

### The inductive invariant `LInv`

`ActiveListed` is kept by `LInv == ActiveListed /\ SubmitBound /\ DeployerInStop`, whose step lemma assumes `IInv` and `OInv`.

- `SubmitBound`: while the deploy waits for the agent, the request is bound if the process runs. This is why accepting puts into `active` an id that `RunningWorkloads` lists.
- `DeployerInStop`: the deploy goroutine is inside its rollback `StopWorkload` exactly when `dpc = "stop"`. A rollback stop starts from `"idle"`, so it cannot overwrite a delete step on which `ActiveListed` relies.

TLC checked every strengthening as an invariant on the core_safety instance before it was proved.

### The refinement proof

`PoolRefines` rests on `IInv` and `OInv`. `StepRefines` shows that every step of `Next` is a step of `AP!Next` or leaves `PoolSlot` unchanged:

| core step | abstract step |
|---|---|
| `OnProcessStarted` | `Warm`, or `Discard` when the client start fails |
| `AgentHandshakeTimedOut` | `Expire` |
| `DeployAccepted` | `Deploy` |
| `StopDelete` | `Retire` |
| every other action | a stutter |

The lemma `SlotMoves` states what an `EXCEPT` on `PoolSlot` is when one id changes sets. `SlotUnchanged` and `OtherStepKeepsPool` give the stutters. `Init` maps to `AP!Init` because no id is warmed initially.

### The action property

Only `StopDelete` removes an id from `active`, and it leaves `pmProcs` unchanged. `DeleteStopped`, a conjunct of `OInv`, says that the id of a stop at its delete step has no running process. `StepActiveLeaves` states the step fact under `IInv /\ OInv`, and `ActiveStopsFirst` combines it with `[](IInv /\ OInv)` by PTL.

### The stop mutex invariant `MInv`

`StopMutexProofs` proves `MInv == HeldByCritical /\ StopExclusive /\ StopHeldByStopper`. Its step lemma assumes `IInv` and `LInv`. Here `StopCritical` names the steps `"drain"`, `"undeploy"`, `"stopproc"` and `"delete"`, which run between `mutex.Lock()` and the deferred `Unlock`.

- `HeldByCritical`: a goroutine in the critical section holds its workload's mutex in `stopHeld`. With it, `StopLock`, whose guard is `sId[c] \notin stopHeld`, cannot admit a second goroutine on the same id.
- `StopExclusive` is needed for `StopHeldByStopper`. The unlock in `StopReturn` removes `sId[c]` from `stopHeld`, and this is correct only if no other goroutine inside is on the same id.
- `LInv`'s `DeployerInStop` is needed because the rollbacks (`DeployRejected`, `DeploySubscribeFails`) start a `StopWorkload` with no guard on `spc`. `DeployerInStop` says that the deployer's stop is then idle, so it is not inside.

Each step moves only one goroutine. `HeldMoves(c)` says how `stopHeld` changes in such a step. `HeldSetStep` turns `HeldMoves(c)` into `StopHeldByStopper'`, and `OneCallerStep` shows all of `MInv'` for any step of one goroutine. `CallStopMInv`, `ReleaseMInv` and `InsideMInv` cover a stop's start, its return and the steps inside.

TLC checked `IInv /\ LInv /\ MInv` as an invariant on the core_safety instance (3.6 M states) before the proof.

### The trigger invariant `TInv`

A step of the composition `TNext` is a step of the core's `Next`, or it leaves the core's variables alone (`CoreProjection`). So `IInv` and `OInv` hold under `TSpec`, and so does the core's refinement of `AgentPool`. On top of them:

`TInv == CountersOK /\ SubzAccepted /\ QueuedSubscribed /\ TriggerOnlyToAccepted /\ MessagesAccounted`

- `SubzAccepted`: only an agent whose slot is active or gone has subscriptions. The one step that adds a subscription (`DeploySubscribed`) requires the id to be in `activeAgents`. `AcceptedStays` shows that an active or gone slot stays so in every step of `AgentPool`, so `StepRefines` carries the conjunct across every core step.
- `QueuedSubscribed`: a message is queued or handled only on an installed subscription. The bus delivers only to live subscriptions, and subscriptions are only appended (`SubzStep`, `AppendRange`).
- Together they give `TriggerOnlyToAccepted`: `HandlerStart` takes a queued message, so its agent has a subscription, so it has been accepted.
- `CountersOK` types the counters. It omits `runTimeNano`, whose type depends on the value of `ParseInt`'s fold.

TLC checked `IInv /\ OInv /\ TInv` as an invariant of `TSpec` on the trigger_liveness instance (131 k states) before the proof.

### How the proofs are laid out

Each step lemma has one step per action, and under it one leaf per conjunct. Branchy actions are split by `CASE`. `StopReturnType` is a lemma about the return path of `StopWorkload`, shared by three actions. Each temporal theorem ends `BY ..., PTL DEF Spec`.

### What stays with TLC

- `DeployCompletes`, `ExecOutcomeReported` and `NoDeadlock`, because liveness and `ENABLED` are out of TLAPS's reach.
- `TriggersTypeOK`, because `runTimeNano \in Int` needs the value of `ParseInt`, which `FoldLeft` computes. `DigestRoundTrip`, because it is a statement about hashes of every length: `Decode` filters with `SelectSeq`, whose definition is recursive, and the groups of `Encode` and `Decode` line up only by induction over the length. What a fold or a recursive definition computes for every input needs induction over data, which the installed provers cannot instantiate.
- The violated properties, which are findings and not theorems.

## 5. Reached by the model but not checked by a run

The model reaches the following behaviours of the code. Each is a divergence from the spec or a comment, and `PROJECT.json` lists each, except the wrap, as a hazard with a note. No run states a property about them.

- A lost deploy reply: the process manager keeps the bound request while the agent stays pending. `LookupWorkload` then finds a pending workload, against its own comment.
- The `uint32` latch of `Stop` wraps after 2^32 calls, and the process manager is stopped a second time. `ClosingWidth` makes the width a constant, but the runs keep 8 bits and two calls. No realistic node makes that many calls, so this is not listed as a hazard.
- The winner's `procMan.Stop` fails. Every later `Stop` returns success, and nothing retries.
- A runtime header that is out of range adds `ParseInt`'s clamped maximum to `functionRunTimeNano`. A missing one adds 0.

## 6. Not modelled

- **Data races as undefined behaviour.** An overlap of Go map accesses is a violation of `NoMapRace`. The model does not go on to explore the runtime abort or the corrupted map.
- **Whether `ListProcesses` lists processes without a request.** The process manager contract (spec section 6) does not say. If it does, `RunningWorkloads` dereferences a nil request for a pending agent. This is listed as a hazard.
- **Event/log relay (G)** and telemetry. These are publishes that change no state the core reads, and the relay's code is not in `src/`.
- **Control-API message types** (`Envelope`, `NewEnvelope`, responses). These are plain data and a constructor, with no state or concurrency.
- **Construction** (`NewWorkloadManager`). It chooses a process manager and builds empty maps, which is the `Init` state.
