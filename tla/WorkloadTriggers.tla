-------------------------- MODULE WorkloadTriggers --------------------------
(***************************************************************************)
(* The trigger dispatcher of workload_mgr.go (generateTriggerHandler and   *)
(* the closure it returns), composed with the pool core of WorkloadManager *)
(* and the external bus.                                                   *)
(*                                                                         *)
(* A subscription installed by DeployWorkload is named by its handle       *)
(* <<w, s>>.  The bus delivers a message published on s to every          *)
(* subscription on s that has not been drained; each subscription has its  *)
(* own queue and its own goroutine, which runs the handler on one message  *)
(* at a time.  sub.Drain() only stops new deliveries: the messages already *)
(* queued are still handed to the handler.  The handler calls RunTrigger   *)
(* on the client it captured at subscription time (a blocking RPC that     *)
(* ends in a response or an error), then publishes a function-exec event   *)
(* and, on success, adds the parsed x-nex-runtime-ns header to             *)
(* functionRunTimeNano.                                                    *)
(*                                                                         *)
(* The handler takes no lock, so its steps interleave freely with deploys  *)
(* and stops.  okDeployed and forwarded are history variables for the    *)
(* properties; the code has no such state.                                *)
(***************************************************************************)
EXTENDS WorkloadManager, Integers, SequencesExt

CONSTANTS
    Headers,       \* runtime headers an agent may send, as character sequences
    RuntimeBits,   \* bit size given to strconv.ParseInt (64 in the code)
    MaxPublishes   \* bound on messages published on trigger subjects

ASSUME TriggersAssumption ==
    /\ RuntimeBits \in Nat \ {0}
    /\ MaxPublishes \in Nat
    /\ \A hdr \in Headers : hdr \in Seq(STRING)

Handles == Ids \X Subjects

VARIABLES
    queue,          \* queue[h]: messages delivered to subscription h, not yet handled
    hpc,            \* hpc[h]: "idle", or "run" while RunTrigger is in flight
    published,      \* messages published on trigger subjects so far
    delivered,      \* delivered[h]: messages the bus has delivered to h (history)
    execEvents,     \* execEvents[h]: function-exec events published by h's handler
    runTimeNano,    \* the functionRunTimeNano counter
    forwarded,      \* handles whose handler has called RunTrigger (history)
    okDeployed      \* <<w, s>> of every DeployWorkload that returned success (history)

trigVars == <<queue, hpc, published, delivered, execEvents, runTimeNano,
              forwarded, okDeployed>>
tvars == <<vars, trigVars>>

TriggersTypeOK ==
    /\ TypeOK
    /\ queue \in [Handles -> Nat]
    /\ hpc \in [Handles -> {"idle", "run"}]
    /\ published \in 0..MaxPublishes
    /\ delivered \in [Handles -> Nat]
    /\ execEvents \in [Handles -> Nat]
    /\ runTimeNano \in Int
    /\ forwarded \subseteq Handles
    /\ okDeployed \subseteq Handles

-----------------------------------------------------------------------------
(***************************************************************************)
(* strconv.ParseInt(str, 10, RuntimeBits): an empty string or a non-digit  *)
(* is a syntax error with value 0; a value beyond the range of the bit     *)
(* size is a range error with the value clamped to the nearest bound.      *)
(***************************************************************************)
DigitValue ==
    [d \in {"0", "1", "2", "3", "4", "5", "6", "7", "8", "9"} |->
        CASE d = "0" -> 0 [] d = "1" -> 1 [] d = "2" -> 2 [] d = "3" -> 3
          [] d = "4" -> 4 [] d = "5" -> 5 [] d = "6" -> 6 [] d = "7" -> 7
          [] d = "8" -> 8 [] d = "9" -> 9]

ParseInt(str) ==
    LET signed == str # <<>> /\ Head(str) \in {"+", "-"}
        neg    == signed /\ Head(str) = "-"
        digits == IF signed THEN Tail(str) ELSE str
        mag    == FoldLeft(LAMBDA acc, d : 10 * acc + DigitValue[d], 0, digits)
        cutoff == 2^(RuntimeBits - 1)
    IN CASE digits = <<>> \/ ~(Range(digits) \subseteq DOMAIN DigitValue)
              -> [val |-> 0, err |-> TRUE]
         [] ~neg /\ mag >= cutoff -> [val |-> cutoff - 1, err |-> TRUE]
         [] neg /\ mag > cutoff   -> [val |-> -cutoff, err |-> TRUE]
         [] OTHER -> [val |-> IF neg THEN -mag ELSE mag, err |-> FALSE]

-----------------------------------------------------------------------------
\* The subscription h is installed on the bus and not drained.
Live(h) == h[2] \in Range(subz[h[1]]) /\ h \notin drained

\* A message is published on subject s and the bus delivers one copy to
\* every live subscription on s.
Publish(s) ==
    /\ published < MaxPublishes
    /\ published' = published + 1
    /\ queue' = [h \in Handles |-> IF Live(h) /\ h[2] = s THEN queue[h] + 1
                                                           ELSE queue[h]]
    /\ delivered' = [h \in Handles |-> IF Live(h) /\ h[2] = s THEN delivered[h] + 1
                                                               ELSE delivered[h]]
    /\ UNCHANGED <<vars, hpc, execEvents, runTimeNano, forwarded, okDeployed>>

\* Bug variant: the handler goroutine runs with nothing queued.
HandlerStartEmptyQueue(h) ==
    /\ hpc[h] = "idle"
    /\ queue' = [queue EXCEPT ![h] = @ - 1]
    /\ hpc' = [hpc EXCEPT ![h] = "run"]
    /\ forwarded' = forwarded \cup {h}
    /\ UNCHANGED <<vars, published, delivered, execEvents, runTimeNano,
                   okDeployed>>

\* The subscription's goroutine takes the next message, opens the
\* workload-trigger span and sends RunTrigger to the captured client.
HandlerStart(h) ==
    /\ hpc[h] = "idle"
    /\ queue[h] > 0
    /\ queue' = [queue EXCEPT ![h] = @ - 1]
    /\ hpc' = [hpc EXCEPT ![h] = "run"]
    /\ forwarded' = forwarded \cup {h}
    /\ UNCHANGED <<vars, published, delivered, execEvents, runTimeNano,
                   okDeployed>>

\* RunTrigger can only succeed while the agent's process runs, its client
\* is not drained and the node's context is not cancelled.
CanRespond(w) == w \in pmProcs /\ w \notin clientDrained /\ ~cancelled

\* Bug variant: a runtime header that does not parse ends the handler
\* before the success event is published.
HandlerReturnSkipsBadHeader(h) ==
    /\ hpc[h] = "run"
    /\ hpc' = [hpc EXCEPT ![h] = "idle"]
    /\ \/ /\ execEvents' = [execEvents EXCEPT ![h] = @ + 1]
          /\ UNCHANGED runTimeNano
       \/ /\ CanRespond(h[1])
          /\ \E hdr \in Headers :
                LET p == ParseInt(hdr) IN
                /\ execEvents' = IF p.err THEN execEvents
                                          ELSE [execEvents EXCEPT ![h] = @ + 1]
                /\ runTimeNano' = runTimeNano + p.val
    /\ UNCHANGED <<vars, queue, published, delivered, forwarded, okDeployed>>

\* RunTrigger returns.  On an error: count the failure and publish
\* function-exec-failed.  On a response: parse the runtime header (an
\* error is only logged), publish function-exec-succeeded with the parsed
\* value, count it, add it to functionRunTimeNano and reply (a reply
\* failure is only logged).
HandlerReturn(h) ==
    /\ hpc[h] = "run"
    /\ hpc' = [hpc EXCEPT ![h] = "idle"]
    /\ execEvents' = [execEvents EXCEPT ![h] = @ + 1]
    /\ \/ UNCHANGED runTimeNano
       \/ /\ CanRespond(h[1])
          /\ \E hdr \in Headers : runTimeNano' = runTimeNano + ParseInt(hdr).val
    /\ UNCHANGED <<vars, queue, published, delivered, forwarded, okDeployed>>

\* A step of the pool core; the history okDeployed records the subjects of
\* a DeployWorkload that returns success.
CoreStep ==
    /\ Next
    /\ okDeployed' =
         IF dpc # "idle" /\ dpc' = "idle" /\ dResult' = "ok"
           THEN okDeployed \cup {<<dId, s>> : s \in Range(dReq)}
           ELSE okDeployed
    /\ UNCHANGED <<queue, hpc, published, delivered, execEvents, runTimeNano,
                   forwarded>>

TInit ==
    /\ Init
    /\ queue = [h \in Handles |-> 0]
    /\ hpc = [h \in Handles |-> "idle"]
    /\ published = 0
    /\ delivered = [h \in Handles |-> 0]
    /\ execEvents = [h \in Handles |-> 0]
    /\ runTimeNano = 0
    /\ forwarded = {} /\ okDeployed = {}

HandlerStep(h) == HandlerStart(h) \/ HandlerReturn(h)

\* A panic ends every goroutine of the node, handlers included.
TNext ==
    \/ CoreStep
    \/ ~panicked /\ \E s \in Subjects : Publish(s)
    \/ ~panicked /\ \E h \in Handles : HandlerStep(h)

TSpec == TInit /\ [][TNext]_tvars

\* The bus runs one goroutine per subscription and RunTrigger returns (a
\* response, an error or the client's timeout): every handler is weakly
\* fair.  No fairness is assumed of the pool core or of the publishers.
TFairSpec == TSpec /\ \A h \in Handles : WF_tvars(~panicked /\ HandlerStep(h))

-----------------------------------------------------------------------------
(***************************************************************************)
(* Properties.                                                             *)
(***************************************************************************)

\* Spec section 4.E and error kinds (TriggerDispatchFailure is recorded,
\* counted and published): every message the bus delivers to a trigger
\* subscription, drained or not, eventually leads to a function-exec event
\* of the handler, success or failure, unless the node crashes.
ExecOutcomeReported ==
    \A h \in Handles : \A n \in 1..MaxPublishes :
        delivered[h] >= n ~> (execEvents[h] >= n \/ panicked)

\* Spec section 8.4: every trigger arrival on subject s bound to w follows
\* a strictly earlier successful DeployWorkload of w that declared s.
TriggerAfterDeploy == forwarded \subseteq okDeployed

\* Spec ordering guarantee (c) and scenario S6: StopWorkload drains the
\* trigger subscriptions before it stops the process, so no trigger is
\* forwarded to the agent of a workload whose process has been stopped.
TriggerOnlyToRunning ==
    [][\A h \in Handles : hpc[h] = "idle" /\ hpc'[h] = "run" => h[1] \in pmProcs]_tvars


\* Spec section 4.E (triggers run deployed workloads): a trigger is never
\* forwarded to an agent that is still waiting in the pool: its lifecycle
\* slot is active or gone ("gone" also holds agents that timed out or failed
\* to start, which never had a subscription), even when a subscription
\* outlives its deploy's rollback or its stop.
TriggerOnlyToAccepted ==
    \A h \in forwarded : PoolSlot[h[1]] \in {"active", "gone"}

\* The handler goroutine of a subscription neither loses nor duplicates a
\* message: every message the bus delivered to h is still queued, is being
\* handled by RunTrigger, or has led to exactly one function-exec event.
MessagesAccounted ==
    \A h \in Handles :
        delivered[h] = queue[h] + execEvents[h] + (IF hpc[h] = "run" THEN 1 ELSE 0)

=============================================================================
