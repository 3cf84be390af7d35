--------------------------- MODULE EventDelivery ---------------------------
(***************************************************************************)
(* Topic events on their way to scheduler runs.  The event row is claimed  *)
(* under a lease by the dispatcher (pkg/events/dispatcher.go), offered to  *)
(* the bounded in-process bus, and taken from it by the single event loop  *)
(* of the scheduler controller (pkg/schedulers/event_dispatcher.go).  A    *)
(* webhook event is fanned out all or nothing: queue slots, then the       *)
(* schedulers, then the run rows, and only then the acknowledgement.  Any  *)
(* other event starts one goroutine per target.  The stop endpoint         *)
(* (pkg/events/webhooks/event_stop.go) withdraws events and cancels runs   *)
(* while all of that goes on.                                              *)
(***************************************************************************)
EXTENDS Naturals, Sequences, FiniteSets, FiniteSetsExt

CONSTANTS
    Events,        \* event rows, numbered in the order of their sequence column
    Targets,       \* event triggers, numbered in the order they are collected
    Schedulers,
    SchedulerOf,   \* [Targets -> Schedulers]
    Subscribers,   \* what CollectEventTargets may return for each event
    Parallel,      \* the schedulers whose concurrency policy is parallel
    Webhook,       \* the events whose source is a webhook
    Undecodable,   \* the events whose payload need not be a JSON object
    StopScope,     \* the events one stop request covers
    StopMayFail,   \* the stop request's own reads may fail
    Workers,       \* webhook queue workers, 0 for no limit
    BusSize,       \* capacity of the bus channel
    Outcomes,      \* how the engine may end a run that nobody stops
    MaxClaims,     \* bound: claim ids per event
    MaxCrashes,    \* bound: daemon crashes
    MaxFaults,     \* bound: failing store calls
    None

ASSUME EventsNumbered == Events \subseteq Nat /\ Targets \subseteq Nat
ASSUME TargetsFinite == IsFiniteSet(Targets)
ASSUME TargetsKnown ==
    /\ SchedulerOf \in [Targets -> Schedulers]
    /\ Subscribers \subseteq [Events -> SUBSET Targets]
    /\ Parallel \subseteq Schedulers
    /\ Webhook \cup Undecodable \cup StopScope \subseteq Events
ASSUME BoundsNatural ==
    /\ Workers \in Nat /\ MaxCrashes \in Nat /\ MaxFaults \in Nat
    /\ BusSize \in Nat \ {0} /\ MaxClaims \in Nat \ {0}
ASSUME StopMayFailKnown == StopMayFail \in BOOLEAN
ASSUME OutcomesKnown ==
    Outcomes \subseteq {"succeeded", "failed", "canceled"} /\ Outcomes # {}
ASSUME NoneDistinct == None \notin Events \X (1..MaxClaims)

VARIABLES
    event,      \* event rows: status, claim (0: none), leased (claim_until > now),
                \*   waiting (next_attempt_at > now), garbled (not a JSON object),
                \*   and the triggers that match the event, which do not change
    runs,       \* scheduler run rows, one per event, target and claim
    delivery,   \* event_delivery rows, one per event and target
    inFlight,   \* Dispatcher.inFlight
    batch,      \* what is left of the list DispatchOnce works through
    offer,      \* the claimed event DispatchOnce is about to publish
    bus,        \* SchedulerBus
    loop,       \* the event loop: where it is, with which message, and the
                \*   targets it has yet to start
    task,       \* the run goroutines, and what the loop holds for them
    running,    \* Controller.running
    reserved,   \* RunQueue.running
    stopped,    \* runs whose context was cancelled by a stop
    stop,       \* the stop request
    crashes, faults

storeVars == <<event, runs, delivery>>
dispVars == <<inFlight, batch, offer, bus>>
slotVars == <<running, reserved>>
stopVars == <<stopped, stop>>
vars == <<storeVars, dispVars, loop, task, slotVars, stopVars, crashes, faults>>

Claims == 1..MaxClaims
Keys == Events \X Targets \X Claims
Messages == Events \X Claims
EventStatus == {"absent", "pending", "publishing", "retrying", "published",
                "noSubscriber", "deadLetter", "canceled"}
Settled == {"published", "noSubscriber", "deadLetter", "canceled"}
RunStatus == {"absent", "running", "succeeded", "failed", "canceled", "skipped"}
DeliveryStatus == {"none", "matched", "runStarted", "runSucceeded", "runFailed",
                   "skipped"}

(* Where a run goroutine is: it has a reservation only, it has entered its  *)
(* scheduler, Prepare writes the row and stamps the delivery, the event is *)
(* acknowledged, the supervisor registers and executes the run, the        *)
(* delivery is updated, the scheduler is left and the queue slot released. *)
(* A prepared run may be aborted instead.                                  *)
TaskPC == {"none", "reserved", "start", "entered", "create", "stamp", "prepared",
           "aborted", "ack", "register", "execute", "deliver", "leave", "release"}
LoopPC == {"receive", "noSubscriber", "busy", "reserve", "enter", "prepare",
           "abort", "ack", "retry", "spawn"}

Init ==
    /\ \E targets \in Subscribers :
          event = [e \in Events |-> [status |-> "absent", claim |-> 0,
                                     leased |-> FALSE, waiting |-> FALSE,
                                     garbled |-> FALSE, targets |-> targets[e]]]
    /\ runs = [k \in Keys |-> "absent"]
    /\ delivery = [d \in Events \X Targets |-> [run |-> 0, status |-> "none"]]
    /\ inFlight = {} /\ batch = {} /\ offer = None /\ bus = <<>>
    /\ loop = [pc |-> "receive", msg |-> None, left |-> {}]
    /\ task = [k \in Keys |-> "none"]
    /\ running = [s \in Schedulers |-> 0] /\ reserved = 0
    /\ stopped = {}
    /\ stop = [pc |-> "idle", scope |-> {}, pending |-> FALSE, todo |-> {}]
    /\ crashes = 0 /\ faults = 0

----------------------------------------------------------------------------
(* A call to the store succeeds, or fails and changes nothing.             *)
Succeeds == faults' = faults
Fails == faults < MaxFaults /\ faults' = faults + 1

(* The keys of a claim's runs, and the runs of one event.                  *)
KeysOf(msg, ts) == {<<msg[1], t, msg[2]>> : t \in ts}
Scheduler(k) == SchedulerOf[k[2]]
Message(k) == <<k[1], k[3]>>
Set(f, S, v) == [x \in DOMAIN f |-> IF x \in S THEN v ELSE f[x]]

(* DedupeWebhookEventTargets: one target per scheduler, the first.         *)
Matched(e) ==
    IF e \notin Webhook THEN event[e].targets
    ELSE {t \in event[e].targets : \A u \in event[e].targets :
            SchedulerOf[u] = SchedulerOf[t] => t <= u}

(* Faulty variant: a claimed event cannot have lost its dispatcher.        *)
DispatchableUnclaimed(e) ==
    event[e].status \in {"pending", "retrying"} /\ ~event[e].waiting

(* ListDispatchableEvents and the WHERE clause of ClaimEvent.              *)
Dispatchable(e) ==
    /\ event[e].status \in {"pending", "retrying", "publishing"}
    /\ ~event[e].waiting /\ ~event[e].leased

(* MarkEventPublished, MarkEventNoSubscriber and ReleaseEventClaim: nothing *)
(* happens unless the row still carries the claim.                         *)
Resolve(msg, status, wait) ==
    IF event[msg[1]].claim # msg[2] THEN event
    ELSE [event EXCEPT ![msg[1]] = [@ EXCEPT !.status = status, !.claim = 0,
                                              !.leased = FALSE, !.waiting = wait]]

(* UpsertEventDelivery: an empty run id keeps the stored one, and a match  *)
(* does not overwrite the status of a delivery that already has a run.     *)
UpsertEventDelivery(e, t, c, status) ==
    [delivery EXCEPT ![<<e, t>>] =
        [run |-> IF c = 0 THEN @.run ELSE c,
         status |-> IF status = "matched" /\ c = 0 /\ @.run # 0
                    THEN @.status ELSE status]]

(* UpdateTriggerEventDelivery: the delivery follows the row of the run.    *)
DeliveryOf(status) ==
    CASE status = "succeeded" -> "runSucceeded"
      [] status \in {"failed", "canceled"} -> "runFailed"
      [] status = "skipped" -> "skipped"
      [] OTHER -> "runStarted"
updateTriggerEventDelivery(k, status) ==
    \/ delivery' = UpsertEventDelivery(k[1], k[2], k[3], DeliveryOf(status)) /\ Succeeds
    \/ delivery' = delivery /\ Fails

(* EnterRun and LeaveRun count the runs of a scheduler.                    *)
Busy(s) == s \notin Parallel /\ running[s] > 0
EnterRun(s) == [running EXCEPT ![s] = @ + 1]
LeaveRun(S) ==
    [s \in Schedulers |->
        LET n == Cardinality({k \in S : Scheduler(k) = s})
        IN  IF running[s] <= n THEN 0 ELSE running[s] - n]

(* Reserve and Release of the webhook queue.                               *)
Release(n) == IF reserved <= n THEN 0 ELSE reserved - n

(* Faulty variant: an expired claim is taken for lost.                     *)
isInFlightLeased(e) == e \in inFlight /\ event[e].leased

isInFlight(e) == e \in inFlight
BusFull == Len(bus) >= BusSize

----------------------------------------------------------------------------
(* An accepted request inserts the event row.                              *)
CreateEvent(e) ==
    /\ event[e].status = "absent"
    /\ \E garbled \in BOOLEAN :
       /\ garbled => e \in Undecodable
       /\ event' = [event EXCEPT ![e].status = "pending", ![e].garbled = garbled]
    /\ UNCHANGED <<runs, delivery, dispVars, loop, task, slotVars, stopVars, crashes,
                   faults>>

(* DispatchOnce reads the list once.                                       *)
DispatchList ==
    /\ batch = {} /\ offer = None
    /\ \E e \in Events : Dispatchable(e)
    /\ batch' = {e \in Events : Dispatchable(e)}
    /\ UNCHANGED <<storeVars, inFlight, offer, bus, loop, task, slotVars, stopVars,
                   crashes, faults>>

(* Claim ids are unique; a number is used again once nothing names it.     *)
FreshClaims(e) ==
    {c \in Claims :
        /\ event[e].claim # c /\ loop.msg # <<e, c>>
        /\ \A i \in DOMAIN bus : bus[i] # <<e, c>>
        /\ \A t \in Targets : runs[<<e, t, c>>] = "absent" /\ task[<<e, t, c>>] = "none"}

(* It claims the next event of the list, unless it is in flight, no longer *)
(* dispatchable, or the claim fails.                                       *)
DispatchClaim ==
    /\ batch # {} /\ offer = None
    /\ LET e == Min(batch) IN
       /\ batch' = batch \ {e}
       /\ \/ /\ isInFlight(e) \/ ~Dispatchable(e)
             /\ Succeeds /\ UNCHANGED <<event, offer>>
          \/ /\ ~isInFlight(e) /\ Dispatchable(e)
             /\ Fails /\ UNCHANGED <<event, offer>>
          \/ /\ ~isInFlight(e) /\ Dispatchable(e) /\ FreshClaims(e) # {}
             /\ event' = [event EXCEPT ![e] =
                   [@ EXCEPT !.status = "publishing", !.claim = Min(FreshClaims(e)),
                             !.leased = TRUE, !.waiting = FALSE]]
             /\ offer' = <<e, Min(FreshClaims(e))>>
             /\ Succeeds
    /\ UNCHANGED <<runs, delivery, inFlight, bus, loop, task, slotVars, stopVars, crashes>>

(* publishOne: a payload that does not decode is dead, a full bus gives    *)
(* the claim back and ends the list, and otherwise the bus takes it.       *)
publishOne ==
    /\ offer # None /\ offer' = None
    /\ \/ /\ event[offer[1]].garbled
          /\ \/ event' = Resolve(offer, "deadLetter", FALSE) /\ Succeeds
             \/ event' = event /\ Fails
          /\ UNCHANGED <<inFlight, bus, batch>>
       \/ /\ ~event[offer[1]].garbled /\ ~BusFull
          /\ inFlight' = inFlight \cup {offer[1]} /\ bus' = Append(bus, offer)
          /\ Succeeds /\ UNCHANGED <<event, batch>>
       \/ /\ ~event[offer[1]].garbled /\ BusFull
          /\ \/ event' = Resolve(offer, "retrying", TRUE) /\ Succeeds
             \/ event' = event /\ Fails
          /\ inFlight' = inFlight \ {offer[1]} /\ batch' = {} /\ UNCHANGED bus
    /\ UNCHANGED <<runs, delivery, loop, task, slotVars, stopVars, crashes>>

(* Time passes: a lease runs out, a retry becomes due.                     *)
ClaimExpires(e) ==
    /\ event[e].leased
    /\ event' = [event EXCEPT ![e].leased = FALSE]
    /\ UNCHANGED <<runs, delivery, dispVars, loop, task, slotVars, stopVars, crashes,
                   faults>>
RetryFallsDue(e) ==
    /\ event[e].waiting
    /\ event' = [event EXCEPT ![e].waiting = FALSE]
    /\ UNCHANGED <<runs, delivery, dispVars, loop, task, slotVars, stopVars, crashes,
                   faults>>

----------------------------------------------------------------------------
(* The event loop.  The callbacks Ack, NoSubscriberAck and Retry write the *)
(* row of their claim and clear the in-flight mark even if that fails.     *)
Callback(msg, status, wait) ==
    /\ \/ event' = Resolve(msg, status, wait) /\ Succeeds
       \/ event' = event /\ Fails
    /\ inFlight' = inFlight \ {msg[1]}

LoopKeys == KeysOf(loop.msg, Matched(loop.msg[1]))
LoopGoes(pc) == loop' = [loop EXCEPT !.pc = pc]
LoopEnds == loop' = [pc |-> "receive", msg |-> None, left |-> {}]

(* EventLoop takes one event; Dispatch collects its targets.               *)
EventLoop ==
    /\ loop.pc = "receive" /\ bus # <<>>
    /\ bus' = Tail(bus)
    /\ loop' = [msg |-> Head(bus), left |-> Matched(Head(bus)[1]),
                pc |-> LET e == Head(bus)[1] IN
                       IF Matched(e) = {} THEN "noSubscriber"
                       ELSE IF e \in Webhook THEN "busy" ELSE "spawn"]
    /\ UNCHANGED <<storeVars, inFlight, batch, offer, task, slotVars, stopVars, crashes,
                   faults>>

ackNoSubscriber ==
    /\ loop.pc = "noSubscriber"
    /\ Callback(loop.msg, "noSubscriber", FALSE)
    /\ LoopEnds
    /\ UNCHANGED <<runs, delivery, batch, offer, bus, task, slotVars, stopVars, crashes>>

(* shouldRetryForBusy, then reserveSchedulerEventQueueSlots.               *)
shouldRetryForBusy ==
    /\ loop.pc = "busy"
    /\ LoopGoes(IF \E k \in LoopKeys : Busy(Scheduler(k)) THEN "retry" ELSE "reserve")
    /\ UNCHANGED <<storeVars, dispVars, task, slotVars, stopVars, crashes, faults>>

reserveQueueSlots ==
    /\ loop.pc = "reserve"
    /\ LET n == Cardinality(LoopKeys) IN
       \/ /\ Workers = 0 \/ reserved + n <= Workers
          /\ reserved' = IF Workers = 0 THEN reserved ELSE reserved + n
          /\ task' = Set(task, LoopKeys, "reserved")
          /\ LoopGoes("enter")
       \/ /\ Workers # 0 /\ reserved + n > Workers
          /\ LoopGoes("retry") /\ UNCHANGED <<reserved, task>>
    /\ UNCHANGED <<storeVars, dispVars, running, stopVars, crashes, faults>>

(* dispatchWebhookTargets enters the schedulers one by one; when one is    *)
(* busy it leaves the others and gives every slot back.                    *)
dispatchEnter ==
    /\ loop.pc = "enter"
    /\ \E k \in LoopKeys :
       /\ task[k] = "reserved"
       /\ \A j \in LoopKeys : task[j] = "reserved" => k[2] <= j[2]
       /\ \/ /\ ~Busy(Scheduler(k))
             /\ running' = EnterRun(Scheduler(k))
             /\ task' = [task EXCEPT ![k] = "entered"]
             /\ LoopGoes(IF \E j \in LoopKeys \ {k} : task[j] = "reserved"
                         THEN "enter" ELSE "prepare")
             /\ UNCHANGED reserved
          \/ /\ Busy(Scheduler(k))
             /\ running' = LeaveRun({j \in LoopKeys : task[j] = "entered"})
             /\ reserved' = Release(Cardinality(LoopKeys))
             /\ task' = Set(task, LoopKeys, "none")
             /\ LoopGoes("retry")
    /\ UNCHANGED <<storeVars, dispVars, stopVars, crashes, faults>>

(* Faulty variant: acknowledges as soon as one run is prepared.            *)
dispatchPrepareFirst ==
    /\ loop.pc = "prepare"
    /\ \/ \E k \in LoopKeys :
          task[k] = "entered" /\ task' = [task EXCEPT ![k] = "create"] /\ UNCHANGED loop
       \/ /\ \E k \in LoopKeys : task[k] = "prepared"
          /\ LoopGoes("ack") /\ UNCHANGED task
    /\ UNCHANGED <<storeVars, dispVars, slotVars, stopVars, crashes, faults>>

(* It prepares them one by one, and acknowledges when all are prepared.    *)
dispatchPrepare ==
    /\ loop.pc = "prepare"
    /\ \A k \in LoopKeys : task[k] \in {"entered", "prepared"}
    /\ \/ \E k \in LoopKeys :
          /\ task[k] = "entered"
          /\ \A j \in LoopKeys : task[j] = "entered" => k[2] <= j[2]
          /\ task' = [task EXCEPT ![k] = "create"] /\ UNCHANGED loop
       \/ /\ \A k \in LoopKeys : task[k] = "prepared"
          /\ LoopGoes("ack") /\ UNCHANGED task
    /\ UNCHANGED <<storeVars, dispVars, slotVars, stopVars, crashes, faults>>

(* A Prepare failed.  Abort fails the row of a prepared run, its delivery, *)
(* and leaves its scheduler; then the other schedulers are left, and the   *)
(* event is retried.                                                       *)
AbortPrepared ==
    /\ loop.pc = "abort"
    /\ \A k \in LoopKeys : task[k] # "aborted"
    /\ \E k \in LoopKeys :
       /\ task[k] = "prepared"
       /\ \/ runs' = [runs EXCEPT ![k] = "failed"] /\ Succeeds
          \/ runs' = runs /\ Fails
       /\ task' = [task EXCEPT ![k] = "aborted"]
    /\ UNCHANGED <<event, delivery, dispVars, loop, slotVars, stopVars, crashes>>

AbortDeliver ==
    /\ loop.pc = "abort"
    /\ \E k \in LoopKeys :
       /\ task[k] = "aborted"
       /\ updateTriggerEventDelivery(k, "failed")
       /\ running' = LeaveRun({k})
       /\ task' = [task EXCEPT ![k] = "reserved"]
    /\ UNCHANGED <<event, runs, dispVars, loop, reserved, stopVars, crashes>>

(* Faulty variant: the queue slots are not given back.                     *)
AbortRestKeepsSlots ==
    /\ loop.pc = "abort"
    /\ \A k \in LoopKeys : task[k] \notin {"prepared", "aborted"}
    /\ running' = LeaveRun({k \in LoopKeys : task[k] = "entered"})
    /\ task' = Set(task, LoopKeys, "none")
    /\ LoopGoes("retry")
    /\ UNCHANGED <<storeVars, dispVars, reserved, stopVars, crashes, faults>>

AbortRest ==
    /\ loop.pc = "abort"
    /\ \A k \in LoopKeys : task[k] \notin {"prepared", "aborted"}
    /\ running' = LeaveRun({k \in LoopKeys : task[k] = "entered"})
    /\ reserved' = Release(Cardinality(LoopKeys))
    /\ task' = Set(task, LoopKeys, "none")
    /\ LoopGoes("retry")
    /\ UNCHANGED <<storeVars, dispVars, stopVars, crashes, faults>>

dispatchAck ==
    /\ loop.pc = "ack"
    /\ Callback(loop.msg, "published", FALSE)
    /\ task' = Set(task, LoopKeys, "register")
    /\ LoopEnds
    /\ UNCHANGED <<runs, delivery, batch, offer, bus, slotVars, stopVars, crashes>>

retry ==
    /\ loop.pc = "retry"
    /\ Callback(loop.msg, "retrying", TRUE)
    /\ LoopEnds
    /\ UNCHANGED <<runs, delivery, batch, offer, bus, task, slotVars, stopVars, crashes>>

(* dispatchTargets: record the match and start a goroutine, per target.    *)
dispatchTargets ==
    /\ loop.pc = "spawn"
    /\ LET e == loop.msg[1]
           t == Min(loop.left)
       IN  /\ \/ delivery' = UpsertEventDelivery(e, t, 0, "matched") /\ Succeeds
              \/ delivery' = delivery /\ Fails
           /\ task' = [task EXCEPT ![<<e, t, loop.msg[2]>>] = "start"]
           /\ IF loop.left = {t} THEN LoopEnds
              ELSE loop' = [loop EXCEPT !.left = @ \ {t}]
    /\ UNCHANGED <<event, runs, dispVars, slotVars, stopVars, crashes>>

----------------------------------------------------------------------------
(* The run goroutines.  k is the run of one claim of an event for one      *)
(* target.  A goroutine of dispatchTargets that ends with an error clears  *)
(* the in-flight mark (Release) and leaves the row to its lease.           *)
TaskGoes(k, pc) == task' = [task EXCEPT ![k] = pc]
Errs(k) == inFlight' = IF k[1] \in Webhook THEN inFlight ELSE inFlight \ {k[1]}

(* Prepare enters the scheduler; a busy one gets a skipped run.            *)
PrepareEnter(k) ==
    /\ task[k] = "start"
    /\ \/ /\ ~Busy(Scheduler(k))
          /\ running' = EnterRun(Scheduler(k)) /\ TaskGoes(k, "create")
          /\ Succeeds /\ UNCHANGED <<runs, inFlight>>
       \/ /\ Busy(Scheduler(k))
          /\ \/ /\ runs' = [runs EXCEPT ![k] = "skipped"]
                /\ TaskGoes(k, "stamp") /\ Succeeds /\ UNCHANGED inFlight
             \/ Fails /\ TaskGoes(k, "none") /\ Errs(k) /\ UNCHANGED runs
          /\ UNCHANGED running
    /\ UNCHANGED <<event, delivery, batch, offer, bus, loop, reserved, stopVars, crashes>>

(* CreateSchedulerRun; when it fails the scheduler is left again.          *)
PrepareCreate(k) ==
    /\ task[k] = "create"
    /\ \/ /\ runs' = [runs EXCEPT ![k] = "running"]
          /\ TaskGoes(k, "stamp") /\ Succeeds
          /\ UNCHANGED <<running, inFlight, loop>>
       \/ /\ Fails /\ running' = LeaveRun({k}) /\ Errs(k) /\ UNCHANGED runs
          /\ IF k[1] \in Webhook
             THEN TaskGoes(k, "reserved") /\ LoopGoes("abort")
             ELSE TaskGoes(k, "none") /\ UNCHANGED loop
    /\ UNCHANGED <<event, delivery, batch, offer, bus, reserved, stopVars, crashes>>

(* The delivery gets the id of the run.                                    *)
PrepareStamp(k) ==
    /\ task[k] = "stamp"
    /\ updateTriggerEventDelivery(k, runs[k])
    /\ TaskGoes(k, IF k[1] \in Webhook THEN "prepared" ELSE "ack")
    /\ UNCHANGED <<event, runs, dispVars, loop, slotVars, stopVars, crashes>>

(* runTrigger acknowledges the event for this target alone.                *)
runTriggerAck(k) ==
    /\ task[k] = "ack"
    /\ Callback(Message(k), "published", FALSE)
    /\ TaskGoes(k, IF runs[k] = "skipped" THEN "none" ELSE "register")
    /\ UNCHANGED <<runs, delivery, batch, offer, bus, loop, slotVars, stopVars, crashes>>

register(k) ==
    /\ task[k] = "register" /\ TaskGoes(k, "execute")
    /\ UNCHANGED <<storeVars, dispVars, loop, slotVars, stopVars, crashes, faults>>

(* Execute: the engine returns and the row takes the outcome, canceled if  *)
(* a stop came before the cause of the context was read.                   *)
Execute(k) ==
    /\ task[k] = "execute"
    /\ \/ /\ \E s \in Outcomes \cup (IF k \in stopped THEN {"canceled"} ELSE {}) :
                runs' = [runs EXCEPT ![k] = s]
          /\ TaskGoes(k, "deliver") /\ Succeeds /\ UNCHANGED inFlight
       \/ Fails /\ TaskGoes(k, "leave") /\ Errs(k) /\ UNCHANGED runs
    /\ UNCHANGED <<event, delivery, batch, offer, bus, loop, slotVars, stopVars, crashes>>

ExecuteDeliver(k) ==
    /\ task[k] = "deliver"
    /\ updateTriggerEventDelivery(k, runs[k])
    /\ TaskGoes(k, "leave")
    /\ UNCHANGED <<event, runs, dispVars, loop, slotVars, stopVars, crashes>>

(* The scheduler is left; then the run is unregistered and the queue slot  *)
(* released.                                                               *)
ExecuteLeave(k) ==
    /\ task[k] = "leave" /\ TaskGoes(k, "release")
    /\ running' = LeaveRun({k})
    /\ UNCHANGED <<storeVars, dispVars, loop, reserved, stopVars, crashes, faults>>

unregister(k) ==
    /\ task[k] = "release" /\ TaskGoes(k, "none")
    /\ reserved' = IF k[1] \in Webhook /\ Workers # 0 THEN Release(1) ELSE reserved
    /\ UNCHANGED <<storeVars, dispVars, loop, running, stopVars, crashes, faults>>

----------------------------------------------------------------------------
(* The stop request.  CancelEventDispatch is an UPDATE of the waiting      *)
(* events followed by a SELECT that counts the publishing ones.  Faulty    *)
(* variants withdraw claimed events too, or count live claims only.        *)
WithdrawableClaimed == {"pending", "retrying", "publishing"}
Withdrawable == {"pending", "retrying"}
HeldLive(e) == event[e].status = "publishing" /\ event[e].leased
Held(e) == event[e].status = "publishing"

CancelWaiting ==
    /\ stop.pc = "idle"
    /\ \E e \in StopScope : event[e].status # "absent"
    /\ LET scope == {e \in StopScope : event[e].status # "absent"} IN
       /\ event' = [e \in Events |->
             IF e \in scope /\ event[e].status \in Withdrawable
             THEN [event[e] EXCEPT !.status = "canceled", !.claim = 0,
                                   !.leased = FALSE, !.waiting = FALSE]
             ELSE event[e]]
       /\ stop' = [stop EXCEPT !.pc = "count", !.scope = scope]
    /\ UNCHANGED <<runs, delivery, dispVars, loop, task, slotVars, stopped, crashes, faults>>

(* A store error ends the request with an error.                           *)
StopLost == [pc |-> "lost", scope |-> {}, pending |-> FALSE, todo |-> {}]

CountPublishing ==
    /\ stop.pc = "count"
    /\ \/ stop' = [stop EXCEPT !.pc = "list",
                                !.pending = \E e \in stop.scope : Held(e)]
       \/ stop' = StopLost /\ StopMayFail
    /\ UNCHANGED <<storeVars, dispVars, loop, task, slotVars, stopped, crashes, faults>>

(* ListEventDeliveries, then stopEventRuns asks for each run found.        *)
ListEventDeliveries ==
    /\ stop.pc = "list"
    /\ \/ stop' = [stop EXCEPT !.pc = "runs",
               !.todo = {<<d[1], d[2], delivery[d].run>> :
                   d \in {x \in stop.scope \X Targets : delivery[x].run # 0}}]
       \/ stop' = StopLost /\ StopMayFail
    /\ UNCHANGED <<storeVars, dispVars, loop, task, slotVars, stopped, crashes, faults>>

(* requestSchedulerRunStop: a registered run is cancelled, a finished one  *)
(* is left alone, any other, or one that cannot be read, is reported.      *)
requestSchedulerRunStop(k) ==
    /\ stop.pc = "runs" /\ k \in stop.todo
    /\ LET active == task[k] \in {"execute", "deliver", "leave", "release"} IN
       \/ /\ active /\ stopped' = stopped \cup {k}
          /\ stop' = [stop EXCEPT !.todo = @ \ {k}]
       \/ /\ ~active /\ UNCHANGED stopped
          /\ \/ stop' = [stop EXCEPT !.todo = @ \ {k},
                                      !.pending = @ \/ runs[k] = "running"]
             \/ stop' = [stop EXCEPT !.todo = @ \ {k}, !.pending = TRUE] /\ StopMayFail
    /\ UNCHANGED <<storeVars, dispVars, loop, task, slotVars, crashes, faults>>

StopReply ==
    /\ stop.pc = "runs" /\ stop.todo = {}
    /\ stop' = [stop EXCEPT !.pc = "replied"]
    /\ UNCHANGED <<storeVars, dispVars, loop, task, slotVars, stopped, crashes, faults>>

(* The daemon crashes and starts again: memory is lost, and                *)
(* RecoverInterruptedRuns fails the runs that were running, but for the    *)
(* ones it cannot write.                                                   *)
Crash ==
    /\ crashes < MaxCrashes /\ crashes' = crashes + 1
    /\ \E left \in SUBSET {k \in Keys : runs[k] = "running"} :
          /\ runs' = [k \in Keys |-> IF runs[k] = "running" /\ k \notin left
                                    THEN "failed" ELSE runs[k]]
          /\ IF left = {} THEN Succeeds ELSE Fails
    /\ inFlight' = {} /\ batch' = {} /\ offer' = None /\ bus' = <<>> /\ LoopEnds
    /\ task' = [k \in Keys |-> "none"]
    /\ running' = [s \in Schedulers |-> 0] /\ reserved' = 0
    /\ stopped' = {}
    /\ stop' = IF stop.pc \in {"idle", "replied"} THEN stop
               ELSE StopLost
    /\ UNCHANGED <<event, delivery>>

----------------------------------------------------------------------------
Dispatcher == DispatchList \/ DispatchClaim \/ publishOne
Loop ==
    \/ EventLoop \/ ackNoSubscriber \/ shouldRetryForBusy \/ reserveQueueSlots
    \/ dispatchEnter \/ dispatchPrepare \/ AbortPrepared \/ AbortDeliver
    \/ AbortRest \/ dispatchAck \/ retry \/ dispatchTargets
RunTask(k) ==
    \/ PrepareEnter(k) \/ PrepareCreate(k) \/ PrepareStamp(k) \/ runTriggerAck(k)
    \/ register(k) \/ Execute(k) \/ ExecuteDeliver(k) \/ ExecuteLeave(k)
    \/ unregister(k)
StopEvent ==
    \/ CancelWaiting \/ CountPublishing \/ ListEventDeliveries
    \/ (\E k \in Keys : requestSchedulerRunStop(k))
    \/ StopReply

Next ==
    \/ \E e \in Events : CreateEvent(e) \/ ClaimExpires(e) \/ RetryFallsDue(e)
    \/ Dispatcher
    \/ Loop
    \/ \E k \in Keys : RunTask(k)
    \/ StopEvent
    \/ Crash

Spec == Init /\ [][Next]_vars

(* The dispatcher ticks, the loop and the goroutines run, time passes.  A  *)
(* run ends because its context carries the scheduler's run timeout.       *)
Fairness ==
    /\ WF_vars(Dispatcher) /\ WF_vars(Loop)
    /\ \A k \in Keys : WF_vars(RunTask(k))
    /\ \A e \in Events : WF_vars(ClaimExpires(e)) /\ WF_vars(RetryFallsDue(e))
LiveSpec == Spec /\ Fairness

----------------------------------------------------------------------------
TypeOK ==
    /\ event \in [Events -> [status : EventStatus, claim : 0..MaxClaims,
                             leased : BOOLEAN, waiting : BOOLEAN,
                             garbled : BOOLEAN, targets : SUBSET Targets]]
    /\ runs \in [Keys -> RunStatus]
    /\ delivery \in [Events \X Targets -> [run : 0..MaxClaims, status : DeliveryStatus]]
    /\ inFlight \subseteq Events /\ batch \subseteq Events
    /\ offer \in Messages \cup {None}
    /\ bus \in Seq(Messages) /\ Len(bus) <= BusSize
    /\ loop \in [pc : LoopPC, msg : Messages \cup {None}, left : SUBSET Targets]
    /\ task \in [Keys -> TaskPC]
    /\ running \in [Schedulers -> Nat] /\ reserved \in Nat
    /\ stopped \subseteq Keys
    /\ stop \in [pc : {"idle", "count", "list", "runs", "replied", "lost"},
                  scope : SUBSET Events, pending : BOOLEAN, todo : SUBSET Keys]
    /\ crashes \in 0..MaxCrashes /\ faults \in 0..MaxFaults

(* The goroutines that are inside a scheduler.                             *)
Inside(s) ==
    {k \in Keys : /\ Scheduler(k) = s /\ runs[k] # "skipped"
                  /\ task[k] \notin {"none", "reserved", "start", "release"}}

(* Slots are never leaked and never released twice: the counters the       *)
(* admission decisions read are the runs that are really there, on every   *)
(* path through dispatchWebhookTargets, Prepare, Abort and Execute.        *)
SlotsBalanced ==
    /\ \A s \in Schedulers : running[s] = Cardinality(Inside(s))
    /\ Workers # 0 => /\ reserved <= Workers
                      /\ reserved = Cardinality({k \in Keys : k[1] \in Webhook
                                                              /\ task[k] # "none"})

(* The fan-out of a webhook event is whole: it is acknowledged, and any of *)
(* its runs starts, only when the same claim has a run row for every       *)
(* target (dispatchWebhookTargets prepares all before it acknowledges).    *)
FanOutWhole ==
    \A e \in Webhook :
        LET whole(c) == \A t \in Matched(e) : runs[<<e, t, c>>] # "absent" IN
        /\ event[e].status = "published" => \E c \in Claims : whole(c)
        /\ \A t \in Targets, c \in Claims :
              task[<<e, t, c>>] \in {"register", "execute", "deliver", "leave"}
              => whole(c)

(* As long as the store answers and the daemon does not crash, an event is *)
(* executed once per target, however long its delivery takes: the in-flight *)
(* mark keeps an expired claim from being claimed again.                   *)
Executed(k) == task[k] = "execute" \/ runs[k] \in {"succeeded", "failed", "canceled"}
ExecutedOnce ==
    crashes = 0 /\ faults = 0 =>
        \A e \in Events, t \in Targets :
            Cardinality({c \in Claims : Executed(<<e, t, c>>)}) <= 1

(* A withdrawn event never starts a run (CancelEventDispatch), unless a    *)
(* goroutine of a non-webhook event outlived its claim after a store error. *)
CanceledNeverStarts ==
    [][\A k \in Keys :
         /\ runs[k] = "absent" /\ runs'[k] = "running"
         /\ faults = 0 \/ k[1] \in Webhook
         => event[k[1]].status # "canceled"]_vars

(* A stop that reports nothing pending has stopped everything: no run of   *)
(* the events it covered is left running unless it was cancelled.          *)
StopIsHonest ==
    stop.pc = "replied" /\ ~stop.pending =>
        \A k \in Keys : k[1] \in stop.scope /\ runs[k] = "running" => k \in stopped

(* Every accepted event is settled in the end: crashes, store errors, a    *)
(* full bus, busy schedulers and a full webhook queue only delay it.       *)
EveryEventSettles ==
    \A e \in Events : event[e].status = "pending" ~> event[e].status \in Settled
=============================================================================
