--------------------------- MODULE StopAdmission ---------------------------
(***************************************************************************)
(* Work in one sandbox against the stops of that sandbox: the gate that    *)
(* refuses executions while a stop is under way                            *)
(* (pkg/agentcompose/adapters/runtime_graceful_stop.go), the graceful      *)
(* preparation that signals the executions and waits for them, the forced  *)
(* stop that cancels them, and the direct stop of a removal, on top of the *)
(* lifecycle lock.                                                         *)
(***************************************************************************)
EXTENDS Naturals, FiniteSets

CONSTANTS
    Execs,   \* executions; one that has returned stands for a new one
    Commands,\* those of the exec API, which run under the lifecycle lock
    Stops,   \* goroutines that stop or remove the sandbox, one call at a time
    None

ASSUME CommandsAssumption == Commands \subseteq Execs
ASSUME StopsFinite == IsFiniteSet(Stops)

VARIABLES
    stopping,  \* sandboxExecutions.stopping
    active,    \* sandboxExecutions.active
    canceled,  \* the active executions whose context is canceled
    guest,     \* the guest process of each execution
    lock,      \* the holder of the sandbox's lifecycle lock
    status,    \* VMStatus of the stored sandbox
    st,        \* each stop: its kind, where it is, whom it has not signaled
               \* yet and the outcome of its preparation
    leaked     \* how often a removal closed the gate: never, or once for good

vars == <<stopping, active, canceled, guest, lock, status, st, leaked>>
work == <<active, canceled, guest>>

Kinds == {"graceful", "force", "locked", "remove"}
Idle == [kind |-> "force", pc |-> "idle", pending |-> {}, outcome |-> "skipped"]

Init ==
    /\ stopping = 0 /\ active = {} /\ canceled = {}
    /\ guest = [e \in Execs |-> "none"]
    /\ lock = None /\ status = "running"
    /\ st = [s \in Stops |-> Idle]
    /\ leaked = 0

At(s, pc) == st[s].pc = pc
Goes(s, pc) == st' = [st EXCEPT ![s].pc = pc]

(* A stop has closed the gate and not released it yet: BeginSandboxForceStop *)
(* comes after the lock in StopLoadedWhileLocked, and a removal only stops.  *)
Holds(r) ==
    /\ r.pc # "idle" /\ r.kind # "remove"
    /\ ~(r.kind = "locked" /\ r.pc = "lock")
Holding == {s \in Stops : Holds(st[s])}
InDriver == {s \in Stops : At(s, "driver")}

----------------------------------------------------------------------------
(* sandboxExecutions.                                                      *)

Blocked == stopping + 1

EnsureBlocked == IF stopping = 0 THEN 1 ELSE stopping

Released == IF stopping <= 1 THEN 0 ELSE stopping - 1

----------------------------------------------------------------------------
(* Executions.                                                             *)

(* executeProjectCommand, ExecAttach: the exec API takes the lock first.   *)
CommandLocks(e) ==
    /\ e \in Commands /\ guest[e] = "none" /\ lock = None
    /\ lock' = e
    /\ UNCHANGED <<stopping, work, status, st, leaked>>

(* begin, refused while the sandbox is stopping.  A command has resolved a *)
(* running sandbox under the lock; a run relies on what it read before.    *)
Begin(e) ==
    /\ guest[e] = "none" /\ status # "gone"
    /\ e \in Commands => lock = e /\ status = "running"
    /\ \A s \in Stops : e \notin st[s].pending    \* the execution is a new one
    /\ stopping = 0
    /\ active' = active \cup {e}
    /\ guest' = [guest EXCEPT ![e] = "starting"]
    /\ UNCHANGED <<stopping, canceled, lock, status, st, leaked>>

(* The command has returned, or was refused.                               *)
CommandUnlocks(e) ==
    /\ lock = e /\ guest[e] \in {"none", "done"}
    /\ lock' = None
    /\ guest' = [guest EXCEPT ![e] = "none"]
    /\ UNCHANGED <<stopping, active, canceled, status, st, leaked>>

(* Its client goes away or its own timeout passes.                         *)
ContextEnds(e) ==
    /\ e \in active
    /\ canceled' = canceled \cup {e}
    /\ UNCHANGED <<stopping, active, guest, lock, status, st, leaked>>

(* The guest runtime has installed its TERM handler and says so.           *)
GuestReady(e) ==
    /\ guest[e] = "starting"
    /\ guest' = [guest EXCEPT ![e] = "ready"]
    /\ UNCHANGED <<stopping, active, canceled, lock, status, st, leaked>>

(* It ends, on its own or because it was told to.                          *)
GuestExits(e) ==
    /\ guest[e] \in {"starting", "ready", "signaled"}
    /\ guest' = [guest EXCEPT ![e] = "gone"]
    /\ UNCHANGED <<stopping, active, canceled, lock, status, st, leaked>>

(* finish, when the driver's call returns: the guest is gone or the        *)
(* context was canceled.                                                   *)
Finish(e) ==
    /\ e \in active /\ (guest[e] = "gone" \/ e \in canceled)
    /\ active' = active \ {e} /\ canceled' = canceled \ {e}
    /\ guest' = [guest EXCEPT ![e] = IF lock = e THEN "done" ELSE "none"]
    /\ UNCHANGED <<stopping, lock, status, st, leaked>>

----------------------------------------------------------------------------
(* The graceful preparation, before the lifecycle lock is taken.           *)

PrepareSandboxStop(s) ==
    /\ At(s, "idle") /\ status # "gone"
    /\ stopping' = Blocked
    /\ st' = [st EXCEPT ![s] =
                [kind |-> "graceful", pending |-> active,
                 pc |-> IF active = {} THEN "lock" ELSE "signal",
                 outcome |-> IF active = {} THEN "graceful" ELSE "skipped"]]
    /\ UNCHANGED <<work, lock, status, leaked>>

(* Faulty variant: a signaled execution counts as one that has ended.      *)
AllSignaledIsDone == [pc |-> "lock", outcome |-> "graceful"]
AllSignaled == [pc |-> "wait", outcome |-> "skipped"]

(* One round of signalManagedExecutions over the executions that are still *)
(* active: one whose runtime is not ready is tried again.                  *)
SignalRound(s) ==
    LET live == st[s].pending \cap active
        told == {e \in live : guest[e] # "starting"}
    IN  /\ At(s, "signal")
        /\ guest' = [e \in Execs |->
                        IF e \in told /\ guest[e] = "ready" THEN "signaled" ELSE guest[e]]
        /\ st' = [st EXCEPT ![s].pending = live \ told,
                            ![s].pc = IF live = told THEN AllSignaled.pc ELSE @,
                            ![s].outcome = IF live = told THEN AllSignaled.outcome ELSE @]
        /\ UNCHANGED <<stopping, active, canceled, lock, status, leaked>>

(* wait: nothing is active any more.                                       *)
WaitEnds(s) ==
    /\ At(s, "wait") /\ active = {}
    /\ st' = [st EXCEPT ![s].pc = "lock", ![s].outcome = "graceful"]
    /\ UNCHANGED <<stopping, work, lock, status, leaked>>

(* The grace period is over, the request is canceled or a signal failed:   *)
(* what is still active is canceled.                                       *)
GraceExpires(s) ==
    /\ At(s, "signal") \/ At(s, "wait")
    /\ canceled' = active
    /\ st' = [st EXCEPT ![s].pc = "lock", ![s].pending = {}, ![s].outcome = "forced"]
    /\ UNCHANGED <<stopping, active, guest, lock, status, leaked>>

----------------------------------------------------------------------------
(* BeginSandboxForceStop comes before the lock in StopLoaded, because a    *)
(* command holds the lock while it runs, and under it in                   *)
(* StopLoadedWhileLocked.                                                  *)

(* Faulty variant: the executions are left to the stop under the lock.     *)
BlockWithoutCancel(s) ==
    /\ At(s, "idle") /\ status # "gone"
    /\ stopping' = Blocked
    /\ st' = [st EXCEPT ![s] = [Idle EXCEPT !.pc = "lock"]]
    /\ UNCHANGED <<work, lock, status, leaked>>
BeginSandboxForceStop(s) ==
    /\ At(s, "idle") /\ status # "gone"
    /\ stopping' = Blocked /\ canceled' = active
    /\ st' = [st EXCEPT ![s] = [Idle EXCEPT !.pc = "lock"]]
    /\ UNCHANGED <<active, guest, lock, status, leaked>>

LocksFirst(s, kind) ==
    /\ At(s, "idle") /\ status # "gone" /\ kind \in {"locked", "remove"}
    /\ st' = [st EXCEPT ![s] = [Idle EXCEPT !.kind = kind, !.pc = "lock"]]
    /\ UNCHANGED <<stopping, work, lock, status, leaked>>

Locks(s) ==
    /\ At(s, "lock") /\ lock = None
    /\ lock' = s
    /\ Goes(s, "stop")
    /\ IF st[s].kind = "locked" THEN stopping' = Blocked /\ canceled' = active
                                ELSE UNCHANGED <<stopping, canceled>>
    /\ UNCHANGED <<active, guest, status, leaked>>

Unlocked(s) == IF lock = s THEN None ELSE lock

(* stopLoadedWhileLocked: a sandbox that is not running needs no driver    *)
(* stop, one that is being deleted is refused.                             *)
SkipsDriver(s) ==
    /\ At(s, "stop") /\ st[s].kind # "remove" /\ status # "running"
    /\ Goes(s, "release")
    /\ UNCHANGED <<stopping, work, lock, status, leaked>>

(* Faulty variant: the driver's stop leaves the executions alone.          *)
LeavesExecutions == canceled
CanceledByDriver == active

(* driverRuntimeAdapter.StopSandbox: close the gate if nobody did, cancel  *)
(* what is active, then call the driver.  A removal has stored DELETING.   *)
CallsDriver(s) ==
    /\ At(s, "stop") /\ status = "running"
    /\ stopping' = EnsureBlocked /\ canceled' = CanceledByDriver
    /\ leaked' = IF stopping = 0 /\ st[s].kind = "remove" THEN 1 ELSE leaked
    /\ status' = IF st[s].kind = "remove" THEN "deleting" ELSE status
    /\ Goes(s, "driver")
    /\ UNCHANGED <<active, guest, lock>>

DriverStops(s) ==
    /\ At(s, "driver") /\ st[s].kind # "remove"
    /\ status' = "stopped"
    /\ guest' = [e \in Execs |-> IF e \in active THEN "gone" ELSE guest[e]]
    /\ Goes(s, "release")
    /\ UNCHANGED <<stopping, active, canceled, lock, leaked>>

DriverFails(s) ==
    /\ At(s, "driver") /\ st[s].kind # "remove"
    /\ Goes(s, "release")
    /\ UNCHANGED <<stopping, work, lock, status, leaked>>

(* FinishSandboxStop.  The lock goes first when StopLoaded took it, else   *)
(* last.                                                                   *)
Releases(s) ==
    /\ At(s, "release")
    /\ IF lock = s /\ st[s].kind # "locked"
       THEN lock' = None /\ UNCHANGED <<stopping, st>>
       ELSE /\ stopping' = Released
            /\ lock' = Unlocked(s)
            /\ st' = [st EXCEPT ![s] = Idle]
    /\ UNCHANGED <<work, status, leaked>>

----------------------------------------------------------------------------
(* RemovalCoordinator.Remove with force: the runtime is stopped directly.  *)

(* Refused before the runtime is touched, or failed in a way that leaves   *)
(* the record as it was: not forced, unknown, no runtime.                  *)
RemovalRefused(s) ==
    /\ At(s, "stop") /\ st[s].kind = "remove"
    /\ lock' = None
    /\ st' = [st EXCEPT ![s] = Idle]
    /\ UNCHANGED <<stopping, work, status, leaked>>

(* Without a runtime left to stop: the sandbox is removed, rolled back to  *)
(* stopped when the runtime's removal fails, or left DELETING by a later   *)
(* stage.                                                                  *)
RemovesStopped(s) ==
    /\ At(s, "stop") /\ st[s].kind = "remove" /\ status \in {"stopped", "deleting"}
    /\ status' \in {"stopped", "deleting", "gone"}
    /\ lock' = None
    /\ st' = [st EXCEPT ![s] = Idle]
    /\ UNCHANGED <<stopping, work, leaked>>

(* The same after the runtime has stopped.                                 *)
RemovalStops(s) ==
    /\ At(s, "driver") /\ st[s].kind = "remove"
    /\ status' \in {"stopped", "deleting", "gone"}
    /\ guest' = [e \in Execs |-> IF e \in active THEN "gone" ELSE guest[e]]
    /\ lock' = None
    /\ st' = [st EXCEPT ![s] = Idle]
    /\ UNCHANGED <<stopping, active, canceled, leaked>>

(* rollbackDeletionIntent after a failed stop.                             *)
RemovalFails(s) ==
    /\ At(s, "driver") /\ st[s].kind = "remove"
    /\ status' = "running"
    /\ lock' = None
    /\ st' = [st EXCEPT ![s] = Idle]
    /\ UNCHANGED <<stopping, work, leaked>>

(* ResumeLoaded, under the lock.                                           *)
Resume ==
    /\ lock = None /\ status = "stopped"
    /\ status' = "running"
    /\ UNCHANGED <<stopping, work, lock, st, leaked>>

----------------------------------------------------------------------------
StopStep(s) ==
    \/ SignalRound(s) \/ WaitEnds(s) \/ SkipsDriver(s) \/ CallsDriver(s)
    \/ DriverStops(s) \/ DriverFails(s) \/ Releases(s)
    \/ RemovalRefused(s) \/ RemovesStopped(s) \/ RemovalStops(s) \/ RemovalFails(s)

Next ==
    \/ \E e \in Execs :
        \/ CommandLocks(e) \/ Begin(e) \/ CommandUnlocks(e) \/ ContextEnds(e)
        \/ GuestReady(e) \/ GuestExits(e) \/ Finish(e)
    \/ \E s \in Stops :
        \/ PrepareSandboxStop(s) \/ BeginSandboxForceStop(s)
        \/ \E kind \in Kinds : LocksFirst(s, kind)
        \/ GraceExpires(s) \/ Locks(s) \/ StopStep(s)
    \/ Resume

Spec == Init /\ [][Next]_vars

(* A goroutine that can run does, the grace period ends, the driver        *)
(* answers a stop and returns from a canceled execution, and whoever waits *)
(* for the mutex gets it.  Guests owe nothing: they need not become ready, *)
(* obey a signal or exit.                                                  *)
Fairness ==
    /\ \A s \in Stops :
        WF_vars(StopStep(s)) /\ WF_vars(GraceExpires(s)) /\ SF_vars(Locks(s))
    /\ \A e \in Execs :
        /\ WF_vars(e \in canceled /\ Finish(e))
        /\ WF_vars(lock = e /\ (Begin(e) \/ CommandUnlocks(e)))
FairSpec == Spec /\ Fairness

----------------------------------------------------------------------------
(* Every variable has its type, and only active executions are canceled.   *)
TypeOK ==
    /\ stopping \in 0..(Cardinality(Stops) + 1)
    /\ active \subseteq Execs /\ canceled \subseteq active
    /\ guest \in [Execs -> {"none", "starting", "ready", "signaled", "gone", "done"}]
    /\ lock \in Stops \cup Commands \cup {None}
    /\ status \in {"running", "stopped", "deleting", "gone"}
    /\ st \in [Stops -> [kind : Kinds, pending : SUBSET Execs,
                         pc : {"idle", "signal", "wait", "lock", "stop", "driver", "release"},
                         outcome : {"skipped", "graceful", "forced"}]]
    /\ leaked \in {0, 1}

(* stopping: the count is the number of stops that have not released the   *)
(* gate, whatever the order in which overlapping stops close and release   *)
(* it; only a removal, which never releases, leaves one behind.            *)
GateIsBalanced == stopping = Cardinality(Holding) + leaked

(* PrepareSandboxStop: a preparation that reports a graceful outcome left  *)
(* no execution behind, and none has begun since.                          *)
GracefulIsReal ==
    \A s \in Holding : st[s].outcome = "graceful" => active = {}

(* StopSandbox: whatever is still active while the driver stops the        *)
(* sandbox has been canceled, if the stop owns the gate: a removal that    *)
(* found the gate closed by a stop which has unlocked but not released yet *)
(* loses it to that release.                                               *)
CanceledBeforeStop ==
    \A s \in InDriver : s \in Holding \/ leaked = 1 => active \subseteq canceled

(* StopLoadedWithOptions: a stop cancels the executions before it waits    *)
(* for the lock, and the grace period bounds the wait, so every graceful   *)
(* and every forced stop returns, even behind a command that holds the     *)
(* lock and whose guest never becomes ready, obeys or exits.               *)
StopsReturn ==
    \A s \in Stops :
        ~At(s, "idle") /\ st[s].kind \in {"graceful", "force"} ~> At(s, "idle")
=============================================================================
