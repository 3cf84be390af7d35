--------------------------- MODULE RunCompletion ---------------------------
(***************************************************************************)
(* One project run from the StartRun request to its terminal record: the   *)
(* run supervisor (pkg/agentcompose/app/run_supervisor.go), the executor   *)
(* (pkg/runs/controller.go, coordinator.go, sandbox_preparation.go), the   *)
(* completion journal and its manager (pkg/runs/completion.go,             *)
(* pkg/storage/configstore/project_run_completion.go) and the startup      *)
(* reconciliation of interrupted runs (pkg/agentcompose/app/background.go).*)
(*                                                                         *)
(* Rows of SQLite (runs, journal, statusEvents) and sandboxes (box)        *)
(* survive a crash; everything else is memory of one daemon process.       *)
(* A coordinator operation is a read of the run row followed by a write of *)
(* the WHOLE row, so it takes two steps here; a store transaction is one.  *)
(***************************************************************************)
EXTENDS Integers, FiniteSets

CONSTANTS
    Runs,          \* run ids (StableProjectRunID of an idempotency key)
    Requests,      \* StartRun calls; several may carry the same key
    RunOf,         \* the run a request's idempotency key resolves to
    Reusing,       \* requests that name an existing sandbox
    Policies,      \* cleanup policies that requests carry
    MaxAttempts,   \* completionMaxAttempts (8 in the code)
    MaxCrashes,    \* bound on daemon crashes and restarts
    NoRow,         \* absent journal row, unread snapshot, no registration
    Absent         \* a run row that was never inserted

ASSUME RequestsResolve == RunOf \in [Requests -> Runs]
ASSUME ReusingRequests == Reusing \subseteq Requests
ASSUME PoliciesKnown == Policies \subseteq {"keep", "stop", "remove"}
ASSUME AttemptsPositive == MaxAttempts \in Nat \ {0}
ASSUME CrashesBounded == MaxCrashes \in Nat

Terminal == {"succeeded", "failed", "canceled"}
Statuses == {"pending", "running"} \cup Terminal
Actions == {"none", "stop", "remove"}

VARIABLES
    runs,          \* project_run table
    journal,       \* project_run_completion table
    statusEvents,  \* terminal status events appended per run
    box,           \* sandbox each request's execution created or reuses
    taskStarts,    \* how often the task of a run was launched
    pc, snap, target, cancelled,   \* the executor serving each request
    active,        \* RunSupervisor.active
    held,          \* what the holder of a run's completion lock has read
    daemon,        \* phase of the daemon process
    todo,          \* rows startup reconciliation has listed and not handled
    crashes

execVars == <<pc, snap, target, cancelled>>
storeVars == <<runs, journal, statusEvents>>
vars == <<runs, journal, statusEvents, box, taskStarts, pc, snap, target,
          cancelled, active, held, daemon, todo, crashes>>

Row == [status : Statuses, sandbox : Requests \cup {NoRow}, created : BOOLEAN,
        policy : {"keep", "stop", "remove"},
        cleanupError : BOOLEAN, detach : BOOLEAN]
Completion == [target : Terminal, sandbox : Requests \cup {NoRow},
               action : Actions, attempt : 0 .. MaxAttempts - 1, due : BOOLEAN]
Holding == [step : {"cleanup", "finalize", "abandon"}, row : Row,
            completion : Completion]

ASSUME SentinelsDistinct ==
    /\ NoRow \notin Requests \cup Row \cup Completion \cup Holding
    /\ Absent \notin Row

(* Program points of an executor: waiting to register; between             *)
(* registration and the staged result; staging, waiting and leaving.       *)
Preparing == {"prepare", "create", "bindRead", "bindWrite", "start"}
Launching == {"mark", "markWrite", "launch", "detachWrite", "task"}
Completing == {"complete", "stage", "interrupt", "wait", "leave"}
Executing == Preparing \cup Launching \cup {"follow"} \cup Completing

(* A sandbox is live until a removal takes it on. One that is deleting has *)
(* its deletion intent journaled; one that is kept is active again after a *)
(* removal that failed, whatever its runtime does. The sandbox of a        *)
(* reusing request counts as absent until the request looks it up.         *)
Live == {"created", "running", "stopped"}
Boxes == Live \cup {"absent", "deleting", "kept", "removed"}

TypeOK ==
    /\ runs \in [Runs -> Row \cup {Absent}]
    /\ journal \in [Runs -> Completion \cup {NoRow}]
    /\ statusEvents \in [Runs -> Nat]
    /\ box \in [Requests -> Boxes]
    /\ taskStarts \in [Runs -> Nat]
    /\ pc \in [Requests -> {"idle", "begun", "returned"} \cup Executing]
    /\ snap \in [Requests -> Row \cup {NoRow}]
    /\ target \in [Requests -> Terminal]
    /\ cancelled \in [Requests -> BOOLEAN]
    /\ active \in [Runs -> Requests \cup {NoRow}]
    /\ held \in [Runs -> Holding \cup {NoRow}]
    /\ daemon \in {"listPending", "reconcilePending", "listRunning",
                   "reconcileRunning", "serving", "stopping", "down"}
    /\ todo \in [Runs -> Row \cup {NoRow}]
    /\ crashes \in 0 .. MaxCrashes

Init ==
    /\ runs = [r \in Runs |-> Absent]
    /\ journal = [r \in Runs |-> NoRow]
    /\ statusEvents = [r \in Runs |-> 0]
    /\ box = [q \in Requests |-> "absent"]
    /\ taskStarts = [r \in Runs |-> 0]
    /\ pc = [q \in Requests |-> "idle"]
    /\ snap = [q \in Requests |-> NoRow]
    /\ target = [q \in Requests |-> "failed"]
    /\ cancelled = [q \in Requests |-> FALSE]
    /\ active = [r \in Runs |-> NoRow]
    /\ held = [r \in Runs |-> NoRow]
    /\ daemon = "serving"
    /\ todo = [r \in Runs |-> NoRow]
    /\ crashes = 0

----------------------------------------------------------------------------
(* Run rows                                                                *)

ProjectRun(status, sandbox, created, policy, cleanupError, detach) ==
    [status |-> status, sandbox |-> sandbox, created |-> created, policy |-> policy,
     cleanupError |-> cleanupError, detach |-> detach]

NewCompletion(t, sandbox, action, attempt, due) ==
    [target |-> t, sandbox |-> sandbox, action |-> action, attempt |-> attempt,
     due |-> due]

StatusIsTerminal(row) == row # Absent /\ row.status \in Terminal

(* A sandbox the run found is never removed, only stopped.                 *)
CompletionCleanupAction(row) ==
    IF row.sandbox = NoRow \/ row.policy = "keep" THEN "none"
    ELSE IF row.policy = "remove" /\ row.created THEN "remove"
    ELSE "stop"

(* Faulty variant: a later writer replaces the row.                        *)
StageReplaces(r, t, sandbox, action) ==
    IF StatusIsTerminal(runs[r])
    THEN UNCHANGED storeVars
    ELSE /\ journal' = [journal EXCEPT ![r] =
                          NewCompletion(t, sandbox, action, 0, TRUE)]
         /\ runs' = [runs EXCEPT ![r].status = "running"]
         /\ UNCHANGED statusEvents

(* StageProjectRunCompletion: refused on a terminal run, first writer wins *)
(* on an existing row, and a created row keeps the run active.             *)
StageProjectRunCompletion(r, t, sandbox, action) ==
    IF StatusIsTerminal(runs[r]) \/ journal[r] # NoRow
    THEN UNCHANGED storeVars
    ELSE /\ journal' = [journal EXCEPT ![r] =
                          NewCompletion(t, sandbox, action, 0, TRUE)]
         /\ runs' = [runs EXCEPT ![r] =
                       ProjectRun("running", @.sandbox, @.created, @.policy, FALSE,
                                  @.detach)]
         /\ UNCHANGED statusEvents

(* terminalRunUpdate: the staged transition is applied to the row that was *)
(* read under the run lock.                                                *)
terminalRunUpdate(row, completion) ==
    ProjectRun(completion.target,
               IF completion.sandbox # NoRow THEN completion.sandbox
                                             ELSE row.sandbox,
               row.created, row.policy, row.cleanupError, row.detach)

(* finalizeProjectRunCompletion: the caller's row overwrites the stored    *)
(* one except its detach fields; the status event is appended and the      *)
(* journal row deleted in the same transaction.                            *)
finalizeProjectRunCompletion(r, row, cleanupError) ==
    /\ runs' = [runs EXCEPT ![r] =
                  ProjectRun(row.status, row.sandbox, row.created, row.policy,
                             cleanupError, @.detach)]
    /\ statusEvents' = [statusEvents EXCEPT ![r] = @ + 1]
    /\ journal' = [journal EXCEPT ![r] = NoRow]

----------------------------------------------------------------------------
(* StartRun                                                                *)

(* StartProjectRun -> BeginRun: INSERT ... ON CONFLICT DO NOTHING returns  *)
(* the stored row, and StartRun goes on only when that row is pending.     *)
BeginRun(q) ==
    LET r == RunOf[q] IN
    /\ daemon = "serving" /\ pc[q] = "idle"
    /\ \/ /\ runs[r] = Absent
          /\ \E p \in Policies :
               runs' = [runs EXCEPT ![r] =
                          ProjectRun("pending", NoRow, FALSE, p, FALSE, FALSE)]
          /\ pc' = [pc EXCEPT ![q] = "begun"]
       \/ /\ runs[r] # Absent
          /\ pc' = [pc EXCEPT ![q] = IF runs[r].status = "pending"
                                     THEN "begun" ELSE "returned"]
          /\ UNCHANGED runs
    /\ UNCHANGED <<journal, statusEvents, box, taskStarts, snap, target,
                   cancelled, active, held, daemon, todo, crashes>>

(* Faulty variant: a second StartRun replaces the registration.            *)
registerAgain(q) ==
    /\ pc[q] = "begun"
    /\ active' = [active EXCEPT ![RunOf[q]] = q]
    /\ pc' = [pc EXCEPT ![q] = "prepare"]
    /\ UNCHANGED <<storeVars, box, taskStarts, snap, target, cancelled, held,
                   daemon, todo, crashes>>

(* register: the pending row was read before the registry is consulted.    *)
register(q) ==
    LET r == RunOf[q] IN
    /\ pc[q] = "begun"
    /\ \/ /\ active[r] = NoRow
          /\ active' = [active EXCEPT ![r] = q]
          /\ pc' = [pc EXCEPT ![q] = "prepare"]
       \/ /\ active[r] # NoRow
          /\ pc' = [pc EXCEPT ![q] = "returned"]
          /\ UNCHANGED active
    /\ UNCHANGED <<storeVars, box, taskStarts, snap, target, cancelled, held,
                   daemon, todo, crashes>>

(* StopActiveRun cancels the execution context of the registered executor. *)
StopActiveRun(r) ==
    /\ daemon = "serving" /\ active[r] # NoRow /\ ~cancelled[active[r]]
    /\ cancelled' = [cancelled EXCEPT ![active[r]] = TRUE]
    /\ UNCHANGED <<storeVars, box, taskStarts, pc, snap, target, active, held,
                   daemon, todo, crashes>>

unregister(q) ==
    /\ pc[q] = "leave"
    /\ active' = [active EXCEPT ![RunOf[q]] = NoRow]
    /\ pc' = [pc EXCEPT ![q] = "returned"]
    /\ cancelled' = [cancelled EXCEPT ![q] = FALSE]
    /\ UNCHANGED <<storeVars, box, taskStarts, snap, target, held, daemon,
                   todo, crashes>>

----------------------------------------------------------------------------
(* executeStartedProjectRun                                                *)

(* prepCtx: cancelled by StopRun and by daemon shutdown.                   *)
PrepCancelled(q) == cancelled[q] \/ daemon = "stopping"

ErrorStatus(isCancelled) == IF isCancelled THEN "canceled" ELSE "failed"

(* completeProjectRunError: an executor gives up and goes on to Complete.  *)
FailWith(q, status) ==
    /\ pc' = [pc EXCEPT ![q] = "complete"]
    /\ target' = [target EXCEPT ![q] = status]

prepareProjectRun(q) ==
    /\ pc[q] = "prepare"
    /\ \/ pc' = [pc EXCEPT ![q] = "create"] /\ UNCHANGED target
       \/ FailWith(q, ErrorStatus(PrepCancelled(q)))
    /\ UNCHANGED <<storeVars, box, taskStarts, snap, cancelled, active, held,
                   daemon, todo, crashes>>

(* ensureProjectRunSandbox up to the bind: a sandbox is created, or the    *)
(* one the request names is looked up. One that is being deleted, or whose *)
(* driver is refused, fails the run, which names it all the same; one that *)
(* cannot be loaded or has a pending completion is not even named.         *)
CreateSandbox(q) ==
    /\ pc[q] = "create"
    /\ \/ /\ \E b \in IF q \in Reusing THEN {"running", "stopped"} ELSE {"created"} :
               box' = [box EXCEPT ![q] = b]
          /\ pc' = [pc EXCEPT ![q] = "bindRead"]
          /\ UNCHANGED target
       \/ /\ q \in Reusing
          /\ \E b \in {"running", "stopped", "deleting"} : box' = [box EXCEPT ![q] = b]
          /\ FailWith(q, ErrorStatus(PrepCancelled(q)))
       \/ FailWith(q, ErrorStatus(PrepCancelled(q))) /\ UNCHANGED box
    /\ UNCHANGED <<storeVars, taskStarts, snap, cancelled, active, held,
                   daemon, todo, crashes>>

(* Faulty variant: the sandbox of a refused bind is forgotten.             *)
BindRefusedKeepsSandbox(q) ==
    /\ FailWith(q, ErrorStatus(PrepCancelled(q)))
    /\ snap' = [snap EXCEPT ![q] = NoRow]
    /\ UNCHANGED <<runs, box>>

(* A refused BindSandbox removes the sandbox just created. A removal that  *)
(* fails before it journals its intent, or takes it back because the       *)
(* runtime cannot be removed, leaves the sandbox active; one that fails    *)
(* later leaves it to deletion recovery. A reused sandbox is left alone.   *)
BindRefused(q) ==
    /\ \/ q \in Reusing /\ UNCHANGED box
       \/ /\ q \notin Reusing
          /\ \E b \in {"removed", "deleting", "kept"} : box' = [box EXCEPT ![q] = b]
    /\ FailWith(q, ErrorStatus(PrepCancelled(q)))
    /\ snap' = [snap EXCEPT ![q] = NoRow]
    /\ UNCHANGED runs

BindSandboxRead(q) ==
    /\ pc[q] = "bindRead"
    /\ \/ /\ StatusIsTerminal(runs[RunOf[q]]) \/ PrepCancelled(q)
          /\ BindRefused(q)
       \/ /\ ~StatusIsTerminal(runs[RunOf[q]]) /\ ~PrepCancelled(q)
          /\ snap' = [snap EXCEPT ![q] = runs[RunOf[q]]]
          /\ pc' = [pc EXCEPT ![q] = "bindWrite"]
          /\ UNCHANGED <<runs, box, target>>
    /\ UNCHANGED <<journal, statusEvents, taskStarts, cancelled, active, held,
                   daemon, todo, crashes>>

BindSandboxWrite(q) ==
    /\ pc[q] = "bindWrite"
    /\ \/ PrepCancelled(q) /\ BindRefused(q)
       \/ /\ ~PrepCancelled(q)
          /\ runs' = [runs EXCEPT ![RunOf[q]] =
                        ProjectRun(snap[q].status, q, q \notin Reusing, snap[q].policy,
                                   snap[q].cleanupError, snap[q].detach)]
          /\ snap' = [snap EXCEPT ![q] = NoRow]
          /\ pc' = [pc EXCEPT ![q] = "start"]
          /\ UNCHANGED <<box, target>>
    /\ UNCHANGED <<journal, statusEvents, taskStarts, cancelled, active, held,
                   daemon, todo, crashes>>

startProjectRunSandbox(q) ==
    /\ pc[q] = "start"
    /\ \/ /\ box' = [box EXCEPT ![q] = "running"]
          /\ pc' = [pc EXCEPT ![q] = "mark"]
          /\ UNCHANGED target
       \/ FailWith(q, ErrorStatus(PrepCancelled(q))) /\ UNCHANGED box
    /\ UNCHANGED <<storeVars, taskStarts, snap, cancelled, active, held,
                   daemon, todo, crashes>>

(* The cancellation check, the terminal check and the read of MarkRunning. *)
MarkRunningRead(q) ==
    LET row == runs[RunOf[q]] IN
    /\ pc[q] = "mark"
    /\ \/ PrepCancelled(q) /\ FailWith(q, "canceled") /\ UNCHANGED snap
       \/ /\ ~PrepCancelled(q) /\ StatusIsTerminal(row)
          /\ pc' = [pc EXCEPT ![q] = "leave"]
          /\ UNCHANGED <<snap, target>>
       \/ /\ ~PrepCancelled(q) /\ ~StatusIsTerminal(row)
          /\ snap' = [snap EXCEPT ![q] = row]
          /\ pc' = [pc EXCEPT ![q] = "markWrite"]
          /\ UNCHANGED target
    /\ UNCHANGED <<storeVars, box, taskStarts, cancelled, active, held, daemon,
                   todo, crashes>>

MarkRunningWrite(q) ==
    LET r == RunOf[q] IN
    /\ pc[q] = "markWrite"
    /\ runs' = [runs EXCEPT ![r] =
                  ProjectRun("running", q, snap[q].created, snap[q].policy,
                             snap[q].cleanupError, @.detach)]
    /\ snap' = [snap EXCEPT ![q] = NoRow]
    /\ pc' = [pc EXCEPT ![q] = "launch"]
    /\ UNCHANGED <<journal, statusEvents, box, taskStarts, target, cancelled,
                   active, held, daemon, todo, crashes>>

(* A guest without the detach supervisor runs the task directly; otherwise *)
(* persistDetachedRunFields reads the row before the task starts.          *)
LaunchTask(q) ==
    /\ pc[q] = "launch"
    /\ \/ /\ pc' = [pc EXCEPT ![q] = "task"]
          /\ taskStarts' = [taskStarts EXCEPT ![RunOf[q]] = @ + 1]
          /\ UNCHANGED snap
       \/ /\ pc' = [pc EXCEPT ![q] = "detachWrite"]
          /\ snap' = [snap EXCEPT ![q] = runs[RunOf[q]]]
          /\ UNCHANGED taskStarts
    /\ UNCHANGED <<storeVars, box, target, cancelled, active, held, daemon,
                   todo, crashes>>

persistDetachedRunFields(q) ==
    /\ pc[q] = "detachWrite"
    /\ runs' = [runs EXCEPT ![RunOf[q]] =
                  ProjectRun(snap[q].status, snap[q].sandbox, snap[q].created,
                             snap[q].policy, snap[q].cleanupError, TRUE)]
    /\ snap' = [snap EXCEPT ![q] = NoRow]
    /\ pc' = [pc EXCEPT ![q] = "task"]
    /\ taskStarts' = [taskStarts EXCEPT ![RunOf[q]] = @ + 1]
    /\ UNCHANGED <<journal, statusEvents, box, target, cancelled, active, held,
                   daemon, todo, crashes>>

(* The context of the task: a detached task survives daemon shutdown.      *)
TaskCancelled(q) ==
    cancelled[q] \/ (daemon = "stopping" /\ ~runs[RunOf[q]].detach)

(* completeProjectRunCommand, finishProjectRunAgent and their re-attached  *)
(* forms: the outcome of the task selects the status to complete with.     *)
TaskEnds(q) ==
    /\ pc[q] = "task" \/ (pc[q] = "follow" /\ box[q] = "running")
    /\ \E t \in {"succeeded", ErrorStatus(TaskCancelled(q))} : FailWith(q, t)
    /\ UNCHANGED <<storeVars, box, taskStarts, snap, cancelled, active, held,
                   daemon, todo, crashes>>

(* Timing assumption. Between BeginRun and register StartRun only compares *)
(* two strings, so it does not outlast a task's launch followed by a       *)
(* daemon shutdown, nor the five minutes of completionWaitTimeout. Every   *)
(* other interleaving of two StartRun calls is allowed.                    *)
StartersRegistered(r) ==
    \A p \in Requests : RunOf[p] = r => pc[p] # "begun"

(* ErrRunDisconnected: the daemon shuts down, the detached task goes on.   *)
Disconnect(q) ==
    /\ pc[q] \in {"task", "follow"} /\ runs[RunOf[q]].detach
    /\ daemon = "stopping" /\ ~cancelled[q]
    /\ StartersRegistered(RunOf[q])
    /\ pc' = [pc EXCEPT ![q] = "leave"]
    /\ UNCHANGED <<storeVars, box, taskStarts, snap, target, cancelled, active,
                   held, daemon, todo, crashes>>

(* ReattachDetachedRun before it follows the journal: the sandbox is no    *)
(* longer running, or cannot be loaded and onFailure stages the run.       *)
ReattachFails(q) ==
    /\ pc[q] = "follow"
    /\ \/ box[q] # "running" /\ FailWith(q, ErrorStatus(cancelled[q]))
       \/ pc' = [pc EXCEPT ![q] = "interrupt"] /\ UNCHANGED target
    /\ UNCHANGED <<storeVars, box, taskStarts, snap, cancelled, active, held,
                   daemon, todo, crashes>>

StageReattachFailure(q) ==
    /\ pc[q] = "interrupt"
    /\ StageProjectRunCompletion(RunOf[q], "failed", NoRow,
                                 CompletionCleanupAction(snap[q]))
    /\ pc' = [pc EXCEPT ![q] = "leave"]
    /\ snap' = [snap EXCEPT ![q] = NoRow]
    /\ UNCHANGED <<box, taskStarts, target, cancelled, active, held, daemon,
                   todo, crashes>>

----------------------------------------------------------------------------
(* CompletionManager                                                       *)

(* Complete: the row is read first; its cleanup action is staged later. A  *)
(* transition names the sandbox its executor got, bound or not.            *)
CompleteRead(q) ==
    LET row == runs[RunOf[q]] IN
    /\ pc[q] = "complete"
    /\ pc' = [pc EXCEPT ![q] = IF StatusIsTerminal(row) THEN "leave" ELSE "stage"]
    /\ snap' = [snap EXCEPT ![q] = IF StatusIsTerminal(row) THEN NoRow ELSE row]
    /\ UNCHANGED <<storeVars, box, taskStarts, target, cancelled, active, held,
                   daemon, todo, crashes>>

(* Faulty variant: a cancelled execution returns without staging its result.*)
CompleteStageUnlessCancelled(q) ==
    /\ pc[q] = "stage"
    /\ IF cancelled[q] THEN UNCHANGED storeVars
       ELSE StageProjectRunCompletion(RunOf[q], target[q],
                                      IF box[q] = "absent" THEN NoRow ELSE q,
                                      CompletionCleanupAction(snap[q]))
    /\ pc' = [pc EXCEPT ![q] = "wait"]
    /\ snap' = [snap EXCEPT ![q] = NoRow]
    /\ UNCHANGED <<box, taskStarts, target, cancelled, active, held, daemon,
                   todo, crashes>>

CompleteStage(q) ==
    /\ pc[q] = "stage"
    /\ StageProjectRunCompletion(RunOf[q], target[q],
                                 IF box[q] = "absent" THEN NoRow ELSE q,
                                 CompletionCleanupAction(snap[q]))
    /\ pc' = [pc EXCEPT ![q] = "wait"]
    /\ snap' = [snap EXCEPT ![q] = NoRow]
    /\ UNCHANGED <<box, taskStarts, target, cancelled, active, held, daemon,
                   todo, crashes>>

(* The loop of Complete ends when the run is terminal or its journal row   *)
(* is gone; completionWaitTimeout ends it after five minutes.              *)
CompleteReturns(q) ==
    LET r == RunOf[q] IN
    /\ pc[q] = "wait"
    /\ journal[r] = NoRow \/ StartersRegistered(r)
    /\ pc' = [pc EXCEPT ![q] = "leave"]
    /\ UNCHANGED <<storeVars, box, taskStarts, snap, target, cancelled, active,
                   held, daemon, todo, crashes>>

(* process, under the run lock: a due journal row and the run row are read *)
(* before the sandbox is cleaned up.                                       *)
ProcessBegin(r) ==
    /\ daemon # "down" /\ held[r] = NoRow
    /\ journal[r] # NoRow /\ journal[r].due
    /\ held' = [held EXCEPT ![r] = [step |-> "cleanup", row |-> runs[r],
                                    completion |-> journal[r]]]
    /\ UNCHANGED <<storeVars, box, taskStarts, execVars, active, daemon, todo,
                   crashes>>

(* cleanup: removal and stop both succeed on a sandbox that is gone.       *)
CleanupSucceeds(r) ==
    LET q == held[r].row.sandbox
        action == held[r].completion.action
        remove == action = "remove"
        stop == action = "stop" /\ q # NoRow /\ box[q] \notin {"removed", "deleting"}
    IN
    /\ held[r] # NoRow /\ held[r].step = "cleanup"
    /\ box' = IF q # NoRow /\ remove THEN [box EXCEPT ![q] = "removed"]
              ELSE IF stop THEN [box EXCEPT ![q] = "stopped"]
              ELSE box
    /\ held' = [held EXCEPT ![r] = [step |-> "finalize", row |-> @.row,
                                    completion |-> @.completion]]
    /\ UNCHANGED <<storeVars, taskStarts, execVars, active, daemon, todo, crashes>>

(* FinalizeProjectRunCompletion.                                           *)
Finalize(r) ==
    /\ held[r] # NoRow /\ held[r].step = "finalize"
    /\ finalizeProjectRunCompletion(
           r, terminalRunUpdate(held[r].row, held[r].completion), FALSE)
    /\ held' = [held EXCEPT ![r] = NoRow]
    /\ UNCHANGED <<box, taskStarts, execVars, active, daemon, todo, crashes>>

(* Faulty variant: attempts are not counted.                               *)
CleanupFailsForever(r) ==
    /\ held[r] # NoRow /\ held[r].step = "cleanup"
    /\ held[r].completion.action # "none" /\ held[r].row.sandbox # NoRow
    /\ journal' = [journal EXCEPT ![r].due = FALSE]
    /\ held' = [held EXCEPT ![r] = NoRow]
    /\ UNCHANGED <<runs, statusEvents, box, taskStarts, execVars, active, daemon,
                   todo, crashes>>

(* What a cleanup that failed may have done to the sandbox it was for.     *)
HalfCleaned(action, b) ==
    IF b = "removed" THEN {b}
    ELSE IF action = "remove" THEN {b, "deleting", "kept"}
    ELSE {b, "stopped"}

(* A failed cleanup is recorded with a later next_attempt_at; the last     *)
(* attempt is abandonCleanup, which finalizes and keeps the error.         *)
CleanupFails(r) ==
    LET attempt == held[r].completion.attempt + 1
        q == held[r].row.sandbox
    IN
    /\ held[r] # NoRow /\ held[r].step = "cleanup"
    /\ held[r].completion.action # "none" /\ q # NoRow
    /\ \E b \in HalfCleaned(held[r].completion.action, box[q]) :
          box' = [box EXCEPT ![q] = b]
    /\ \/ /\ attempt >= MaxAttempts
          /\ finalizeProjectRunCompletion(
                 r, terminalRunUpdate(held[r].row, held[r].completion), TRUE)
       \/ /\ attempt < MaxAttempts
          /\ journal' = [journal EXCEPT ![r] =
                           NewCompletion(@.target, @.sandbox, @.action, attempt, FALSE)]
          /\ runs' = [runs EXCEPT ![r] =
                        ProjectRun(@.status, @.sandbox, @.created, @.policy, TRUE,
                                   @.detach)]
          /\ UNCHANGED statusEvents
    /\ held' = [held EXCEPT ![r] = NoRow]
    /\ UNCHANGED <<taskStarts, execVars, active, daemon, todo, crashes>>

(* completionRetryDelay passes.                                            *)
RetryDue(r) ==
    /\ daemon # "down" /\ journal[r] # NoRow /\ ~journal[r].due
    /\ journal' = [journal EXCEPT ![r] =
                     NewCompletion(@.target, @.sandbox, @.action, @.attempt, TRUE)]
    /\ UNCHANGED <<runs, statusEvents, box, taskStarts, execVars, active, held,
                   daemon, todo, crashes>>

(* AbandonCompletion: the operator's way out, under the same run lock.     *)
AbandonBegin(r) ==
    /\ daemon = "serving" /\ held[r] = NoRow
    /\ runs[r] # Absent /\ ~StatusIsTerminal(runs[r]) /\ journal[r] # NoRow
    /\ held' = [held EXCEPT ![r] = [step |-> "abandon", row |-> runs[r],
                                    completion |-> journal[r]]]
    /\ UNCHANGED <<storeVars, box, taskStarts, execVars, active, daemon, todo,
                   crashes>>

(* Faulty variant: the abandoned run does not say so.                      *)
AbandonCommitSilently(r) ==
    /\ held[r] # NoRow /\ held[r].step = "abandon"
    /\ finalizeProjectRunCompletion(
           r, terminalRunUpdate(held[r].row, held[r].completion), FALSE)
    /\ held' = [held EXCEPT ![r] = NoRow]
    /\ UNCHANGED <<box, taskStarts, execVars, active, daemon, todo, crashes>>

AbandonCommit(r) ==
    /\ held[r] # NoRow /\ held[r].step = "abandon"
    /\ finalizeProjectRunCompletion(
           r, terminalRunUpdate(held[r].row, held[r].completion), TRUE)
    /\ held' = [held EXCEPT ![r] = NoRow]
    /\ UNCHANGED <<box, taskStarts, execVars, active, daemon, todo, crashes>>

----------------------------------------------------------------------------
(* Shutdown, crash and startup                                             *)

Shutdown ==
    /\ daemon = "serving" /\ crashes < MaxCrashes
    /\ daemon' = "stopping"
    /\ UNCHANGED <<storeVars, box, taskStarts, execVars, active, held, todo,
                   crashes>>

(* The process ends, at the end of a shutdown or anywhere: memory is gone. *)
Crash ==
    /\ daemon # "down" /\ crashes < MaxCrashes
    /\ daemon' = "down" /\ crashes' = crashes + 1
    /\ pc' = [q \in Requests |-> IF pc[q] = "idle" THEN "idle" ELSE "returned"]
    /\ snap' = [q \in Requests |-> NoRow]
    /\ cancelled' = [q \in Requests |-> FALSE]
    /\ active' = [r \in Runs |-> NoRow]
    /\ held' = [r \in Runs |-> NoRow]
    /\ todo' = [r \in Runs |-> NoRow]
    /\ UNCHANGED <<storeVars, box, taskStarts, target>>

(* While the daemon is down a sandbox may die; reconcilePersistedSandboxes *)
(* records it as stopped before runs are reconciled.                       *)
SandboxDies(q) ==
    /\ daemon = "down" /\ box[q] = "running"
    /\ box' = [box EXCEPT ![q] = "stopped"]
    /\ UNCHANGED <<storeVars, taskStarts, execVars, active, held, daemon, todo,
                   crashes>>

(* DeletionRecovery of a restarted daemon runs beside everything else: an  *)
(* interrupted removal is completed or, when the runtime cannot be         *)
(* stopped or removed, taken back.                                         *)
RecoverDeletion(q) ==
    /\ daemon # "down" /\ crashes > 0 /\ box[q] = "deleting"
    /\ \E b \in {"removed", "kept"} : box' = [box EXCEPT ![q] = b]
    /\ UNCHANGED <<storeVars, taskStarts, execVars, active, held, daemon, todo,
                   crashes>>

(* The completion workers start before runs are listed.                    *)
Restart ==
    /\ daemon = "down"
    /\ daemon' = "listPending"
    /\ UNCHANGED <<storeVars, box, taskStarts, execVars, active, held, todo,
                   crashes>>

(* Faulty variant: only running rows are reconciled.                       *)
ListRunningOnly ==
    /\ daemon \in {"listPending", "listRunning"}
    /\ todo' = [r \in Runs |-> IF runs[r] # Absent /\ runs[r].status = "running"
                               THEN runs[r] ELSE NoRow]
    /\ daemon' = IF daemon = "listPending" THEN "reconcilePending"
                                           ELSE "reconcileRunning"
    /\ UNCHANGED <<storeVars, box, taskStarts, execVars, active, held, crashes>>

(* reconcilePersistedProjectRunsWithStatus lists all rows of one status... *)
ListStaleRuns ==
    LET status == IF daemon = "listPending" THEN "pending" ELSE "running" IN
    /\ daemon \in {"listPending", "listRunning"}
    /\ todo' = [r \in Runs |-> IF runs[r] # Absent /\ runs[r].status = status
                               THEN runs[r] ELSE NoRow]
    /\ daemon' = IF daemon = "listPending" THEN "reconcilePending"
                                           ELSE "reconcileRunning"
    /\ UNCHANGED <<storeVars, box, taskStarts, execVars, active, held, crashes>>

(* ...and then handles the listed, by now possibly stale, rows: a detached *)
(* run without a staged result is re-attached, others are staged failed.   *)
ReconcileRun(r) ==
    LET q == todo[r].sandbox IN
    /\ daemon \in {"reconcilePending", "reconcileRunning"} /\ todo[r] # NoRow
    /\ \/ /\ todo[r].detach /\ journal[r] = NoRow /\ active[r] = NoRow
          /\ active' = [active EXCEPT ![r] = q]
          /\ pc' = [pc EXCEPT ![q] = "follow"]
          /\ snap' = [snap EXCEPT ![q] = todo[r]]
          /\ UNCHANGED storeVars
       \/ /\ todo[r].detach /\ (journal[r] # NoRow \/ active[r] # NoRow)
          /\ UNCHANGED <<storeVars, active, pc, snap>>
       \/ /\ ~todo[r].detach
          /\ StageProjectRunCompletion(r, "failed", NoRow,
                                       CompletionCleanupAction(todo[r]))
          /\ UNCHANGED <<active, pc, snap>>
    /\ todo' = [todo EXCEPT ![r] = NoRow]
    /\ UNCHANGED <<box, taskStarts, target, cancelled, held, daemon, crashes>>

Reconciled ==
    /\ daemon \in {"reconcilePending", "reconcileRunning"}
    /\ \A r \in Runs : todo[r] = NoRow
    /\ daemon' = IF daemon = "reconcilePending" THEN "listRunning" ELSE "serving"
    /\ UNCHANGED <<storeVars, box, taskStarts, execVars, active, held, todo,
                   crashes>>

----------------------------------------------------------------------------

Execute(q) ==
    \/ register(q) \/ unregister(q)
    \/ prepareProjectRun(q) \/ CreateSandbox(q)
    \/ BindSandboxRead(q) \/ BindSandboxWrite(q) \/ startProjectRunSandbox(q)
    \/ MarkRunningRead(q) \/ MarkRunningWrite(q)
    \/ LaunchTask(q) \/ persistDetachedRunFields(q)
    \/ Disconnect(q) \/ ReattachFails(q) \/ StageReattachFailure(q)
    \/ CompleteRead(q) \/ CompleteStage(q) \/ CompleteReturns(q)

Manage(r) ==
    \/ ProcessBegin(r) \/ CleanupSucceeds(r) \/ Finalize(r) \/ CleanupFails(r)
    \/ RetryDue(r) \/ AbandonCommit(r)

Startup ==
    \/ Restart \/ ListStaleRuns \/ Reconciled
    \/ \E r \in Runs : ReconcileRun(r)

Next ==
    \/ \E q \in Requests :
          BeginRun(q) \/ Execute(q) \/ TaskEnds(q) \/ SandboxDies(q) \/ RecoverDeletion(q)
    \/ \E r \in Runs : StopActiveRun(r) \/ Manage(r) \/ AbandonBegin(r)
    \/ Shutdown \/ Crash \/ Startup

Spec == Init /\ [][Next]_vars

(* The Go scheduler runs every started goroutine, the completion workers   *)
(* tick, timers fire, a daemon that shuts down exits, one that is down is  *)
(* restarted, and a stopped task ends within the bounded containment wait. *)
(* A task left alone need never end, a request need never arrive.          *)
Fairness ==
    /\ \A q \in Requests : WF_vars(Execute(q))
    /\ \A q \in Requests : WF_vars(cancelled[q] /\ TaskEnds(q))
    /\ \A r \in Runs : WF_vars(Manage(r))
    /\ WF_vars(Startup)
    /\ WF_vars(daemon = "stopping" /\ Crash)

FairSpec == Spec /\ Fairness

----------------------------------------------------------------------------
(* Properties                                                              *)

(* A staged completion always belongs to a run that is still shown as      *)
(* running: the status guard of StageProjectRunCompletion and the deletion *)
(* in the finalizing transaction keep the two tables in step.              *)
JournaledRunIsRunning ==
    \A r \in Runs : journal[r] # NoRow =>
        runs[r] # Absent /\ runs[r].status = "running"

(* A run gets exactly one terminal status event, at the moment it becomes  *)
(* terminal, whatever workers, operator and re-attached executor do.       *)
OneStatusEvent ==
    \A r \in Runs :
        statusEvents[r] = IF StatusIsTerminal(runs[r]) THEN 1 ELSE 0

(* "a retry with the same idempotency key resolves to the same run, not a  *)
(* second execution" (run_supervisor.go:314): the task of a run is         *)
(* launched at most once, also when a second StartRun read the pending row *)
(* before the first one finished, and across restarts.                     *)
TaskRunsOnce == \A r \in Runs : taskStarts[r] <= 1

(* A serving daemon has no abandoned run: whatever is not terminal either  *)
(* has a staged completion, a registered executor, or a StartRun that is   *)
(* about to register.                                                      *)
NoStrandedRun ==
    daemon = "serving" =>
        \A r \in Runs :
            runs[r] # Absent /\ ~StatusIsTerminal(runs[r]) =>
                \/ journal[r] # NoRow
                \/ active[r] # NoRow
                \/ \E q \in Requests : RunOf[q] = r /\ pc[q] = "begun"

(* A run that ends without a cleanup error had its policy applied to the   *)
(* sandbox bound to it by the time its terminal status shows: one it       *)
(* created is removed under the remove policy, one it reused is stopped    *)
(* there too (execution.go:99), and a failed or skipped cleanup is visible *)
(* in the row. What others do to the sandbox afterwards is their business. *)
CleanupIsHonest ==
    [][\A r \in Runs :
          LET row == runs[r]
              bound == row # Absent /\ row.sandbox # NoRow
              removes == row.policy = "remove" /\ row.created
          IN
          /\ bound /\ ~StatusIsTerminal(row)
          /\ StatusIsTerminal(runs'[r]) /\ ~runs'[r].cleanupError
          => /\ removes => box[row.sandbox] = "removed"
             /\ ~removes /\ row.policy # "keep" => box[row.sandbox] = "stopped"]_vars

(* A StartRun that lost to another one leaves no sandbox of its own behind *)
(* unless the daemon died under it or the removal failed: what it created  *)
(* and could not bind is never just forgotten. A sandbox that is kept      *)
(* because its removal failed has nobody left who would retry it.          *)
LoserLeavesNoSandbox ==
    crashes = 0 =>
        \A q \in Requests \ Reusing :
            pc[q] = "returned" /\ box[q] \in Live => runs[RunOf[q]].sandbox = q

(* Once a result is staged the run reaches a terminal status, even when    *)
(* its sandbox can never be cleaned up and across a crash: attempts are    *)
(* bounded and a restarted daemon processes the journal.                   *)
StagedRunFinishes ==
    \A r \in Runs :
        journal[r] # NoRow ~> StatusIsTerminal(runs[r])

(* A stopped run ends, unless the daemon dies before it did.               *)
StoppedRunFinishes ==
    \A r \in Runs :
        (active[r] # NoRow /\ cancelled[active[r]])
            ~> (StatusIsTerminal(runs[r]) \/ crashes > 0)

----------------------------------------------------------------------------
(* What a client may rely on: the first staged result decides the run.     *)

decision == [r \in Runs |->
    IF StatusIsTerminal(runs[r]) THEN runs[r].status
    ELSE IF journal[r] # NoRow THEN journal[r].target ELSE "open"]
published == {r \in Runs : StatusIsTerminal(runs[r])}

Outcome == INSTANCE RunOutcome WITH decision <- decision, published <- published

(* The completion protocol implements RunOutcome: a result is decided once *)
(* and the terminal status shown is the decided one and never changes.     *)
FirstWriterWins == Outcome!Spec
============================================================================
