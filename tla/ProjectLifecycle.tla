------------------------- MODULE ProjectLifecycle -------------------------
(***************************************************************************)
(* ApplyProject, PatchProject and RemoveProject of one project             *)
(* (internal/projects/controller.go, reconcile.go, down.go): a gate per    *)
(* project name serializes them, and each is a long series of separate     *)
(* store calls.  A call may fail before or after its write took effect,    *)
(* the client may go away, which fails every later call of its request,    *)
(* and the daemon may crash between any two calls.  Outside the gate,      *)
(* SetSchedulerEnabled and SetSchedulerTriggerEnabled write the same rows, *)
(* and the ends of runs refresh the same scheduler controller.             *)
(***************************************************************************)
EXTENDS Naturals, Sequences, FiniteSets, FiniteSetsExt

CONSTANTS
    Callers,
    Kinds,         \* the requests made: subset of {"apply", "patch", "remove"}
    Specs,         \* normalized project specs, told apart by their hash
    Schedulers,    \* numbered in the order of the spec; each has its agent
    InSpec,        \* [Specs -> SUBSET Schedulers]
    EnabledIn,     \* [Specs -> SUBSET Schedulers], those not disabled there
    Sandboxes,
    Refreshers,    \* refreshes of the scheduler controller outside the gate
    None,
    Altered,       \* triggers that are those of no spec
    MaxCalls,      \* bound: requests, writes and refreshes outside the gate
    MaxFaults,     \* bound: failing calls and clients that go away
    MaxCrashes     \* bound: daemon crashes

ASSUME SpecsKnown ==
    /\ Schedulers \subseteq Nat
    /\ InSpec \in [Specs -> SUBSET Schedulers]
    /\ EnabledIn \in [Specs -> SUBSET Schedulers]
    /\ \A p \in Specs : EnabledIn[p] \subseteq InSpec[p]
    /\ None \notin Specs /\ Altered \notin Specs \cup {None}
ASSUME NoneIsNoRow == None \notin [rev : Nat, on : BOOLEAN, trig : Specs \cup {None, Altered}]
ASSUME KindsKnown == Kinds \subseteq {"apply", "patch", "remove"}
ASSUME CallersFinite == IsFiniteSet(Callers)
ASSUME BoundsNatural ==
    MaxCalls \in Nat /\ MaxFaults \in Nat /\ MaxCrashes \in Nat

VARIABLES
    project,    \* the project row, or None: removed_at # 0, spec_hash, current_revision
    revision,   \* project_revision: the spec of each revision
    agents,     \* project_agent: the revision of each row, 0 for no row
    rows,       \* project_scheduler with its triggers, None for no row
    overridden, \* the parts of each row last written outside the gate
    volume,     \* the managed volume exists
    links,      \* project_volumes: the spec the links were made for, or None
    images,     \* schedulers (agents) whose image is in the local cache
    held,       \* the schedulers the scheduler controller holds as enabled
    lists,      \* a refresh outside the gate: the rows it has listed, or None
    stale,      \* held was listed before the last list of a request
    sandbox,    \* the project's sandboxes
    gate,       \* projectLifecycleGates: the gate in the map, 0 for none
    gates,      \* the gate objects
    op,         \* what each caller is doing
    calls, faults, crashes

store == <<project, revision, agents, rows, overridden, volume, links, images>>
cache == <<held, lists, stale>>
locks == <<gate, gates>>
bounds == <<calls, crashes>>
vars == <<store, cache, sandbox, locks, op, faults, bounds>>

GateIDs == 1..Cardinality(Callers)
Idle == [pc |-> "idle", kind |-> "none", spec |-> None, expected |-> None,
         gate |-> 0, todo |-> {}, seen |-> {}, wrote |-> FALSE, dirty |-> FALSE,
         clean |-> TRUE, gone |-> FALSE, reply |-> "none"]

On(s) == rows[s] # None /\ rows[s].on
Enabled == {s \in Schedulers : On(s)}
SetByHand == {s \in Schedulers : "enabled" \in overridden[s]}

Init ==
    /\ project = None /\ revision = <<>>
    /\ agents = [s \in Schedulers |-> 0]
    /\ rows = [s \in Schedulers |-> None]
    /\ overridden = [s \in Schedulers |-> {}]
    /\ volume = FALSE /\ links = None /\ images = {}
    /\ held = {} /\ lists = [r \in Refreshers |-> None] /\ stale = FALSE
    /\ sandbox = [b \in Sandboxes |-> "none"]
    /\ gate = 0 /\ gates = [g \in GateIDs |-> [token |-> FALSE, refs |-> 0]]
    /\ op = [c \in Callers |-> Idle]
    /\ calls = 0 /\ faults = 0 /\ crashes = 0

----------------------------------------------------------------------------
(* A call succeeds, fails without effect, or fails after its write took    *)
(* effect: the stores read the row back after they wrote it.  Once the     *)
(* client is gone every call fails at once.                                *)
Outcomes == {"ok", "lost", "late"}
Answers(c, o) ==
    \/ o = "ok" /\ ~op[c].gone /\ UNCHANGED faults
    \/ o = "lost" /\ op[c].gone /\ UNCHANGED faults
    \/ o # "ok" /\ ~op[c].gone /\ faults < MaxFaults /\ faults' = faults + 1
Takes(o) == o # "lost"

Goes(c, pc) == op' = [op EXCEPT ![c].pc = pc]
Replies(c, r) == op' = [op EXCEPT ![c].pc = "reply", ![c].reply = r]

(* The next step of caller c after a write: on success pc, with the rest   *)
(* of the work; on failure the reply says that nothing is known.           *)
Wrote(c, o, pc, todo) ==
    op' = [op EXCEPT ![c].wrote = IF Takes(o) THEN TRUE ELSE @,
                     ![c].pc = IF o = "ok" THEN pc ELSE "reply",
                     ![c].todo = IF o = "ok" THEN todo ELSE {},
                     ![c].reply = IF o = "ok" THEN @ ELSE "unknown"]

----------------------------------------------------------------------------
(* The gate.                                                               *)

(* acquire: join the gate of the map, or put a new one there.              *)
NewGate == CHOOSE g \in GateIDs : gates[g].refs = 0
Joins(c, record) ==
    LET g == IF gate = 0 THEN NewGate ELSE gate IN
    /\ gate' = g
    /\ gates' = [gates EXCEPT ![g].refs = @ + 1,
                              ![g].token = IF gate = 0 THEN TRUE ELSE @]
    /\ op' = [op EXCEPT ![c] = [record EXCEPT !.gate = g]]

(* Faulty variant: the map entry goes with the first reference dropped.    *)
releaseRefAlways(c) ==
    /\ gates' = [gates EXCEPT ![op[c].gate].refs = @ - 1]
    /\ gate' = 0

releaseRef(c) ==
    /\ gates' = [gates EXCEPT ![op[c].gate].refs = @ - 1]
    /\ gate' = IF gates[op[c].gate].refs = 1 THEN 0 ELSE gate

(* A request resolves the project and joins the gate; patch and remove     *)
(* refuse a project they do not find.                                      *)
Request(c, kind, p, expected) ==
    /\ op[c].pc = "idle" /\ calls < MaxCalls /\ calls' = calls + 1
    /\ kind \in Kinds
    /\ kind = "patch" => project # None /\ ~project.removed
    /\ kind = "remove" => project # None
    /\ Joins(c, [Idle EXCEPT !.pc = "wait", !.kind = kind, !.spec = p,
                             !.expected = expected])
    /\ UNCHANGED <<store, cache, sandbox, faults, crashes>>

(* The token is taken, or the client goes away while waiting for it.       *)
AcquireToken(c) ==
    /\ op[c].pc = "wait" /\ gates[op[c].gate].token
    /\ gates' = [gates EXCEPT ![op[c].gate].token = FALSE]
    /\ Goes(c, "resolve")
    /\ UNCHANGED <<store, cache, sandbox, gate, faults, bounds>>

AcquireCanceled(c) ==
    /\ op[c].pc = "wait" /\ op[c].gone
    /\ releaseRef(c)
    /\ op' = [op EXCEPT ![c] = Idle]
    /\ UNCHANGED <<store, cache, sandbox, faults, bounds>>

(* The deferred release: the token goes back, then the reference.          *)
Release(c) ==
    /\ op[c].pc = "reply"
    /\ gates' = [gates EXCEPT ![op[c].gate].token = TRUE]
    /\ Goes(c, "unref")
    /\ UNCHANGED <<store, cache, sandbox, gate, faults, bounds>>

Unref(c) ==
    /\ op[c].pc = "unref"
    /\ releaseRef(c)
    /\ op' = [op EXCEPT ![c] = Idle]
    /\ UNCHANGED <<store, cache, sandbox, faults, bounds>>

----------------------------------------------------------------------------
(* Under the gate: what the request finds.                                 *)

(* A read of caller c answers or fails.                                    *)
Reads(c, o) == o \in {"ok", "lost"} /\ Answers(c, o)

(* Faulty variant: the expected hash is compared with the hash of the      *)
(* project row, which an apply writes before its revision.                 *)
HashExpectedOfRow(c) == project.hash = op[c].expected

HashExpected(c) == revision[project.rev] = op[c].expected

(* The project is read again; refused says that validation or a dry run    *)
(* ends the request here.                                                  *)
Resolve(c, o, refused) ==
    /\ op[c].pc = "resolve" /\ Reads(c, o)
    /\ refused => op[c].kind # "remove"
    /\ LET found == CASE op[c].kind = "apply" -> TRUE
                      [] op[c].kind = "patch" -> /\ project # None
                                                 /\ ~project.removed /\ project.rev > 0
                                                 /\ HashExpected(c)
                      [] OTHER -> project # None
       IN  IF o # "ok" \/ ~found \/ refused THEN Replies(c, "notApplied")
           ELSE IF op[c].kind = "remove" THEN Goes(c, "downList")
           ELSE op' = [op EXCEPT ![c].pc = "images", ![c].todo = InSpec[op[c].spec]]
    /\ UNCHANGED <<store, cache, sandbox, locks, bounds>>

----------------------------------------------------------------------------
(* applyProject.                                                           *)
First(c) == Min(op[c].todo)
Rest(c) == op[c].todo \ {First(c)}

(* Faulty variant: a missing image always proves that nothing was done.    *)
ImageFailsClean(c, o) == IF o = "lost" /\ ~op[c].gone THEN "notApplied" ELSE "unknown"

(* A reference that is not found proves that nothing was pulled, if no     *)
(* earlier agent's image was ensured; an interrupted pull proves nothing.  *)
ImageFails(c, o) ==
    IF o = "lost" /\ ~op[c].gone /\ op[c].todo = InSpec[op[c].spec]
    THEN "notApplied" ELSE "unknown"

EnsureImages(c, o) ==
    /\ op[c].pc = "images"
    /\ IF op[c].todo = {}
       THEN o = "ok" /\ Goes(c, "volume") /\ UNCHANGED <<images, faults>>
       ELSE /\ Answers(c, o)
            /\ images' = IF o = "ok" THEN images \cup {First(c)} ELSE images
            /\ IF o = "ok"
               THEN op' = [op EXCEPT ![c].todo = Rest(c),
                                     ![c].wrote = @ \/ First(c) \notin images]
               ELSE op' = [op EXCEPT ![c].pc = "reply",
                                     ![c].wrote = @ \/ o = "late",
                                     ![c].reply = ImageFails(c, o)]
    /\ UNCHANGED <<project, revision, agents, rows, overridden, volume, links,
                   cache, sandbox, locks, bounds>>

EnsureVolume(c, o) ==
    /\ op[c].pc = "volume" /\ Answers(c, o)
    /\ volume' = (volume \/ Takes(o))
    /\ Wrote(c, o, "links", {})
    /\ UNCHANGED <<project, revision, agents, rows, overridden, links, images,
                   cache, sandbox, locks, bounds>>

LinkVolumes(c, o) ==
    /\ op[c].pc = "links" /\ Answers(c, o)
    /\ links' = IF Takes(o) THEN op[c].spec ELSE links
    /\ Wrote(c, o, "upsert", {})
    /\ UNCHANGED <<project, revision, agents, rows, overridden, volume, images,
                   cache, sandbox, locks, bounds>>

(* The hash of the new spec is in the row before its revision exists.      *)
Upserted(c) ==
    [removed |-> FALSE, hash |-> op[c].spec,
     rev |-> IF project = None THEN 0 ELSE project.rev]

UpsertProject(c, o) ==
    /\ op[c].pc = "upsert" /\ Answers(c, o)
    /\ project' = IF Takes(o) THEN Upserted(c) ELSE project
    /\ Wrote(c, o, "revision", {})
    /\ UNCHANGED <<revision, agents, rows, overridden, volume, links, images,
                   cache, sandbox, locks, bounds>>

SameRevision(c) == project.rev > 0 /\ revision[project.rev] = op[c].spec

(* One transaction; "late" is also the reload after it that fails.         *)
SaveProjectRevision(c, o) ==
    /\ op[c].pc = "revision" /\ Answers(c, o)
    /\ IF Takes(o) /\ ~SameRevision(c)
       THEN /\ revision' = Append(revision, op[c].spec)
            /\ project' = [removed |-> FALSE, hash |-> op[c].spec, rev |-> Len(revision')]
       ELSE UNCHANGED <<revision, project>>
    /\ Wrote(c, o, "agents", InSpec[op[c].spec])
    /\ UNCHANGED <<agents, rows, overridden, volume, links, images,
                   cache, sandbox, locks, bounds>>

UpsertAgents(c, o) ==
    /\ op[c].pc = "agents"
    /\ IF op[c].todo = {}
       THEN /\ o = "ok" /\ UNCHANGED <<agents, faults>>
            /\ op' = [op EXCEPT ![c].pc = "stage", ![c].todo = InSpec[op[c].spec]]
       ELSE /\ Answers(c, o)
            /\ agents' = IF Takes(o) THEN [agents EXCEPT ![First(c)] = project.rev] ELSE agents
            /\ Wrote(c, o, "agents", Rest(c))
    /\ UNCHANGED <<project, revision, rows, overridden, volume, links, images,
                   cache, sandbox, locks, bounds>>

----------------------------------------------------------------------------
(* ReconcileSchedulers.                                                    *)

(* A write of the row of scheduler s; the parts it settles are its own.    *)
Saves(s, row, parts, o) ==
    /\ IF Takes(o)
       THEN /\ rows' = [rows EXCEPT ![s] = row]
            /\ overridden' = [overridden EXCEPT ![s] = @ \ parts]
       ELSE UNCHANGED <<rows, overridden>>
    /\ UNCHANGED <<project, revision, agents, volume, links, images>>
SetEnabled(s, on, o) == Saves(s, [rows[s] EXCEPT !.on = on], {"enabled"}, o)

(* Faulty variant: only a mutation that failed itself counts.              *)
NeedsFailClosedAfterWrite(c) == FALSE

(* The reconcile of caller c ends in an error: it fails closed when a      *)
(* mutation happened or may have happened.                                 *)
NeedsFailClosed(c) == op[c].dirty

ReconcileFails(c) ==
    op' = [op EXCEPT ![c].pc = IF NeedsFailClosed(c) THEN "closeList" ELSE "reply",
                     ![c].reply = "failed", ![c].todo = {}]
UncertainFails(c) ==
    op' = [op EXCEPT ![c].pc = "closeList", ![c].dirty = TRUE,
                     ![c].reply = "failed", ![c].todo = {}]

(* Faulty variant: the comparison leaves the triggers out.                 *)
UnchangedButTriggers(s, p) ==
    rows[s] # None /\ rows[s].rev = project.rev /\ rows[s].on = (s \in EnabledIn[p])

(* SchedulerRecordUnchanged and SchedulerDefinitionUnchanged: revision,    *)
(* enablement and triggers are the wanted ones.                            *)
Unchanged(s, p) ==
    rows[s] = [rev |-> project.rev, on |-> s \in EnabledIn[p], trig |-> p]

(* The rows the comparison needs cannot be read.                           *)
LoadFails(c) ==
    /\ op[c].pc = "stage" /\ op[c].todo # {} /\ Reads(c, "lost")
    /\ ReconcileFails(c)
    /\ UNCHANGED <<store, cache, sandbox, locks, bounds>>

(* Faulty variant: a row that exists is staged as enabled as it was.       *)
StagedEnabled(s) ==
    IF rows[s] = None THEN [rev |-> project.rev, on |-> FALSE, trig |-> None]
    ELSE [rows[s] EXCEPT !.rev = project.rev]

Staged(s) == [rev |-> project.rev, on |-> FALSE,
              trig |-> IF rows[s] = None THEN None ELSE rows[s].trig]

(* The next scheduler of the spec is compared: one that is as wanted stays *)
(* as it is,                                                               *)
CompareScheduler(c) ==
    /\ op[c].pc = "stage" /\ op[c].todo # {} /\ Reads(c, "ok")
    /\ IF Unchanged(First(c), op[c].spec)
       THEN /\ op' = [op EXCEPT ![c].todo = Rest(c)]
            /\ overridden' = [overridden EXCEPT ![First(c)] = {}]
       ELSE Goes(c, "write") /\ UNCHANGED overridden
    /\ UNCHANGED <<project, revision, agents, rows, volume, links, images,
                   cache, sandbox, locks, bounds>>

(* any other is staged disabled, its triggers are replaced, and it is      *)
(* enabled.                                                                *)
StageScheduler(c, o) ==
    /\ op[c].pc = "write" /\ Answers(c, o)
    /\ Saves(First(c), Staged(First(c)), {"enabled"}, o)
    /\ IF o = "ok" THEN op' = [op EXCEPT ![c].pc = "triggers", ![c].dirty = TRUE]
       ELSE UncertainFails(c)
    /\ UNCHANGED <<cache, sandbox, locks, bounds>>

ReplaceTriggers(c, o) ==
    /\ op[c].pc = "triggers" /\ Answers(c, o)
    /\ Saves(First(c), [rows[First(c)] EXCEPT !.trig = op[c].spec], {"triggers"}, o)
    /\ CASE o # "ok" -> Goes(c, "cleanup")
         [] o = "ok" /\ First(c) \in EnabledIn[op[c].spec] -> Goes(c, "enable")
         [] OTHER -> op' = [op EXCEPT ![c].pc = "stage", ![c].todo = Rest(c)]
    /\ UNCHANGED <<cache, sandbox, locks, bounds>>

EnableScheduler(c, o) ==
    /\ op[c].pc = "enable" /\ Answers(c, o)
    /\ SetEnabled(First(c), TRUE, o)
    /\ IF o = "ok" THEN op' = [op EXCEPT ![c].pc = "stage", ![c].todo = Rest(c)]
       ELSE Goes(c, "cleanup")
    /\ UNCHANGED <<cache, sandbox, locks, bounds>>

(* cleanupFailedSchedulerReconcile: both errors are ignored.               *)
CleanupDisable(c, o) ==
    /\ op[c].pc = "cleanup" /\ Answers(c, o)
    /\ SetEnabled(First(c), FALSE, o)
    /\ op' = [op EXCEPT ![c].pc = "cleanupRefresh", ![c].todo = {}]
    /\ UNCHANGED <<cache, sandbox, locks, bounds>>

(* Refresh of the scheduler controller by a request: it lists the rows,    *)
(* and installs the list later; an error leaves the controller as it was.  *)
Installing == [cleanupRefresh |-> "cleanupInstall", disable |-> "disableInstall",
               close |-> "closeInstall", down |-> "downInstall"]
AtRefresh(c) ==
    /\ op[c].pc \in {"cleanupRefresh", "disable", "close", "down"} /\ op[c].todo = {}
    /\ op[c].pc = "down" => op[c].dirty

ListSchedulers(c) ==
    /\ AtRefresh(c) /\ Reads(c, "ok")
    /\ op' = [op EXCEPT ![c].pc = Installing[@], ![c].todo = Enabled]
    /\ lists' = [r \in Refreshers |->
                   IF lists[r] = None THEN None ELSE [on |-> lists[r].on, late |-> TRUE]]
    /\ UNCHANGED <<store, held, stale, sandbox, locks, bounds>>

Refresh(c, pc, o) ==
    /\ \/ /\ o = "ok" /\ op[c].pc = Installing[pc]
          /\ held' = op[c].todo /\ stale' = FALSE /\ UNCHANGED <<lists, faults>>
       \/ /\ o = "lost" /\ Reads(c, o)
          /\ op[c].pc = Installing[pc] \/ (op[c].pc = pc /\ AtRefresh(c))
          /\ UNCHANGED cache
    /\ UNCHANGED <<store, sandbox, locks, bounds>>

CleanupRefresh(c, o) == Refresh(c, "cleanupRefresh", o) /\ ReconcileFails(c)

(* Schedulers that dropped out of the spec are listed, then disabled.      *)
ListRemoved(c, o) ==
    /\ op[c].pc = "stage" /\ op[c].todo = {} /\ Reads(c, o)
    /\ IF o = "ok"
       THEN op' = [op EXCEPT ![c].pc = "disable", ![c].todo = Enabled \ InSpec[op[c].spec]]
       ELSE ReconcileFails(c)
    /\ UNCHANGED <<store, cache, sandbox, locks, bounds>>

DisableRemoved(c, o) ==
    /\ op[c].pc = "disable" /\ op[c].todo # {} /\ Answers(c, o)
    /\ SetEnabled(First(c), FALSE, o)
    /\ IF o = "ok" THEN op' = [op EXCEPT ![c].todo = Rest(c), ![c].dirty = TRUE]
       ELSE UncertainFails(c)
    /\ UNCHANGED <<cache, sandbox, locks, bounds>>

(* A refresh that fails does not fail closed: the store is reconciled.     *)
RefreshAfterReconcile(c, o) ==
    /\ Refresh(c, "disable", o)
    /\ IF o = "ok" THEN op' = [op EXCEPT ![c].pc = "list", ![c].todo = {}]
       ELSE op' = [op EXCEPT ![c].pc = "reply", ![c].reply = "failed",
                             ![c].clean = FALSE, ![c].todo = {}]

ListApplied(c, o) ==
    /\ op[c].pc = "list" /\ Reads(c, o)
    /\ Replies(c, IF o # "ok" THEN "unknown"
                  ELSE IF op[c].kind = "remove" THEN "removed" ELSE "applied")
    /\ UNCHANGED <<store, cache, sandbox, locks, bounds>>

(* disableProjectSchedulersAfterReconcileFailure: every enabled scheduler  *)
(* is disabled, a failure does not stop the others.                        *)
FailClosedList(c, o) ==
    /\ op[c].pc = "closeList" /\ Reads(c, o)
    /\ IF o = "ok" THEN op' = [op EXCEPT ![c].pc = "close", ![c].todo = Enabled]
       ELSE op' = [op EXCEPT ![c].pc = "reply", ![c].clean = FALSE]
    /\ UNCHANGED <<store, cache, sandbox, locks, bounds>>

FailClosedDisable(c, o) ==
    /\ op[c].pc = "close" /\ op[c].todo # {} /\ Answers(c, o)
    /\ SetEnabled(First(c), FALSE, o)
    /\ op' = [op EXCEPT ![c].todo = Rest(c), ![c].clean = IF o = "ok" THEN @ ELSE FALSE]
    /\ UNCHANGED <<cache, sandbox, locks, bounds>>

FailClosedRefresh(c, o) ==
    /\ Refresh(c, "close", o)
    /\ op' = [op EXCEPT ![c].pc = "reply", ![c].clean = IF o = "ok" THEN @ ELSE FALSE,
                        ![c].todo = {}]

----------------------------------------------------------------------------
(* RemoveProject.                                                          *)

(* DisableProjectSchedulers: list, disable the enabled ones, and refresh   *)
(* the controller if one was disabled.                                     *)
DownList(c, o) ==
    /\ op[c].pc = "downList" /\ Reads(c, o)
    /\ IF o = "ok" THEN op' = [op EXCEPT ![c].pc = "down", ![c].todo = Enabled]
       ELSE op' = [op EXCEPT ![c].pc = "reply", ![c].reply = "unknown"]
    /\ UNCHANGED <<store, cache, sandbox, locks, bounds>>

DownDisable(c, o) ==
    /\ op[c].pc = "down" /\ op[c].todo # {} /\ Answers(c, o)
    /\ SetEnabled(First(c), FALSE, o)
    /\ IF o = "ok" THEN op' = [op EXCEPT ![c].todo = Rest(c), ![c].dirty = TRUE]
       ELSE op' = [op EXCEPT ![c].pc = "reply", ![c].reply = "unknown", ![c].todo = {}]
    /\ UNCHANGED <<cache, sandbox, locks, bounds>>

DownRefresh(c, o) ==
    /\ \/ Refresh(c, "down", o)
       \/ /\ op[c].pc = "down" /\ op[c].todo = {} /\ ~op[c].dirty /\ o = "ok"
          /\ UNCHANGED <<store, cache, sandbox, locks, faults, bounds>>
    /\ IF o = "ok" THEN op' = [op EXCEPT ![c].pc = "listSandboxes", ![c].todo = {}]
       ELSE op' = [op EXCEPT ![c].pc = "reply", ![c].reply = "unknown", ![c].todo = {}]

(* StopProjectRunningSandboxes: a sandbox that cannot be stopped does not  *)
(* keep the others from being stopped, and keeps the project.              *)
ListRunning(c, o) ==
    /\ op[c].pc = "listSandboxes" /\ Reads(c, o)
    /\ LET running == {b \in Sandboxes : sandbox[b] = "running"} IN
       IF o = "ok"
       THEN op' = [op EXCEPT ![c].pc = "stop", ![c].todo = running, ![c].seen = running]
       ELSE op' = [op EXCEPT ![c].pc = "reply", ![c].reply = "unknown"]
    /\ UNCHANGED <<store, cache, sandbox, locks, bounds>>

StopSandbox(c, o) ==
    /\ op[c].pc = "stop" /\ op[c].todo # {} /\ Answers(c, o)
    /\ sandbox' = IF Takes(o) THEN [sandbox EXCEPT ![First(c)] = "stopped"] ELSE sandbox
    /\ op' = [op EXCEPT ![c].todo = Rest(c), ![c].clean = IF o = "ok" THEN @ ELSE FALSE,
                        ![c].seen = IF Takes(o) THEN @ \ {First(c)} ELSE @]
    /\ UNCHANGED <<store, cache, locks, bounds>>

AllStopped(c) == op[c].clean

Stopped(c) ==
    /\ op[c].pc = "stop" /\ op[c].todo = {}
    /\ IF ~AllStopped(c) THEN Replies(c, "failed")
       ELSE Goes(c, IF project.removed THEN "unlink" ELSE "mark")
    /\ UNCHANGED <<store, cache, sandbox, locks, faults, bounds>>

MarkProjectRemoved(c, o) ==
    /\ op[c].pc = "mark" /\ Answers(c, o)
    /\ project' = IF Takes(o) THEN [project EXCEPT !.removed = TRUE] ELSE project
    /\ Wrote(c, o, "unlink", {})
    /\ UNCHANGED <<revision, agents, rows, overridden, volume, links, images,
                   cache, sandbox, locks, bounds>>

RemoveProjectVolumes(c, o) ==
    /\ op[c].pc = "unlink" /\ Answers(c, o)
    /\ links' = IF Takes(o) THEN None ELSE links
    /\ Wrote(c, o, "list", {})
    /\ UNCHANGED <<project, revision, agents, rows, overridden, volume, images,
                   cache, sandbox, locks, bounds>>

----------------------------------------------------------------------------
(* The surroundings.                                                       *)

(* SetSchedulerEnabled and SetSchedulerTriggerEnabled of the scheduler     *)
(* controller, by clients that hold no gate.  Their refreshes are among    *)
(* the ones below.                                                         *)
Overrides(s, part, row) ==
    /\ calls < MaxCalls /\ calls' = calls + 1
    /\ rows' = [rows EXCEPT ![s] = row]
    /\ overridden' = [overridden EXCEPT ![s] = @ \cup {part}]
    /\ UNCHANGED <<project, revision, agents, volume, links, images,
                   cache, sandbox, locks, op, faults, crashes>>

SetSchedulerEnabled(s, on) ==
    /\ rows[s] # None
    /\ Overrides(s, "enabled", [rows[s] EXCEPT !.on = on])

(* A trigger that exists is switched: the triggers are then those of some  *)
(* spec, or of none.                                                       *)
SetSchedulerTriggerEnabled(s, triggers) ==
    /\ rows[s] # None /\ rows[s].trig # None
    /\ Overrides(s, "triggers", [rows[s] EXCEPT !.trig = triggers])

(* A refresh outside the gate, by the end of a run or by another request.  *)
OutsideList(r) ==
    /\ lists[r] = None /\ calls < MaxCalls /\ calls' = calls + 1
    /\ lists' = [lists EXCEPT ![r] = [on |-> Enabled, late |-> FALSE]]
    /\ UNCHANGED <<store, held, stale, sandbox, locks, op, faults, crashes>>

OutsideInstall(r) ==
    /\ lists[r] # None
    /\ held' = lists[r].on /\ stale' = lists[r].late
    /\ lists' = [lists EXCEPT ![r] = None]
    /\ UNCHANGED <<store, sandbox, locks, op, faults, bounds>>

(* A run begun on the live project starts its sandbox later, outside the   *)
(* gate: by then the project may be removed.                               *)
StartSandbox(b) ==
    /\ sandbox[b] # "running" /\ project # None /\ project.rev > 0
    /\ sandbox' = [sandbox EXCEPT ![b] = "running"]
    /\ UNCHANGED <<store, cache, locks, op, faults, bounds>>

SandboxEnds(b) ==
    /\ sandbox[b] = "running"
    /\ sandbox' = [sandbox EXCEPT ![b] = "stopped"]
    /\ UNCHANGED <<store, cache, locks, op, faults, bounds>>

ClientGoes(c) ==
    /\ op[c].pc \notin {"idle", "reply", "unref"} /\ ~op[c].gone
    /\ faults < MaxFaults /\ faults' = faults + 1
    /\ op' = [op EXCEPT ![c].gone = TRUE]
    /\ UNCHANGED <<store, cache, sandbox, locks, bounds>>

(* A crash loses the requests, the gates and what the controller holds;    *)
(* the restart loads the schedulers, and goes on without them if it cannot.*)
Crash ==
    /\ crashes < MaxCrashes /\ crashes' = crashes + 1
    /\ op' = [c \in Callers |-> Idle]
    /\ gate' = 0 /\ gates' = [g \in GateIDs |-> [token |-> FALSE, refs |-> 0]]
    /\ held' \in {Enabled, {}} /\ stale' = FALSE
    /\ lists' = [r \in Refreshers |-> None]
    /\ UNCHANGED <<store, sandbox, faults, calls>>

Quiet == (\A c \in Callers : op[c].pc = "idle") /\ UNCHANGED vars

Apply(c, o) ==
    \/ EnsureImages(c, o) \/ EnsureVolume(c, o) \/ LinkVolumes(c, o)
    \/ UpsertProject(c, o) \/ SaveProjectRevision(c, o) \/ UpsertAgents(c, o)
    \/ StageScheduler(c, o) \/ ReplaceTriggers(c, o) \/ EnableScheduler(c, o)
    \/ CleanupDisable(c, o) \/ CleanupRefresh(c, o)
    \/ ListRemoved(c, o) \/ DisableRemoved(c, o) \/ RefreshAfterReconcile(c, o)
    \/ FailClosedList(c, o) \/ FailClosedDisable(c, o) \/ FailClosedRefresh(c, o)
    \/ ListApplied(c, o)

Remove(c, o) ==
    \/ DownList(c, o) \/ DownDisable(c, o) \/ DownRefresh(c, o)
    \/ ListRunning(c, o) \/ StopSandbox(c, o)
    \/ MarkProjectRemoved(c, o) \/ RemoveProjectVolumes(c, o)

Step(c) ==
    \/ AcquireToken(c) \/ AcquireCanceled(c) \/ Release(c) \/ Unref(c)
    \/ LoadFails(c) \/ CompareScheduler(c) \/ ListSchedulers(c) \/ Stopped(c)
    \/ \E o \in Outcomes : Apply(c, o) \/ Remove(c, o)
    \/ \E o \in Outcomes, refused \in BOOLEAN : Resolve(c, o, refused)

Next ==
    \/ \E c \in Callers : Step(c) \/ ClientGoes(c)
    \/ \E c \in Callers, p \in Specs : Request(c, "apply", p, None)
    \/ \E c \in Callers, p, e \in Specs : Request(c, "patch", p, e)
    \/ \E c \in Callers : Request(c, "remove", None, None)
    \/ \E s \in Schedulers, on \in BOOLEAN : SetSchedulerEnabled(s, on)
    \/ \E s \in Schedulers, triggers \in Specs \cup {Altered} :
          SetSchedulerTriggerEnabled(s, triggers)
    \/ \E r \in Refreshers : OutsideList(r) \/ OutsideInstall(r)
    \/ \E b \in Sandboxes : StartSandbox(b) \/ SandboxEnds(b)
    \/ Crash \/ Quiet

Spec == Init /\ [][Next]_vars

----------------------------------------------------------------------------
(* Properties.                                                             *)

Pcs == {"idle", "wait", "resolve", "images", "volume", "links", "upsert",
        "revision", "agents", "stage", "write", "triggers", "enable", "cleanup",
        "cleanupRefresh", "cleanupInstall", "disable", "disableInstall", "list",
        "closeList", "close", "closeInstall", "downList", "down", "downInstall",
        "listSandboxes", "stop", "mark", "unlink", "reply", "unref"}
ReplyKinds == {"none", "notApplied", "unknown", "failed", "applied", "removed"}
OpType == [pc : Pcs, kind : Kinds \cup {"none"}, spec : Specs \cup {None},
           expected : Specs \cup {None}, gate : GateIDs \cup {0},
           todo : SUBSET (Schedulers \cup Sandboxes), seen : SUBSET Sandboxes,
           wrote : BOOLEAN, dirty : BOOLEAN, clean : BOOLEAN, gone : BOOLEAN,
           reply : ReplyKinds]

(* Every variable keeps its type; a revision pointer names a revision.     *)
TypeOK ==
    /\ revision \in Seq(Specs)
    /\ project # None => project \in [removed : BOOLEAN, hash : Specs, rev : 0..Len(revision)]
    /\ agents \in [Schedulers -> 0..Len(revision)]
    /\ \A s \in Schedulers : rows[s] # None =>
          rows[s] \in [rev : 1..Len(revision), on : BOOLEAN, trig : Specs \cup {None, Altered}]
    /\ overridden \in [Schedulers -> SUBSET {"enabled", "triggers"}]
    /\ volume \in BOOLEAN /\ links \in Specs \cup {None}
    /\ images \subseteq Schedulers /\ held \subseteq Schedulers
    /\ \A r \in Refreshers : lists[r] # None =>
          lists[r] \in [on : SUBSET Schedulers, late : BOOLEAN]
    /\ stale \in BOOLEAN
    /\ sandbox \in [Sandboxes -> {"none", "running", "stopped"}]
    /\ gate \in GateIDs \cup {0} /\ gates \in [GateIDs -> [token : BOOLEAN, refs : 0..Cardinality(Callers)]]
    /\ op \in [Callers -> OpType]
    /\ calls \in 0..MaxCalls /\ faults \in 0..MaxFaults
    /\ crashes \in 0..MaxCrashes

Holding(c) == op[c].pc \notin {"idle", "wait", "unref"}

(* acquire: no two requests work on the project at once, although the gate *)
(* leaves the map with its last reference and a later request makes a new  *)
(* one.                                                                    *)
GateExclusion == \A c, d \in Callers : Holding(c) /\ Holding(d) => c = d

(* applyProject and PatchProject: an error marked NotApplied is proof that *)
(* the request changed nothing durable, images included.                   *)
NotAppliedIsTrue == \A c \in Callers : op[c].reply = "notApplied" => ~op[c].wrote

(* applyProject: when it reports Applied, the project is live at a         *)
(* revision with its spec, every agent and scheduler row is of that        *)
(* revision and as the spec wants it, no dropped scheduler is enabled, and *)
(* the controller has taken all of it over.                                *)
AppliedIsWhole(c) ==
    LET p == op[c].spec IN
    /\ ~project.removed /\ project.hash = p /\ revision[project.rev] = p
    /\ \A s \in InSpec[p] :
          /\ agents[s] = project.rev
          /\ rows[s] # None /\ rows[s].rev = project.rev
          /\ "triggers" \in overridden[s] \/ rows[s].trig = p
    /\ Enabled \ SetByHand = EnabledIn[p] \ SetByHand
    /\ stale \/ held \ SetByHand = EnabledIn[p] \ SetByHand
    /\ volume /\ links = p /\ InSpec[p] \subseteq images

(* RemoveProject: when it reports success, the project is removed with its *)
(* links, no scheduler of it is enabled, and every sandbox it found        *)
(* running was stopped.                                                    *)
RemovedIsWhole(c) ==
    project.removed /\ links = None /\ Enabled \subseteq SetByHand /\ op[c].seen = {}

(* A request that reports success has done all of its work, whatever an    *)
(* earlier failed, abandoned or crashed request left behind, but for what  *)
(* SetSchedulerEnabled or SetSchedulerTriggerEnabled wrote since then, and *)
(* for a controller that was refreshed with a list from before its own.    *)
SuccessIsWhole ==
    \A c \in Callers : op[c].pc = "reply" =>
        /\ op[c].reply = "applied" => AppliedIsWhole(c)
        /\ op[c].reply = "removed" => RemovedIsWhole(c)

(* reconcileCurrentSchedulers stages disabled, replaces the triggers, then *)
(* enables: an enabled scheduler has the triggers of its own revision, at  *)
(* every moment and wherever the reconcile stops, as long as neither its   *)
(* enabled column nor a trigger was last written outside the gate.         *)
EnabledIsConsistent ==
    \A s \in Schedulers :
        On(s) /\ overridden[s] = {} => rows[s].trig = revision[rows[s].rev]

(* PatchProject: the revision a patch supersedes is the one whose hash its *)
(* client expected.                                                        *)
PatchReplacesExpected ==
    [][revision' # revision /\ revision' # <<>> =>
         \E c \in Callers :
            /\ op[c].pc = "revision" /\ op[c].spec = revision'[Len(revision')]
            /\ op[c].kind = "patch" => revision[project.rev] = op[c].expected]_vars

(* disableProjectSchedulersAfterReconcileFailure: after a reconcile that   *)
(* failed with something changed, and whose compensation met no error, no  *)
(* scheduler is enabled but one that SetSchedulerEnabled enabled since, in *)
(* the store or, unless an older list was installed late, the controller.  *)
FailsClosed ==
    \A c \in Callers :
        /\ op[c].pc = "reply" /\ op[c].reply = "failed" /\ op[c].kind # "remove"
        /\ op[c].dirty /\ op[c].clean
        => Enabled \subseteq SetByHand /\ (stale \/ held \subseteq SetByHand)

(* acquire and its release: whoever waits at a gate finds the token there  *)
(* or with a request that will put it back; no return path keeps it, and   *)
(* nobody waits at a gate that has left the map.                           *)
TokenNotLost ==
    \A c \in Callers : op[c].pc = "wait" =>
        \/ gates[op[c].gate].token
        \/ \E d \in Callers : Holding(d) /\ op[d].gate = op[c].gate
=============================================================================
