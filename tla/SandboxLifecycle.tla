-------------------------- MODULE SandboxLifecycle --------------------------
(***************************************************************************)
(* The life of one sandbox: creation, resume, stop with its runtime        *)
(* policy, staged removal with its journal, workspace reclamation,         *)
(* retention, runtime-state reconciliation, and the startup recovery of    *)
(* all of them after a daemon crash.                                       *)
(*                                                                         *)
(* Three files describe the sandbox: its metadata (meta), its VM state     *)
(* (vm) and its ownership record, which is also the deletion journal       *)
(* (rec).  The runtime itself is outside the daemon and survives it.       *)
(* Operations are called by API requests, runs, the scheduler and the      *)
(* cleanup runner; most of them hold the sandbox's lifecycle lock, and     *)
(* every write of a file and every runtime call is a step of its own.      *)
(***************************************************************************)
EXTENDS Naturals

CONSTANTS
    Callers,     \* requests, runs and cleaners that act on the sandbox
    Boot,        \* the daemon's own startup and recovery goroutine
    None,        \* no file, no holder of the lock
    Policies,    \* stopped-runtime policies to start from
    Ops,         \* operations the callers may start
    MaxCrashes,  \* bound on daemon crashes
    MaxFaults    \* bound on store and runtime calls that fail

ASSUME ConstantAssumption ==
    /\ Boot \notin Callers
    /\ None \notin Callers \cup {Boot}
    /\ Policies \subseteq {"retain", "remove"}
    /\ MaxCrashes \in Nat
    /\ MaxFaults \in Nat

VARIABLES
    meta,       \* sandbox metadata file, or None
    vm,         \* VM state file
    rec,        \* ownership record and deletion journal, or None
    runtime,    \* the container or VM: "none", "stopped" or "running"
    workspace,  \* the workspace directory exists
    archive,    \* a committed audit archive exists
    policy,     \* stopped-runtime policy, snapshotted at creation
    born,       \* the sandbox has been created
    lock,       \* holder of the sandbox's lifecycle lock, or None
    daemon,     \* "down", then the startup phases, then "up"
    op,         \* what each caller is doing, with its in-memory copies
    crashes,
    faults

files == <<meta, vm, rec>>
world == <<runtime, workspace, archive>>
fixed == <<policy, born, daemon, crashes>>
vars == <<files, world, fixed, lock, op, faults>>

Actors == Callers \cup {Boot}

Statuses == {"PENDING", "RUNNING", "STOPPED", "FAILED", "DELETING"}

\* Release is domain.StoppedRuntime: "retained" stands for nil.
Metas ==
    [status : Statuses,
     release : {"retained", "pending", "released"},
     reclaim : {"none", "reclaiming", "reclaimed"},
     archived : {"none", "archiving", "archived"}]

\* StoppedAt is kept by its order against the starts: "none" when it is zero
\* or older than a start or start attempt, "aged" when it is past retention.
VMs == [started : BOOLEAN, attempted : BOOLEAN, stop : {"none", "recent", "aged"}]

\* Stages complete in order: 1 intent, 2 stop, 3 runtime, 4 accessories, 5 data.
Records ==
    [state : {"active", "deleting"}, stopRequired : BOOLEAN,
     previous : Statuses \cup {""}, stage : 0..5]

FreshMeta ==
    [status |-> "PENDING", release |-> "retained", reclaim |-> "none",
     archived |-> "none"]

NeverStarted == [started |-> FALSE, attempted |-> FALSE, stop |-> "none"]

ActiveRecord ==
    [state |-> "active", stopRequired |-> FALSE, previous |-> "", stage |-> 0]

Idle ==
    [pc |-> "idle", kind |-> "none", sb |-> None, vm |-> NeverStarted,
     rec |-> None, flag |-> FALSE]

\* Where a caller is: in no operation, starting the sandbox, stopping it,
\* removing it, cleaning it, reconciling it.
Pcs ==
    {"idle",
     "enroll", "fence", "unrelease", "ensure", "info", "own", "owned", "unstart",
     "unfence", "running", "failed",
     "pending", "halt", "stamp", "stopped", "release", "disown", "released",
     "stopOK",
     "removing", "deleting", "journalStop", "remove", "journalRemove",
     "accessories", "data", "journalData", "unjournal", "rollJournal", "rollStatus",
     "reclaim", "wipe", "reclaimed", "archiving", "archive", "archived", "retained",
     "probe", "alive", "lost", "lostStatus", "pendingVM", "pendingStatus"}

Kinds == {"none", "create", "resume", "stop", "remove", "prune", "clean",
          "retention", "reconcile"}

-----------------------------------------------------------------------------
(***************************************************************************)
(* What one step may do to the files, the world and the caller.            *)
(***************************************************************************)

\* A store or runtime call that fails spends one unit of the fault budget.
Fault == faults < MaxFaults /\ faults' = faults + 1

Works == faults' = faults

\* UpdateSandbox and SaveVMState write into the sandbox's directory, so they
\* fail once removal has deleted it.
StoreFails == IF meta = None THEN Works ELSE Fault

StoreWorks == meta # None /\ Works

Goto(c, pc) == op' = [op EXCEPT ![c].pc = pc] /\ UNCHANGED lock

\* The operation returns; a deferred unlock releases the lock.
Return(c) ==
    /\ op' = [op EXCEPT ![c] = Idle]
    /\ lock' = IF lock = c THEN None ELSE lock

\* UpdateSandbox of the caller's in-memory sandbox, then on to pc.
Update(c, sb, pc) ==
    /\ StoreWorks
    /\ meta' = sb
    /\ op' = [op EXCEPT ![c].sb = sb, ![c].pc = pc]
    /\ UNCHANGED <<vm, rec, world, fixed, lock>>

\* UpdateSandbox of the caller's in-memory sandbox as the last step.
UpdateAndReturn(c, sb) ==
    /\ StoreWorks
    /\ meta' = sb
    /\ Return(c)
    /\ UNCHANGED <<vm, rec, world, fixed>>

UpdateFails(c) ==
    /\ StoreFails
    /\ Return(c)
    /\ UNCHANGED <<files, world, fixed>>

SaveVM(c, state, pc) ==
    /\ StoreWorks
    /\ vm' = state
    /\ Goto(c, pc)
    /\ UNCHANGED <<meta, rec, world, fixed>>

\* WriteOwnershipRecord; the records live outside the sandbox's directory.
Journal(c, record, pc) ==
    /\ Works
    /\ rec' = record
    /\ op' = [op EXCEPT ![c].rec = record, ![c].pc = pc]
    /\ UNCHANGED <<meta, vm, world, fixed, lock>>

JournalFails(c) ==
    /\ Fault
    /\ Return(c)
    /\ UNCHANGED <<files, world, fixed>>

Serving == daemon = "up" \/ (daemon = "recover" /\ op[Boot].pc = "idle")

\* A caller takes up a new operation.
MayStart(c, kind) ==
    /\ c \in Callers
    /\ Serving
    /\ kind \in Ops
    /\ op[c].pc = "idle"

\* GetSandbox under the freshly taken lock: the operation starts from here.
LockAndLoad(c, kind, pc) ==
    /\ lock = None
    /\ meta # None
    /\ lock' = c
    /\ op' = [op EXCEPT ![c] =
                [Idle EXCEPT !.pc = pc, !.kind = kind, !.sb = meta, !.vm = vm]]
    /\ Works
    /\ UNCHANGED <<files, world, fixed>>

-----------------------------------------------------------------------------
(***************************************************************************)
(* Creation and resume: the start protocol of the driver adapter.          *)
(***************************************************************************)

\* createSandboxWithAgent and the run controller's creation: the store writes
\* the directory of a new sandbox; no lock is taken.
Create(c) ==
    /\ MayStart(c, "create")
    /\ ~born
    /\ born' = TRUE
    /\ meta' = FreshMeta
    /\ vm' = NeverStarted
    /\ workspace' = TRUE
    /\ op' = [op EXCEPT ![c] =
                [Idle EXCEPT !.pc = "enroll", !.kind = "create", !.sb = FreshMeta]]
    /\ Works
    /\ UNCHANGED <<rec, runtime, archive, policy, daemon, crashes, lock>>

\* The ownership record is the last file that creation writes.
Enroll(c) ==
    /\ op[c].pc = "enroll"
    /\ Journal(c, ActiveRecord, "fence") \/ JournalFails(c)

\* ResumeLoaded, EnsureProxyReady, LoadOrResume and startProjectRunSandbox:
\* a sandbox being deleted is refused and one whose workspace is reclaimed
\* fails (two of the four persist FAILED).  A RUNNING sandbox is started
\* again, or only marked RUNNING by a project run.
Resume(c) ==
    /\ MayStart(c, "resume")
    /\ meta # None
    /\ meta.status # "DELETING"
    /\ IF meta.reclaim # "none"
       THEN LockAndLoad(c, "resume", "failed")
       ELSE \/ LockAndLoad(c, "resume", "fence")
            \/ meta.status = "RUNNING" /\ LockAndLoad(c, "resume", "running")

StartFails(c) == Goto(c, "failed")

\* Faulty variant: the fence is left to the start information.
FenceLate(c) ==
    /\ op[c].pc = "fence"
    /\ StoreWorks
    /\ op' = [op EXCEPT ![c].vm = vm, ![c].pc = "ensure"]
    /\ UNCHANGED <<files, world, fixed, lock>>

\* StartSandboxVM persists the start-attempt fence before any runtime call.
Fence(c) ==
    /\ op[c].pc = "fence"
    /\ \/ /\ StoreWorks
          /\ vm' = [vm EXCEPT !.attempted = TRUE, !.stop = "none"]
          /\ op' = [op EXCEPT
               ![c].vm = vm',
               ![c].flag = ~vm.started \/ op[c].sb.release # "retained",
               ![c].pc = IF op[c].sb.release = "pending"
                         THEN "unrelease" ELSE "ensure"]
          /\ UNCHANGED <<meta, rec, world, fixed, lock>>
       \/ /\ StoreFails
          /\ StartFails(c)
          /\ UNCHANGED <<files, world, fixed>>

\* A release that was pending is completed before the runtime is created anew.
Unrelease(c) ==
    /\ op[c].pc = "unrelease"
    /\ \/ Works /\ runtime' = "none" /\ Goto(c, "ensure")
       \/ Fault /\ UNCHANGED runtime /\ StartFails(c)
    /\ UNCHANGED <<files, workspace, archive, fixed>>

\* EnsureSandbox can partially succeed before it returns an error.  The error
\* path saves the VM state it read before the call.
Ensure(c) ==
    /\ op[c].pc = "ensure"
    /\ \/ Works /\ runtime' = "running" /\ Goto(c, "info") /\ UNCHANGED vm
       \/ /\ Fault
          /\ runtime' \in {runtime, "running"}
          /\ vm' = IF meta = None THEN vm ELSE op[c].vm
          /\ StartFails(c)
    /\ UNCHANGED <<meta, rec, workspace, archive, fixed>>

\* saveSandboxStartInfo: StartedAt is set and StoppedAt cleared.  The proxy
\* state is saved after the VM state, and may be what fails.
SaveStartInfo(c) ==
    LET state == [op[c].vm EXCEPT !.started = TRUE, !.stop = "none"]
    IN /\ op[c].pc = "info"
       /\ \/ SaveVM(c, state, IF op[c].flag THEN "own" ELSE "running")
          \/ /\ StoreFails
             /\ vm' \in IF meta = None THEN {vm} ELSE {vm, state}
             /\ StartFails(c)
             /\ UNCHANGED <<meta, rec, world, fixed>>

\* MarkSandboxRuntimeOwned reads the record ...
Own(c) ==
    /\ op[c].pc = "own"
    /\ Works
    /\ op' = [op EXCEPT ![c].pc = "owned",
                        ![c].rec = IF rec = None THEN ActiveRecord ELSE rec]
    /\ UNCHANGED <<files, world, fixed, lock>>

\* ... and writes it back; a runtime that cannot be owned is removed again.
Owned(c) ==
    /\ op[c].pc = "owned"
    /\ \/ Journal(c, op[c].rec, "running")
       \/ Fault /\ Goto(c, "unstart") /\ UNCHANGED <<files, world, fixed>>

Unstart(c) ==
    /\ op[c].pc = "unstart"
    /\ \/ Works /\ runtime' = "none" /\ Goto(c, "unfence")
       \/ Fault /\ UNCHANGED runtime /\ StartFails(c)
    /\ UNCHANGED <<files, workspace, archive, fixed>>

\* rollbackStartedSandboxRuntime clears the fence once the runtime is gone.
Unfence(c) ==
    /\ op[c].pc = "unfence"
    /\ StartFails(c)
    /\ \/ StoreWorks /\ vm' = NeverStarted
       \/ StoreFails /\ UNCHANGED vm
    /\ rec' = IF rec = None THEN ActiveRecord ELSE rec
    /\ UNCHANGED <<meta, world, fixed>>

Running(c) ==
    /\ op[c].pc = "running"
    /\ \/ UpdateAndReturn(c, [op[c].sb EXCEPT !.status = "RUNNING",
                                              !.release = "retained"])
       \/ UpdateFails(c)

\* Creation, the proxy and project runs persist FAILED after a failed start;
\* the RPC resume and the scheduler return the error and leave the status.
Failed(c) ==
    /\ op[c].pc = "failed"
    /\ \/ UpdateAndReturn(c, [op[c].sb EXCEPT !.status = "FAILED"])
       \/ UpdateFails(c)
       \/ /\ op[c].kind = "resume"
          /\ Works
          /\ Return(c)
          /\ UNCHANGED <<files, world, fixed>>

StartStep(c) ==
    \/ Enroll(c) \/ Fence(c) \/ Unrelease(c) \/ Ensure(c) \/ SaveStartInfo(c)
    \/ Own(c) \/ Owned(c) \/ Unstart(c) \/ Unfence(c) \/ Running(c) \/ Failed(c)

-----------------------------------------------------------------------------
(***************************************************************************)
(* Stop: StopSandboxRuntime under the lock, with the runtime policy.       *)
(***************************************************************************)

\* runtimeStopIsCurrent.
StopIsCurrent(state) == state.stop # "none"

\* sandboxRuntimeStopRequired: the status is RUNNING, or the latest start has
\* no confirmed stop after it.
StopRequired(sb, state) ==
    \/ sb.status = "RUNNING"
    \/ (state.started \/ state.attempted) /\ ~StopIsCurrent(state)

\* Where StopSandboxRuntime goes after the release intent.
AfterIntent(sb, state) ==
    IF StopRequired(sb, state) THEN "halt"
    ELSE IF sb.status # "STOPPED" THEN "stopped"
    ELSE IF policy = "remove" /\ sb.release # "released" THEN "release"
    ELSE "stopOK"

\* Faulty variant: a confirmed stop ends the matter under both policies, so a
\* release that was interrupted is not taken up again.
StopEntryOnce(sb, state) ==
    IF ~StopRequired(sb, state) THEN "stopOK"
    ELSE IF policy = "retain" THEN "halt" ELSE "pending"

\* Where StopSandboxRuntime starts: nothing to do for a retained runtime whose
\* stop is confirmed; the remove policy persists its intent first.
StopEntry(sb, state) ==
    IF policy = "retain"
    THEN IF StopRequired(sb, state) THEN "halt" ELSE "stopOK"
    ELSE IF sb.release # "released" \/ StopRequired(sb, state) THEN "pending"
    ELSE AfterIntent(sb, state)

\* StopLoaded reloads the sandbox under the lock and refuses one being deleted.
Stop(c) ==
    /\ MayStart(c, "stop")
    /\ meta # None
    /\ meta.status # "DELETING"
    /\ LockAndLoad(c, "stop", StopEntry(meta, vm))

\* The release intent.
Pending(c) ==
    /\ op[c].pc = "pending"
    /\ \/ Update(c, [op[c].sb EXCEPT !.release = "pending"],
                 AfterIntent(op[c].sb, op[c].vm))
       \/ UpdateFails(c)

\* runtime.StopSandbox, for a stop and for the stop stage of a removal.  A stop
\* that reports an error may or may not have stopped the runtime.
Halted == IF runtime = "running" THEN "stopped" ELSE runtime

Removes(c) == op[c].kind \in {"remove", "prune", "retention"}

Halt(c) ==
    /\ op[c].pc = "halt"
    /\ \/ /\ Works
          /\ runtime' = Halted
          /\ op' = [op EXCEPT ![c].pc = "stamp", ![c].vm = vm]
          /\ UNCHANGED lock
       \/ /\ Fault
          /\ runtime' \in {runtime, Halted}
          /\ IF Removes(c) THEN Goto(c, "rollJournal") ELSE Return(c)
    /\ UNCHANGED <<files, workspace, archive, fixed>>

\* StopSandboxVM stamps StoppedAt only after the runtime confirmed the stop.
Stamp(c) ==
    /\ op[c].pc = "stamp"
    /\ \/ SaveVM(c, [op[c].vm EXCEPT !.stop = "recent"],
                 IF Removes(c) THEN "journalStop" ELSE "stopped")
       \/ /\ StoreFails
          /\ IF Removes(c) THEN Goto(c, "rollJournal") ELSE Return(c)
          /\ UNCHANGED <<files, world, fixed>>

Stopped(c) ==
    /\ op[c].pc = "stopped"
    /\ \/ Update(c, [op[c].sb EXCEPT !.status = "STOPPED"],
                 IF policy = "remove" /\ op[c].sb.release # "released"
                 THEN "release" ELSE "stopOK")
       \/ UpdateFails(c)

\* ReleaseSandboxRuntime removes the runtime; the error is only recorded.
Release(c) ==
    /\ op[c].pc = "release"
    /\ \/ Works /\ runtime' = "none" /\ Goto(c, "disown")
       \/ Fault /\ runtime' \in {runtime, "none"} /\ Return(c)
    /\ UNCHANGED <<files, workspace, archive, fixed>>

\* MarkSandboxRuntimeReleased rewrites the ownership record.
Disown(c) ==
    /\ op[c].pc = "disown"
    /\ \/ Journal(c, IF rec = None THEN ActiveRecord ELSE rec, "released")
       \/ JournalFails(c)

Released(c) ==
    /\ op[c].pc = "released"
    /\ \/ Update(c, [op[c].sb EXCEPT !.release = "released"], "stopOK")
       \/ UpdateFails(c)

\* The stop returns success to its caller.
StopReturns(c) ==
    /\ op[c].pc = "stopOK"
    /\ Works
    /\ Return(c)
    /\ UNCHANGED <<files, world, fixed>>

StopStep(c) ==
    \/ Pending(c) \/ Halt(c) \/ Stamp(c) \/ Stopped(c) \/ Release(c)
    \/ Disown(c) \/ Released(c) \/ StopReturns(c)

-----------------------------------------------------------------------------
(***************************************************************************)
(* Removal: RemovalCoordinator.Remove and its journal of stages.           *)
(***************************************************************************)

\* A removal waits for the lock; force is kept in flag.
Await(c, kind, force) ==
    /\ op' = [op EXCEPT ![c] =
                [Idle EXCEPT !.pc = "removing", !.kind = kind, !.flag = force]]
    /\ Works
    /\ UNCHANGED <<files, world, fixed, lock>>

\* "sandbox rm", with and without --force, and a run discarding its sandbox.
RequestRemove(c) ==
    /\ MayStart(c, "remove")
    /\ meta # None \/ rec # None
    /\ \E force \in BOOLEAN : Await(c, "remove", force)

PrunableStatus(status) == status \in {"STOPPED", "FAILED", "DELETING"}

\* Prune lists the sandboxes and removes the matching ones without force.
Prune(c) ==
    /\ MayStart(c, "prune")
    /\ meta # None
    /\ PrunableStatus(meta.status)
    /\ Await(c, "prune", FALSE)

\* The first stage the journal has not completed.  The stages that need the
\* runtime roll the intent back when the metadata could not be loaded.
NextStage(sb, record) ==
    CASE record.stage <= 2 /\ sb = None -> "rollJournal"
      [] record.stage = 1 /\ sb # None ->
             IF record.stopRequired THEN "halt" ELSE "journalStop"
      [] record.stage = 2 /\ sb # None -> "remove"
      [] record.stage = 3 -> "accessories"
      [] record.stage = 4 -> "data"
      [] record.stage = 5 -> "unjournal"

Intent(record) ==
    [record EXCEPT
       !.state = "deleting",
       !.stopRequired = meta.status = "RUNNING",
       !.previous = IF meta.status = "DELETING" THEN @ ELSE meta.status,
       !.stage = 1]

\* Remove takes the lock, reads journal and metadata, and rebuilds a missing
\* record.  It resumes a journal that is deleting and otherwise writes the
\* intent, unless the sandbox is RUNNING and force is not given.
Remove(c) ==
    LET record == IF rec = None THEN ActiveRecord ELSE rec
        proceed(r, pc) ==
            /\ lock' = c
            /\ op' = [op EXCEPT ![c].pc = pc, ![c].sb = meta, ![c].rec = r]
        refused ==
            \/ meta = None
            \/ meta.status = "RUNNING" /\ ~op[c].flag
    IN /\ op[c].pc = "removing"
       /\ lock = None
       /\ \/ /\ rec # None
             /\ rec.state = "deleting"
             /\ proceed(rec, NextStage(meta, rec))
             /\ Works
             /\ UNCHANGED rec
          \/ /\ record.state # "deleting"
             /\ ~refused
             /\ rec' = Intent(record)
             /\ proceed(rec', "deleting")
             /\ Works
          \/ /\ record.state # "deleting"
             /\ IF refused THEN Works ELSE Fault
             /\ Return(c)
             /\ rec' \in IF meta = None THEN {rec}
                        ELSE IF refused THEN {record} ELSE {rec, record}
       /\ UNCHANGED <<meta, vm, world, fixed>>

Deleting(c) ==
    /\ op[c].pc = "deleting"
    /\ \/ Update(c, [op[c].sb EXCEPT !.status = "DELETING"],
                 NextStage(op[c].sb, op[c].rec))
       \/ UpdateFails(c)

\* Completes one stage in the journal.
Complete(c, pc, stage, next) ==
    /\ op[c].pc = pc
    /\ \/ Journal(c, [op[c].rec EXCEPT !.stage = stage], next)
       \/ JournalFails(c)

\* Faulty variant: the journal is a stage ahead of the runtime.
JournalStopAhead(c) == Complete(c, "journalStop", 3, "remove")

JournalStop(c) == Complete(c, "journalStop", 2, "remove")

\* RemoveSandboxVM; it also revokes tokens, so it may fail after the runtime
\* is gone.
RemoveRuntime(c) ==
    /\ op[c].pc = "remove"
    /\ \/ StoreWorks /\ runtime' = "none" /\ Goto(c, "journalRemove")
       \/ StoreFails /\ runtime' \in {runtime, "none"} /\ Goto(c, "rollJournal")
    /\ UNCHANGED <<files, workspace, archive, fixed>>

JournalRemove(c) == Complete(c, "journalRemove", 3, "accessories")

\* ReleaseSandboxResources; a failure returns with the journal as it is.
Accessories(c) == Complete(c, "accessories", 4, "data")

\* Store.RemoveSandbox deletes the directory, if it still exists.
RemoveData(c) ==
    /\ op[c].pc = "data"
    /\ \/ /\ Works
          /\ meta' = None
          /\ vm' = NeverStarted
          /\ workspace' = FALSE
          /\ Goto(c, "journalData")
       \/ Fault /\ Return(c) /\ UNCHANGED <<meta, vm, workspace>>
    /\ UNCHANGED <<rec, runtime, archive, fixed>>

JournalData(c) == Complete(c, "journalData", 5, "unjournal")

Unjournal(c) ==
    /\ op[c].pc = "unjournal"
    /\ \/ Works /\ rec' = None
       \/ Fault /\ UNCHANGED rec
    /\ Return(c)
    /\ UNCHANGED <<meta, vm, world, fixed>>

\* The status a rollback restores.
PreviousStatus(record) ==
    IF record.stopRequired /\ record.stage >= 2 THEN "STOPPED"
    ELSE IF record.previous # "" THEN record.previous
    ELSE IF record.stopRequired THEN "RUNNING" ELSE "STOPPED"

\* rollbackDeletionIntent writes the journal first ...
RollJournal(c) ==
    LET record == [op[c].rec EXCEPT !.state = "active", !.stopRequired = FALSE,
                                    !.stage = 0]
    IN /\ op[c].pc = "rollJournal"
       /\ \/ /\ Works
             /\ rec' = record
             /\ IF op[c].sb = None
                THEN Return(c)
                ELSE /\ op' = [op EXCEPT
                          ![c].pc = "rollStatus",
                          ![c].sb.status = PreviousStatus(op[c].rec)]
                     /\ UNCHANGED lock
             /\ UNCHANGED <<meta, vm, world, fixed>>
          \/ JournalFails(c)

\* ... and then the metadata.
RollStatus(c) ==
    /\ op[c].pc = "rollStatus"
    /\ UpdateAndReturn(c, op[c].sb) \/ UpdateFails(c)

RemoveStep(c) ==
    \/ Remove(c) \/ Deleting(c) \/ JournalStop(c) \/ RemoveRuntime(c)
    \/ JournalRemove(c) \/ Accessories(c) \/ RemoveData(c) \/ JournalData(c)
    \/ Unjournal(c) \/ RollJournal(c) \/ RollStatus(c)

-----------------------------------------------------------------------------
(***************************************************************************)
(* The cleanup runner: workspace reclamation and retention.                *)
(***************************************************************************)

\* Faulty variant: a start attempt after the stop does not count.
EligibleByStatus == meta.status = "STOPPED"

\* workspaceEligibleAt, and the stop is older than the cutoff.
Eligible == meta.status = "STOPPED" /\ vm.stop = "aged"

\* WorkspaceCleaner.cleanSandbox retries a reclamation that has begun whatever
\* the status is by then.
CleanWorkspace(c) ==
    /\ MayStart(c, "clean")
    /\ meta # None
    /\ \/ meta.reclaim = "none" /\ Eligible /\ LockAndLoad(c, "clean", "reclaim")
       \/ meta.reclaim = "reclaiming" /\ LockAndLoad(c, "clean", "wipe")

\* SandboxRetentionCleaner.cleanSandboxWhileLocked; an archived sandbox goes
\* straight to its removal.
Retain(c) ==
    /\ MayStart(c, "retention")
    /\ meta # None
    /\ \/ /\ meta.archived = "archived"
          /\ lock = None
          /\ op' = [op EXCEPT ![c] =
                      [Idle EXCEPT !.pc = "retained", !.kind = "retention"]]
          /\ Works
          /\ UNCHANGED <<files, world, fixed, lock>>
       \/ /\ meta.archived # "archived"
          /\ Eligible
          /\ LockAndLoad(c, "retention",
                CASE meta.reclaim = "none" -> "reclaim"
                  [] meta.reclaim = "reclaiming" -> "wipe"
                  [] meta.reclaim = "reclaimed" ->
                         IF meta.archived = "none" THEN "archiving" ELSE "archive")

Reclaim(c) ==
    /\ op[c].pc = "reclaim"
    /\ \/ Update(c, [op[c].sb EXCEPT !.reclaim = "reclaiming"], "wipe")
       \/ UpdateFails(c)

\* os.RemoveAll of the workspace.
Wipe(c) ==
    /\ op[c].pc = "wipe"
    /\ \/ Works /\ workspace' = FALSE /\ Goto(c, "reclaimed")
       \/ Fault /\ workspace' \in {workspace, FALSE} /\ Return(c)
    /\ UNCHANGED <<files, runtime, archive, fixed>>

Reclaimed(c) ==
    LET sb == [op[c].sb EXCEPT !.reclaim = "reclaimed"]
    IN /\ op[c].pc = "reclaimed"
       /\ \/ op[c].kind = "clean" /\ UpdateAndReturn(c, sb)
          \/ /\ op[c].kind = "retention"
             /\ Update(c, sb, IF sb.archived = "none" THEN "archiving" ELSE "archive")
          \/ UpdateFails(c)

Archiving(c) ==
    /\ op[c].pc = "archiving"
    /\ \/ Update(c, [op[c].sb EXCEPT !.archived = "archiving"], "archive")
       \/ UpdateFails(c)

\* writeSandboxArchive commits the archive file.
WriteArchive(c) ==
    /\ op[c].pc = "archive"
    /\ \/ Works /\ archive' = TRUE /\ Goto(c, "archived")
       \/ Fault /\ archive' \in {archive, TRUE} /\ Return(c)
    /\ UNCHANGED <<files, runtime, workspace, fixed>>

\* The lock is released between archiving and removing.
Archived(c) ==
    /\ op[c].pc = "archived"
    /\ \/ /\ StoreWorks
          /\ meta' = [op[c].sb EXCEPT !.archived = "archived"]
          /\ op' = [op EXCEPT ![c] =
                      [Idle EXCEPT !.pc = "retained", !.kind = "retention"]]
          /\ lock' = None
          /\ UNCHANGED <<vm, rec, world, fixed>>
       \/ UpdateFails(c)

\* The sandbox is loaded again; a validated archive authorizes the removal.
Retained(c) ==
    /\ op[c].pc = "retained"
    /\ IF meta # None /\ meta.archived = "archived" /\ archive
       THEN Await(c, "retention", TRUE)
       ELSE Works /\ Return(c) /\ UNCHANGED <<files, world, fixed>>

CleanStep(c) ==
    \/ Reclaim(c) \/ Wipe(c) \/ Reclaimed(c) \/ Archiving(c) \/ WriteArchive(c)
    \/ Archived(c) \/ Retained(c)

-----------------------------------------------------------------------------
(***************************************************************************)
(* ReconcileRuntimeState, called without the lock by every get and list.   *)
(***************************************************************************)

BeginReconcile(c) ==
    /\ meta # None
    /\ meta.status = "RUNNING"
    /\ op' = [op EXCEPT ![c] =
                [Idle EXCEPT !.pc = "probe", !.kind = "reconcile", !.sb = meta]]
    /\ Works
    /\ UNCHANGED <<files, world, lock>>

Reconcile(c) ==
    /\ MayStart(c, "reconcile")
    /\ BeginReconcile(c)
    /\ UNCHANGED fixed

Probe(c) ==
    /\ op[c].pc = "probe"
    /\ IF meta = None
       THEN Return(c)
       ELSE op' = [op EXCEPT ![c].pc = "alive", ![c].vm = vm] /\ UNCHANGED lock
    /\ Works
    /\ UNCHANGED <<files, world, fixed>>

Alive(c) ==
    /\ op[c].pc = "alive"
    /\ \/ Works /\ IF runtime = "running" THEN Return(c) ELSE Goto(c, "lost")
       \/ Fault /\ Return(c)
    /\ UNCHANGED <<files, world, fixed>>

Lost(c) ==
    /\ op[c].pc = "lost"
    /\ \/ SaveVM(c, [op[c].vm EXCEPT !.stop = "recent"], "lostStatus")
       \/ UpdateFails(c)

LostStatus(c) ==
    /\ op[c].pc = "lostStatus"
    /\ \/ UpdateAndReturn(c, [op[c].sb EXCEPT !.status = "STOPPED"])
       \/ UpdateFails(c)

ReconcileStep(c) == Probe(c) \/ Alive(c) \/ Lost(c) \/ LostStatus(c)

-----------------------------------------------------------------------------
(***************************************************************************)
(* Startup.  Boot runs the phases in order; requests are served from the   *)
(* phase in which the deletion recovery has been started.                  *)
(***************************************************************************)

Enter(phase) ==
    daemon' = phase /\ UNCHANGED <<policy, born, crashes>>

\* Faulty variant: startup forgets the releases that were begun.
RecoverNoReleases ==
    /\ daemon = "release"
    /\ op[Boot].pc = "idle"
    /\ Enter("reconcile")
    /\ Works
    /\ UNCHANGED <<files, world, op, lock>>

\* RecoverStoppedRuntimeReleases stops sandboxes with a release begun.
RecoverReleases ==
    /\ daemon = "release"
    /\ op[Boot].pc = "idle"
    /\ Enter("reconcile")
    /\ IF /\ meta # None
          /\ policy = "remove"
          /\ meta.release # "retained"
          /\ meta.status # "DELETING"
       THEN /\ op' = [op EXCEPT ![Boot] =
                        [Idle EXCEPT !.pc = StopEntry(meta, vm), !.kind = "stop",
                                     !.sb = meta, !.vm = vm]]
            /\ lock' = Boot
       ELSE UNCHANGED <<op, lock>>
    /\ Works
    /\ UNCHANGED <<files, world>>

\* reconcilePersistedSandboxes: a sandbox left PENDING with no recorded start
\* is failed, one left RUNNING is reconciled with its runtime.
ReconcilePersisted ==
    /\ daemon = "reconcile"
    /\ op[Boot].pc = "idle"
    /\ Enter("recover")
    /\ IF meta # None /\ meta.status = "RUNNING"
       THEN BeginReconcile(Boot)
       ELSE /\ IF meta # None /\ meta.status = "PENDING" /\ ~vm.started
               THEN op' = [op EXCEPT ![Boot] =
                             [Idle EXCEPT !.pc = "pendingVM", !.sb = meta, !.vm = vm]]
               ELSE UNCHANGED op
            /\ Works
            /\ UNCHANGED <<files, world, lock>>

PendingVM(c) ==
    /\ op[c].pc = "pendingVM"
    /\ \/ SaveVM(c, [op[c].vm EXCEPT !.stop = "recent"], "pendingStatus")
       \/ UpdateFails(c)

PendingStatus(c) ==
    /\ op[c].pc = "pendingStatus"
    /\ \/ UpdateAndReturn(c, [op[c].sb EXCEPT !.status = "FAILED"])
       \/ UpdateFails(c)

\* Faulty variant: only archived sandboxes are looked for.
RecoverArchivedOnly ==
    /\ daemon = "recover"
    /\ op[Boot].pc = "idle"
    /\ Enter("up")
    /\ op' = IF meta # None /\ meta.archived = "archived" /\ archive
             THEN [op EXCEPT ![Boot] =
                     [Idle EXCEPT !.pc = "removing", !.kind = "remove", !.flag = TRUE]]
             ELSE op
    /\ Works
    /\ UNCHANGED <<files, world, lock>>

\* DeletionRecovery.run removes what the journal or a committed archive says
\* is being deleted.
RecoverDeletions ==
    /\ daemon = "recover"
    /\ op[Boot].pc = "idle"
    /\ Enter("up")
    /\ op' = IF \/ rec # None /\ rec.state = "deleting"
                \/ meta # None /\ meta.archived = "archived" /\ archive
             THEN [op EXCEPT ![Boot] =
                     [Idle EXCEPT !.pc = "removing", !.kind = "remove", !.flag = TRUE]]
             ELSE op
    /\ Works
    /\ UNCHANGED <<files, world, lock>>

Crash ==
    /\ daemon # "down"
    /\ crashes < MaxCrashes
    /\ crashes' = crashes + 1
    /\ daemon' = "down"
    /\ op' = [c \in Actors |-> Idle]
    /\ lock' = None
    /\ UNCHANGED <<files, world, policy, born, faults>>

\* The store backfills a missing ownership record when it is opened.
Restart ==
    /\ daemon = "down"
    /\ daemon' = "release"
    /\ rec' = IF meta # None /\ rec = None THEN ActiveRecord ELSE rec
    /\ UNCHANGED <<meta, vm, world, policy, born, crashes, lock, op, faults>>

-----------------------------------------------------------------------------
(***************************************************************************)
(* The environment.                                                        *)
(***************************************************************************)

\* The guest exits, or its container disappears.
RuntimeDies ==
    /\ runtime = "running"
    /\ runtime' \in {"stopped", "none"}
    /\ UNCHANGED <<files, workspace, archive, fixed, lock, op, faults>>

\* The retention period passes.  It outlasts every request in flight.
Age ==
    /\ vm.stop = "recent"
    /\ \A c \in Actors : op[c].pc = "idle"
    /\ vm' = [vm EXCEPT !.stop = "aged"]
    /\ UNCHANGED <<meta, rec, world, fixed, lock, op, faults>>

\* Before the sandbox exists, or, for instances that leave creation out, with
\* the sandbox as a completed creation leaves it.
Init ==
    /\ born = ("create" \notin Ops)
    /\ meta = IF born THEN [FreshMeta EXCEPT !.status = "RUNNING"] ELSE None
    /\ vm = IF born THEN [started |-> TRUE, attempted |-> TRUE, stop |-> "none"]
            ELSE NeverStarted
    /\ rec = IF born THEN ActiveRecord ELSE None
    /\ runtime = IF born THEN "running" ELSE "none"
    /\ workspace = born
    /\ archive = FALSE
    /\ policy \in Policies
    /\ lock = None
    /\ daemon = "up"
    /\ op = [c \in Actors |-> Idle]
    /\ crashes = 0
    /\ faults = 0

Begin(c) ==
    \/ Create(c) \/ Resume(c) \/ Stop(c) \/ RequestRemove(c) \/ Prune(c)
    \/ CleanWorkspace(c) \/ Retain(c) \/ Reconcile(c)

Advance(c) ==
    \/ StartStep(c) \/ StopStep(c) \/ RemoveStep(c) \/ CleanStep(c)
    \/ ReconcileStep(c) \/ PendingVM(c) \/ PendingStatus(c)

BootStep == RecoverReleases \/ ReconcilePersisted \/ RecoverDeletions \/ Restart

Next ==
    \/ \E c \in Callers : Begin(c)
    \/ \E c \in Actors : Advance(c)
    \/ BootStep
    \/ Crash
    \/ RuntimeDies
    \/ Age

Spec == Init /\ [][Next]_vars

\* Goroutines run and runtime calls have deadlines; the lock is a sync.Mutex,
\* which hands itself to a starving waiter; a daemon that went down is started
\* again.  Nobody has to call an operation, and nothing has to fail.
Fairness ==
    /\ \A c \in Actors : WF_vars(Advance(c)) /\ SF_vars(Remove(c))
    /\ WF_vars(BootStep)

FairSpec == Spec /\ Fairness

-----------------------------------------------------------------------------
(***************************************************************************)
(* Properties.                                                             *)
(***************************************************************************)

\* The files, the world and the callers' copies have their types.
TypeOK ==
    /\ meta \in Metas \cup {None}
    /\ vm \in VMs
    /\ rec \in Records \cup {None}
    /\ runtime \in {"none", "stopped", "running"}
    /\ {workspace, archive, born} \subseteq BOOLEAN
    /\ policy \in Policies
    /\ lock \in Actors \cup {None}
    /\ daemon \in {"down", "release", "reconcile", "recover", "up"}
    /\ op \in [Actors -> [pc : Pcs, kind : Kinds, sb : Metas \cup {None}, vm : VMs,
                          rec : Records \cup {None}, flag : BOOLEAN]]
    /\ crashes \in 0..MaxCrashes
    /\ faults \in 0..MaxFaults

\* While the runtime of an existing sandbox is live, its VM state asks for a
\* stop: the start-attempt fence of StartSandboxVM is on disk before any
\* runtime call, and only a confirmed stop (StopSandboxVM) takes it back, in
\* whatever order starts, stops and removals fail or crash.
FenceCoversLive ==
    runtime = "running" /\ meta # None =>
        (vm.started \/ vm.attempted) /\ ~StopIsCurrent(vm)

\* A stop that returns success under the remove policy has left no runtime at
\* all, even if the daemon crashed twice, or crashed once and one call failed,
\* on the way (StopSandboxRuntime resumes a release from where it was
\* interrupted).
StopReleases ==
    policy = "remove" /\ crashes + faults <= 2 =>
        \A c \in Actors : op[c].pc = "stopOK" => runtime = "none"

\* The cleaners never take the workspace from under a live runtime, and no
\* sandbox runs on after its audit archive was written (workspaceEligibleAt,
\* ensureWorkspace).
CleanupSparesLive ==
    runtime = "running" /\ meta # None => workspace /\ meta.archived = "none"

\* When the sandbox's data is gone, so is its runtime: Remove deletes the data
\* only after the runtime.
NoOrphan == born /\ meta = None => runtime = "none"

\* The staged removal keeps that promise through any one failed call or crash.
OneFailureNoOrphan == crashes + faults <= 1 => NoOrphan

\* A deletion whose intent is journalled is completed or rolled back, across
\* crashes, as long as no call fails: Remove and DeletionRecovery resume it.
\* (After a failed call it waits for the next Remove or the next start.)
DeletionFinishes ==
    rec # None /\ rec.state = "deleting" ~>
        rec = None \/ rec.state = "active" \/ faults > 0

\* A runtime release that was begun is finished, across crashes, as long as no
\* call fails: by the stop itself, by the next start, by a removal, or by
\* RecoverStoppedRuntimeReleases.
ReleaseFinishes ==
    meta # None /\ meta.release = "pending" ~>
        meta = None \/ meta.release # "pending" \/ faults > 0
=============================================================================
