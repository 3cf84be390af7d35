# agent-compose: specifications and proofs

TLA+ models of the concurrent and crash-prone parts of the agent-compose
daemon, the TLC instances that check them, and TLAPS proofs of the properties
that matter most. The reference is the Go code under `src/`; `PROJECT.json`
maps every definition that models code to the lines it stands for.

## The system and its parts

agent-compose is one daemon process over an SQLite config store and a file
store for sandboxes. Its parts interact as follows.

- A client **applies, patches or removes a project**. The projects controller
  serializes these per project, writes the project, its revision, agents,
  schedulers and triggers in separate store calls, and refreshes the scheduler
  controller.
- The **scheduler controller** keeps a cache of the trigger rows and fires what
  is due by the clock. **Topic events** (webhooks, published events) reach it
  through a dispatcher that claims event rows under a lease, a bounded bus and
  a fan-out to the subscribed triggers.
- A fired trigger becomes a scheduler run, whose script may start **project
  runs**. A project run prepares a sandbox, executes a task in it, and finishes
  through a completion journal with retries. A trigger with a **sticky** policy
  reuses one sandbox, named by a binding row.
- An **interactive run** carries input from attached clients to the agent, one
  message per turn, and output back.
- A **sandbox** is created, stopped, resumed, cleaned and removed under a
  lifecycle lock. A **stop gate** keeps new executions out while a stop is
  under way.
- At **startup** the daemon repairs what a crash left: sandboxes, deletions,
  runtime releases, scheduler runs, journaled and interrupted project runs,
  orphaned scheduler sandboxes. Only then does it serve (`app.go`,
  `background.go`).

## Modules

| Module | Code | Configurations |
| --- | --- | --- |
| `RunCompletion` (implements `RunOutcome`) | `pkg/runs` controller, coordinator, completion; `run_supervisor.go`; `project_run_completion.go`; startup reconciliation | `RunCompletion` |
| `EventDelivery` | `events/dispatcher.go`, `schedulers/event_dispatcher.go`, `run_lifecycle.go`, `scheduler_run_supervisor.go`, `topic_event_store.go`, `webhooks/event_stop.go` | `EventDelivery`, `EventStop`, `EventStopRetried` |
| `ScheduleClock` | `schedulers/scheduler.go`, `scheduled_runs.go`, `controller.go`, `scheduler_store.go` | `ScheduleClock` |
| `StickyBinding` | `sticky_scheduler_binding.go`, `sandbox_preparation.go`, `scheduler_sticky_binding.go`, `scheduler_session_runner.go`, `scheduler_sandbox_recovery.go` | `StickyBinding` |
| `SandboxLifecycle` | `pkg/sandboxes`, `session_driver.go`, `session_rpc_bridge.go`, startup recovery | `SandboxLocked`, `SandboxSequential` |
| `StopAdmission` | `runtime_graceful_stop.go`, `sandboxes/lifecycle.go`, the exec handlers | `StopAdmission` |
| `ProjectLifecycle` | `internal/projects` controller, gate, reconcile, down; `images/ensure.go` | `ProjectLifecycle` |
| `InteractiveSession` | `interactive_session.go`, `prompt_attach.go`, `run_attach.go`, `detached_interaction.go` | `InteractiveSession`, `InteractiveFaults` |

Each `MC…` module gives a component its constants. The `…_proofs` modules and
`RunCompletionInvariant` hold theorems. Definitions commented "Faulty variant"
are plausible bugs; with one of them in place of the definition it follows,
TLC finds the property violated that `PROJECT.json` pairs it with.

### How state and actions correspond to the code

A variable is a table, a file, an in-memory structure or the program point of
a goroutine; the comment at its declaration names it. What survives a crash
(rows, files, runtimes) keeps its value in `Crash` or `Restart`, everything
else is reset.

- **RunCompletion.** `runs`, `journal` and `statusEvents` are tables, `box` the
  sandboxes, `active` the supervisor's registry, `held` what the holder of a
  completion lock has read. An operation of the coordinator reads the row and
  later writes the whole row back, so it is two steps; a store transaction is
  one. Two requests carry one idempotency key; those in `Reusing` name an
  existing sandbox, which cleanup stops where it would remove one the run
  created. Sandbox cleanup may fail each time, and so may the removal of a
  sandbox the run refused to bind: it is then still being deleted, which
  `RecoverDeletion` takes up after a restart, or its deletion was rolled back
  and it is `kept`. Attach to a detached task after a restart may fail.
- **EventDelivery.** An event row has a status, a claim and whether the claim
  and the retry delay have expired; time passes by `ClaimExpires` and
  `RetryFallsDue`. `offer`, `bus`, `loop` and `task` are the goroutines'
  places. A webhook event is fanned out all or nothing; any other starts a
  goroutine per target and is acknowledged by the first whose run row is
  written. The stop request is a sequence of separate statements.
- **ScheduleClock.** One trigger per scheduler, a fire time of 0 is Go's zero
  time. With a period of 1, an interval trigger fires like a cron one, so the
  kinds are cron and timeout. `fired`, `twice`, `quiet`, `alone` and `raced`
  are history.
- **StickyBinding.** The row holds a sandbox, a configuration hash and whether
  it is being retired, and changes only by compare-and-swap. Project runs and
  scheduler commands hash different documents, so the hash tells which of the
  two code paths a request takes; their differences (who finishes a
  retirement, what happens when a start fails, who looks at the row a second
  time) are kept. The lifecycle lock spans steps only between the second look
  at the row and the start. Sandbox 0 belongs to a row older than the hashes.
  Creation, start and binding are separate steps: between the first two the
  row does not say Running yet. A crash and the startup sweep are one step,
  because the sweep ends before requests are accepted. It stops the command
  sandboxes whose row says Running, whose policy is remove (not in `Retained`),
  which no valid binding names and whose owner can be traced, which may fail for
  sandbox 0; whether the scheduler's own configuration has changed is an
  arbitrary choice, and a sandbox that cannot be looked up or stopped is left
  (`spared`). A sticky run leaves its sandbox running.
- **SandboxLifecycle.** Three files (`meta`, `vm`, `rec`) and the runtime,
  which is external and may die by itself. Every file write and every driver
  call is a step that can fail; a crash may come between any two.
- **StopAdmission.** One sandbox. Commands of the exec API hold the lifecycle
  lock while they run, executions of runs do not. `StopLoaded` unlocks before
  it releases the gate, `StopLoadedWhileLocked` after; a removal closes the
  gate and never releases it (`leaked`). The registry is memory of one daemon,
  so there is no crash.
- **ProjectLifecycle.** Every store call of the three requests is a step that
  may succeed, fail before its write, or fail after it. A client may go away,
  which makes every later call of its request fail. Two things happen outside
  the gate. `SetSchedulerEnabled` and `SetSchedulerTriggerEnabled` write the
  same rows at any time; `overridden` remembers which part of a row was last
  written so. And the cache of the scheduler controller (`held`) is refreshed by
  other requests and at the end of runs (`Refreshers`). A refresh lists the rows
  in one step and installs the list in a later one, in the requests too;
  `stale` says that the list now held was read before the last list of a
  request. Images, volumes and the project's sandboxes are as coarse as the
  requests see them; the sandboxes matter to what a remove reports.
- **InteractiveSession.** Frames are messages or the end of input (a cancel
  frame ends input like the latter), stamped with the lease they were sent
  under. Three modes: bound to its client, detachable, and supervised (the task
  survives the daemon). The three terminal states of a session are one,
  "closed". `Completes` is the deferred close of the run, the end of the run
  and its publication together. The output cursor is persisted before output is
  forwarded, so a crash may drop output but never repeat it. The lease counter
  goes on after a restart only to number leases.

## What the runs check

Twelve runs, 41 property checks. All but the last pass. Deadlock is checked
except where the system may rightly come to rest.

| Run | Bounds | Distinct states |
| --- | --- | --- |
| `run_completion` | 1 run, 2 requests (one reuses a sandbox), 3 policies, 2 attempts, 2 crashes | 215,263 |
| `event_delivery` | 2 events, 2 targets, 2 workers, bus of 1, 3 claims, 1 crash, 1 fault | 330,947 |
| `event_stop` | 2 events, 3 targets, bus of 2, 2 claims, 1 stop with failing reads, 1 crash | 2,882,319 |
| `sandbox_locked` | 2 callers, both policies, 2 crashes, 1 fault | 949,074 |
| `sandbox_sequential` | 1 caller, all operations, 1 crash, 1 fault | 135,367 |
| `schedule_clock` | 1 scheduler, 2 callers, 1 request, times to 2, 1 crash, 1 fault | 721,750 |
| `project_lifecycle` | 2 callers, 1 refresher, 3 requests, writes or refreshes outside the gate, 2 specs, 2 schedulers, 1 fault, 1 crash | 1,908,714 |
| `interactive_session` | creator and 2 clients, 2 frames, 3 leases, channels of 1, 1 restart | 2,440,351 |
| `interactive_faults` | creator and 1 client, 1 frame, 1 fault, 1 restart, fair | 483,672 |
| `stop_admission` | a command, a run execution, 3 stops | 146,361 |
| `sticky_binding` | 2 requests at a time, 3 in all, 2 hashes of each kind, 1 retained sandbox, 1 fault, 1 crash | 3,230,159 |
| `event_stop_retried` | 2 events, 2 targets (violation) | |

**run_completion.** A task is launched at most once (`TaskRunsOnce`); a serving
daemon has no run that nobody will finish (`NoStrandedRun`); a run that
ends without a cleanup error had its sandbox removed or stopped as its policy
asks, where one it reused is stopped and not removed (`CleanupIsHonest`); a
StartRun that lost leaves its own sandbox behind only if the removal failed
(`LoserLeavesNoSandbox`); the first staged result
is the one published and final (`FirstWriterWins`, a refinement of
`RunOutcome`); a staged run finishes although cleanup never succeeds
(`StagedRunFinishes`); a stopped run finishes unless the daemon dies
(`StoppedRunFinishes`).

**event_delivery.** The counters of the queue and of the schedulers match the
goroutines that hold their slots (`SlotsBalanced`); a webhook event is
acknowledged only with a run for every target (`FanOutWhole`); every event is
settled (`EveryEventSettles`), also one that does not decode or has no
subscriber. Either the webhook event has subscribers or the other one.

**event_stop.** A stop that reports nothing pending left no run it did not
cancel (`StopIsHonest`); a withdrawn event starts nothing
(`CanceledNeverStarts`); nothing is executed twice, although claims expire
while events wait, short of a crash (`ExecutedOnce`). There is room for both events, so that none
is put back: what happens then is the next run.

**event_stop_retried** (violation). `CancelEventDispatch` withdraws waiting
events in one statement and counts claimed ones in a later one. An event that
goes back to retrying in between is neither withdrawn nor counted, and starts a
run after the caller was told the event is idle, which the comment at
`event_stop.go:93` says the order of the steps prevents.

**sandbox_locked.** Whenever a runtime lives, the files say that it may, so
that a stop or removal will stop it (`FenceCoversLive`); a successful stop
under the remove policy leaves no runtime (`StopReleases`); the cleaners spare
live runtimes (`CleanupSparesLive`); one failure never deletes the data of a
sandbox under its runtime (`OneFailureNoOrphan`).

**sandbox_sequential.** A journaled deletion is finished or rolled back
(`DeletionFinishes`) and a runtime release that was begun is finished
(`ReleaseFinishes`), creation and reconciliation included.

**schedule_clock.** A fire time is dispatched once (`OneRunPerFireTime`), a
scheduler switched off stays off (`SwitchedOffStaysOff`), and no wake-up is
lost (`DueIsCollected`). The first two are stated for histories in which no
refresh overlapped a collection or a request: in the others the code does fire
twice or once more, because `Refresh` installs a list it read earlier.

**project_lifecycle.** One request at a time works on a project
(`GateExclusion`); "not applied" is true (`NotAppliedIsTrue`); a successful
apply left everything as its spec says and a successful remove nothing enabled,
linked or running of what it found, whatever earlier requests left
(`SuccessIsWhole`); an enabled scheduler has the triggers of its revision
(`EnabledIsConsistent`); a failed reconcile whose compensation met no error
leaves nothing enabled (`FailsClosed`); a patch supersedes the revision its
caller expected (`PatchReplacesExpected`). What these say of a scheduler row is
said of rows the requests wrote last: a row set by hand since is excepted by
name. What they say of the controller is excepted while a list read before the
request's own is installed.

**interactive_session, interactive_faults.** Input reaches the agent in the
order of the leases (`InputInLeaseOrder`), one message per turn
(`OneTurnAtATime`); turns are counted, so a stop does not cut one off
(`TurnsAreCounted`); a client's output has no gap (`OutputHasNoGap`); a shutdown
leaves a supervised task alone (`ShutdownSparesTask`); with one lost
connection, failed send, stop, open or receive, or failed turn, a stop ends the
run or the daemon goes away first (`StopEnds`). The writes of the run row and of
its completion do not fail in this model.

**stop_admission.** A graceful outcome means that everything ended
(`GracefulIsReal`); a driver stop that owns the gate meets only canceled
executions (`CanceledBeforeStop`); graceful and forced stops return whatever
the guests do (`StopsReturn`).

**sticky_binding.** Work of two configurations never meets in one sandbox
(`OneConfigurationPerSandbox`); a retired sandbox is not started again
(`RetiredStaysStopped`); when no request is under way and no step of this life
of the daemon failed, only the bound sandbox runs, besides what the startup
sweep passes over by design (`NoStrayRuntime`).

### Why the bounds are enough

The races need two actors, and the third request, lease, claim or stop that
some need is there (a lost claim needs a winner and somebody who retires the
winner; a gate a third request finds gone). Two crashes let a recovery itself
be interrupted in `run_completion` and `sandbox_locked`. One fault is what the
code is written to survive; the properties that speak of failures say "one".
Channels of size 1 fill at once, which 32 would only delay. Three claims cover
one crash and one fault of an event; more repeat them. Two attempts tell a
retry from the last attempt. Three rounds are those of the compare-and-swap
loops. Symmetry is used in safety runs only, over values the specifications do
not tell apart. Every action of every module is taken in some passing run.

### Fairness

Weak fairness is given to what the Go scheduler and timers guarantee: a
goroutine that can take a step takes it, an armed timer fires, a lease expires.
Clients, guests, the clock of a user's request and new requests get none. A
mutex of Go hands over to a starving waiter, so waiting for the lifecycle lock
gets strong fairness (`SF` of `Remove` and `Locks`). Failures and crashes are
bounded by constants and never fair, with one exception: a daemon that is
shutting down does exit (`RunCompletion`). A guest owes nothing; the driver is
assumed to return from an execution whose context is canceled
(`StopAdmission`), and a canceled task to end (`RunCompletion`). `EventDelivery`
assumes that a webhook queue has at least as many workers as an event has
targets: with fewer, the code retries that event for ever.

## What is proved

TLAPS checks these for every value of the constants that satisfies the named
assumptions (finite or infinite sets of runs, requests and events, any bounds).

- **`RunCompletion_proofs`** and `RunCompletionInvariant`, from `RequestsResolve`,
  `PoliciesKnown`, `AttemptsPositive`, `CrashesBounded` and the distinctness of the sentinels:
  `TypeCorrect`, `JournalInStep` (a journaled run is running), `StatusEventOnce`
  (one terminal status event per run), `ExecutedOnce` (`TaskRunsOnce`),
  `NothingStranded` (`NoStrandedRun`), `FirstWriterDecides` (the refinement
  of `RunOutcome`), `CleanupNeverLies` (`CleanupIsHonest`) and `LoserCleansUp`
  (`LoserLeavesNoSandbox`).
  The inductive invariant of the first six is `IndInv`. None of the
  properties is inductive alone: that a stale whole-row write cannot undo a
  completion needs `SnapshotsFresh` (no row turns terminal between an
  executor's read and its write), which needs `Registered` (one executor per
  run) and `UnstagedNoJournal`; that a late StartRun cannot launch again needs
  `BegunIsCurrent` and `LaunchOnce`; that no run is stranded across a restart
  needs `StartupCovers`, that each phase of startup has listed or handled every
  row that is not terminal. A store transaction is first reduced to a fact
  about the rows it writes (`StageStages`, `FinalizePublishes`,
  `RetryPostpones`); then there is one lemma per step. For the refinement,
  every step stages a result, publishes one, or leaves both as they are.
  The last two rest on `CleanInv` as well, which adds to `IndInv` who has
  created, bound and cleaned up which sandbox (`ExecutorOK`, `RunOK`): nobody
  binds a second sandbox to a run, the journal names the sandbox and the action
  the row asks for, and the holder of a completion lock that goes on to
  finalize has done that action, on a sandbox whose row says whether the run
  created it. `CleanupNeverLies` is about the step that makes the run terminal.
  `RunCompletionInvariant` has both invariants
  and the steps of the client, the registry, the daemon process and the
  executors; `RunCompletion_proofs` has those of the completion manager and of
  startup, and the theorems.
- **`EventDelivery_proofs`**, from `EventsNumbered`, `TargetsFinite`,
  `TargetsKnown`, `BoundsNatural`, `OutcomesKnown` and `NoneDistinct`:
  `SlotsAreCounted` (`SlotsBalanced`), `FanOutIsWhole` (`FanOutWhole`),
  `DeliveredOnce` (`ExecutedOnce`) and `WithdrawnNeverStarts`
  (`CanceledNeverStarts`). The invariant `DeliveryInv` has four parts.
  `Structure`: a claimed event is in one place at a time, nothing was done for
  it before the loop has it (`MessagesFresh`), and every goroutine is where the
  loop and its run row say (`TaskOK`). `FanOutWhole`. `ClaimOwned`: the claim
  under way is the only one of its event and still holds the row, which the
  in-flight mark protects when the lease runs out; a webhook event needs no
  further condition, any other only that no store call failed.
  `RunsOfOneClaim`: without failures, run rows come from one claim. A run row
  is written by a claim under way, hence by one that holds its event, hence not
  for a withdrawn event and not twice. For the counters, `SlotsMove` shows that
  every step lets one run enter, lets some leave, reserves or gives back the
  slots of one fan-out, or touches nothing; `RunningKept` and `ReservedKept`
  then count.
- **`ScheduleClock_proofs`**, from `ConstantAssumption` and `RequestsKnown`:
  `FiredOnce` (`OneRunPerFireTime`) and `OffIsOff` (`SwitchedOffStaysOff`). The
  invariant `ClockInv` says in `FireTimes` that, as long as no goroutines
  overlapped and no store call failed, no copy of a trigger (row, cache entry,
  list under way, collected job) holds a fire time that was dispatched already,
  and that from the mark on the copies that outlive the dispatch are past it. That there is no older copy elsewhere is `Overlap`: alone means that
  nobody else is between two store calls. `QuietOff` says that a scheduler
  switched off alone is off in the row, in the cache and in every list a
  refresh has half read, which is what the two queries of that list need.
- **`InteractiveSession_proofs`**, from `SendersDistinct` (finitely many
  clients, none of them the creator or the stop): `LeaseOrder`
  (`InputInLeaseOrder`), `OneTurn` (`OneTurnAtATime`), `NoGapInOutput`
  (`OutputHasNoGap`), `StopCountsTurns` (`TurnsAreCounted`) and
  `ShutdownSpares` (`ShutdownSparesTask`). The invariant `SessionInv` has four
  parts besides the types. The lease: one client at a time holds it
  (`HolderOK`), a send under way is the holder's (`SendingOK`), and no queued
  frame is from a later lease (`LeaseOK`). The turn: the token, the messages at
  the agent, the turn ends not yet read and the release under way share one
  turn, plus one per restart (`StartOK`, `TurnOK`). The count: the pending turns
  cover every message from its reservation to the end of its turn, up to those
  accepted before turns were tracked (`ReservedOK`, `CountOK`), and a session
  reopened after a restart tracks none (`UntrackedOK`). The subscriptions:
  what a channel holds continues what its client took (`SubsOK`). The channels
  hold sequences of any length, so the lemmas about turns and pending messages
  first say how the number of messages in a sequence changes when one is added
  or taken.
- **`StickyBinding_proofs`**, from `RequestsBounded`, `HashIsNotEmpty` (the
  hash of a configuration is never the empty one of an old row) and
  `NoneIsNoRow`: `OneConfiguration` (`OneConfigurationPerSandbox`),
  `RetirementIsFinal` (`RetiredStaysStopped`) and `NoRuntimeIsLost`
  (`NoStrayRuntime`). The invariant speaks of the rows that are still known,
  the binding and the rows requests have read: rows of one sandbox agree on its
  configuration (`Agree`), a sandbox some known row retires is never offered
  again (`RetiredForGood`), and every runtime has a row or a request that
  answers for it or is one the code leaves, by name (`CaredFor`). That a claim cannot bring back an old row rests
  on sandbox names never being used twice (`FreshBoxes`, `MineDiffers`).
- **`ProjectLifecycle_proofs`**, from `CallersFinite`, `KindsKnown`,
  `SpecsKnown` and `NoneIsNoRow`: `GateIsExclusive`, that is `GateExclusion` and `TokenNotLost`, and on top of
  it `SuccessMeansWhole` (`SuccessIsWhole`), `NotAppliedIsProof`
  (`NotAppliedIsTrue`), `EnabledStaysConsistent` (`EnabledIsConsistent`),
  `FailureIsClosed` (`FailsClosed`) and `PatchSupersedesExpected`
  (`PatchReplacesExpected`). All the work under the gate is shown to leave it
  alone (`WorkIsHeld`); the invariant `GateInv` (every request under way refers
  to the gate in the map, the references are counted, and the token is away
  exactly while one request holds it) then meets only the steps that take, pass
  on and drop references. The second invariant, `WorkInv`, says what the holder
  of the gate has established when it is at a given step: what the steps before
  have written (`Established`), how far the loop it is in has come (`LoopOK`),
  that the project and the revision it resolved are still current
  (`ProjectOK`), and what it has written and may answer (`ReplyOK`). It is
  inductive only because no other request writes meanwhile, which is
  `GateExclusion`, and because the steps outside the gate are `Harmless`: what a
  row set by hand can spoil is stated for the other rows only, and every list a
  refresher may still install either agrees with what the request has written
  or is marked as older than its own. That a failed reconcile leaves nothing inconsistent enabled
  rests on the order stage, triggers, enable, which `LoopOK` carries from one
  store call to the next. There is one lemma per store call.
- **`StopAdmission_proofs`**, from `StopsFinite`: `GateCountIsExact`,
  `GracefulStopIsReal` (`GracefulIsReal`) and `DriverStopsCanceledOnly`
  (`CanceledBeforeStop`). They are inductive together: the exact count keeps
  the gate closed to new executions while a stop holds it, which keeps a
  graceful outcome and a cancellation true.

The inductive invariants were model-checked on the instances of the runs before
they were proved.

Only model-checked:

- liveness (the prover has no fairness or ENABLED);
- `StopIsHonest`, which holds only while no event is put back to retrying
  during the stop: `event_stop_retried` shows that it is false in general, so
  no theorem can state it for every value of the constants;
- the invariants of `SandboxLifecycle`, for which no inductive invariant has
  been worked out.

There are no recursive definitions whose result would need an induction over
data.

## Limits of the code the models brought out

Hazards of the code that no property can cover, because the property is false
of the code, or that a property excepts by name:

- *Sticky sandboxes.* The startup sweep passes over project runs' sandboxes and
  those of a policy other than remove (`scheduler_sandbox_recovery.go:66`, 69;
  the test "sticky sandbox is kept" says so) and leaves one without a traced
  owner for manual review; `NoStrayRuntime` excepts them after a crash. It lists
  rows that say Running only: a start cut off by a crash, or whose
  `UpdateSandbox` failed after the runtime came up
  (`scheduler_session_runner.go:338`), leaves a runtime behind a row it never
  sees, which the property does not speak of. Resuming a bound sandbox is one
  step here. A project run that lost a claim reuses the winner's
  sandbox without looking at the row again (`sandbox_preparation.go:314`) and
  can start a sandbox that was just retired, which then runs unbound; the
  comment at `sticky_binding.go:56` says a retiring row makes it unavailable.
  `RetiredStaysStopped` and `NoStrayRuntime` except exactly these (`blind`). A
  retirement whose claimer died is not finished by a project run of the same
  hash (`sticky_scheduler_binding.go:127`), though the startup sweep stops a
  command sandbox. A retirement may stop a sandbox in which a run that reused
  it is still executing.
- *Runs.* A stop that was accepted is memory only: after a crash the run is
  re-attached or failed. A crash between the creation of a sandbox and
  `BindSandbox` leaves a sandbox no row names. When the removal of a sandbox the
  run refused to bind fails, `removal.go:341` rolls the intent back: the sandbox
  stays active and nobody retries (`kept`, which `LoserLeavesNoSandbox` excepts).
  Other users of a reused sandbox, and what they do to it, are outside
  `RunCompletion`, so `CleanupIsHonest` speaks of the step in which the run
  ends. A store error, as opposed to a
  crash, on `MarkRunning` or on staging leaves the row active until a restart;
  `RunCompletion` has no such errors. A cleanup canceled by a shutdown counts
  as an attempt.
- *Events.* A store error after the run rows were written delivers again.
  An event that is not a webhook is acknowledged by its first target. After a
  crash the delivery row of an interrupted run stays at `run_started`.
- *Sandboxes.* `ReconcileRuntimeState` and creation through the RPC bridge take
  no lifecycle lock; with two callers `FenceCoversLive` and
  `OneFailureNoOrphan` are false of them, so they are checked sequentially.
  Startup reconciliation of a PENDING sandbox takes back its start fence.
- *Projects.* Compensation uses the request's context, so a client that went
  away leaves schedulers enabled; `FailsClosed` speaks of a compensation without
  errors. `SetSchedulerEnabled` and `SetSchedulerTriggerEnabled` write scheduler
  rows without the gate (`scheduler_store.go:216`, 269). A scheduler enabled by
  hand between the staging of its row and the replacement of its triggers, or
  after a crash there, is enabled with the triggers of another revision, and
  one enabled during a removal or a compensation stays enabled; the properties
  except rows whose part was last written so. `Refresh` installs a list it read
  earlier (`pkg/schedulers/controller.go:222`), so a refresh at the end of a run
  can put a scheduler back into the controller after an apply, a compensation
  or a removal took it out, until the next refresh; the properties except this
  too (`stale`). A down that is retried after it disabled the schedulers skips
  the refresh, so nothing is claimed of the controller after a removal. The
  list of a refresh is one step, and its initialization of cron rows is in
  `ScheduleClock`. A run may start a sandbox after a down listed
  the running ones.
- *Sessions and stops.* When the write that marks an interactive run running or
  the one that completes it fails, the handler returns without ending the run
  (`run_attach.go:73`, 93, 102), which then waits for the next start; `StopEnds`
  is checked without such failures. Messages accepted before the session counts its turns
  are not counted. A resuming daemon assumes that the first prompt was sent. A
  gate closed by a removal stays closed when the removal fails. `StopLoaded`
  unlocks before it releases the gate, so a removal may lose its gate.

## Not modelled

`PROJECT.json` lists every part with the reason. In short:

- *Text in, data out* (compose files, normalization, formatting, transcripts,
  configuration, LLM protocol translation): functions of one document with no
  state shared between requests; they enter as hashes and model values.
- *Engines outside the daemon* (Docker, Kubernetes, BoxLite, microsandbox,
  image registries, Git, the file system): external calls that succeed or fail.
- *The script engine*: what it computes is the user's program; its runs
  succeed, fail or are canceled.
- *API handlers, command line, SDK, dashboards, telemetry, generated code*:
  translation and read-only views. The lock the exec handlers hold is in
  `StopAdmission`.
- *The rest of the store* (queries, pagination, migrations) and *caches that
  only save work* (image cache, capability matrix, LLM probe cache).

Most of the repository's lines are of these kinds, so the map covers a small
share of them: the protocols between goroutines, rows, files and restarts. What
would come next: image-cache pruning against pulls that use the cache, volume
garbage collection against project links, and errors of the store in
`RunCompletion`.

## Running

    tlc -workers 2 -config StickyBinding.cfg MCStickyBinding
    tlapm RunCompletion_proofs.tla

Each configuration belongs to the `MC…` module of its component; the run list
in `PROJECT.json` gives the pairs.
