--------------------------- MODULE StickyBinding ---------------------------
(***************************************************************************)
(* The sandbox a sticky trigger reuses: one binding row per trigger, moved *)
(* by compare-and-swap, and the requests that reuse, retire and replace    *)
(* its sandbox.  Two code paths share the row.  A project run goes through *)
(* pkg/runs/sticky_scheduler_binding.go and sandbox_preparation.go, a      *)
(* scheduler command through pkg/agentcompose/adapters/                    *)
(* scheduler_sticky_binding.go and scheduler_session_runner.go.  They hash *)
(* different documents, so a configuration hash tells the path.  At        *)
(* startup pkg/agentcompose/app/scheduler_sandbox_recovery.go stops the    *)
(* command sandboxes nothing binds any more, if their policy says so.      *)
(***************************************************************************)
EXTENDS Naturals, FiniteSets

CONSTANTS
    Requests,       \* requests in flight; one that has ended stands for the next
    RunConfigs,     \* configuration hashes of project runs
    CommandConfigs, \* configuration hashes of scheduler commands
    None,           \* no binding, no sandbox
    Legacy,         \* the empty hash of a row older than the hashes
    Retained,       \* sandboxes whose stopped_runtime policy is not "remove"
    MaxTries,       \* rounds of the compare-and-swap loops
    MaxRequests, MaxFaults, MaxCrashes

Configs == RunConfigs \cup CommandConfigs
(* Sandbox 0 is older than the hashes, sandbox n is created for request n. *)
Boxes == 0..MaxRequests
RowType == [box : Boxes, conf : Configs \cup {Legacy}, retiring : BOOLEAN]

ASSUME RequestsBounded == MaxRequests \in Nat
ASSUME RetainedBoxes == Retained \subseteq Boxes
(* A configuration hash is never empty.                                    *)
ASSUME HashIsNotEmpty == Legacy \notin Configs
ASSUME NoneIsNoRow == None \notin RowType

VARIABLES
    binding,  \* the row of scheduler_sandbox_binding, or None
    box,      \* the runtime of each sandbox; "starting" is a row that does not
              \* say Running, whether there is a runtime or not
    made,     \* the configuration each sandbox was created for
    q,        \* each request: where it is, its hash, the binding it expects,
              \* its rounds, its own sandbox, the one its run is bound to
    begun, faults, crashes,
    retired,  \* sandboxes the retirement of a binding has stopped
    served,   \* the configurations of the work each sandbox was given to
    blind,    \* sandboxes resumed after a lost claim without a second look
    dirty     \* a stop or a start failed, or a user stepped in, in this life

history == <<retired, served, blind, dirty>>
counters == <<begun, faults, crashes>>
vars == <<binding, box, made, q, counters, history>>

Row(b, c) == [box |-> b, conf |-> c, retiring |-> FALSE]
Idle == [pc |-> "idle", conf |-> None, seen |-> None, tries |-> 0, mine |-> None, at |-> None]

Init ==
    /\ \/ binding = None /\ box = [b \in Boxes |-> "none"]
       \/ binding = Row(0, Legacy) /\ box = [b \in Boxes |-> IF b = 0 THEN "running" ELSE "none"]
    /\ made = [b \in Boxes |-> Legacy]
    /\ q = [r \in Requests |-> Idle]
    /\ begun = 0 /\ faults = 0 /\ crashes = 0
    /\ retired = {} /\ served = [b \in Boxes |-> {}] /\ blind = {} /\ dirty = FALSE

At(r, pc) == q[r].pc = pc
IsRun(r) == q[r].conf \in RunConfigs
Goes(r, pc) == q' = [q EXCEPT ![r].pc = pc]
(* A project run that fails is journaled like one that finishes.           *)
Ends(r) == q' = [q EXCEPT ![r] = IF IsRun(r) THEN [@ EXCEPT !.pc = "completing"] ELSE Idle]
Fault == faults < MaxFaults /\ faults' = faults + 1 /\ dirty' = TRUE
NoFault == UNCHANGED <<faults, dirty>>

(* The lifecycle lock is held across steps only from the second look at    *)
(* the binding to the start; a section that looks at nothing but the       *)
(* sandbox is one step that waits for the lock.                            *)
Locked(b) == \E r \in Requests : At(r, "held") /\ q[r].seen.box = b

(* ProjectRunCompletionForSandbox: a journaled completion of another run.  *)
Pending(b) == \E r \in Requests : At(r, "completing") /\ q[r].at = b

Retiring(row, c) == [row EXCEPT !.conf = c, !.retiring = TRUE]

(* CompareAndSwapSchedulerBinding: an insert when nothing is expected.     *)
CompareAndSwap(expected, row) == binding = expected /\ binding' = row
Changed(expected) == binding # expected /\ UNCHANGED binding

----------------------------------------------------------------------------
(* Resolving the binding.                                                  *)

Begin(r, c) ==
    /\ At(r, "idle") /\ begun < MaxRequests
    /\ begun' = begun + 1
    /\ q' = [q EXCEPT ![r] = [Idle EXCEPT !.pc = "resolve", !.conf = c, !.mine = begun + 1]]
    /\ UNCHANGED <<binding, box, made, faults, crashes, history>>

(* What a request does about the row it has read.  A project run leaves a  *)
(* retirement for its own hash to whoever began it; a command repeats the  *)
(* stop.                                                                   *)
Decision(r, row) ==
    IF row = None THEN "create"
    ELSE IF IsRun(r) /\ Pending(row.box) THEN "completing"
    ELSE IF row.retiring /\ row.conf = q[r].conf THEN (IF IsRun(r) THEN "create" ELSE "stop")
    ELSE IF row.conf = Legacy THEN "adopt"
    ELSE IF ~row.retiring /\ row.conf = q[r].conf THEN "reuse"
    ELSE "claim"

Resolve(r) ==
    /\ At(r, "resolve")
    /\ \/ /\ q[r].tries < MaxTries
          /\ q' = [q EXCEPT ![r].pc = Decision(r, binding), ![r].seen = binding,
                            ![r].tries = @ + 1]
       \/ q[r].tries = MaxTries /\ Ends(r)
    /\ UNCHANGED <<binding, box, made, counters, history>>

(* Faulty variant: the row is overwritten whatever it has become.          *)
AdoptOverwrites(r) ==
    /\ At(r, "adopt")
    /\ LET row == Row(q[r].seen.box, q[r].conf) IN
       binding' = row /\ q' = [q EXCEPT ![r].pc = "reuse", ![r].seen = row]
    /\ UNCHANGED <<box, made, counters, history>>

(* ClaimLegacySchedulerBindingConfigHash.                                  *)
Adopt(r) ==
    /\ At(r, "adopt")
    /\ LET row == Row(q[r].seen.box, q[r].conf) IN
       \/ CompareAndSwap(q[r].seen, row) /\ q' = [q EXCEPT ![r].pc = "reuse", ![r].seen = row]
       \/ Changed(q[r].seen) /\ Goes(r, "resolve")
    /\ UNCHANGED <<box, made, counters, history>>

(* The retirement of a stale binding is claimed before its sandbox stops.  *)
Claim(r) ==
    /\ At(r, "claim")
    /\ LET row == Retiring(q[r].seen, q[r].conf) IN
       \/ CompareAndSwap(q[r].seen, row) /\ q' = [q EXCEPT ![r].pc = "stop", ![r].seen = row]
       \/ Changed(q[r].seen) /\ Goes(r, "resolve")
    /\ UNCHANGED <<box, made, counters, history>>

Stopped(b) == [box EXCEPT ![b] = IF @ = "gone" THEN "gone" ELSE "stopped"]

(* StopLoadedWhileLocked, Shutdown: a sandbox that is gone is no error.    *)
StopRetired(r) ==
    /\ At(r, "stop") /\ ~Locked(q[r].seen.box)
    /\ \/ /\ box' = Stopped(q[r].seen.box) /\ retired' = retired \cup {q[r].seen.box}
          /\ Goes(r, "create") /\ NoFault
       \/ Fault /\ Ends(r) /\ UNCHANGED <<box, retired>>
    /\ UNCHANGED <<binding, made, begun, crashes, served, blind>>

----------------------------------------------------------------------------
(* Reusing the bound sandbox.                                              *)

(* Faulty variant: the binding read before the lock is trusted.            *)
TrustBinding(r) ==
    /\ At(r, "reuse") \/ At(r, "winner")
    /\ ~Locked(q[r].seen.box) /\ Goes(r, "held")
    /\ UNCHANGED <<binding, box, made, counters, history>>

(* The binding is read again under the lock.                               *)
Revalidate(r) ==
    /\ At(r, "reuse") \/ At(r, "winner")
    /\ ~Locked(q[r].seen.box)
    /\ \/ binding = q[r].seen /\ Goes(r, "held")
       \/ binding # q[r].seen /\ At(r, "reuse") /\ ~IsRun(r) /\ Goes(r, "resolve")
       \/ binding # q[r].seen /\ (At(r, "winner") \/ IsRun(r)) /\ Ends(r)
    /\ UNCHANGED <<binding, box, made, counters, history>>

(* The request has created a sandbox and lost its claim.                   *)
Lost(r) == box[q[r].mine] # "none"

(* The work of a request is handed its sandbox.                            *)
Serves(r, b) ==
    /\ box' = [box EXCEPT ![b] = "running"]
    /\ served' = [served EXCEPT ![b] = @ \cup {q[r].conf}]
    /\ q' = [q EXCEPT ![r].pc = "executing", ![r].at = b]

(* BindSandbox and the start, under the lock.                              *)
Resume(r) ==
    /\ At(r, "held") /\ box[q[r].seen.box] # "gone"
    /\ ~(IsRun(r) /\ Pending(q[r].seen.box))
    /\ Serves(r, q[r].seen.box)
    /\ UNCHANGED <<binding, made, counters, retired, blind, dirty>>

ResumeRefused(r) ==
    /\ At(r, "held") /\ IsRun(r) /\ box[q[r].seen.box] # "gone" /\ Pending(q[r].seen.box)
    /\ Ends(r)
    /\ UNCHANGED <<binding, box, made, counters, history>>

(* A start that fails.  A command then replaces the sandbox, unless it     *)
(* came here after losing a claim.                                         *)
ResumeFails(r) ==
    /\ At(r, "held") /\ box[q[r].seen.box] # "gone" /\ Fault
    /\ \/ /\ IsRun(r)
          /\ q' = [q EXCEPT ![r].pc = "completing", ![r].at = q[r].seen.box]
          /\ box' = [box EXCEPT ![q[r].seen.box] = IF @ = "running" THEN @ ELSE "stopped"]
       \/ ~IsRun(r) /\ ~Lost(r) /\ Goes(r, "claim") /\ UNCHANGED box
       \/ ~IsRun(r) /\ Lost(r) /\ Ends(r) /\ UNCHANGED box
    /\ UNCHANGED <<binding, made, begun, crashes, retired, served, blind>>

(* The bound sandbox was removed.                                          *)
Unavailable(r) ==
    /\ At(r, "held") /\ box[q[r].seen.box] = "gone"
    /\ LET row == Retiring(q[r].seen, q[r].conf) IN
       \/ /\ IsRun(r) /\ CompareAndSwap(q[r].seen, row)
          /\ q' = [q EXCEPT ![r].pc = "create", ![r].seen = row]
       \/ IsRun(r) /\ Changed(q[r].seen) /\ Ends(r)
       \/ ~IsRun(r) /\ ~Lost(r) /\ Goes(r, "claim") /\ UNCHANGED binding
       \/ ~IsRun(r) /\ Lost(r) /\ Ends(r) /\ UNCHANGED binding
    /\ UNCHANGED <<box, made, counters, history>>

----------------------------------------------------------------------------
(* Creating a replacement.                                                 *)

(* A sandbox is created, and the run bound to it; then it is started.  The *)
(* row says Running only when the runtime is up: a start that fails is     *)
(* recorded as failed, but the record itself may fail too.                 *)
Create(r) ==
    /\ At(r, "create")
    /\ \/ /\ made' = [made EXCEPT ![q[r].mine] = q[r].conf]
          /\ box' = [box EXCEPT ![q[r].mine] = "starting"] /\ NoFault
          /\ q' = [q EXCEPT ![r].pc = "start", ![r].at = q[r].mine]
       \/ Fault /\ Ends(r) /\ UNCHANGED <<box, made>>
    /\ UNCHANGED <<binding, begun, crashes, retired, served, blind>>

Start(r) ==
    /\ At(r, "start")
    /\ \/ box' = [box EXCEPT ![q[r].mine] = "running"] /\ NoFault /\ Goes(r, "bind")
       \/ /\ Fault /\ Ends(r)
          /\ \E end \in {"starting", "stopped"} : box' = [box EXCEPT ![q[r].mine] = end]
    /\ UNCHANGED <<binding, made, begun, crashes, retired, served, blind>>

(* The new sandbox takes the place of the binding the request resolved.    *)
Bind(r) ==
    /\ At(r, "bind")
    /\ \/ CompareAndSwap(q[r].seen, Row(q[r].mine, q[r].conf)) /\ Serves(r, q[r].mine)
       \/ Changed(q[r].seen) /\ Goes(r, "unclaimed") /\ UNCHANGED <<box, served>>
    /\ UNCHANGED <<made, counters, retired, blind, dirty>>

(* The claim was lost: the sandbox nobody will know of is stopped.         *)
StopUnclaimed(r) ==
    /\ At(r, "unclaimed")
    /\ \/ box' = Stopped(q[r].mine) /\ Goes(r, "lost") /\ NoFault
       \/ Fault /\ Ends(r) /\ UNCHANGED box
    /\ UNCHANGED <<binding, made, begun, crashes, retired, served, blind>>

(* loadCompatibleStickySchedulerBinding, reuseWinningSchedulerBinding.     *)
Compatible(r) == binding # None /\ ~binding.retiring /\ binding.conf = q[r].conf

LoadWinner(r) ==
    /\ At(r, "lost")
    /\ \/ Compatible(r) /\ q' = [q EXCEPT ![r].pc = IF IsRun(r) THEN "blind" ELSE "winner", ![r].seen = binding]
       \/ ~Compatible(r) /\ Ends(r)
    /\ UNCHANGED <<binding, box, made, counters, history>>

(* A project run reuses the winner as if its sandbox had been asked for by *)
(* name: nothing looks at the binding again.                               *)
ReuseByName(r) ==
    /\ At(r, "blind") /\ ~Locked(q[r].seen.box)
    /\ \/ /\ box[q[r].seen.box] # "gone" /\ ~Pending(q[r].seen.box)
          /\ Serves(r, q[r].seen.box) /\ blind' = blind \cup {q[r].seen.box}
       \/ /\ box[q[r].seen.box] = "gone" \/ Pending(q[r].seen.box)
          /\ Ends(r) /\ UNCHANGED <<box, served, blind>>
    /\ UNCHANGED <<binding, made, counters, retired, dirty>>

(* A statement on the row fails and the request gives up.  One that has a  *)
(* sandbox to bind stops it.                                               *)
StoreFails(r) ==
    /\ faults < MaxFaults /\ faults' = faults + 1 /\ Ends(r)
    /\ \/ q[r].pc \in {"resolve", "adopt", "claim", "lost"} /\ UNCHANGED box
       \/ At(r, "bind") /\ box' = Stopped(q[r].mine)
    /\ UNCHANGED <<binding, made, begun, crashes, history>>

----------------------------------------------------------------------------
(* The work, and what happens around it.                                   *)

(* The policy of a sticky run is to leave its sandbox running.             *)
WorkEnds(r) ==
    /\ At(r, "executing") /\ Ends(r)
    /\ UNCHANGED <<binding, box, made, counters, history>>

Completed(r) ==
    /\ At(r, "completing") /\ q' = [q EXCEPT ![r] = Idle]
    /\ UNCHANGED <<binding, box, made, counters, history>>

(* A user stops or removes a sandbox through the API.                      *)
UserEnds(b) ==
    /\ box[b] = "running" /\ ~Locked(b) /\ Fault
    /\ \E end \in {"stopped", "gone"} : box' = [box EXCEPT ![b] = end]
    /\ UNCHANGED <<binding, made, q, begun, crashes, retired, served, blind>>

(* Faulty variant: a binding protects its sandbox while it is retired too. *)
StillBound(b, current) == binding # None /\ binding.box = b /\ current

(* schedulerBindingStillValid: the scheduler may have been changed since.  *)
StillValid(b, current) == binding # None /\ binding.box = b /\ ~binding.retiring /\ current

(* reconcileOrphanedSchedulerSandboxes lists the rows that say Running and *)
(* skips those of project runs, of the retain policy and of a binding in   *)
(* use.  No request survives a restart, so the owner of the others is      *)
(* lost, but the sandbox older than the hashes may have no traced owner.   *)
Orphaned(b, current, traced) ==
    /\ box[b] = "running" /\ made[b] \notin RunConfigs /\ b \notin Retained
    /\ ~StillValid(b, current)
    /\ b = 0 => traced

(* The daemon dies.  The next one journals the runs that had a sandbox,    *)
(* drops everything else and sweeps before it accepts requests.  It goes   *)
(* on without the sandboxes it could not look up or stop.                  *)
Restart ==
    /\ crashes < MaxCrashes /\ crashes' = crashes + 1
    /\ q' = [r \in Requests |-> IF IsRun(r) /\ q[r].at # None
                                THEN [q[r] EXCEPT !.pc = "completing"] ELSE Idle]
    /\ \E current, traced \in BOOLEAN :
       LET orphans == {b \in Boxes : Orphaned(b, current, traced)} IN
       \E spared \in SUBSET orphans :
          /\ box' = [b \in Boxes |-> IF b \in orphans \ spared THEN "stopped" ELSE box[b]]
          /\ IF spared = {} THEN dirty' = FALSE /\ UNCHANGED faults ELSE Fault
    /\ UNCHANGED <<binding, made, begun, retired, served, blind>>

Step(r) ==
    \/ \E c \in Configs : Begin(r, c)
    \/ Resolve(r) \/ Adopt(r) \/ Claim(r) \/ StopRetired(r)
    \/ Revalidate(r) \/ Resume(r) \/ ResumeRefused(r) \/ ResumeFails(r) \/ Unavailable(r)
    \/ Create(r) \/ Start(r) \/ Bind(r) \/ StopUnclaimed(r) \/ LoadWinner(r) \/ ReuseByName(r)
    \/ StoreFails(r) \/ WorkEnds(r) \/ Completed(r)

Next ==
    \/ \E r \in Requests : Step(r)
    \/ \E b \in Boxes : UserEnds(b)
    \/ Restart

Spec == Init /\ [][Next]_vars

----------------------------------------------------------------------------

(* The work of two configurations never meets in one sandbox: not when     *)
(* requests of both race for the row, adopt a row without a hash, or lose  *)
(* a claim and reuse the winner's sandbox.                                 *)
OneConfigurationPerSandbox == \A b \in Boxes : Cardinality(served[b]) <= 1

(* RetiringSchedulerBinding "makes an existing sticky sandbox unavailable  *)
(* for reuse before its runtime is stopped": once a retirement has stopped *)
(* a sandbox, no request that resolved it earlier starts it again.  The    *)
(* project run that lost a claim is the exception the code makes.          *)
RetiredStaysStopped == \A b \in retired \ blind : box[b] # "running"

(* When no request is under way, every sandbox whose row says Running is   *)
(* the one the binding offers: the sandboxes of lost claims and retired    *)
(* bindings are stopped.  What a failed step of this life of the daemon    *)
(* left running is excused.  Of an earlier life are excused the sandboxes  *)
(* the startup sweep passes over by design, those of project runs, of the  *)
(* retain policy and the one older than the hashes; every other command    *)
(* sandbox is not: the sweep owes its stop.                                *)
NoStrayRuntime ==
    (~dirty /\ \A r \in Requests : q[r].pc \in {"idle", "executing", "completing"}) =>
        \A b \in Boxes : box[b] = "running" =>
            \/ binding # None /\ binding.box = b /\ ~binding.retiring
            \/ b \in blind
            \/ crashes > 0 /\ (made[b] \in RunConfigs \/ b \in Retained \/ b = 0)
=============================================================================
