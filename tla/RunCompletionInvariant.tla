---------------------- MODULE RunCompletionInvariant ----------------------
(***************************************************************************)
(* Two inductive invariants of RunCompletion.  IndInv says how the stored  *)
(* rows, the journal, the registry and the memories of the executors fit   *)
(* together; CleanInv adds what has become of every sandbox.               *)
(*                                                                         *)
(* Here are the facts about what each store transaction writes, and the    *)
(* proofs that the steps of the registry, of the daemon process, of the    *)
(* client and of the executors preserve both.  RunCompletion_proofs has    *)
(* the steps of the completion manager and of startup, and the theorems.   *)
(***************************************************************************)
EXTENDS RunCompletion, TLAPS

(* A row that belongs to run r: its sandbox was made for r, and only a run *)
(* that is past pending and has a sandbox can be detached.                 *)
RowOf(r, row) ==
    /\ row \in Row
    /\ row.sandbox # NoRow => RunOf[row.sandbox] = r
    /\ row.detach => row.sandbox # NoRow /\ row.status # "pending"

NonTerminal(r) == runs[r] # Absent /\ ~StatusIsTerminal(runs[r])

(* Program points at which the run's result has not been staged by the     *)
(* executor; of these, the ones past a successful bind; and the ones       *)
(* before the task.                                                        *)
Unstaged == Preparing \cup Launching \cup {"follow", "interrupt", "complete", "stage"}
Bound == {"bindWrite", "start", "mark", "markWrite", "launch", "detachWrite", "task"}
BeforeTask == Preparing \cup {"mark", "markWrite", "launch", "detachWrite"}
Early == {"down", "listPending", "reconcilePending", "listRunning"}

(* Stored and remembered rows belong to their runs.                        *)
RowsOwned ==
    /\ \A r \in Runs : runs[r] # Absent => RowOf(r, runs[r])
    /\ \A q \in Requests : snap[q] # NoRow => RowOf(RunOf[q], snap[q])
    /\ \A r \in Runs : todo[r] # NoRow => RowOf(r, todo[r])
    /\ \A r \in Runs : held[r] # NoRow => RowOf(r, held[r].row)
    /\ \A r \in Runs : held[r] # NoRow /\ held[r].completion.sandbox # NoRow
         => RunOf[held[r].completion.sandbox] = r
    /\ \A r \in Runs : journal[r] # NoRow /\ journal[r].sandbox # NoRow
         => RunOf[journal[r].sandbox] = r

(* The registry names exactly the executors that are executing.            *)
Registered ==
    /\ \A q \in Requests : pc[q] \in Executing => active[RunOf[q]] = q
    /\ \A r \in Runs : active[r] # NoRow =>
         RunOf[active[r]] = r /\ pc[active[r]] \in Executing
    /\ \A q \in Requests : pc[q] # "idle" => runs[RunOf[q]] # Absent

(* The read-modify-write of an executor is not disturbed: its snapshot is  *)
(* there, and neither it nor the stored row is terminal until it writes.   *)
SnapshotsFresh ==
    /\ \A q \in Requests :
         pc[q] \in {"bindWrite", "markWrite", "detachWrite", "follow",
                    "interrupt", "stage"} => snap[q] # NoRow
    /\ \A q \in Requests :
         pc[q] \in {"bindWrite", "markWrite", "detachWrite"} =>
            snap[q].status \notin Terminal
    /\ \A q \in Requests :
         pc[q] \in {"launch", "detachWrite", "task"} =>
            runs[RunOf[q]].status # "pending" /\ runs[RunOf[q]].sandbox # NoRow
    /\ \A q \in Requests :
         pc[q] = "detachWrite" =>
            snap[q].status # "pending" /\ snap[q].sandbox # NoRow
    /\ \A q \in Requests :
         pc[q] \in Bound => ~StatusIsTerminal(runs[RunOf[q]])

(* The journal has no row before the registered executor stages one.       *)
UnstagedNoJournal ==
    \A q \in Requests : pc[q] \in Unstaged => journal[RunOf[q]] = NoRow

(* A StartRun that still believes its run pending is right, or another     *)
(* executor is in its way.                                                 *)
BegunIsCurrent ==
    /\ \A q \in Requests :
         pc[q] = "begun" /\ (active[RunOf[q]] = NoRow \/ pc[active[RunOf[q]]] = "leave")
           => /\ journal[RunOf[q]] = NoRow
              /\ NonTerminal(RunOf[q]) => taskStarts[RunOf[q]] = 0
    /\ \A p, q \in Requests :
         pc[p] \in {"follow", "interrupt"} /\ RunOf[p] = RunOf[q] => pc[q] # "begun"
    /\ \A q \in Requests :
         pc[q] \in {"follow", "interrupt"} => runs[RunOf[q]].status # "pending"

(* What a completion lock holder has read is what the journal and the run  *)
(* row still say.                                                          *)
HeldIsJournaled ==
    \A r \in Runs : held[r] # NoRow =>
        /\ journal[r] # NoRow /\ journal[r].target = held[r].completion.target
        /\ runs[r].sandbox = held[r].row.sandbox

(* Launches happen from pending rows only.                                 *)
LaunchOnce ==
    /\ \A r \in Runs : runs[r] = Absent => taskStarts[r] = 0 /\ journal[r] = NoRow
    /\ \A r \in Runs : runs[r] # Absent /\ runs[r].status = "pending" => taskStarts[r] = 0
    /\ \A q \in Requests :
         pc[q] \in BeforeTask /\ NonTerminal(RunOf[q]) => taskStarts[RunOf[q]] = 0

(* An executor stops waiting only when its run is in good hands.           *)
LeavesSettled ==
    /\ \A q \in Requests :
         pc[q] = "wait" /\ journal[RunOf[q]] = NoRow
            => StatusIsTerminal(runs[RunOf[q]])
    /\ \A q \in Requests :
         pc[q] = "leave" /\ daemon # "stopping"
            => StatusIsTerminal(runs[RunOf[q]]) \/ journal[RunOf[q]] # NoRow

(* Startup works through the rows it listed before the daemon serves.      *)
StartupCovers ==
    /\ daemon \in Early => \A q \in Requests : pc[q] \in {"idle", "returned"}
    /\ daemon = "reconcileRunning" => \A q \in Requests :
         pc[q] \in {"idle", "returned", "follow", "interrupt", "complete",
                    "stage", "wait", "leave"}
    /\ daemon \notin {"reconcilePending", "reconcileRunning"} =>
         \A r \in Runs : todo[r] = NoRow
    /\ daemon = "down" => \A r \in Runs : held[r] = NoRow
    /\ \A r \in Runs : todo[r] # NoRow =>
         /\ active[r] = NoRow /\ runs[r] # Absent
         /\ todo[r].status = (IF daemon = "reconcilePending" THEN "pending" ELSE "running")
         /\ daemon = "reconcileRunning" => runs[r].status # "pending"
    /\ daemon \in {"reconcilePending", "listRunning", "reconcileRunning"} =>
         \A r \in Runs : runs[r] # Absent /\ runs[r].status = "pending" =>
            daemon = "reconcilePending" /\ todo[r] # NoRow
    /\ daemon = "reconcileRunning" => \A r \in Runs : NonTerminal(r) =>
         journal[r] # NoRow \/ active[r] # NoRow \/ todo[r] # NoRow

IndInv ==
    /\ TypeOK
    /\ RowsOwned
    /\ Registered
    /\ SnapshotsFresh
    /\ UnstagedNoJournal
    /\ BegunIsCurrent
    /\ HeldIsJournaled
    /\ JournaledRunIsRunning
    /\ OneStatusEvent
    /\ LaunchOnce
    /\ TaskRunsOnce
    /\ LeavesSettled
    /\ StartupCovers
    /\ NoStrandedRun

(* Leaves are first-order unless they name SMT.                            *)
USE RequestsResolve, SentinelsDistinct, Zenon

(* The invariant, part by part.                                            *)
LEMMA InvParts ==
    ASSUME IndInv
    PROVE  /\ TypeOK /\ RowsOwned /\ Registered /\ SnapshotsFresh /\ UnstagedNoJournal
           /\ BegunIsCurrent /\ HeldIsJournaled /\ LaunchOnce /\ LeavesSettled
           /\ StartupCovers /\ JournaledRunIsRunning /\ OneStatusEvent /\ TaskRunsOnce
           /\ NoStrandedRun
BY DEF IndInv

(* What TypeOK says of the tables.                                         *)
LEMMA TablesTyped ==
    ASSUME IndInv
    PROVE  /\ runs \in [Runs -> Row \cup {Absent}]
           /\ journal \in [Runs -> Completion \cup {NoRow}]
           /\ todo \in [Runs -> Row \cup {NoRow}]
           /\ statusEvents \in [Runs -> Nat] /\ taskStarts \in [Runs -> Nat]
BY InvParts DEF TypeOK

(* The registry names an executing request of its run.                     *)
LEMMA RegistryTyped ==
    ASSUME IndInv, NEW r \in Runs, active[r] # NoRow
    PROVE  active[r] \in Requests /\ RunOf[active[r]] = r /\ pc[active[r]] \in Executing
<1>1. active[r] \in Requests \cup {NoRow}
  BY InvParts DEF TypeOK
<1>2. RunOf[active[r]] = r /\ pc[active[r]] \in Executing
  BY InvParts DEF Registered
<1> QED
  BY <1>1, <1>2

----------------------------------------------------------------------------
(* What the transactions do, as facts about the rows they write            *)

(* BeginRun inserts a pending row or finds one.                            *)
Inserts(q) ==
    LET r == RunOf[q] IN
    \/ /\ runs[r] = Absent
       /\ \E row \in Row :
             /\ row.status = "pending" /\ row.sandbox = NoRow /\ ~row.detach
             /\ runs' = [runs EXCEPT ![r] = row]
       /\ pc' = [pc EXCEPT ![q] = "begun"]
    \/ /\ runs[r] # Absent /\ runs' = runs
       /\ pc' = [pc EXCEPT ![q] = IF runs[r].status = "pending"
                                  THEN "begun" ELSE "returned"]

(* An executor that is not staged yet rewrites the row of its run.         *)
Rewrites(q, status, sandbox) ==
    \E row \in Row :
        /\ row.status = status /\ row.sandbox = sandbox
        /\ row.detach => status # "pending"
        /\ runs' = [runs EXCEPT ![RunOf[q]] = row]

(* The run an unstaged executor works on is untouched by anybody else.     *)
Untouched(q) ==
    /\ RunOf[q] \in Runs /\ pc[q] \in Executing /\ active[RunOf[q]] = q
    /\ journal[RunOf[q]] = NoRow /\ held[RunOf[q]] = NoRow
    /\ runs[RunOf[q]] \in Row /\ ~StatusIsTerminal(runs[RunOf[q]])
    /\ taskStarts[RunOf[q]] = 0

(* Executor q moves from one program point to another and changes nothing  *)
(* but its own memory and its sandbox.                                     *)
Moves(q, p) ==
    /\ pc' = [pc EXCEPT ![q] = p]
    /\ \E s \in Terminal : target' \in {target, [target EXCEPT ![q] = s]}
    /\ \E b \in {"created", "running", "stopped", "deleting", "kept", "removed"} :
          box' \in {box, [box EXCEPT ![q] = b]}
    /\ UNCHANGED <<runs, journal, statusEvents, taskStarts, cancelled, active, held,
                   daemon, todo, crashes>>

(* It goes one step further, or gives up and goes on to Complete.          *)
Advances(q) ==
    /\ \/ pc[q] = "prepare" /\ Moves(q, "create")
       \/ pc[q] = "create" /\ Moves(q, "bindRead")
       \/ pc[q] = "start" /\ Moves(q, "mark")
       \/ pc[q] = "follow" /\ Moves(q, "interrupt")
       \/ /\ pc[q] \in {"prepare", "create", "bindRead", "bindWrite", "start", "mark",
                       "task", "follow"}
          /\ Moves(q, "complete")
    /\ \/ snap' = snap
       \/ pc[q] \in {"bindRead", "bindWrite"} /\ snap' = [snap EXCEPT ![q] = NoRow]

(* It reads the row of its run, which is not terminal.                     *)
Reads(q) ==
    /\ \/ pc[q] = "bindRead" /\ Moves(q, "bindWrite")
       \/ pc[q] = "mark" /\ Moves(q, "markWrite")
       \/ pc[q] = "launch" /\ Moves(q, "detachWrite")
       \/ pc[q] = "complete" /\ Moves(q, "stage")
    /\ ~StatusIsTerminal(runs[RunOf[q]])
    /\ snap' = [snap EXCEPT ![q] = runs[RunOf[q]]]

(* It returns to the supervisor: the run is terminal, or staged and nobody *)
(* is about to register, or the daemon is shutting down.                   *)
Leaves(q) ==
    /\ pc[q] \in Executing /\ Moves(q, "leave")
    /\ snap' \in {snap, [snap EXCEPT ![q] = NoRow]}
    /\ \/ StatusIsTerminal(runs[RunOf[q]]) /\ journal[RunOf[q]] = NoRow
       \/ /\ daemon = "stopping" \/ journal[RunOf[q]] # NoRow
          /\ StartersRegistered(RunOf[q])

(* It writes back the row it has read, and may launch the task.            *)
Writes(q) ==
    /\ \/ /\ pc[q] = "bindWrite" /\ pc' = [pc EXCEPT ![q] = "start"]
          /\ \E s \in {"pending", "running"} : Rewrites(q, s, q)
          /\ taskStarts' = taskStarts
       \/ /\ pc[q] = "markWrite" /\ pc' = [pc EXCEPT ![q] = "launch"]
          /\ Rewrites(q, "running", q)
          /\ taskStarts' = taskStarts
       \/ /\ pc[q] = "detachWrite" /\ pc' = [pc EXCEPT ![q] = "task"]
          /\ \E b \in Requests : RunOf[b] = RunOf[q] /\ Rewrites(q, "running", b)
          /\ taskStarts' = [taskStarts EXCEPT ![RunOf[q]] = @ + 1]
    /\ snap' = [snap EXCEPT ![q] = NoRow]
    /\ UNCHANGED <<journal, statusEvents, box, target, cancelled, active, held, daemon,
                   todo, crashes>>

(* The holder of the run lock remembers what it read.                      *)
Holds(r) ==
    /\ \E h \in Holding :
          /\ \/ h.row = runs[r] /\ h.completion = journal[r] /\ journal[r] # NoRow
             \/ held[r] # NoRow /\ h.row = held[r].row /\ h.completion = held[r].completion
          /\ held' = [held EXCEPT ![r] = h]
    /\ \/ box' = box
       \/ \E q \in Requests, b \in {"removed", "stopped"} : box' = [box EXCEPT ![q] = b]
    /\ daemon # "down"
    /\ UNCHANGED <<storeVars, taskStarts, execVars, active, daemon, todo, crashes>>

(* StageProjectRunCompletion creates a journal row for a run that has none *)
(* and is not terminal, or does nothing.                                   *)
Stages(r) ==
    /\ statusEvents' = statusEvents
    /\ \/ /\ StatusIsTerminal(runs[r]) \/ journal[r] # NoRow
          /\ UNCHANGED <<runs, journal>>
       \/ /\ ~StatusIsTerminal(runs[r]) /\ journal[r] = NoRow
          /\ \E c \in Completion :
                /\ c.sandbox # NoRow => RunOf[c.sandbox] = r
                /\ journal' = [journal EXCEPT ![r] = c]
          /\ \E row \in Row :
                /\ row.status = "running" /\ row.sandbox = runs[r].sandbox
                /\ row.detach = runs[r].detach
                /\ runs' = [runs EXCEPT ![r] = row]

(* Complete and onFailure of a re-attached run: the executor stages and    *)
(* waits or leaves.                                                        *)
ExecutorStages(q) ==
    /\ pc[q] \in {"stage", "interrupt"} /\ Stages(RunOf[q])
    /\ pc' = [pc EXCEPT ![q] = IF pc[q] = "stage" THEN "wait" ELSE "leave"]
    /\ snap' = [snap EXCEPT ![q] = NoRow]
    /\ UNCHANGED <<box, taskStarts, target, cancelled, active, held, daemon, todo,
                   crashes>>

(* A recorded cleanup failure keeps the staged result.                     *)
Postpones(r) ==
    /\ \E c \in Completion :
          /\ c.target = journal[r].target /\ c.sandbox = journal[r].sandbox
          /\ journal' = [journal EXCEPT ![r] = c]
    /\ \E row \in Row :
          /\ row.status = "running" /\ row.sandbox = runs[r].sandbox
          /\ row.detach = runs[r].detach
          /\ runs' = [runs EXCEPT ![r] = row]
    /\ statusEvents' = statusEvents
    /\ held' = [held EXCEPT ![r] = NoRow]
    /\ box' \in [Requests -> Boxes]
    /\ UNCHANGED <<taskStarts, execVars, active, daemon, todo, crashes>>

(* A finalizing transaction publishes the staged result.                   *)
Publishes(r) ==
    /\ \E row \in Row :
          /\ row.status = journal[r].target /\ row.status \in Terminal
          /\ row.sandbox # NoRow => RunOf[row.sandbox] = r
          /\ row.detach => row.sandbox # NoRow
          /\ runs' = [runs EXCEPT ![r] = row]
    /\ statusEvents' = [statusEvents EXCEPT ![r] = @ + 1]
    /\ journal' = [journal EXCEPT ![r] = NoRow]
    /\ held' = [held EXCEPT ![r] = NoRow]
    /\ box' \in [Requests -> Boxes]
    /\ UNCHANGED <<taskStarts, execVars, active, daemon, todo, crashes>>

(* What the holder of a completion lock may rely on.                       *)
Journaled(r) ==
    /\ held[r] # NoRow /\ held[r] \in Holding
    /\ journal[r] # NoRow /\ journal[r] \in Completion
    /\ journal[r].target = held[r].completion.target
    /\ runs[r] \in Row /\ runs[r].status = "running" /\ statusEvents[r] = 0
    /\ runs[r].sandbox = held[r].row.sandbox

(* Rows, completions and holdings differ from the absence marks.           *)
LEMMA Sentinels ==
    /\ \A row \in Row : row # Absent /\ row # NoRow
    /\ \A c \in Completion : c # NoRow
    /\ \A h \in Holding : h # NoRow
    /\ "pending" \notin Terminal /\ "running" \notin Terminal
BY DEF Terminal

(* BeginRun writes a pending row only where there was none.                *)
LEMMA BeginRunInserts ==
    ASSUME NEW q \in Requests, BeginRun(q)
    PROVE  Inserts(q)
<1>1. ASSUME NEW p \in Policies
      PROVE  LET row == ProjectRun("pending", NoRow, FALSE, p, FALSE, FALSE)
             IN  row \in Row /\ row.status = "pending" /\ row.sandbox = NoRow /\ ~row.detach
  BY PoliciesKnown DEF ProjectRun, Row, Statuses
<1>. QED  BY <1>1, Zenon DEF BeginRun, Inserts

(* Nobody else touches the run of an executor between bind and launch.     *)
LEMMA UnstagedUntouched ==
    ASSUME IndInv, NEW q \in Requests,
           pc[q] \in {"bindWrite", "markWrite", "launch", "detachWrite"}
    PROVE  Untouched(q)
<1>1. /\ pc[q] \in Executing /\ pc[q] \in Unstaged /\ pc[q] \in Bound
      /\ pc[q] \in BeforeTask /\ pc[q] # "idle"
  BY DEF Executing, Preparing, Launching, Unstaged, Bound, BeforeTask
<1>2. /\ RunOf[q] \in Runs /\ active[RunOf[q]] = q /\ journal[RunOf[q]] = NoRow
      /\ runs[RunOf[q]] \in Row /\ ~StatusIsTerminal(runs[RunOf[q]])
  BY SMTT(30), <1>1, InvParts DEF TypeOK, Registered, UnstagedNoJournal, SnapshotsFresh
<1>. QED  BY <1>1, <1>2, Sentinels, InvParts DEF TypeOK, HeldIsJournaled, LaunchOnce,
   NonTerminal, Untouched

(* What StageProjectRunCompletion does to the two tables.                  *)
LEMMA StageStages ==
    ASSUME TypeOK, NEW r \in Runs, runs[r] # Absent, NEW t \in Terminal,
           NEW b \in Requests \cup {NoRow}, b # NoRow => RunOf[b] = r,
           NEW a \in Actions, StageProjectRunCompletion(r, t, b, a)
    PROVE  Stages(r)
<1>. DEFINE c == NewCompletion(t, b, a, 0, TRUE)
            row == ProjectRun("running", runs[r].sandbox, runs[r].created,
                              runs[r].policy, FALSE, runs[r].detach)
<1>1. c \in Completion /\ c.target = t /\ c.sandbox = b
  BY SMTT(30), AttemptsPositive DEF NewCompletion, Completion
<1>2. runs[r] \in Row
  BY DEF TypeOK
<1>3. /\ row \in Row /\ row.status = "running" /\ row.sandbox = runs[r].sandbox
      /\ row.detach = runs[r].detach
  BY <1>2 DEF ProjectRun, Row, Statuses
<1>4. CASE StatusIsTerminal(runs[r]) \/ journal[r] # NoRow
  BY <1>4, Zenon DEF StageProjectRunCompletion, storeVars, Stages
<1>5. CASE ~(StatusIsTerminal(runs[r]) \/ journal[r] # NoRow)
  <2>1. /\ journal' = [journal EXCEPT ![r] = c]
        /\ runs' = [runs EXCEPT ![r] = row]
        /\ statusEvents' = statusEvents
    BY <1>5 DEF StageProjectRunCompletion, TypeOK
  <2>. QED  BY <1>1, <1>3, <1>5, <2>1, Zenon DEF Stages
<1>. QED  BY <1>4, <1>5

(* A completion lock holder works on a journaled, running run.             *)
LEMMA HolderIsJournaled ==
    ASSUME IndInv, NEW r \in Runs, held[r] # NoRow
    PROVE  Journaled(r)
<1>1. /\ journal[r] # NoRow /\ journal[r].target = held[r].completion.target
      /\ runs[r].sandbox = held[r].row.sandbox
  BY InvParts DEF HeldIsJournaled
<1>2. runs[r] # Absent /\ runs[r].status = "running"
  BY <1>1, InvParts DEF JournaledRunIsRunning
<1>3. statusEvents[r] = 0
  BY <1>2, Sentinels, InvParts DEF OneStatusEvent, StatusIsTerminal
<1>. QED  BY <1>1, <1>2, <1>3, InvParts DEF TypeOK, Journaled

(* What finalizeProjectRunCompletion does under the run lock.              *)
LEMMA FinalizePublishes ==
    ASSUME IndInv, NEW r \in Runs, held[r] # NoRow, NEW e \in BOOLEAN,
           finalizeProjectRunCompletion(
               r, terminalRunUpdate(held[r].row, held[r].completion), e),
           held' = [held EXCEPT ![r] = NoRow], box' \in [Requests -> Boxes],
           UNCHANGED <<taskStarts, execVars, active, daemon, todo, crashes>>
    PROVE  Publishes(r)
<1>. DEFINE h == held[r]
            up == terminalRunUpdate(h.row, h.completion)
            row == ProjectRun(up.status, up.sandbox, up.created, up.policy, e,
                              runs[r].detach)
<1>1. Journaled(r)
  BY HolderIsJournaled
<1>2. h.row \in Row /\ h.completion \in Completion
  BY <1>1 DEF Journaled, Holding
<1>3. /\ up.status = h.completion.target /\ up.policy = h.row.policy
      /\ up.created = h.row.created
      /\ up.sandbox = IF h.completion.sandbox # NoRow THEN h.completion.sandbox
                                                     ELSE h.row.sandbox
  BY DEF terminalRunUpdate, ProjectRun
<1>4. /\ up.status \in Terminal /\ up.sandbox \in Requests \cup {NoRow}
      /\ up.policy \in {"keep", "stop", "remove"} /\ runs[r].detach \in BOOLEAN
      /\ up.created \in BOOLEAN
  BY <1>1, <1>2, <1>3 DEF Row, Completion, Journaled
<1>5. /\ row \in Row /\ row.status = up.status /\ row.sandbox = up.sandbox
      /\ row.detach = runs[r].detach
  BY <1>4 DEF ProjectRun, Row, Statuses
<1>6. /\ runs' = [runs EXCEPT ![r] = row]
      /\ statusEvents' = [statusEvents EXCEPT ![r] = @ + 1]
      /\ journal' = [journal EXCEPT ![r] = NoRow]
  BY DEF finalizeProjectRunCompletion
<1>7. /\ h.completion.sandbox # NoRow => RunOf[h.completion.sandbox] = r
      /\ h.row.sandbox # NoRow => RunOf[h.row.sandbox] = r
      /\ runs[r].detach => runs[r].sandbox # NoRow
  BY <1>1, Sentinels, InvParts DEF RowsOwned, RowOf, Journaled
<1>. QED  BY <1>1, <1>3, <1>4, <1>5, <1>6, <1>7, Zenon DEF Publishes, Journaled

(* What a failed cleanup leaves of a sandbox is a state of a sandbox.      *)
LEMMA CleanupFailsBoxed ==
    ASSUME IndInv, NEW r \in Runs, CleanupFails(r)
    PROVE  box' \in [Requests -> Boxes]
<1>1. box \in [Requests -> Boxes] /\ held[r] \in Holding
  BY InvParts DEF TypeOK, CleanupFails
<1>2. PICK b \in HalfCleaned(held[r].completion.action, box[held[r].row.sandbox]) :
         box' = [box EXCEPT ![held[r].row.sandbox] = b]
  BY DEF CleanupFails
<1>3. held[r].row.sandbox \in Requests
  BY <1>1 DEF CleanupFails, Holding, Row
<1>4. b \in Boxes
  BY <1>1, <1>2, <1>3 DEF HalfCleaned, Boxes, Live
<1>. QED  BY <1>1, <1>2, <1>4

(* A cleanup failure that is retried keeps the staged result.              *)
LEMMA RetryPostpones ==
    ASSUME IndInv, NEW r \in Runs, CleanupFails(r),
           held[r].completion.attempt + 1 < MaxAttempts
    PROVE  Postpones(r)
<1>. DEFINE attempt == held[r].completion.attempt + 1
            c == NewCompletion(journal[r].target, journal[r].sandbox, journal[r].action,
                               attempt, FALSE)
            row == ProjectRun(runs[r].status, runs[r].sandbox, runs[r].created,
                              runs[r].policy, TRUE, runs[r].detach)
<1>1. Journaled(r)
  BY HolderIsJournaled DEF CleanupFails
<1>2. attempt \in 0 .. MaxAttempts - 1 /\ ~(attempt >= MaxAttempts)
  BY SMTT(30), <1>1, AttemptsPositive DEF Journaled, Holding, Completion
<1>3. c \in Completion /\ c.target = journal[r].target /\ c.sandbox = journal[r].sandbox
  BY <1>1, <1>2 DEF NewCompletion, Completion, Journaled
<1>4. /\ row \in Row /\ row.status = "running" /\ row.sandbox = runs[r].sandbox
      /\ row.detach = runs[r].detach
  BY <1>1 DEF ProjectRun, Row, Journaled
<1>5. /\ journal' = [journal EXCEPT ![r] = c]
      /\ runs' = [runs EXCEPT ![r] = row]
      /\ statusEvents' = statusEvents
  BY <1>2, Zenon DEF CleanupFails
<1>6. /\ held' = [held EXCEPT ![r] = NoRow]
      /\ UNCHANGED <<taskStarts, execVars, active, daemon, todo, crashes>>
  BY DEF CleanupFails
<1>7. box' \in [Requests -> Boxes]
  BY CleanupFailsBoxed
<1>. QED  BY <1>3, <1>4, <1>5, <1>6, <1>7, Zenon DEF Postpones

(* Complete stages the result of its executor.                             *)
LEMMA CompleteStageStages ==
    ASSUME IndInv, NEW q \in Requests, CompleteStage(q)
    PROVE  ExecutorStages(q)
<1>. DEFINE b == IF box[q] = "absent" THEN NoRow ELSE q
<1>1. snap[q] \in Row /\ CompletionCleanupAction(snap[q]) \in Actions
  BY InvParts DEF TypeOK, SnapshotsFresh, CompletionCleanupAction, Actions, Row,
     CompleteStage
<1>2. /\ TypeOK /\ target[q] \in Terminal /\ RunOf[q] \in Runs /\ runs[RunOf[q]] # Absent
      /\ b \in Requests \cup {NoRow} /\ (b # NoRow => RunOf[b] = RunOf[q])
  BY SMTT(30), InvParts DEF TypeOK, Terminal, Registered, CompleteStage
<1>3. StageProjectRunCompletion(RunOf[q], target[q], b, CompletionCleanupAction(snap[q]))
  BY DEF CompleteStage
<1>4. Stages(RunOf[q])
  BY <1>1, <1>2, <1>3, StageStages
<1>. QED  BY <1>4 DEF CompleteStage, ExecutorStages

(* A failed re-attachment stages the run as failed.                        *)
LEMMA StageReattachFailureStages ==
    ASSUME IndInv, NEW q \in Requests, StageReattachFailure(q)
    PROVE  ExecutorStages(q)
<1>1. snap[q] \in Row /\ CompletionCleanupAction(snap[q]) \in Actions
  BY InvParts DEF TypeOK, SnapshotsFresh, CompletionCleanupAction, Actions, Row,
     StageReattachFailure
<1>2. /\ TypeOK /\ "failed" \in Terminal /\ RunOf[q] \in Runs /\ runs[RunOf[q]] # Absent
      /\ NoRow \in Requests \cup {NoRow} /\ (NoRow # NoRow => RunOf[NoRow] = RunOf[q])
  BY InvParts DEF TypeOK, Terminal, Registered, StageReattachFailure
<1>3. StageProjectRunCompletion(RunOf[q], "failed", NoRow, CompletionCleanupAction(snap[q]))
  BY DEF StageReattachFailure
<1>4. Stages(RunOf[q])
  BY <1>1, <1>2, <1>3, StageStages
<1>. QED  BY <1>4 DEF StageReattachFailure, ExecutorStages

(* Startup stages an interrupted run as failed.                            *)
LEMMA InterruptedStages ==
    ASSUME IndInv, NEW r \in Runs, ReconcileRun(r), ~todo[r].detach
    PROVE  Stages(r)
<1>1. todo[r] \in Row /\ runs[r] # Absent
  BY InvParts DEF TypeOK, StartupCovers, ReconcileRun
<1>2. /\ TypeOK /\ "failed" \in Terminal /\ NoRow \in Requests \cup {NoRow}
      /\ CompletionCleanupAction(todo[r]) \in Actions
  BY <1>1, InvParts DEF Terminal, CompletionCleanupAction, Actions, Row
<1>3. StageProjectRunCompletion(r, "failed", NoRow, CompletionCleanupAction(todo[r]))
  BY DEF ReconcileRun
<1>. QED  BY <1>1, <1>2, <1>3, StageStages

(* A retry that becomes due keeps the staged result.                       *)
LEMMA RetryKeepsTarget ==
    ASSUME IndInv, NEW r \in Runs, RetryDue(r)
    PROVE  \E c \in Completion :
             /\ c.target = journal[r].target /\ c.sandbox = journal[r].sandbox
             /\ journal' = [journal EXCEPT ![r] = c]
<1>. DEFINE c == NewCompletion(journal[r].target, journal[r].sandbox, journal[r].action,
                               journal[r].attempt, TRUE)
<1>1. journal[r] \in Completion
  BY InvParts DEF TypeOK, RetryDue
<1>2. c \in Completion /\ c.target = journal[r].target /\ c.sandbox = journal[r].sandbox
  BY <1>1 DEF NewCompletion, Completion
<1>. QED  BY <1>2, Zenon DEF RetryDue

----------------------------------------------------------------------------
(* Steps of the registry and of the daemon process                         *)

(* A step that leaves the stored rows, the executors, the registry and the  *)
(* completion locks alone keeps what the invariant says of them.           *)
LEMMA Frame ==
    ASSUME IndInv,
           UNCHANGED <<runs, journal, statusEvents, taskStarts, pc, snap, active, held>>
    PROVE  /\ Registered' /\ SnapshotsFresh' /\ UnstagedNoJournal' /\ BegunIsCurrent'
           /\ HeldIsJournaled' /\ JournaledRunIsRunning' /\ OneStatusEvent'
           /\ LaunchOnce' /\ TaskRunsOnce'
<1>1. Registered' /\ UnstagedNoJournal' /\ HeldIsJournaled' /\ TaskRunsOnce'
  BY InvParts DEF Registered, UnstagedNoJournal, HeldIsJournaled, TaskRunsOnce
<1>2. SnapshotsFresh' /\ JournaledRunIsRunning' /\ OneStatusEvent'
  BY InvParts DEF SnapshotsFresh, JournaledRunIsRunning, OneStatusEvent,
     StatusIsTerminal
<1>3. BegunIsCurrent' /\ LaunchOnce'
  BY InvParts DEF BegunIsCurrent, LaunchOnce, NonTerminal, StatusIsTerminal
<1>. QED  BY <1>1, <1>2, <1>3

(* If it also leaves the listed rows alone, all rows still belong to their *)
(* runs...                                                                 *)
LEMMA RowsFrame ==
    ASSUME IndInv, UNCHANGED <<runs, journal, snap, held, todo>>
    PROVE  RowsOwned'
BY InvParts DEF RowsOwned, RowOf

(* ...and if the daemon is in the same phase, so is startup.               *)
LEMMA PhaseFrame ==
    ASSUME IndInv, UNCHANGED <<runs, journal, pc, active, held, daemon, todo>>
    PROVE  LeavesSettled' /\ StartupCovers' /\ NoStrandedRun'
<1>1. LeavesSettled' /\ NoStrandedRun'
  BY InvParts DEF LeavesSettled, NoStrandedRun, StatusIsTerminal
<1>2. StartupCovers'
  BY InvParts DEF StartupCovers, NonTerminal, StatusIsTerminal
<1>. QED  BY <1>1, <1>2

(* register preserves the invariant.                                       *)
LEMMA registerStep ==
    ASSUME IndInv, NEW q \in Requests, register(q)
    PROVE  IndInv'
<1>a. RunOf[q] \in Runs /\ pc[q] = "begun" /\ "prepare" \in Executing
  BY DEF register, Executing, Preparing
<1>1. /\ RowsOwned' /\ HeldIsJournaled' /\ JournaledRunIsRunning'
      /\ OneStatusEvent' /\ TaskRunsOnce'
  BY InvParts DEF RowsOwned, RowOf, HeldIsJournaled, JournaledRunIsRunning,
     OneStatusEvent, StatusIsTerminal, TaskRunsOnce, register, storeVars, execVars
<1>2. TypeOK'
  BY SMTT(30), <1>a, InvParts DEF TypeOK, register, storeVars, execVars
<1>3. Registered'
  BY SMTT(30), <1>a, InvParts DEF TypeOK, Registered, Executing, Preparing, Launching,
     Completing, register, storeVars, execVars
<1>4. SnapshotsFresh'
  BY SMTT(30), <1>a, InvParts DEF TypeOK, SnapshotsFresh, Bound, StatusIsTerminal,
     Registered, register, storeVars, execVars
<1>5. UnstagedNoJournal'
  BY SMTT(30), <1>a, InvParts DEF TypeOK, UnstagedNoJournal, Unstaged, Preparing,
     Launching, BegunIsCurrent, Registered, register, storeVars, execVars
<1>6. BegunIsCurrent'
  BY SMTT(30), <1>a, InvParts DEF TypeOK, BegunIsCurrent, NonTerminal, register,
     storeVars
<1>7. LaunchOnce'
  BY SMTT(30), <1>a, InvParts DEF TypeOK, LaunchOnce, NonTerminal, StatusIsTerminal,
     BeforeTask, Preparing, BegunIsCurrent, Registered, register, storeVars, execVars
<1>8. LeavesSettled'
  BY SMTT(30), <1>a, InvParts DEF TypeOK, LeavesSettled, StatusIsTerminal, Registered,
     register, storeVars, execVars
<1>9. StartupCovers'
  BY <1>a, Zenon, InvParts DEF TypeOK, StartupCovers, Early, NonTerminal,
     StatusIsTerminal, Registered, register, storeVars, execVars
<1>10. NoStrandedRun'
  BY SMTT(30), <1>a, InvParts DEF TypeOK, NoStrandedRun, StatusIsTerminal, Registered,
     register, storeVars, execVars
<1>. QED  BY <1>1, <1>2, <1>3, <1>4, <1>5, <1>6, <1>7, <1>8, <1>9, <1>10 DEF IndInv

(* StopActiveRun preserves the invariant.                                  *)
LEMMA StopActiveRunStep ==
    ASSUME IndInv, NEW r \in Runs, StopActiveRun(r)
    PROVE  IndInv'
<1>1. /\ Registered' /\ SnapshotsFresh' /\ UnstagedNoJournal' /\ BegunIsCurrent'
      /\ HeldIsJournaled' /\ JournaledRunIsRunning' /\ OneStatusEvent'
      /\ LaunchOnce' /\ TaskRunsOnce' /\ RowsOwned' /\ LeavesSettled'
      /\ StartupCovers' /\ NoStrandedRun'
  BY Frame, RowsFrame, PhaseFrame DEF StopActiveRun, storeVars, execVars
<1>2. TypeOK'
  BY InvParts DEF TypeOK, StopActiveRun, storeVars, execVars
<1>. QED  BY <1>1, <1>2 DEF IndInv

(* unregister preserves the invariant.                                     *)
LEMMA unregisterStep ==
    ASSUME IndInv, NEW q \in Requests, unregister(q)
    PROVE  IndInv'
<1>a. RunOf[q] \in Runs /\ pc[q] = "leave" /\ pc[q] \in Executing /\ active[RunOf[q]] = q
  BY InvParts DEF Registered, unregister, Executing, Preparing, Launching, Completing
<1>1. /\ RowsOwned' /\ HeldIsJournaled' /\ JournaledRunIsRunning'
      /\ OneStatusEvent' /\ TaskRunsOnce'
  BY InvParts DEF RowsOwned, RowOf, HeldIsJournaled, JournaledRunIsRunning,
     OneStatusEvent, StatusIsTerminal, TaskRunsOnce, unregister, storeVars, execVars
<1>2. TypeOK'
  BY <1>a, InvParts DEF TypeOK, unregister, storeVars, execVars
<1>3. Registered'
  BY SMTT(30), <1>a, InvParts DEF TypeOK, Registered, Executing, Preparing, Launching,
     Completing, unregister, storeVars, execVars
<1>4. SnapshotsFresh'
  BY SMTT(30), <1>a, InvParts DEF TypeOK, SnapshotsFresh, Bound, StatusIsTerminal,
     Registered, unregister, storeVars, execVars
<1>5. UnstagedNoJournal'
  BY SMTT(30), <1>a, InvParts DEF TypeOK, UnstagedNoJournal, Unstaged, Preparing,
     Launching, Registered, unregister, storeVars, execVars
<1>6. BegunIsCurrent'
  BY SMTT(30), <1>a, InvParts DEF TypeOK, BegunIsCurrent, NonTerminal, StatusIsTerminal,
     Registered, unregister, storeVars, execVars
<1>7. LaunchOnce'
  BY SMTT(30), <1>a, InvParts DEF TypeOK, LaunchOnce, NonTerminal, StatusIsTerminal,
     BeforeTask, Preparing, Registered, unregister, storeVars, execVars
<1>8. LeavesSettled'
  BY SMTT(30), <1>a, InvParts DEF TypeOK, LeavesSettled, StatusIsTerminal, Registered,
     unregister, storeVars, execVars
<1>9. StartupCovers'
  BY SMTT(30), <1>a, InvParts DEF TypeOK, StartupCovers, Early, NonTerminal,
     StatusIsTerminal, LeavesSettled, Registered, unregister, storeVars, execVars
<1>10. NoStrandedRun'
  BY SMTT(30), <1>a, InvParts DEF TypeOK, NoStrandedRun, StatusIsTerminal,
     LeavesSettled, Registered, unregister, storeVars, execVars
<1>. QED  BY <1>1, <1>2, <1>3, <1>4, <1>5, <1>6, <1>7, <1>8, <1>9, <1>10 DEF IndInv

(* Shutdown preserves the invariant.                                       *)
LEMMA ShutdownStep ==
    ASSUME IndInv, Shutdown
    PROVE  IndInv'
<1>1. /\ Registered' /\ SnapshotsFresh' /\ UnstagedNoJournal' /\ BegunIsCurrent'
      /\ HeldIsJournaled' /\ JournaledRunIsRunning' /\ OneStatusEvent'
      /\ LaunchOnce' /\ TaskRunsOnce' /\ RowsOwned'
  BY Frame, RowsFrame DEF Shutdown, storeVars, execVars
<1>2. TypeOK'
  BY InvParts DEF TypeOK, Shutdown, storeVars, execVars
<1>3. LeavesSettled'
  BY InvParts DEF TypeOK, LeavesSettled, StatusIsTerminal, Registered, Shutdown,
     storeVars, execVars
<1>4. StartupCovers'
  BY InvParts DEF TypeOK, StartupCovers, Early, NonTerminal, StatusIsTerminal,
     Registered, Shutdown, storeVars, execVars
<1>5. NoStrandedRun'
  BY InvParts DEF TypeOK, NoStrandedRun, StatusIsTerminal, Registered, Shutdown,
     storeVars, execVars
<1>. QED  BY <1>1, <1>2, <1>3, <1>4, <1>5 DEF IndInv

(* Crash preserves the invariant.                                          *)
LEMMA CrashStep ==
    ASSUME IndInv, Crash
    PROVE  IndInv'
<1>a. \A q \in Requests : pc'[q] \in {"idle", "returned"}
  BY DEF Crash
<1>1. JournaledRunIsRunning' /\ OneStatusEvent' /\ TaskRunsOnce'
  BY InvParts DEF JournaledRunIsRunning, OneStatusEvent, StatusIsTerminal, TaskRunsOnce,
     Crash, storeVars, execVars
<1>2. TypeOK'
  BY SMTT(30), <1>a, CrashesBounded, InvParts DEF TypeOK, Crash, storeVars, execVars
<1>3. RowsOwned'
  BY <1>a, InvParts DEF TypeOK, RowsOwned, RowOf, Crash, storeVars, execVars
<1>4. Registered'
  BY <1>a, InvParts DEF TypeOK, Registered, Executing, Preparing, Launching, Completing,
     Crash, storeVars, execVars
<1>5. SnapshotsFresh'
  BY <1>a, InvParts DEF TypeOK, SnapshotsFresh, Bound, StatusIsTerminal, Executing,
     Preparing, Launching, Completing, Registered, Crash, storeVars, execVars
<1>6. UnstagedNoJournal'
  BY <1>a, InvParts DEF TypeOK, UnstagedNoJournal, Unstaged, Preparing, Launching,
     Executing, Completing, Registered, Crash, storeVars, execVars
<1>7. BegunIsCurrent'
  BY <1>a, InvParts DEF TypeOK, BegunIsCurrent, NonTerminal, StatusIsTerminal,
     Registered, Crash, storeVars, execVars
<1>8. HeldIsJournaled'
  BY <1>a, InvParts DEF TypeOK, HeldIsJournaled, Crash, storeVars, execVars
<1>9. LaunchOnce'
  BY <1>a, InvParts DEF TypeOK, LaunchOnce, NonTerminal, StatusIsTerminal, BeforeTask,
     Preparing, Executing, Launching, Completing, Registered, Crash, storeVars, execVars
<1>10. LeavesSettled'
  BY <1>a, InvParts DEF TypeOK, LeavesSettled, StatusIsTerminal, Registered, Crash,
     storeVars, execVars
<1>11. StartupCovers'
  BY <1>a, InvParts DEF TypeOK, StartupCovers, Early, NonTerminal, StatusIsTerminal,
     Registered, Crash, storeVars, execVars
<1>12. NoStrandedRun'
  BY <1>a, InvParts DEF TypeOK, NoStrandedRun, StatusIsTerminal, Registered, Crash,
     storeVars, execVars
<1>. QED  BY <1>1, <1>2, <1>3, <1>4, <1>5, <1>6, <1>7, <1>8, <1>9, <1>10, <1>11, <1>12
            DEF IndInv

(* SandboxDies preserves the invariant.                                    *)
LEMMA SandboxDiesStep ==
    ASSUME IndInv, NEW q \in Requests, SandboxDies(q)
    PROVE  IndInv'
<1>1. /\ Registered' /\ SnapshotsFresh' /\ UnstagedNoJournal' /\ BegunIsCurrent'
      /\ HeldIsJournaled' /\ JournaledRunIsRunning' /\ OneStatusEvent'
      /\ LaunchOnce' /\ TaskRunsOnce' /\ RowsOwned' /\ LeavesSettled'
      /\ StartupCovers' /\ NoStrandedRun'
  BY Frame, RowsFrame, PhaseFrame DEF SandboxDies, storeVars, execVars
<1>2. TypeOK'
  BY InvParts DEF TypeOK, SandboxDies, Boxes, Live, storeVars, execVars
<1>. QED  BY <1>1, <1>2 DEF IndInv

(* RecoverDeletion preserves the invariant.                                *)
LEMMA RecoverDeletionStep ==
    ASSUME IndInv, NEW q \in Requests, RecoverDeletion(q)
    PROVE  IndInv'
<1>1. /\ Registered' /\ SnapshotsFresh' /\ UnstagedNoJournal' /\ BegunIsCurrent'
      /\ HeldIsJournaled' /\ JournaledRunIsRunning' /\ OneStatusEvent'
      /\ LaunchOnce' /\ TaskRunsOnce' /\ RowsOwned' /\ LeavesSettled'
      /\ StartupCovers' /\ NoStrandedRun'
  BY Frame, RowsFrame, PhaseFrame DEF RecoverDeletion, storeVars, execVars
<1>2. TypeOK'
  BY InvParts DEF TypeOK, RecoverDeletion, Boxes, storeVars, execVars
<1>. QED  BY <1>1, <1>2 DEF IndInv

(* Restart preserves the invariant.                                        *)
LEMMA RestartStep ==
    ASSUME IndInv, Restart
    PROVE  IndInv'
<1>1. /\ Registered' /\ SnapshotsFresh' /\ UnstagedNoJournal' /\ BegunIsCurrent'
      /\ HeldIsJournaled' /\ JournaledRunIsRunning' /\ OneStatusEvent'
      /\ LaunchOnce' /\ TaskRunsOnce' /\ RowsOwned'
  BY Frame, RowsFrame DEF Restart, storeVars, execVars
<1>2. TypeOK'
  BY InvParts DEF TypeOK, Restart, storeVars, execVars
<1>3. LeavesSettled'
  BY InvParts DEF TypeOK, LeavesSettled, StatusIsTerminal, Registered, Restart,
     storeVars, execVars
<1>4. StartupCovers'
  BY InvParts DEF TypeOK, StartupCovers, Early, NonTerminal, StatusIsTerminal,
     Registered, Restart, storeVars, execVars
<1>5. NoStrandedRun'
  BY InvParts DEF TypeOK, NoStrandedRun, StatusIsTerminal, Registered, Restart,
     storeVars, execVars
<1>. QED  BY <1>1, <1>2, <1>3, <1>4, <1>5 DEF IndInv


----------------------------------------------------------------------------
(* The client, and the executors that read and decide.                     *)

(* BeginRun preserves the invariant.                                       *)
LEMMA BeginRunStep ==
    ASSUME IndInv, NEW q \in Requests, BeginRun(q)
    PROVE  IndInv'
<1>a. RunOf[q] \in Runs /\ pc[q] = "idle" /\ daemon = "serving"
  BY DEF BeginRun
<1>d. Inserts(q)
  BY BeginRunInserts
<1>b. UNCHANGED <<journal, statusEvents, box, taskStarts, snap, target,
                  cancelled, active, held, daemon, todo, crashes>>
  BY DEF BeginRun
<1>1. TaskRunsOnce'
  BY InvParts DEF TaskRunsOnce, BeginRun, storeVars, execVars
<1>2. TypeOK'
  BY SMTT(30), <1>d, <1>b, InvParts DEF Inserts, TypeOK
<1>3. RowsOwned'
  BY SMTT(30), <1>a, <1>d, <1>b, Sentinels, InvParts DEF Inserts, TypeOK, RowsOwned,
     RowOf
<1>4. Registered'
  BY SMTT(30), <1>a, <1>d, <1>b, Sentinels, InvParts DEF Inserts, TypeOK, Registered,
     Executing, Preparing, Launching, Completing
<1>5. SnapshotsFresh'
  BY SMTT(30), <1>d, <1>b, InvParts DEF Inserts, TypeOK, SnapshotsFresh, Bound,
     Registered
<1>6. UnstagedNoJournal'
  BY SMTT(30), <1>a, <1>d, <1>b, Sentinels, InvParts DEF Inserts, TypeOK,
     UnstagedNoJournal, Unstaged, Preparing, Launching, Registered
<1>7. BegunIsCurrent'
  <2>1. CASE runs[RunOf[q]] = Absent
    <3>1. /\ active[RunOf[q]] = NoRow /\ journal[RunOf[q]] = NoRow /\ taskStarts[RunOf[q]] = 0
          /\ \A p \in Requests : RunOf[p] = RunOf[q] => pc[p] = "idle"
      BY SMTT(30), <1>a, <2>1, InvParts DEF TypeOK, Registered, LaunchOnce, Executing,
         Preparing, Launching, Completing
    <3>. QED  BY SMTT(30), <1>b, <1>d, <3>1, InvParts DEF TypeOK, Inserts,
       BegunIsCurrent, NonTerminal
  <2>2. CASE runs[RunOf[q]] # Absent
    <3>1. runs[RunOf[q]].status = "pending" =>
             journal[RunOf[q]] = NoRow /\ taskStarts[RunOf[q]] = 0
      BY <1>a, <2>2, InvParts DEF LaunchOnce, JournaledRunIsRunning
    <3>. QED  BY SMTT(30), <1>a, <1>b, <1>d, <2>2, <3>1, InvParts DEF TypeOK, Inserts,
       BegunIsCurrent, NonTerminal, StatusIsTerminal, Registered
  <2>. QED  BY <2>1, <2>2
<1>8. HeldIsJournaled'
  BY <1>a, <1>d, <1>b, Sentinels, InvParts DEF Inserts, TypeOK, HeldIsJournaled,
     JournaledRunIsRunning
<1>9. JournaledRunIsRunning'
  BY <1>a, <1>d, <1>b, Sentinels DEF Inserts, IndInv, TypeOK, JournaledRunIsRunning
<1>10. OneStatusEvent'
  BY SMTT(30), <1>a, <1>d, <1>b, Sentinels, InvParts DEF Inserts, TypeOK,
     OneStatusEvent, StatusIsTerminal
<1>11. LaunchOnce'
  BY SMTT(30), <1>a, <1>d, <1>b, Sentinels, InvParts DEF Inserts, TypeOK, LaunchOnce,
     NonTerminal, StatusIsTerminal, BeforeTask, Preparing, Registered
<1>12. LeavesSettled'
  BY SMTT(30), <1>a, <1>d, <1>b, Sentinels, InvParts DEF Inserts, TypeOK, LeavesSettled,
     StatusIsTerminal, Registered
<1>13. StartupCovers'
  BY <1>a, <1>d, <1>b, Sentinels, InvParts DEF Inserts, TypeOK, StartupCovers, Early,
     NonTerminal, StatusIsTerminal, Registered
<1>14. NoStrandedRun'
  BY SMTT(30), <1>a, <1>d, <1>b, Sentinels, InvParts DEF Inserts, TypeOK, NoStrandedRun,
     StatusIsTerminal, Registered
<1>. QED  BY <1>1, <1>2, <1>3, <1>4, <1>5, <1>6, <1>7, <1>8, <1>9, <1>10, <1>11,
            <1>12, <1>13, <1>14 DEF IndInv

(* Advances preserves the invariant.                                       *)
LEMMA AdvancesStep ==
    ASSUME IndInv, NEW q \in Requests, Advances(q)
    PROVE  IndInv'
<1>a. /\ RunOf[q] \in Runs /\ pc[q] \in Executing /\ active[RunOf[q]] = q
      /\ runs[RunOf[q]] \in Row
  BY SMTT(30), InvParts DEF TypeOK, Registered, Advances, Executing, Preparing,
     Launching, Completing
<1>b. PICK p : /\ pc' = [pc EXCEPT ![q] = p]
               /\ \/ pc[q] = "prepare" /\ p = "create"
                  \/ pc[q] = "create" /\ p = "bindRead"
                  \/ pc[q] = "start" /\ p = "mark"
                  \/ pc[q] = "follow" /\ p = "interrupt"
                  \/ /\ pc[q] \in {"prepare", "create", "bindRead", "bindWrite",
                                   "start", "mark", "task", "follow"}
                     /\ p = "complete"
  BY DEF Advances, Moves
<1>c. UNCHANGED <<runs, journal, statusEvents, taskStarts, cancelled, active, held,
                  daemon, todo, crashes>>
  BY DEF Advances, Moves
<1>d. \/ snap' = snap
      \/ pc[q] \in {"bindRead", "bindWrite"} /\ snap' = [snap EXCEPT ![q] = NoRow]
  BY DEF Advances
<1>1. HeldIsJournaled' /\ JournaledRunIsRunning' /\ OneStatusEvent' /\ TaskRunsOnce'
  BY InvParts DEF HeldIsJournaled, JournaledRunIsRunning, OneStatusEvent,
     StatusIsTerminal, TaskRunsOnce, Advances, Moves
<1>2. TypeOK'
  BY SMTT(30), InvParts DEF TypeOK, Advances, Moves, Executing, Preparing, Launching,
     Completing, Boxes, Live
<1>3. RowsOwned'
  BY SMTT(30), <1>c, <1>d, InvParts DEF TypeOK, RowsOwned
<1>4. Registered'
  BY SMTT(30), <1>b, <1>c, InvParts DEF Registered, Executing, Preparing, Launching,
     Completing
<1>5. SnapshotsFresh'
  BY SMTT(30), <1>a, <1>b, <1>c, <1>d, Sentinels, InvParts DEF TypeOK, SnapshotsFresh,
     Bound, StatusIsTerminal, Executing, Preparing, Launching, Completing, Registered
<1>6. UnstagedNoJournal'
  BY <1>a, <1>b, <1>c, <1>d, InvParts DEF TypeOK, UnstagedNoJournal, Unstaged,
     Preparing, Launching
<1>7. BegunIsCurrent'
  BY SMTT(30), <1>a, <1>b, <1>c, <1>d, InvParts DEF TypeOK, BegunIsCurrent, NonTerminal,
     StatusIsTerminal, Registered
<1>8. LaunchOnce'
  BY SMTT(30), <1>b, <1>c, InvParts DEF LaunchOnce, NonTerminal, BeforeTask, Preparing
<1>9. LeavesSettled'
  BY SMTT(30), <1>b, <1>c, InvParts DEF LeavesSettled
<1>10. StartupCovers'
  <2>1. daemon \notin Early
    BY <1>a, InvParts DEF StartupCovers, Executing, Preparing, Launching, Completing
  <2>2. daemon = "reconcileRunning" => p \in {"interrupt", "complete"}
    BY <1>a, <1>b, InvParts DEF StartupCovers
  <2>. QED  BY SMTT(30), <1>a, <1>b, <1>c, <2>1, <2>2, InvParts DEF TypeOK,
     StartupCovers, NonTerminal, StatusIsTerminal
<1>11. NoStrandedRun'
  BY <1>a, <1>b, <1>c, <1>d, InvParts DEF TypeOK, NoStrandedRun, StatusIsTerminal,
     Registered
<1>. QED  BY <1>1, <1>2, <1>3, <1>4, <1>5, <1>6, <1>7, <1>8, <1>9, <1>10, <1>11 DEF
            IndInv

(* Reads preserves the invariant.                                          *)
LEMMA ReadsStep ==
    ASSUME IndInv, NEW q \in Requests, Reads(q)
    PROVE  IndInv'
<1>a. /\ RunOf[q] \in Runs /\ pc[q] \in Executing /\ active[RunOf[q]] = q
      /\ runs[RunOf[q]] \in Row
  BY SMTT(30), InvParts DEF TypeOK, Registered, Reads, Executing, Preparing, Launching,
     Completing
<1>b. PICK p : /\ pc' = [pc EXCEPT ![q] = p]
               /\ \/ pc[q] = "bindRead" /\ p = "bindWrite"
                  \/ pc[q] = "mark" /\ p = "markWrite"
                  \/ pc[q] = "launch" /\ p = "detachWrite"
                  \/ pc[q] = "complete" /\ p = "stage"
  BY DEF Reads, Moves
<1>c. UNCHANGED <<runs, journal, statusEvents, taskStarts, cancelled, active, held,
                  daemon, todo, crashes>>
  BY DEF Reads, Moves
<1>d. /\ ~StatusIsTerminal(runs[RunOf[q]])
      /\ snap' = [snap EXCEPT ![q] = runs[RunOf[q]]]
  BY DEF Reads
<1>1. HeldIsJournaled' /\ JournaledRunIsRunning' /\ OneStatusEvent' /\ TaskRunsOnce'
  BY InvParts DEF HeldIsJournaled, JournaledRunIsRunning, OneStatusEvent,
     StatusIsTerminal, TaskRunsOnce, Reads, Moves
<1>2. TypeOK'
  BY SMTT(30), <1>a, InvParts DEF TypeOK, Reads, Moves, Executing, Preparing, Launching,
     Completing, Boxes, Live
<1>3. RowsOwned'
  BY SMTT(30), <1>a, <1>b, <1>c, <1>d, Sentinels, InvParts DEF RowsOwned
<1>4. Registered'
  BY SMTT(30), <1>b, <1>c, InvParts DEF Registered, Executing, Preparing, Launching,
     Completing
<1>5. SnapshotsFresh'
  BY SMTT(30), <1>b, <1>c, <1>d, InvParts DEF TypeOK, SnapshotsFresh, StatusIsTerminal,
     Registered
<1>6. UnstagedNoJournal'
  BY SMTT(30), <1>a, <1>b, <1>c, <1>d, InvParts DEF TypeOK, UnstagedNoJournal, Unstaged,
     Preparing, Launching, Registered
<1>7. BegunIsCurrent'
  BY SMTT(30), <1>a, <1>b, <1>c, <1>d, InvParts DEF TypeOK, BegunIsCurrent, NonTerminal,
     Registered
<1>8. LaunchOnce'
  BY <1>a, <1>b, <1>c, <1>d, InvParts DEF TypeOK, LaunchOnce, NonTerminal,
     StatusIsTerminal, BeforeTask, Preparing
<1>9. LeavesSettled'
  BY <1>a, <1>b, <1>c, <1>d, InvParts DEF TypeOK, LeavesSettled, StatusIsTerminal
<1>10. StartupCovers'
  BY SMTT(30), <1>a, <1>b, <1>c, <1>d, InvParts DEF TypeOK, StartupCovers, Early,
     NonTerminal, StatusIsTerminal, Registered
<1>11. NoStrandedRun'
  BY <1>a, <1>b, <1>c, <1>d, InvParts DEF TypeOK, NoStrandedRun, StatusIsTerminal,
     Registered
<1>. QED  BY <1>1, <1>2, <1>3, <1>4, <1>5, <1>6, <1>7, <1>8, <1>9, <1>10,
             <1>11 DEF IndInv

(* Leaves preserves the invariant.                                         *)
LEMMA LeavesStep ==
    ASSUME IndInv, NEW q \in Requests, Leaves(q)
    PROVE  IndInv'
<1>a. /\ RunOf[q] \in Runs /\ pc[q] \in Executing /\ active[RunOf[q]] = q
      /\ runs[RunOf[q]] \in Row
  BY SMTT(30), InvParts DEF TypeOK, Registered, Leaves, Executing, Preparing, Launching,
     Completing
<1>b. pc' = [pc EXCEPT ![q] = "leave"]
  BY DEF Leaves, Moves
<1>c. UNCHANGED <<runs, journal, statusEvents, taskStarts, cancelled, active, held,
                  daemon, todo, crashes>>
  BY DEF Leaves, Moves
<1>d. /\ snap' \in {snap, [snap EXCEPT ![q] = NoRow]}
      /\ \/ StatusIsTerminal(runs[RunOf[q]]) /\ journal[RunOf[q]] = NoRow
         \/ /\ daemon = "stopping" \/ journal[RunOf[q]] # NoRow
            /\ StartersRegistered(RunOf[q])
  BY DEF Leaves
<1>1. HeldIsJournaled' /\ JournaledRunIsRunning' /\ OneStatusEvent' /\ TaskRunsOnce'
  BY InvParts DEF HeldIsJournaled, JournaledRunIsRunning, OneStatusEvent,
     StatusIsTerminal, TaskRunsOnce, Leaves, Moves
<1>2. TypeOK'
  BY SMTT(30), <1>a, Sentinels, InvParts DEF TypeOK, Leaves, Moves, Executing,
     Preparing, Launching, Completing, Boxes, Live
<1>3. RowsOwned'
  <2>1. \A p \in Requests : snap'[p] # NoRow => snap'[p] = snap[p]
    BY <1>d, InvParts DEF TypeOK
  <2>2. RowsOwned
    BY InvParts
  <2>. QED  BY SMTT(30), <1>c, <2>1, <2>2 DEF RowsOwned, RowOf
<1>4. Registered'
  BY SMTT(30), <1>a, <1>b, <1>c, InvParts DEF Registered, Executing, Completing
<1>5. SnapshotsFresh'
  BY SMTT(30), <1>b, <1>c, <1>d, InvParts DEF TypeOK, SnapshotsFresh, Bound
<1>6. UnstagedNoJournal'
  BY SMTT(30), <1>b, <1>c, InvParts DEF UnstagedNoJournal, Unstaged, Preparing,
     Launching
<1>7. BegunIsCurrent'
  BY SMTT(30), <1>b, <1>c, <1>d, InvParts DEF StartersRegistered, BegunIsCurrent,
     NonTerminal, Registered
<1>8. LaunchOnce'
  BY SMTT(30), <1>b, <1>c, InvParts DEF LaunchOnce, NonTerminal, BeforeTask, Preparing
<1>9. LeavesSettled'
  BY SMTT(30), <1>a, <1>b, <1>c, <1>d, InvParts DEF TypeOK, StartersRegistered,
     LeavesSettled, StatusIsTerminal, Registered
<1>10. StartupCovers'
  <2>1. daemon \notin Early
    BY <1>a, InvParts DEF StartupCovers, Executing, Preparing, Launching, Completing
  <2>. QED  BY <1>a, <1>b, <1>c, <1>d, <2>1, InvParts DEF TypeOK, StartupCovers,
     NonTerminal, StatusIsTerminal
<1>11. NoStrandedRun'
  BY SMTT(30), <1>a, <1>b, <1>c, <1>d, InvParts DEF TypeOK, StartersRegistered,
     NoStrandedRun, StatusIsTerminal, Registered
<1>. QED  BY <1>1, <1>2, <1>3, <1>4, <1>5, <1>6, <1>7, <1>8, <1>9, <1>10,
             <1>11 DEF IndInv

----------------------------------------------------------------------------
(* Which executor steps read, decide, write back and stage; the ones that  *)
(* write preserve the invariant.                                           *)

(* prepareProjectRun moves its executor only.                              *)
LEMMA prepareProjectRunMoves ==
    ASSUME IndInv, NEW q \in Requests, prepareProjectRun(q)
    PROVE  Advances(q)
BY DEF prepareProjectRun, Advances, FailWith, ErrorStatus, storeVars, Moves, Terminal

(* CreateSandbox moves its executor only.                                  *)
LEMMA CreateSandboxMoves ==
    ASSUME IndInv, NEW q \in Requests, CreateSandbox(q)
    PROVE  Advances(q)
BY DEF CreateSandbox, Advances, FailWith, ErrorStatus, storeVars, Moves, Terminal

(* BindSandboxRead moves its executor only.                                *)
LEMMA BindSandboxReadMoves ==
    ASSUME IndInv, NEW q \in Requests, BindSandboxRead(q)
    PROVE  Advances(q) \/ Reads(q)
BY DEF BindSandboxRead, BindRefused, Advances, Reads, FailWith, ErrorStatus,
   storeVars, Moves, Terminal

(* startProjectRunSandbox moves its executor only.                         *)
LEMMA startProjectRunSandboxMoves ==
    ASSUME IndInv, NEW q \in Requests, startProjectRunSandbox(q)
    PROVE  Advances(q)
BY DEF startProjectRunSandbox, Advances, FailWith, ErrorStatus, storeVars, Moves,
   Terminal

(* MarkRunningRead moves its executor only.                                *)
LEMMA MarkRunningReadMoves ==
    ASSUME IndInv, NEW q \in Requests, MarkRunningRead(q)
    PROVE  Advances(q) \/ Reads(q)
<1>1. ~StatusIsTerminal(runs[RunOf[q]])
  BY InvParts DEF SnapshotsFresh, Bound, MarkRunningRead
<1>. QED  BY <1>1 DEF MarkRunningRead, Advances, Reads, FailWith, ErrorStatus,
            storeVars, Moves, Terminal

(* TaskEnds moves its executor only.                                       *)
LEMMA TaskEndsMoves ==
    ASSUME IndInv, NEW q \in Requests, TaskEnds(q)
    PROVE  Advances(q)
BY DEF TaskEnds, Advances, FailWith, ErrorStatus, storeVars, Moves, Terminal

(* Disconnect moves its executor only.                                     *)
LEMMA DisconnectMoves ==
    ASSUME IndInv, NEW q \in Requests, Disconnect(q)
    PROVE  Leaves(q)
BY DEF Disconnect, Leaves, storeVars, Executing, Preparing, Launching, Completing,
   Moves, Terminal

(* ReattachFails moves its executor only.                                  *)
LEMMA ReattachFailsMoves ==
    ASSUME IndInv, NEW q \in Requests, ReattachFails(q)
    PROVE  Advances(q)
BY DEF ReattachFails, Advances, FailWith, ErrorStatus, storeVars, Moves, Terminal

(* CompleteRead moves its executor only.                                   *)
LEMMA CompleteReadMoves ==
    ASSUME IndInv, NEW q \in Requests, CompleteRead(q)
    PROVE  Reads(q) \/ Leaves(q)
<1>1. journal[RunOf[q]] = NoRow
  BY InvParts DEF UnstagedNoJournal, Unstaged, CompleteRead
<1>. QED  BY <1>1, Zenon DEF CompleteRead, Reads, Leaves, storeVars, Executing,
             Preparing, Launching, Completing, Moves, Terminal

(* CompleteReturns moves its executor only.                                *)
LEMMA CompleteReturnsMoves ==
    ASSUME IndInv, NEW q \in Requests, CompleteReturns(q)
    PROVE  Leaves(q)
<1>1. journal[RunOf[q]] = NoRow => StatusIsTerminal(runs[RunOf[q]])
  BY InvParts DEF LeavesSettled, CompleteReturns
<1>. QED  BY <1>1 DEF CompleteReturns, Leaves, storeVars, Executing, Preparing,
            Launching, Completing, Moves, Terminal

(* Writes preserves the invariant.                                         *)
LEMMA WritesStep ==
    ASSUME IndInv, NEW q \in Requests, Writes(q)
    PROVE  IndInv'
<1>a. Untouched(q)
  BY UnstagedUntouched DEF Writes
<1>b. PICK row \in Row :
        /\ row.status \in {"pending", "running"} /\ row.sandbox \in Requests
        /\ pc[q] # "bindWrite" => row.status = "running"
        /\ runs' = [runs EXCEPT ![RunOf[q]] = row] /\ RowOf(RunOf[q], row)
  BY DEF Writes, Rewrites, RowOf
<1>c. \A x \in Requests : RunOf[x] = RunOf[q] /\ x # q => pc[x] \notin Executing
  BY <1>a, InvParts DEF Registered, Untouched
<1>d. \E p \in {"start", "launch", "task"} :
        /\ pc' = [pc EXCEPT ![q] = p]
        /\ p # "start" => pc[q] # "bindWrite"
  BY DEF Writes
<1>e. /\ snap' = [snap EXCEPT ![q] = NoRow]
      /\ UNCHANGED <<journal, statusEvents, box, target, cancelled, active, held,
                     daemon, todo, crashes>>
  BY DEF Writes
<1>1. TypeOK'
  BY SMTT(30), InvParts DEF TypeOK, Writes, Rewrites, Executing, Preparing, Launching
<1>2. RowsOwned'
  <2>1. /\ \A r \in Runs : runs'[r] = IF r = RunOf[q] THEN row ELSE runs[r]
        /\ \A x \in Requests : snap'[x] = IF x = q THEN NoRow ELSE snap[x]
    BY <1>b, <1>e, InvParts DEF TypeOK
  <2>. QED  BY SMTT(30), <1>b, <1>e, <2>1, InvParts DEF RowsOwned
<1>3. Registered'
  BY SMTT(30), <1>a, Sentinels, InvParts DEF TypeOK, Registered, Executing, Preparing,
     Launching, Completing, Writes, Rewrites, Untouched
<1>4. SnapshotsFresh'
  <2>1. row.status \notin Terminal /\ row.sandbox # NoRow
    BY <1>b, Sentinels
  <2>. QED  BY SMTT(30), <1>a, <1>b, <1>c, <1>d, <2>1, InvParts DEF TypeOK,
     SnapshotsFresh, Bound, StatusIsTerminal, Writes, Untouched, Executing, Preparing,
     Launching, Completing
<1>5. UnstagedNoJournal'
  BY SMTT(30), InvParts DEF TypeOK, UnstagedNoJournal, Unstaged, Preparing, Launching,
     Writes
<1>6. BegunIsCurrent'
  <2>1. taskStarts' \in {taskStarts, [taskStarts EXCEPT ![RunOf[q]] = @ + 1]}
    BY DEF Writes
  <2>2. UNCHANGED <<journal, active>>
    BY DEF Writes
  <2>. QED  BY SMTT(30), <1>a, <1>b, <1>c, <1>d, <2>1, <2>2, InvParts DEF TypeOK,
     BegunIsCurrent, NonTerminal, StatusIsTerminal, Registered, Untouched, Executing
<1>7. HeldIsJournaled'
  BY <1>a, <1>b, <1>e, Sentinels, InvParts DEF TypeOK, HeldIsJournaled, Untouched
<1>8. JournaledRunIsRunning'
  BY <1>a, <1>b, <1>e, Sentinels, InvParts DEF TypeOK, JournaledRunIsRunning, Untouched
<1>9. OneStatusEvent'
  BY <1>a, <1>b, <1>e, Sentinels, InvParts DEF TypeOK, OneStatusEvent, StatusIsTerminal,
     Untouched
<1>10. LaunchOnce'
  <2>1. \/ taskStarts' = taskStarts
        \/ /\ pc' = [pc EXCEPT ![q] = "task"] /\ pc[q] # "bindWrite"
           /\ taskStarts' = [taskStarts EXCEPT ![RunOf[q]] = @ + 1]
    BY DEF Writes
  <2>2. journal' = journal /\ pc[q] \in BeforeTask
    BY DEF Writes, BeforeTask, Preparing
  <2>. QED  BY SMTT(30), <1>a, <1>b, <1>c, <1>d, <2>1, <2>2, InvParts DEF TypeOK,
     LaunchOnce, NonTerminal, StatusIsTerminal, BeforeTask, Preparing, Executing,
     Launching, Untouched
<1>11. TaskRunsOnce'
  BY SMTT(30), <1>a, TablesTyped, InvParts DEF TaskRunsOnce, Writes, Untouched
<1>12. LeavesSettled'
  BY SMTT(30), <1>a, <1>b, <1>d, <1>e, InvParts DEF LeavesSettled, Untouched
<1>13. StartupCovers'
  BY <1>a, Sentinels, InvParts DEF TypeOK, StartupCovers, Early, NonTerminal,
     StatusIsTerminal, Writes, Rewrites, Untouched, Executing, Preparing, Launching,
     Completing, Registered
<1>14. NoStrandedRun'
  BY SMTT(30), <1>a, Sentinels, InvParts DEF TypeOK, NoStrandedRun, StatusIsTerminal,
     Writes, Rewrites, Untouched, Registered
<1>. QED  BY <1>1, <1>2, <1>3, <1>4, <1>5, <1>6, <1>7, <1>8, <1>9, <1>10, <1>11,
            <1>12, <1>13, <1>14 DEF IndInv

(* BindSandboxWrite writes back an undisturbed row.                        *)
LEMMA BindSandboxWriteWrites ==
    ASSUME IndInv, NEW q \in Requests, BindSandboxWrite(q)
    PROVE  Advances(q) \/ Writes(q)
<1>. DEFINE row == ProjectRun(snap[q].status, q, q \notin Reusing, snap[q].policy,
                              snap[q].cleanupError, snap[q].detach)
<1>1. /\ snap[q] \in Row /\ snap[q].status \in {"pending", "running"}
      /\ snap[q].detach => snap[q].status # "pending"
  BY InvParts DEF TypeOK, SnapshotsFresh, RowsOwned, RowOf, Row, Terminal, Statuses,
     BindSandboxWrite
<1>2. /\ row \in Row /\ row.status = snap[q].status /\ row.sandbox = q
      /\ row.detach = snap[q].detach
  BY <1>1 DEF ProjectRun, Row, Statuses
<1>3. CASE PrepCancelled(q)
  BY <1>3 DEF BindSandboxWrite, BindRefused, FailWith, ErrorStatus, Terminal,
     Advances, Moves
<1>4. CASE ~PrepCancelled(q)
  <2>1. Rewrites(q, snap[q].status, q)
    BY <1>1, <1>2, <1>4 DEF BindSandboxWrite, Rewrites
  <2>. QED  BY <1>1, <1>4, <2>1 DEF BindSandboxWrite, Writes
<1>. QED  BY <1>3, <1>4

(* MarkRunningWrite writes back an undisturbed row.                        *)
LEMMA MarkRunningWriteWrites ==
    ASSUME IndInv, NEW q \in Requests, MarkRunningWrite(q)
    PROVE  Writes(q)
<1>. DEFINE row == ProjectRun("running", q, snap[q].created, snap[q].policy, snap[q].cleanupError,
                              runs[RunOf[q]].detach)
<1>1. snap[q] \in Row /\ runs[RunOf[q]] \in Row
  BY SMTT(30), InvParts DEF TypeOK, SnapshotsFresh, Registered, MarkRunningWrite
<1>2. row \in Row /\ row.status = "running" /\ row.sandbox = q
  BY <1>1 DEF ProjectRun, Row, Statuses
<1>3. Rewrites(q, "running", q)
  BY <1>2, Zenon DEF MarkRunningWrite, Rewrites
<1>. QED  BY <1>3 DEF MarkRunningWrite, Writes

(* persistDetachedRunFields writes back an undisturbed row.                *)
LEMMA persistDetachedRunFieldsWrites ==
    ASSUME IndInv, NEW q \in Requests, persistDetachedRunFields(q)
    PROVE  Writes(q)
<1>. DEFINE row == ProjectRun(snap[q].status, snap[q].sandbox, snap[q].created, snap[q].policy,
                              snap[q].cleanupError, TRUE)
<1>1. /\ snap[q] \in Row /\ snap[q].status = "running" /\ snap[q].sandbox \in Requests
      /\ RunOf[snap[q].sandbox] = RunOf[q]
  BY SMTT(30), InvParts DEF TypeOK, SnapshotsFresh, RowsOwned, RowOf, Row, Statuses,
     Terminal, persistDetachedRunFields
<1>2. row \in Row /\ row.status = "running" /\ row.sandbox = snap[q].sandbox
  BY <1>1 DEF ProjectRun, Row, Statuses
<1>3. Rewrites(q, "running", snap[q].sandbox)
  BY <1>2, Zenon DEF persistDetachedRunFields, Rewrites
<1>. QED  BY <1>1, <1>3 DEF persistDetachedRunFields, Writes

(* LaunchTask preserves the invariant.                                     *)
LEMMA LaunchTaskStep ==
    ASSUME IndInv, NEW q \in Requests, LaunchTask(q)
    PROVE  IndInv'
<1>a. Untouched(q) /\ pc[q] = "launch"
  BY UnstagedUntouched DEF LaunchTask
<1>1. HeldIsJournaled' /\ JournaledRunIsRunning' /\ OneStatusEvent'
  BY InvParts DEF HeldIsJournaled, JournaledRunIsRunning, OneStatusEvent,
     StatusIsTerminal, LaunchTask, storeVars, execVars
<1>2. TypeOK'
  BY SMTT(30), <1>a, InvParts DEF Untouched, TypeOK, Executing, Launching, LaunchTask,
     storeVars
<1>3. RowsOwned'
  BY SMTT(30), <1>a, InvParts DEF Untouched, TypeOK, RowsOwned, LaunchTask, storeVars
<1>4. Registered'
  BY SMTT(30), <1>a, Sentinels, InvParts DEF Untouched, TypeOK, Registered, Executing,
     Preparing, Launching, Completing, LaunchTask, storeVars, execVars
<1>5. SnapshotsFresh'
  BY SMTT(30), <1>a, Sentinels, InvParts DEF Untouched, TypeOK, SnapshotsFresh, Bound,
     StatusIsTerminal, Executing, Preparing, Launching, Completing, Registered,
     LaunchTask, storeVars, execVars
<1>6. UnstagedNoJournal'
  BY SMTT(30), InvParts DEF TypeOK, UnstagedNoJournal, Unstaged, Launching, LaunchTask,
     storeVars
<1>7. BegunIsCurrent'
  BY SMTT(30), InvParts DEF TypeOK, BegunIsCurrent, NonTerminal, Registered, LaunchTask,
     storeVars
<1>8. LaunchOnce'
  BY SMTT(30), <1>a, InvParts DEF TypeOK, LaunchOnce, NonTerminal, StatusIsTerminal,
     BeforeTask, Preparing, SnapshotsFresh, Registered, LaunchTask, storeVars, execVars
<1>9. TaskRunsOnce'
  BY SMTT(30), <1>a, Sentinels, InvParts DEF Untouched, TypeOK, TaskRunsOnce,
     LaunchTask, storeVars, execVars
<1>10. LeavesSettled'
  BY SMTT(30), <1>a, Sentinels, InvParts DEF Untouched, TypeOK, LeavesSettled,
     StatusIsTerminal, Registered, LaunchTask, storeVars, execVars
<1>11. StartupCovers'
  <2>1. daemon \in {"serving", "stopping", "listPending", "down"} /\ daemon \notin Early
    BY <1>a, InvParts DEF TypeOK, StartupCovers, Early
  <2>. QED  BY <1>a, <2>1, InvParts DEF StartupCovers, NonTerminal, LaunchTask,
     storeVars, Early
<1>12. NoStrandedRun'
  BY SMTT(30), <1>a, Sentinels, InvParts DEF Untouched, TypeOK, NoStrandedRun,
     StatusIsTerminal, Registered, LaunchTask, storeVars, execVars
<1>. QED  BY <1>1, <1>2, <1>3, <1>4, <1>5, <1>6, <1>7, <1>8, <1>9, <1>10, <1>11, <1>12
            DEF IndInv

(* Staging keeps the stored rows with their runs.                          *)
LEMMA StagesOwned ==
    ASSUME IndInv, NEW r \in Runs, Stages(r), runs[r] \in Row
    PROVE  /\ \A s \in Runs : runs'[s] # Absent => RowOf(s, runs'[s])
           /\ \A s \in Runs : journal'[s] # NoRow /\ journal'[s].sandbox # NoRow
                => RunOf[journal'[s].sandbox] = s
<1>1. CASE UNCHANGED <<runs, journal>>
  BY <1>1, InvParts DEF RowsOwned
<1>2. CASE ~UNCHANGED <<runs, journal>>
  <2>1. PICK c \in Completion : /\ c.sandbox # NoRow => RunOf[c.sandbox] = r
                                /\ journal' = [journal EXCEPT ![r] = c]
    BY <1>2 DEF Stages
  <2>2. PICK row \in Row : /\ row.status = "running" /\ row.sandbox = runs[r].sandbox
                           /\ row.detach = runs[r].detach
                           /\ runs' = [runs EXCEPT ![r] = row]
    BY <1>2 DEF Stages
  <2>3. RowOf(r, runs[r])
    BY InvParts, Sentinels DEF RowsOwned
  <2>4. RowOf(r, row)
    BY <2>2, <2>3 DEF RowOf
  <2>5. /\ runs'[r] = row /\ journal'[r] = c
        /\ \A s \in Runs : s # r => runs'[s] = runs[s] /\ journal'[s] = journal[s]
    BY <2>1, <2>2, TablesTyped
  <2>. QED  BY <2>1, <2>4, <2>5, InvParts DEF RowsOwned
<1>. QED  BY <1>1, <1>2

(* Staging by an executor preserves the invariant.                         *)
LEMMA ExecutorStagesStep ==
    ASSUME IndInv, NEW q \in Requests, ExecutorStages(q)
    PROVE  IndInv'
<1>a. /\ RunOf[q] \in Runs /\ active[RunOf[q]] = q /\ journal[RunOf[q]] = NoRow
      /\ runs[RunOf[q]] \in Row /\ held[RunOf[q]] = NoRow
  <2>1. pc[q] \in Executing /\ pc[q] \in Unstaged /\ pc[q] # "idle"
    BY DEF ExecutorStages, Executing, Completing, Unstaged
  <2>. QED  BY SMTT(30), <2>1, InvParts DEF TypeOK, UnstagedNoJournal, Registered,
     HeldIsJournaled
<1>1. TaskRunsOnce'
  BY InvParts DEF TaskRunsOnce, ExecutorStages
<1>2. TypeOK'
  BY SMTT(30), InvParts DEF TypeOK, ExecutorStages, Stages, Executing, Completing
<1>3. RowsOwned'
  <2>1. \A x \in Requests : snap'[x] # NoRow => snap'[x] = snap[x]
    BY InvParts DEF TypeOK, ExecutorStages
  <2>2. held' = held /\ todo' = todo /\ Stages(RunOf[q])
    BY DEF ExecutorStages
  <2>. QED  BY <1>a, <2>1, <2>2, StagesOwned, InvParts DEF RowsOwned
<1>4. Registered'
  BY SMTT(30), <1>a, Sentinels, InvParts DEF TypeOK, Registered, Executing, Preparing,
     Launching, Completing, ExecutorStages, Stages
<1>5. SnapshotsFresh'
  BY SMTT(30), InvParts DEF TypeOK, SnapshotsFresh, Bound, ExecutorStages, Stages,
     Registered
<1>6. UnstagedNoJournal'
  BY SMTT(30), InvParts DEF TypeOK, UnstagedNoJournal, Unstaged, Preparing, Launching,
     ExecutorStages, Stages, Registered
<1>7. BegunIsCurrent'
  BY SMTT(30), Sentinels, InvParts DEF TypeOK, BegunIsCurrent, NonTerminal,
     ExecutorStages, Stages, Registered
<1>8. HeldIsJournaled'
  BY SMTT(30), <1>a, Sentinels, InvParts DEF TypeOK, HeldIsJournaled, ExecutorStages,
     Stages
<1>9. JournaledRunIsRunning'
  BY SMTT(30), <1>a, Sentinels, InvParts DEF TypeOK, JournaledRunIsRunning,
     ExecutorStages, Stages
<1>10. OneStatusEvent'
  BY SMTT(30), Sentinels, TablesTyped, InvParts DEF OneStatusEvent, StatusIsTerminal,
     ExecutorStages, Stages
<1>11. LaunchOnce'
  BY SMTT(30), InvParts DEF TypeOK, LaunchOnce, NonTerminal, BeforeTask, Preparing,
     ExecutorStages, Stages
<1>12. LeavesSettled'
  BY SMTT(30), InvParts DEF TypeOK, LeavesSettled, ExecutorStages, Stages
<1>13. StartupCovers'
  BY SMTT(30), <1>a, InvParts DEF TypeOK, StartupCovers, NonTerminal, StatusIsTerminal,
     ExecutorStages, Stages
<1>14. NoStrandedRun'
  BY SMTT(30), <1>a, Sentinels, InvParts DEF TypeOK, NoStrandedRun, StatusIsTerminal,
     ExecutorStages, Stages, Registered
<1>. QED  BY <1>1, <1>2, <1>3, <1>4, <1>5, <1>6, <1>7, <1>8, <1>9, <1>10,
             <1>11, <1>12, <1>13, <1>14 DEF IndInv

----------------------------------------------------------------------------
(* What becomes of the sandboxes of a run                                  *)
(*                                                                         *)
(* Who has created, bound and cleaned up which sandbox (ExecutorOK, RunOK),*)
(* and that nobody binds a second one to a run (BegunOK, PendingOK).       *)

Fresh == {"idle", "begun", "prepare", "create"}
Unbound == {"prepare", "create", "bindRead", "bindWrite"}
Working == {"start", "mark", "markWrite", "launch", "detachWrite", "task", "follow"}

(* The sandbox of a run was cleaned up as its row asks.                    *)
Cleaned(r) ==
    /\ CompletionCleanupAction(runs[r]) = "remove" => box[runs[r].sandbox] = "removed"
    /\ CompletionCleanupAction(runs[r]) = "stop" => box[runs[r].sandbox] = "stopped"

(* The sandbox bound to a run exists, and only a cleanup that is to remove *)
(* it takes it away.                                                       *)
BoundOK(r) ==
    /\ box[runs[r].sandbox] # "absent"
    /\ CompletionCleanupAction(runs[r]) # "remove" => box[runs[r].sandbox] \in Live

(* A remembered row still says which sandbox is to be cleaned up and how.  *)
SameSandbox(row, r) ==
    /\ row.sandbox = runs[r].sandbox
    /\ row.policy = runs[r].policy /\ row.created = runs[r].created

(* The sandbox of a request: at hand on the way to the bind, bound to the  *)
(* run while its executor works. One the request created is otherwise no   *)
(* longer live, unless the daemon died.                                    *)
ExecutorOK(q) ==
    /\ pc[q] \in Fresh => box[q] = "absent"
    /\ pc[q] \in {"bindRead", "bindWrite"} => box[q] \in Live
    /\ ~StatusIsTerminal(runs[RunOf[q]]) =>
         /\ pc[q] \in Unbound => runs[RunOf[q]].sandbox = NoRow
         /\ pc[q] \in Working => runs[RunOf[q]].sandbox = q
         /\ pc[q] \in {"complete", "stage"} => runs[RunOf[q]].sandbox \in {q, NoRow}
         /\ pc[q] \in {"markWrite", "detachWrite", "follow", "interrupt", "stage"} =>
              SameSandbox(snap[q], RunOf[q])
    /\ crashes = 0 /\ q \notin Reusing /\ box[q] \in Live =>
         pc[q] \in {"bindRead", "bindWrite"} \/ runs[RunOf[q]].sandbox = q

(* What is staged is what the policy of the run asks for.                  *)
StagedOK(r) ==
    runs[r].sandbox # NoRow =>
        /\ journal[r].action = CompletionCleanupAction(runs[r])
        /\ journal[r].sandbox \in {runs[r].sandbox, NoRow}

(* What the holder of the run lock works with, and has done to the sandbox *)
(* when it goes on to finalize.                                            *)
HolderOK(r) ==
    /\ SameSandbox(held[r].row, r)
    /\ held[r].completion.sandbox = journal[r].sandbox
    /\ held[r].completion.action = journal[r].action
    /\ held[r].step = "finalize" => Cleaned(r)

RunOK(r) ==
    runs[r] # Absent =>
        /\ runs[r].sandbox # NoRow /\ ~StatusIsTerminal(runs[r]) => BoundOK(r)
        /\ journal[r] # NoRow => StagedOK(r)
        /\ held[r] # NoRow => HolderOK(r)
        /\ todo[r] # NoRow /\ ~StatusIsTerminal(runs[r]) => SameSandbox(todo[r], r)

(* A StartRun that may still register finds a run without a sandbox...     *)
BegunOK(q) ==
    /\ pc[q] = "begun" /\ ~StatusIsTerminal(runs[RunOf[q]])
    /\ active[RunOf[q]] = NoRow \/ pc[active[RunOf[q]]] = "leave"
    => runs[RunOf[q]].sandbox = NoRow

(* ...because a pending run has one only while its executor is at work.    *)
PendingOK(r) ==
    daemon \notin Early /\ runs[r] # Absent /\ runs[r].status = "pending"
        /\ runs[r].sandbox # NoRow
    => active[r] # NoRow /\ pc[active[r]] \in Unstaged

CleanInv ==
    /\ \A q \in Requests : ExecutorOK(q) /\ BegunOK(q)
    /\ \A r \in Runs : RunOK(r) /\ PendingOK(r)

----------------------------------------------------------------------------
(* What a step leaves alone                                                *)

(* A sandbox changes only when its removal is resumed, when it dies, or    *)
(* while no staged result depends on it.                                   *)
BoxFits(b) ==
    \/ box'[b] = box[b]
    \/ box[b] = "deleting" /\ box'[b] \in {"removed", "kept"}
    \/ box[b] = "running" /\ box'[b] = "stopped"
    \/ /\ journal[RunOf[b]] = NoRow
       /\ runs[RunOf[b]].sandbox = b /\ ~StatusIsTerminal(runs[RunOf[b]]) =>
             box'[b] \in Live

(* The second invariant, part by part.                                     *)
LEMMA CleanParts ==
    ASSUME CleanInv
    PROVE  /\ \A q \in Requests : ExecutorOK(q) /\ BegunOK(q)
           /\ \A r \in Runs : RunOK(r) /\ PendingOK(r)
BY DEF CleanInv

(* A request whose state and run are unchanged stays in order.             *)
LEMMA ExecutorKept ==
    ASSUME NEW p \in Requests, ExecutorOK(p), crashes' = crashes,
           pc'[p] = pc[p], snap'[p] = snap[p], box'[p] = box[p],
           runs'[RunOf[p]] = runs[RunOf[p]]
    PROVE  ExecutorOK(p)'
BY DEF ExecutorOK, SameSandbox, StatusIsTerminal

(* So does one that is not executing while its run changes hands.          *)
LEMMA BystanderKept ==
    ASSUME NEW p \in Requests, ExecutorOK(p), crashes' = crashes, pc[p] \notin Executing,
           pc'[p] = pc[p], box'[p] = box[p],
           runs[RunOf[p]].sandbox = p => runs'[RunOf[p]].sandbox = p
    PROVE  ExecutorOK(p)'
BY DEF ExecutorOK, Executing, Preparing, Launching, Completing, Fresh, Unbound, Working

(* So does one that has handed its run over, or lets go of it.             *)
LEMMA DepartedKept ==
    ASSUME NEW p \in Requests, ExecutorOK(p), crashes' = crashes, box'[p] = box[p],
           pc[p] \notin {"bindRead", "bindWrite"}, pc'[p] \in {"wait", "leave"},
           runs[RunOf[p]].sandbox = p => runs'[RunOf[p]].sandbox = p
    PROVE  ExecutorOK(p)'
<1>1. /\ pc'[p] \notin Fresh /\ pc'[p] \notin Unbound /\ pc'[p] \notin Working
      /\ pc'[p] \notin {"bindRead", "bindWrite"} /\ pc'[p] \notin {"complete", "stage"}
      /\ pc'[p] \notin {"markWrite", "detachWrite", "follow", "interrupt", "stage"}
  BY DEF Fresh, Unbound, Working
<1> QED
  BY <1>1 DEF ExecutorOK

(* A run whose rows are unchanged stays in order.                          *)
LEMMA RunKept ==
    ASSUME IndInv, NEW r \in Runs, RunOK(r),
           runs'[r] = runs[r], journal'[r] = journal[r], held'[r] = held[r], todo'[r] = todo[r],
           \A b \in Requests : RunOf[b] = r => BoxFits(b)
    PROVE  RunOK(r)'
<1> SUFFICES ASSUME runs[r] # Absent PROVE RunOK(r)'
  BY DEF RunOK
<1>1. /\ runs[r] \in Row /\ (runs[r].sandbox # NoRow => runs[r].sandbox \in Requests /\ RunOf[runs[r].sandbox] = r)
      /\ (journal[r] # NoRow /\ journal[r].sandbox # NoRow =>
            journal[r].sandbox \in Requests /\ RunOf[journal[r].sandbox] = r)
  BY SMT, InvParts DEF TypeOK, RowsOwned, RowOf, Row, Completion
<1>2. held[r] # NoRow => journal[r] # NoRow
  BY InvParts DEF HeldIsJournaled
<1>3. runs[r].sandbox # NoRow => BoxFits(runs[r].sandbox)
  BY <1>1
<1>4. runs[r].sandbox # NoRow /\ ~StatusIsTerminal(runs[r]) => BoundOK(r)'
  <2> SUFFICES ASSUME runs[r].sandbox # NoRow, ~StatusIsTerminal(runs[r])
               PROVE  BoundOK(r)'
    OBVIOUS
  <2>1. BoundOK(r) /\ BoxFits(runs[r].sandbox) /\ RunOf[runs[r].sandbox] = r
    BY <1>1, <1>3 DEF RunOK
  <2>2. CompletionCleanupAction(runs'[r]) = CompletionCleanupAction(runs[r])
    BY DEF CompletionCleanupAction
  <2> QED
    BY <2>1, <2>2 DEF BoundOK, BoxFits, Live
<1>5. journal[r] # NoRow => (StagedOK(r) => StagedOK(r)')
  BY DEF StagedOK, CompletionCleanupAction
<1>6. held[r] # NoRow /\ Cleaned(r) => Cleaned(r)'
  <2>1. CompletionCleanupAction(runs'[r]) = CompletionCleanupAction(runs[r])
    BY DEF CompletionCleanupAction
  <2>2. runs[r].sandbox = NoRow => CompletionCleanupAction(runs[r]) = "none"
    BY DEF CompletionCleanupAction
  <2> QED
    BY <1>1, <1>2, <1>3, <2>1, <2>2 DEF Cleaned, BoxFits
<1>7. held[r] # NoRow /\ HolderOK(r) => HolderOK(r)'
  BY <1>6 DEF HolderOK, SameSandbox
<1> QED
  BY <1>1, <1>2, <1>4, <1>5, <1>7 DEF RunOK, SameSandbox, StatusIsTerminal

(* An executor goes on and changes nothing but its memory and its sandbox. *)
LEMMA MovesClean ==
    ASSUME IndInv, CleanInv, NEW q \in Requests, NEW p, pc[q] \in Executing,
           pc' = [pc EXCEPT ![q] = p], p # "begun",
           UNCHANGED <<runs, journal, active, held, daemon, todo, crashes>>,
           \A b \in Requests : b # q => box'[b] = box[b] /\ snap'[b] = snap[b],
           BoxFits(q), ExecutorOK(q)',
           p = "leave" => StatusIsTerminal(runs[RunOf[q]]) \/ StartersRegistered(RunOf[q]),
           p \in Unstaged \/ runs[RunOf[q]].status # "pending"
    PROVE  CleanInv'
<1>1. \A b \in Requests : pc'[b] = IF b = q THEN p ELSE pc[b]
  BY InvParts DEF TypeOK
<1>2. ASSUME NEW b \in Requests PROVE ExecutorOK(b)'
  BY <1>1, ExecutorKept, CleanParts
<1>3. ASSUME NEW r \in Runs PROVE RunOK(r)'
  <2>1. \A b \in Requests : BoxFits(b)
    BY DEF BoxFits
  <2> QED
    BY <2>1, RunKept DEF CleanInv
<1>4. active[RunOf[q]] = q /\ RunOf[q] \in Runs
  BY InvParts DEF Registered
<1>5. ASSUME NEW b \in Requests PROVE BegunOK(b)'
  <2>1. CASE RunOf[b] = RunOf[q]
    <3>1. CASE p = "leave"
      <4>1. CASE StatusIsTerminal(runs[RunOf[q]])
        BY <2>1, <4>1 DEF BegunOK
      <4>2. CASE StartersRegistered(RunOf[q])
        <5>1. pc'[b] # "begun"
          BY <1>1, <2>1, <4>2 DEF StartersRegistered
        <5> QED
          BY <5>1 DEF BegunOK
      <4> QED
        BY <3>1, <4>1, <4>2
    <3>2. CASE p # "leave"
      <4>1. active'[RunOf[b]] = q /\ q # NoRow
        BY <1>4, <2>1
      <4>2. pc'[q] # "leave"
        BY <1>1, <3>2
      <4> QED
        BY <4>1, <4>2 DEF BegunOK
    <3> QED
      BY <3>1, <3>2
  <2>2. CASE RunOf[b] # RunOf[q]
    <3>1. active[RunOf[b]] # NoRow => active[RunOf[b]] # q /\ active[RunOf[b]] \in Requests
      BY <2>2, RegistryTyped
    <3>2. BegunOK(b) /\ pc'[b] = pc[b]
      BY <1>1, <2>2, CleanParts
    <3>3. active[RunOf[b]] # NoRow => pc'[active[RunOf[b]]] = pc[active[RunOf[b]]]
      BY <1>1, <3>1
    <3> QED
      BY <3>2, <3>3 DEF BegunOK
  <2> QED
    BY <2>1, <2>2
<1>6. ASSUME NEW r \in Runs PROVE PendingOK(r)'
  <2>1. active[r] # NoRow => active[r] \in Requests /\ RunOf[active[r]] = r
    BY RegistryTyped
  <2>2. PendingOK(r)
    BY CleanParts
  <2>3. CASE r = RunOf[q]
    BY ZenonT(30), <1>1, <1>4, <2>2, <2>3 DEF PendingOK
  <2>4. CASE r # RunOf[q]
    <3>1. active[r] # NoRow => pc'[active[r]] = pc[active[r]]
      BY <1>1, <2>1, <2>4
    <3> QED
      BY <2>2, <2>4, <3>1 DEF PendingOK
  <2> QED
    BY <2>3, <2>4
<1> QED
  BY <1>2, <1>3, <1>5, <1>6 DEF CleanInv

----------------------------------------------------------------------------
(* The sandboxes, when executors read and decide                           *)

(* What an executor that has staged nothing may rely on.                   *)
LEMMA Unstaging ==
    ASSUME IndInv, CleanInv, NEW q \in Requests, pc[q] \in Unstaged
    PROVE  /\ pc[q] \in Executing /\ RunOf[q] \in Runs /\ active[RunOf[q]] = q
           /\ runs[RunOf[q]] # Absent /\ runs[RunOf[q]] \in Row
           /\ journal[RunOf[q]] = NoRow /\ held[RunOf[q]] = NoRow /\ todo[RunOf[q]] = NoRow
           /\ ExecutorOK(q) /\ RunOK(RunOf[q])
<1>1. pc[q] \in Executing /\ pc[q] # "idle"
  BY DEF Unstaged, Executing, Preparing, Launching, Completing
<1>2. /\ RunOf[q] \in Runs /\ active[RunOf[q]] = q /\ runs[RunOf[q]] # Absent
      /\ journal[RunOf[q]] = NoRow
  BY <1>1, InvParts DEF Registered, UnstagedNoJournal
<1>3. held[RunOf[q]] = NoRow /\ todo[RunOf[q]] = NoRow /\ runs[RunOf[q]] \in Row
  BY SMT, <1>2, InvParts DEF TypeOK, HeldIsJournaled, StartupCovers
<1> QED
  BY <1>1, <1>2, <1>3 DEF CleanInv

(* An executor that gives up before the bind has bound nothing; one that   *)
(* gives up after it leaves the sandbox to the run.                        *)
LEMMA FailsClean ==
    ASSUME IndInv, CleanInv, NEW q \in Requests,
           pc[q] \in {"prepare", "create", "start", "mark", "task", "follow"},
           pc' = [pc EXCEPT ![q] = "complete"],
           UNCHANGED <<runs, journal, active, held, daemon, todo, crashes, box, snap>>
    PROVE  CleanInv'
<1>1. pc[q] \in Unstaged
  BY ZenonT(30) DEF Unstaged, Preparing, Launching
<1>2. ExecutorOK(q)'
  <2>1. ExecutorOK(q) /\ pc'[q] = "complete"
    BY <1>1, Unstaging, InvParts DEF TypeOK
  <2> QED
    BY SMT, <2>1 DEF ExecutorOK, Fresh, Unbound, Working, StatusIsTerminal
<1> QED
  BY <1>1, <1>2, Unstaging, MovesClean DEF BoxFits, Unstaged

(* prepareProjectRun.                                                      *)
LEMMA PrepareClean ==
    ASSUME IndInv, CleanInv, NEW q \in Requests, prepareProjectRun(q)
    PROVE  CleanInv'
<1>1. CASE pc' = [pc EXCEPT ![q] = "create"]
  <2>1. pc[q] = "prepare" /\ pc[q] \in Unstaged
    BY DEF prepareProjectRun, Unstaged, Preparing
  <2>2. ExecutorOK(q)'
    <3>1. ExecutorOK(q)
      BY <2>1, Unstaging
    <3>2. pc'[q] = "create" /\ UNCHANGED <<runs, box, crashes>>
      BY <1>1, InvParts DEF prepareProjectRun, storeVars, TypeOK
    <3> QED
      BY <2>1, <3>1, <3>2 DEF ExecutorOK, Fresh, Unbound, Working, StatusIsTerminal
  <2> QED
    BY <1>1, <2>1, <2>2, Unstaging, MovesClean
       DEF prepareProjectRun, storeVars, BoxFits, Unstaged, Preparing
<1>2. CASE pc' = [pc EXCEPT ![q] = "complete"]
  BY <1>2, FailsClean DEF prepareProjectRun, storeVars
<1> QED
  BY <1>1, <1>2 DEF prepareProjectRun, FailWith

(* CreateSandbox: no run is bound to the sandbox that is being created or  *)
(* looked up.                                                              *)
LEMMA CreateClean ==
    ASSUME IndInv, CleanInv, NEW q \in Requests, CreateSandbox(q)
    PROVE  CleanInv'
<1>1. pc[q] = "create" /\ pc[q] \in Unstaged
  BY DEF CreateSandbox, Unstaged, Preparing
<1>2. ~StatusIsTerminal(runs[RunOf[q]]) => runs[RunOf[q]].sandbox # q
  BY ZenonT(30), <1>1, Unstaging DEF ExecutorOK, Unbound
<1>3. UNCHANGED <<runs, journal, active, held, daemon, todo, crashes, snap>>
  BY DEF CreateSandbox, storeVars
<1>4. CASE /\ pc' = [pc EXCEPT ![q] = "bindRead"]
           /\ \E b \in Live : box' = [box EXCEPT ![q] = b]
  <2>1. /\ box'[q] \in Live /\ pc'[q] = "bindRead"
        /\ \A b \in Requests : b # q => box'[b] = box[b]
    BY <1>4, InvParts DEF TypeOK
  <2>2. ExecutorOK(q)'
    BY <1>1, <1>3, <2>1, Unstaging DEF ExecutorOK, Fresh, Unbound, Working, StatusIsTerminal
  <2>3. BoxFits(q)
    BY <1>1, <1>2, <2>1, Unstaging DEF BoxFits
  <2> QED
    BY <1>1, <1>3, <1>4, <2>1, <2>2, <2>3, Unstaging, MovesClean DEF Unstaged, Preparing
<1>5. CASE pc' = [pc EXCEPT ![q] = "complete"] /\ box' = box
  BY <1>1, <1>3, <1>5, FailsClean
<1>6. CASE /\ q \in Reusing /\ pc' = [pc EXCEPT ![q] = "complete"]
           /\ \E b \in Boxes : box' = [box EXCEPT ![q] = b]
  <2>1. /\ pc'[q] = "complete" /\ \A b \in Requests : b # q => box'[b] = box[b]
    BY <1>6, InvParts DEF TypeOK
  <2>2. ExecutorOK(q)'
    BY <1>1, <1>3, <1>6, <2>1, Unstaging DEF ExecutorOK, Fresh, Unbound, Working,
       StatusIsTerminal
  <2>3. BoxFits(q)
    BY <1>1, <1>2, Unstaging DEF BoxFits
  <2> QED
    BY <1>1, <1>3, <1>6, <2>1, <2>2, <2>3, Unstaging, MovesClean DEF Unstaged
<1> QED
  BY <1>4, <1>5, <1>6 DEF CreateSandbox, FailWith, Live, Boxes

(* A refused bind leaves no live sandbox that it had created.              *)
LEMMA RefusedClean ==
    ASSUME IndInv, CleanInv, NEW q \in Requests, pc[q] \in {"bindRead", "bindWrite"},
           BindRefused(q), UNCHANGED <<journal, active, held, daemon, todo, crashes>>
    PROVE  CleanInv'
<1>1. pc[q] \in Unstaged
  BY DEF Unstaged, Preparing
<1>2. ~StatusIsTerminal(runs[RunOf[q]]) => runs[RunOf[q]].sandbox # q
  BY ZenonT(30), <1>1, Unstaging DEF ExecutorOK, Unbound
<1>3. /\ q \notin Reusing => box'[q] \in {"removed", "deleting", "kept"}
      /\ pc'[q] = "complete" /\ pc' = [pc EXCEPT ![q] = "complete"]
      /\ UNCHANGED <<runs, journal, active, held, daemon, todo, crashes>>
      /\ \A b \in Requests : b # q => box'[b] = box[b] /\ snap'[b] = snap[b]
  BY InvParts DEF BindRefused, FailWith, TypeOK
<1>4. ExecutorOK(q)'
  BY <1>1, <1>3, Unstaging DEF ExecutorOK, Live, Fresh, Unbound, Working, StatusIsTerminal
<1>5. BoxFits(q)
  BY <1>1, <1>2, Unstaging DEF BoxFits
<1> QED
  BY <1>1, <1>3, <1>4, <1>5, Unstaging, MovesClean DEF Unstaged

(* An executor that reads the row of its run knows the sandbox and policy. *)
LEMMA ReadsClean ==
    ASSUME IndInv, CleanInv, NEW q \in Requests,
           \/ pc[q] = "bindRead" /\ pc' = [pc EXCEPT ![q] = "bindWrite"]
           \/ pc[q] = "mark" /\ pc' = [pc EXCEPT ![q] = "markWrite"]
           \/ pc[q] = "launch" /\ pc' = [pc EXCEPT ![q] = "detachWrite"]
           \/ pc[q] = "complete" /\ pc' = [pc EXCEPT ![q] = "stage"],
           snap' = [snap EXCEPT ![q] = runs[RunOf[q]]],
           UNCHANGED <<runs, journal, active, held, daemon, todo, crashes, box>>
    PROVE  CleanInv'
<1>1. pc[q] \in Unstaged
  BY DEF Unstaged, Preparing, Launching
<1>2. PICK p \in {"bindWrite", "markWrite", "detachWrite", "stage"} :
         /\ pc' = [pc EXCEPT ![q] = p] /\ pc'[q] = p /\ p \in Unstaged /\ p # "leave"
         /\ p # "begun"
         /\ p = "bindWrite" => pc[q] = "bindRead"
         /\ p = "stage" => pc[q] = "complete"
         /\ p \in {"markWrite", "detachWrite"} => pc[q] \in {"mark", "launch"}
  BY InvParts DEF TypeOK, Unstaged, Preparing, Launching
<1>3. snap'[q] = runs[RunOf[q]] /\ \A b \in Requests : b # q => snap'[b] = snap[b]
  BY InvParts DEF TypeOK
<1>4. ExecutorOK(q)'
  <2>1. ExecutorOK(q)
    BY <1>1, Unstaging
  <2>2. SameSandbox(snap[q], RunOf[q])'
    BY <1>3 DEF SameSandbox
  <2>3. CASE p = "bindWrite"
    BY <1>2, <2>1, <2>3 DEF ExecutorOK, Fresh, Unbound, Working, StatusIsTerminal
  <2>4. CASE p = "stage"
    BY <1>2, <2>1, <2>2, <2>4 DEF ExecutorOK, Fresh, Unbound, Working, StatusIsTerminal
  <2>5. CASE p \in {"markWrite", "detachWrite"}
    BY <1>2, <2>1, <2>2, <2>5 DEF ExecutorOK, Fresh, Unbound, Working, StatusIsTerminal
  <2> QED
    BY <1>2, <2>3, <2>4, <2>5
<1> QED
  BY <1>1, <1>2, <1>3, <1>4, Unstaging, MovesClean DEF BoxFits

(* BindSandbox, up to its read.                                            *)
LEMMA BindReadClean ==
    ASSUME IndInv, CleanInv, NEW q \in Requests, BindSandboxRead(q)
    PROVE  CleanInv'
<1>1. CASE BindRefused(q)
  BY <1>1, RefusedClean DEF BindSandboxRead
<1>2. CASE pc' = [pc EXCEPT ![q] = "bindWrite"] /\ snap' = [snap EXCEPT ![q] = runs[RunOf[q]]]
           /\ UNCHANGED <<runs, box>>
  BY <1>2, ReadsClean DEF BindSandboxRead
<1> QED
  BY <1>1, <1>2 DEF BindSandboxRead

(* startProjectRunSandbox: the sandbox is bound, and its run not over.     *)
LEMMA StartSandboxClean ==
    ASSUME IndInv, CleanInv, NEW q \in Requests, startProjectRunSandbox(q)
    PROVE  CleanInv'
<1>1. CASE /\ pc' = [pc EXCEPT ![q] = "mark"] /\ box' = [box EXCEPT ![q] = "running"]
  <2>1. pc[q] = "start" /\ pc[q] \in Unstaged
    BY DEF startProjectRunSandbox, Unstaged, Preparing
  <2>2. ~StatusIsTerminal(runs[RunOf[q]])
    BY <2>1, InvParts DEF SnapshotsFresh, Bound
  <2>3. /\ box'[q] = "running" /\ pc'[q] = "mark"
        /\ UNCHANGED <<runs, journal, active, held, daemon, todo, crashes, snap>>
        /\ \A b \in Requests : b # q => box'[b] = box[b]
    BY <1>1, InvParts DEF startProjectRunSandbox, storeVars, TypeOK
  <2>4. ExecutorOK(q)'
    BY <2>1, <2>2, <2>3, Unstaging DEF ExecutorOK, Fresh, Unbound, Working, StatusIsTerminal
  <2>5. BoxFits(q)
    BY <2>1, <2>3, Unstaging DEF BoxFits, Live
  <2> QED
    BY <1>1, <2>1, <2>3, <2>4, <2>5, Unstaging, MovesClean DEF Unstaged, Launching
<1>2. CASE pc' = [pc EXCEPT ![q] = "complete"] /\ box' = box
  BY <1>2, FailsClean DEF startProjectRunSandbox, storeVars
<1> QED
  BY <1>1, <1>2 DEF startProjectRunSandbox, FailWith

(* An executor returns to the supervisor with its run over, or its result  *)
(* staged, or its task detached.                                           *)
LEMMA LeavesClean ==
    ASSUME IndInv, CleanInv, NEW q \in Requests,
           pc[q] \in {"mark", "task", "follow", "complete", "wait"},
           pc' = [pc EXCEPT ![q] = "leave"], snap' \in {snap, [snap EXCEPT ![q] = NoRow]},
           UNCHANGED <<runs, journal, active, held, daemon, todo, crashes, box>>,
           \/ StatusIsTerminal(runs[RunOf[q]])
           \/ StartersRegistered(RunOf[q]) /\ runs[RunOf[q]].status # "pending"
    PROVE  CleanInv'
<1>1. pc[q] \in Executing /\ "leave" # "begun"
  BY DEF Executing, Launching, Completing
<1>2. pc'[q] = "leave" /\ \A b \in Requests : b # q => snap'[b] = snap[b]
  BY InvParts DEF TypeOK
<1>3. ExecutorOK(q)'
  BY <1>2, CleanParts DEF ExecutorOK, Fresh, Unbound, Working, StatusIsTerminal
<1>4. runs[RunOf[q]].status # "pending"
  BY DEF StatusIsTerminal, Terminal
<1> QED
  BY <1>1, <1>2, <1>3, <1>4, MovesClean DEF BoxFits

(* MarkRunning, up to its read.                                            *)
LEMMA MarkReadClean ==
    ASSUME IndInv, CleanInv, NEW q \in Requests, MarkRunningRead(q)
    PROVE  CleanInv'
<1>1. CASE pc' = [pc EXCEPT ![q] = "complete"] /\ snap' = snap
  BY <1>1, FailsClean DEF MarkRunningRead, storeVars
<1>2. CASE StatusIsTerminal(runs[RunOf[q]]) /\ pc' = [pc EXCEPT ![q] = "leave"] /\ snap' = snap
  BY <1>2, LeavesClean DEF MarkRunningRead, storeVars
<1>3. CASE pc' = [pc EXCEPT ![q] = "markWrite"] /\ snap' = [snap EXCEPT ![q] = runs[RunOf[q]]]
  BY <1>3, ReadsClean DEF MarkRunningRead, storeVars
<1> QED
  BY <1>1, <1>2, <1>3 DEF MarkRunningRead, FailWith

(* The launch, with or without the detach supervisor.                      *)
LEMMA LaunchClean ==
    ASSUME IndInv, CleanInv, NEW q \in Requests, LaunchTask(q)
    PROVE  CleanInv'
<1>1. CASE pc' = [pc EXCEPT ![q] = "task"] /\ snap' = snap
  <2>1. pc[q] = "launch" /\ pc[q] \in Unstaged
    BY DEF LaunchTask, Unstaged, Launching
  <2>2. ExecutorOK(q)'
    <3>1. ExecutorOK(q)
      BY <2>1, Unstaging
    <3>2. pc'[q] = "task" /\ UNCHANGED <<runs, box, crashes>>
      BY <1>1, InvParts DEF LaunchTask, storeVars, TypeOK
    <3> QED
      BY <2>1, <3>1, <3>2 DEF ExecutorOK, Fresh, Unbound, Working, StatusIsTerminal
  <2> QED
    BY <1>1, <2>1, <2>2, Unstaging, MovesClean
       DEF LaunchTask, storeVars, BoxFits, Unstaged, Launching
<1>2. CASE pc' = [pc EXCEPT ![q] = "detachWrite"] /\ snap' = [snap EXCEPT ![q] = runs[RunOf[q]]]
  BY <1>2, ReadsClean DEF LaunchTask, storeVars
<1> QED
  BY <1>1, <1>2 DEF LaunchTask

(* The task ends.                                                          *)
LEMMA TaskEndsClean ==
    ASSUME IndInv, CleanInv, NEW q \in Requests, TaskEnds(q)
    PROVE  CleanInv'
BY FailsClean DEF TaskEnds, FailWith, storeVars

(* The daemon shuts down and leaves a detached task running: its run is    *)
(* past pending.                                                           *)
LEMMA DisconnectClean ==
    ASSUME IndInv, CleanInv, NEW q \in Requests, Disconnect(q)
    PROVE  CleanInv'
<1>1. runs[RunOf[q]].status # "pending"
  BY InvParts DEF Disconnect, SnapshotsFresh, BegunIsCurrent
<1> QED
  BY <1>1, LeavesClean DEF Disconnect, storeVars

(* A detached run cannot be followed.                                      *)
LEMMA ReattachFailsClean ==
    ASSUME IndInv, CleanInv, NEW q \in Requests, ReattachFails(q)
    PROVE  CleanInv'
<1>1. CASE pc' = [pc EXCEPT ![q] = "complete"]
  BY <1>1, FailsClean DEF ReattachFails, storeVars
<1>2. CASE pc' = [pc EXCEPT ![q] = "interrupt"]
  <2>1. pc[q] = "follow" /\ pc[q] \in Unstaged
    BY DEF ReattachFails, Unstaged
  <2>2. ExecutorOK(q)'
    <3>1. ExecutorOK(q)
      BY <2>1, Unstaging
    <3>2. pc'[q] = "interrupt" /\ UNCHANGED <<runs, box, snap, crashes>>
      BY <1>2, InvParts DEF ReattachFails, storeVars, TypeOK
    <3> QED
      BY <2>1, <3>1, <3>2
         DEF ExecutorOK, Fresh, Unbound, Working, StatusIsTerminal, SameSandbox
  <2> QED
    BY <1>2, <2>1, <2>2, Unstaging, MovesClean
       DEF ReattachFails, storeVars, BoxFits, Unstaged
<1> QED
  BY <1>1, <1>2 DEF ReattachFails, FailWith

(* Complete, up to its read.                                               *)
LEMMA CompleteReadClean ==
    ASSUME IndInv, CleanInv, NEW q \in Requests, CompleteRead(q)
    PROVE  CleanInv'
<1>1. CASE StatusIsTerminal(runs[RunOf[q]])
  BY <1>1, LeavesClean DEF CompleteRead, storeVars
<1>2. CASE ~StatusIsTerminal(runs[RunOf[q]])
  BY <1>2, ReadsClean DEF CompleteRead, storeVars
<1> QED
  BY <1>1, <1>2

(* Complete stops waiting.                                                 *)
LEMMA CompleteReturnsClean ==
    ASSUME IndInv, CleanInv, NEW q \in Requests, CompleteReturns(q)
    PROVE  CleanInv'
<1>1. CASE journal[RunOf[q]] = NoRow
  BY <1>1, LeavesClean, InvParts DEF CompleteReturns, storeVars, LeavesSettled
<1>2. CASE journal[RunOf[q]] # NoRow
  <2>1. runs[RunOf[q]].status # "pending" /\ RunOf[q] \in Runs
    BY <1>2, InvParts DEF JournaledRunIsRunning
  <2> QED
    BY <1>2, <2>1, LeavesClean DEF CompleteReturns, storeVars
<1> QED
  BY <1>1, <1>2

----------------------------------------------------------------------------
(* The sandboxes, when executors write                                     *)

(* An unstaged executor writes a row that names its sandbox.               *)
LEMMA WritesClean ==
    ASSUME IndInv, CleanInv, NEW q \in Requests, NEW row \in Row,
           pc[q] \in {"bindWrite", "markWrite", "detachWrite"},
           pc' = [pc EXCEPT ![q] = CASE pc[q] = "bindWrite" -> "start"
                                     [] pc[q] = "markWrite" -> "launch"
                                     [] pc[q] = "detachWrite" -> "task"],
           runs' = [runs EXCEPT ![RunOf[q]] = row],
           row.sandbox = q, row.status \notin Terminal,
           pc[q] # "bindWrite" => SameSandbox(row, RunOf[q]),
           snap' = [snap EXCEPT ![q] = NoRow],
           UNCHANGED <<journal, active, held, daemon, todo, crashes, box>>
    PROVE  CleanInv'
<1>1. /\ pc[q] \in Unstaged /\ ~StatusIsTerminal(runs[RunOf[q]])
      /\ runs[RunOf[q]].sandbox \in {q, NoRow}
      /\ pc[q] = "bindWrite" => box[q] \in Live
  BY InvParts, CleanParts DEF Unstaged, Preparing, Launching, SnapshotsFresh, Bound,
     ExecutorOK, Unbound, Working
<1>2. /\ pc'[q] \in {"start", "launch", "task"} /\ \A b \in Requests : b # q => pc'[b] = pc[b]
      /\ RunOf[q] \in Runs /\ runs'[RunOf[q]] = row
      /\ \A r \in Runs : r # RunOf[q] => runs'[r] = runs[r]
      /\ \A b \in Requests : b # q => snap'[b] = snap[b]
  BY InvParts DEF TypeOK
<1>3. BoundOK(RunOf[q])' /\ ~StatusIsTerminal(row) /\ box[q] # "absent"
  <2>1. ExecutorOK(q) /\ RunOK(RunOf[q]) /\ runs[RunOf[q]] # Absent
    BY <1>1, Unstaging
  <2>2. ~StatusIsTerminal(row)
    BY DEF StatusIsTerminal
  <2>3. CASE pc[q] = "bindWrite"
    BY <1>1, <1>2, <2>2, <2>3 DEF BoundOK, Live
  <2>4. CASE pc[q] # "bindWrite"
    <3>1. SameSandbox(row, RunOf[q]) /\ runs[RunOf[q]].sandbox = q /\ q # NoRow
      BY <2>4 DEF SameSandbox
    <3>2. BoundOK(RunOf[q])
      BY <1>1, <2>1, <3>1 DEF RunOK
    <3>3. CompletionCleanupAction(row) = CompletionCleanupAction(runs[RunOf[q]])
      BY <3>1 DEF SameSandbox, CompletionCleanupAction
    <3> QED
      BY <1>2, <2>2, <3>1, <3>2, <3>3 DEF BoundOK
  <2> QED
    BY <2>3, <2>4
<1>4. ASSUME NEW b \in Requests PROVE ExecutorOK(b)'
  <2>1. CASE b = q
    BY <1>2, <1>3, <2>1 DEF ExecutorOK, Fresh, Unbound, Working
  <2>2. CASE b # q /\ RunOf[b] = RunOf[q]
    <3>1. pc[b] \notin Executing /\ ExecutorOK(b)
      BY SMT, <1>1, <2>2, Unstaging, InvParts, CleanParts DEF Registered
    <3>2. runs[RunOf[b]].sandbox # b
      BY <1>1, <2>2
    <3> QED
      BY <1>2, <2>2, <3>1, <3>2, BystanderKept
  <2>3. CASE RunOf[b] # RunOf[q]
    BY <1>2, <2>3, ExecutorKept, CleanParts
  <2> QED
    BY <2>1, <2>2, <2>3
<1>5. ASSUME NEW r \in Runs PROVE RunOK(r)'
  <2>1. CASE r = RunOf[q]
    <3>1. /\ journal[r] = NoRow /\ held[r] = NoRow /\ todo[r] = NoRow
      BY <1>1, <2>1, Unstaging
    <3> QED
      BY SMT, <1>2, <1>3, <2>1, <3>1 DEF RunOK
  <2>2. CASE r # RunOf[q]
    BY <1>2, <2>2, RunKept, CleanParts DEF BoxFits
  <2> QED
    BY <2>1, <2>2
<1>6. active[RunOf[q]] = q
  BY <1>1, Unstaging
<1>7. ASSUME NEW b \in Requests PROVE BegunOK(b)'
  <2>1. CASE RunOf[b] = RunOf[q]
    BY <1>2, <1>6, <2>1 DEF BegunOK
  <2>2. CASE RunOf[b] # RunOf[q]
    <3>1. active[RunOf[b]] # NoRow => active[RunOf[b]] # q /\ active[RunOf[b]] \in Requests
      BY SMT, <2>2, InvParts DEF TypeOK, Registered
    <3>2. pc'[b] = "begun" => pc[b] = "begun"
      BY <1>2
    <3> QED
      BY SMT, <1>2, <2>2, <3>1, <3>2, CleanParts DEF BegunOK, StatusIsTerminal
  <2> QED
    BY <2>1, <2>2
<1>8. ASSUME NEW r \in Runs PROVE PendingOK(r)'
  <2>1. active[r] # NoRow => active[r] \in Requests /\ RunOf[active[r]] = r
    BY SMT, InvParts DEF TypeOK, Registered
  <2>2. pc'[q] \in Unstaged
    BY <1>2 DEF Unstaged, Preparing, Launching
  <2> QED
    BY SMT, <1>2, <1>6, <2>1, <2>2, CleanParts DEF PendingOK
<1> QED
  BY <1>4, <1>5, <1>7, <1>8 DEF CleanInv

(* BindSandbox, its write.                                                 *)
LEMMA BindWriteClean ==
    ASSUME IndInv, CleanInv, NEW q \in Requests, BindSandboxWrite(q)
    PROVE  CleanInv'
<1>1. CASE BindRefused(q)
  BY <1>1, RefusedClean DEF BindSandboxWrite
<1>2. CASE ~BindRefused(q)
  <2> DEFINE row == ProjectRun(snap[q].status, q, q \notin Reusing, snap[q].policy,
                               snap[q].cleanupError, snap[q].detach)
  <2>1. snap[q] \in Row /\ snap[q].status \notin Terminal
    BY DEF BindSandboxWrite, IndInv, TypeOK, SnapshotsFresh
  <2>2. row \in Row /\ row.sandbox = q /\ row.status \notin Terminal
    BY <2>1 DEF ProjectRun, Row
  <2>3. /\ pc[q] = "bindWrite" /\ pc' = [pc EXCEPT ![q] = "start"]
        /\ runs' = [runs EXCEPT ![RunOf[q]] = row]
        /\ snap' = [snap EXCEPT ![q] = NoRow]
        /\ UNCHANGED <<journal, active, held, daemon, todo, crashes, box>>
    BY <1>2 DEF BindSandboxWrite
  <2> HIDE DEF row
  <2> QED
    BY <2>2, <2>3, WritesClean
<1> QED
  BY <1>1, <1>2

(* MarkRunning, its write.                                                 *)
LEMMA MarkWriteClean ==
    ASSUME IndInv, CleanInv, NEW q \in Requests, MarkRunningWrite(q)
    PROVE  CleanInv'
<1> DEFINE row == ProjectRun("running", q, snap[q].created, snap[q].policy, snap[q].cleanupError,
                             runs[RunOf[q]].detach)
<1>1. snap[q] \in Row /\ runs[RunOf[q]] \in Row
  BY SMT, InvParts DEF MarkRunningWrite, TypeOK, SnapshotsFresh, Registered
<1>2. /\ row \in Row /\ row.sandbox = q /\ row.status \notin Terminal
      /\ row.policy = snap[q].policy /\ row.created = snap[q].created
  BY <1>1 DEF ProjectRun, Row, Statuses, Terminal
<1>3. /\ pc[q] = "markWrite" /\ pc' = [pc EXCEPT ![q] = "launch"]
      /\ runs' = [runs EXCEPT ![RunOf[q]] = row]
      /\ snap' = [snap EXCEPT ![q] = NoRow]
      /\ UNCHANGED <<journal, active, held, daemon, todo, crashes, box>>
  BY DEF MarkRunningWrite
<1>4. ~StatusIsTerminal(runs[RunOf[q]])
  BY <1>3, InvParts DEF SnapshotsFresh, Bound
<1>5. SameSandbox(snap[q], RunOf[q]) /\ runs[RunOf[q]].sandbox = q
  BY <1>3, <1>4, CleanParts DEF ExecutorOK, Working
<1>6. SameSandbox(row, RunOf[q])
  BY <1>2, <1>5 DEF SameSandbox
<1> HIDE DEF row
<1> QED
  BY <1>2, <1>3, <1>6, WritesClean

(* persistDetachedRunFields writes back the sandbox that it read.          *)
LEMMA DetachWriteClean ==
    ASSUME IndInv, CleanInv, NEW q \in Requests, persistDetachedRunFields(q)
    PROVE  CleanInv'
<1> DEFINE row == ProjectRun(snap[q].status, snap[q].sandbox, snap[q].created, snap[q].policy,
                             snap[q].cleanupError, TRUE)
<1>1. /\ pc[q] = "detachWrite" /\ snap[q] \in Row /\ snap[q].status \notin Terminal
      /\ ~StatusIsTerminal(runs[RunOf[q]])
  BY InvParts DEF persistDetachedRunFields, TypeOK, SnapshotsFresh, Bound
<1>2. SameSandbox(snap[q], RunOf[q]) /\ snap[q].sandbox = q
  BY <1>1, CleanParts DEF ExecutorOK, SameSandbox, Working
<1>3. /\ row \in Row /\ row.sandbox = q /\ row.status \notin Terminal
      /\ row.policy = snap[q].policy /\ row.created = snap[q].created
  BY <1>1, <1>2 DEF ProjectRun, Row
<1>4. /\ pc' = [pc EXCEPT ![q] = "task"]
      /\ runs' = [runs EXCEPT ![RunOf[q]] = row]
      /\ snap' = [snap EXCEPT ![q] = NoRow]
      /\ UNCHANGED <<journal, active, held, daemon, todo, crashes, box>>
  BY DEF persistDetachedRunFields
<1>5. SameSandbox(row, RunOf[q])
  BY <1>2, <1>3 DEF SameSandbox
<1> HIDE DEF row
<1> QED
  BY <1>1, <1>3, <1>4, <1>5, WritesClean

----------------------------------------------------------------------------
(* The sandboxes, in steps of the registry, client and daemon process      *)

(* A step that leaves rows, sandboxes and memories alone keeps them in     *)
(* order, whatever it does to requests that are not executing.             *)
LEMMA StoreFrame ==
    ASSUME IndInv, CleanInv, UNCHANGED <<runs, journal, held, todo, box, snap, crashes>>,
           \A b \in Requests : \/ pc'[b] = pc[b]
                               \/ pc[b] = "begun" /\ pc'[b] = "prepare"
                                    /\ (~StatusIsTerminal(runs[RunOf[b]]) =>
                                          runs[RunOf[b]].sandbox = NoRow)
                               \/ /\ pc[b] \notin {"bindRead", "bindWrite"}
                                  /\ pc'[b] = "returned"
    PROVE  (\A b \in Requests : ExecutorOK(b)') /\ (\A r \in Runs : RunOK(r)')
<1>1. ASSUME NEW b \in Requests PROVE ExecutorOK(b)'
  <2>1. CASE pc'[b] = pc[b]
    BY <2>1, ExecutorKept, CleanParts
  <2>2. CASE pc[b] = "begun" /\ pc'[b] = "prepare" /\ (~StatusIsTerminal(runs[RunOf[b]]) =>
                                          runs[RunOf[b]].sandbox = NoRow)
    BY <2>2, CleanParts DEF ExecutorOK, Fresh, Unbound, Working, StatusIsTerminal
  <2>3. CASE pc[b] \notin {"bindRead", "bindWrite"} /\ pc'[b] = "returned"
    BY <2>3, CleanParts DEF ExecutorOK, Fresh, Unbound, Working
  <2> QED
    BY <2>1, <2>2, <2>3
<1>2. ASSUME NEW r \in Runs PROVE RunOK(r)'
  BY RunKept, CleanParts DEF BoxFits
<1> QED
  BY <1>1, <1>2

(* register takes a run that has no sandbox yet.                           *)
LEMMA RegisterClean ==
    ASSUME IndInv, CleanInv, NEW q \in Requests, register(q)
    PROVE  CleanInv'
<1> DEFINE r == RunOf[q]
<1>1. /\ pc[q] = "begun" /\ r \in Runs
      /\ UNCHANGED <<runs, journal, held, todo, box, snap, crashes, daemon>>
  BY DEF register, storeVars
<1>2. CASE active[r] = NoRow /\ active' = [active EXCEPT ![r] = q] /\ pc' = [pc EXCEPT ![q] = "prepare"]
  <2>1. /\ pc'[q] = "prepare" /\ (\A b \in Requests : b # q => pc'[b] = pc[b])
        /\ active'[r] = q /\ \A s \in Runs : s # r => active'[s] = active[s]
    BY <1>1, <1>2, InvParts DEF TypeOK
  <2>2. ~StatusIsTerminal(runs[r]) => runs[r].sandbox = NoRow
    BY <1>1, <1>2, CleanParts DEF BegunOK
  <2>3. (\A b \in Requests : ExecutorOK(b)') /\ (\A s \in Runs : RunOK(s)')
    BY <1>1, <2>1, <2>2, StoreFrame
  <2>4. ASSUME NEW s \in Runs, active[s] # NoRow
        PROVE  active[s] # q /\ active[s] \in Requests
    BY SMTT(30), <1>1, <2>4, InvParts DEF TypeOK, Registered, Executing, Preparing,
       Launching, Completing
  <2>5. ASSUME NEW b \in Requests PROVE BegunOK(b)'
    <3> DEFINE t == RunOf[b]
    <3>1. t \in Runs /\ (StatusIsTerminal(runs[t])' <=> StatusIsTerminal(runs[t]))
      BY <1>1 DEF StatusIsTerminal
    <3>2. CASE t = r
      <4>1. active'[t] # NoRow /\ pc'[active'[t]] # "leave"
        BY <2>1, <3>2, Sentinels
      <4> QED
        BY <4>1 DEF BegunOK
    <3>3. CASE t # r
      <4>1. active'[t] = active[t] /\ b # q /\ pc'[b] = pc[b]
        BY <2>1, <3>1, <3>3
      <4>2. pc'[active'[t]] = "leave" => active[t] = NoRow \/ pc[active[t]] = "leave"
        BY <2>1, <2>4, <3>1, <4>1
      <4> QED
        BY <1>1, <3>1, <4>1, <4>2, CleanParts DEF BegunOK
    <3> QED
      BY <3>2, <3>3
  <2>6. ASSUME NEW s \in Runs PROVE PendingOK(s)'
    <3>1. "prepare" \in Unstaged
      BY DEF Unstaged, Preparing
    <3>2. CASE s = r
      BY <2>1, <3>1, <3>2 DEF PendingOK
    <3>3. CASE s # r
      BY <1>1, <2>1, <2>4, <3>3, CleanParts DEF PendingOK
    <3> QED
      BY <3>2, <3>3
  <2> QED
    BY <2>3, <2>5, <2>6 DEF CleanInv
<1>3. CASE active' = active /\ pc' = [pc EXCEPT ![q] = "returned"]
  <2>1. pc'[q] = "returned" /\ (\A b \in Requests : b # q => pc'[b] = pc[b])
    BY <1>3, InvParts DEF TypeOK
  <2>2. (\A b \in Requests : ExecutorOK(b)') /\ (\A s \in Runs : RunOK(s)')
    BY <1>1, <2>1, StoreFrame
  <2>3. ASSUME NEW s \in Runs, active[s] # NoRow
        PROVE  active[s] # q /\ active[s] \in Requests
    BY <1>1, <2>3, RegistryTyped DEF Executing, Preparing, Launching, Completing
  <2>4. ASSUME NEW b \in Requests PROVE BegunOK(b)'
    <3>1. RunOf[b] \in Runs
      OBVIOUS
    <3> QED
      BY ZenonT(30), <1>1, <1>3, <2>1, <2>3, <3>1, CleanParts DEF BegunOK, StatusIsTerminal
  <2>5. ASSUME NEW s \in Runs PROVE PendingOK(s)'
    BY <1>1, <1>3, <2>1, <2>3, CleanParts DEF PendingOK
  <2> QED
    BY <2>2, <2>4, <2>5 DEF CleanInv
<1> QED
  BY <1>2, <1>3 DEF register

(* unregister: whoever may register next could already do so.              *)
LEMMA UnregisterClean ==
    ASSUME IndInv, CleanInv, NEW q \in Requests, unregister(q)
    PROVE  CleanInv'
<1> DEFINE r == RunOf[q]
<1>1. /\ pc[q] = "leave" /\ r \in Runs /\ active[r] = q
      /\ UNCHANGED <<runs, journal, held, todo, box, snap, crashes, daemon>>
  BY InvParts DEF unregister, storeVars, Registered, Executing, Completing
<1>2. /\ pc'[q] = "returned" /\ (\A b \in Requests : b # q => pc'[b] = pc[b])
      /\ active'[r] = NoRow /\ \A s \in Runs : s # r => active'[s] = active[s]
  BY <1>1, InvParts DEF unregister, TypeOK
<1>3. (\A b \in Requests : ExecutorOK(b)') /\ (\A s \in Runs : RunOK(s)')
  BY <1>1, <1>2, StoreFrame
<1>4. ASSUME NEW s \in Runs, s # r, active[s] # NoRow
      PROVE  active[s] # q /\ active[s] \in Requests
  BY ZenonT(30), <1>1, <1>4, RegistryTyped
<1>5. ASSUME NEW b \in Requests PROVE BegunOK(b)'
  <2>1. RunOf[b] \in Runs
    OBVIOUS
  <2> QED
    BY SMTT(30), <1>1, <1>2, <1>4, <2>1, CleanParts DEF BegunOK, StatusIsTerminal
<1>6. ASSUME NEW s \in Runs PROVE PendingOK(s)'
  <2>1. CASE s = r
    <3>1. "leave" \notin Unstaged
      BY DEF Unstaged, Preparing, Launching
    <3> QED
      BY SMT, <1>1, <1>2, <2>1, <3>1, CleanParts DEF PendingOK
  <2>2. CASE s # r
    BY ZenonT(30), <1>1, <1>2, <1>4, <2>2, CleanParts DEF PendingOK
  <2> QED
    BY <2>1, <2>2
<1> QED
  BY <1>3, <1>5, <1>6 DEF CleanInv

(* BeginRun inserts a run without a sandbox, or finds one that is pending. *)
LEMMA BeginRunClean ==
    ASSUME IndInv, CleanInv, NEW q \in Requests, BeginRun(q)
    PROVE  CleanInv'
<1> DEFINE r == RunOf[q]
<1>1. /\ pc[q] = "idle" /\ r \in Runs /\ daemon = "serving"
      /\ UNCHANGED <<journal, held, todo, box, snap, crashes, daemon, active>>
  BY DEF BeginRun
<1>2. ASSUME NEW s \in Runs, active[s] # NoRow
      PROVE  active[s] # q /\ active[s] \in Requests
  BY SMT, <1>1, <1>2, InvParts DEF TypeOK, Registered, Executing, Preparing, Launching,
     Completing
<1>3. CASE runs[r] = Absent
  <2>1. PICK row \in Row : /\ row.status = "pending" /\ row.sandbox = NoRow
                           /\ runs' = [runs EXCEPT ![r] = row]
    BY <1>3, BeginRunInserts DEF Inserts
  <2>2. pc' = [pc EXCEPT ![q] = "begun"]
    BY <1>3, BeginRunInserts DEF Inserts
  <2>3. /\ runs'[r] = row /\ (\A s \in Runs : s # r => runs'[s] = runs[s])
        /\ pc'[q] = "begun" /\ (\A b \in Requests : b # q => pc'[b] = pc[b])
    BY <1>1, <2>1, <2>2, InvParts DEF TypeOK
  <2>4. /\ \A b \in Requests : RunOf[b] = r => pc[b] = "idle"
        /\ journal[r] = NoRow /\ held[r] = NoRow /\ todo[r] = NoRow
    BY <1>1, <1>3, InvParts DEF Registered, LaunchOnce, HeldIsJournaled, StartupCovers
  <2>5. ASSUME NEW b \in Requests PROVE ExecutorOK(b)'
    <3>1. CASE RunOf[b] = r
      <4>1. box'[b] = "absent" /\ pc'[b] \in {"idle", "begun"}
        BY <1>1, <2>3, <2>4, <3>1, CleanParts DEF ExecutorOK, Fresh
      <4>2. box'[b] \notin Live /\ pc'[b] \notin Unbound \cup Working
        BY <4>1 DEF Live, Unbound, Working
      <4> QED
        BY <4>1, <4>2 DEF ExecutorOK
    <3>2. CASE RunOf[b] # r
      BY <1>1, <2>3, <3>2, ExecutorKept, CleanParts
    <3> QED
      BY <3>1, <3>2
  <2>6. ASSUME NEW s \in Runs PROVE RunOK(s)'
    <3>1. CASE s = r
      BY <1>1, <2>1, <2>3, <2>4, <3>1 DEF RunOK
    <3>2. CASE s # r
      BY <1>1, <2>3, <3>2, RunKept, CleanParts DEF BoxFits
    <3> QED
      BY <3>1, <3>2
  <2>7. ASSUME NEW b \in Requests PROVE BegunOK(b)'
    <3>1. CASE RunOf[b] = r
      BY <2>1, <2>3, <3>1 DEF BegunOK
    <3>2. CASE RunOf[b] # r
      BY <1>1, <1>2, <2>3, <3>2, CleanParts DEF BegunOK, StatusIsTerminal
    <3> QED
      BY <3>1, <3>2
  <2>8. ASSUME NEW s \in Runs PROVE PendingOK(s)'
    BY <1>1, <1>2, <2>1, <2>3, CleanParts DEF PendingOK
  <2> QED
    BY <2>5, <2>6, <2>7, <2>8 DEF CleanInv
<1>4. CASE runs[r] # Absent
  <2>1. /\ runs' = runs
        /\ pc' = [pc EXCEPT ![q] = IF runs[r].status = "pending" THEN "begun" ELSE "returned"]
    BY <1>4 DEF BeginRun
  <2>2. /\ pc'[q] = IF runs[r].status = "pending" THEN "begun" ELSE "returned"
        /\ \A b \in Requests : b # q => pc'[b] = pc[b]
    BY <2>1, InvParts DEF TypeOK
  <2>3. ASSUME NEW b \in Requests PROVE ExecutorOK(b)'
    <3>1. CASE b = q
      <4>1. box'[q] = "absent" /\ pc'[q] \in {"begun", "returned"}
        BY <1>1, <2>2, CleanParts DEF ExecutorOK, Fresh
      <4>2. box'[q] \notin Live /\ pc'[q] \notin Unbound \cup Working
        BY <4>1 DEF Live, Unbound, Working
      <4> QED
        BY <3>1, <4>1, <4>2 DEF ExecutorOK
    <3>2. CASE b # q
      BY <1>1, <2>1, <2>2, <3>2, ExecutorKept, CleanParts
    <3> QED
      BY <3>1, <3>2
  <2>4. ASSUME NEW s \in Runs PROVE RunOK(s)'
    BY <1>1, <2>1, RunKept, CleanParts DEF BoxFits
  <2>5. ASSUME NEW b \in Requests PROVE BegunOK(b)'
    <3>1. CASE b = q
      <4> SUFFICES ASSUME runs[r].status = "pending",
                          active[r] = NoRow \/ pc[active[r]] = "leave"
                   PROVE  runs[r].sandbox = NoRow
        <5>1. /\ pc'[q] = "begun" => runs[r].status = "pending"
              /\ active[r] # NoRow => active[r] # q /\ active[r] \in Requests
          BY <1>1, <1>2, <2>2
        <5> QED
          BY <1>1, <2>1, <2>2, <3>1, <5>1 DEF BegunOK
      <4>1. "leave" \notin Unstaged /\ daemon \notin Early
        BY <1>1 DEF Unstaged, Preparing, Launching, Early
      <4> QED
        BY <1>1, <1>4, <4>1, CleanParts DEF PendingOK
    <3>2. CASE b # q
      <4>1. RunOf[b] \in Runs
        OBVIOUS
      <4> QED
        BY <1>1, <1>2, <2>1, <2>2, <3>2, <4>1, CleanParts DEF BegunOK, StatusIsTerminal
    <3> QED
      BY <3>1, <3>2
  <2>6. ASSUME NEW s \in Runs PROVE PendingOK(s)'
    BY <1>1, <1>2, <2>1, <2>2, CleanParts DEF PendingOK
  <2> QED
    BY <2>3, <2>4, <2>5, <2>6 DEF CleanInv
<1> QED
  BY <1>3, <1>4

(* Steps that change only the phase of the daemon, or cancel a context.    *)
LEMMA PhaseClean ==
    ASSUME IndInv, CleanInv,
           \/ Shutdown \/ Restart \/ Reconciled \/ UNCHANGED vars
           \/ \E r \in Runs : StopActiveRun(r)
    PROVE  CleanInv'
<1>1. /\ UNCHANGED <<runs, journal, held, todo, box, snap, crashes, active, pc>>
      /\ daemon' \notin Early => daemon \notin Early
  BY DEF Shutdown, Restart, Reconciled, StopActiveRun, vars, storeVars, execVars, Early
<1>2. (\A b \in Requests : ExecutorOK(b)') /\ (\A s \in Runs : RunOK(s)')
  BY <1>1, StoreFrame
<1> QED
  BY <1>1, <1>2 DEF CleanInv, BegunOK, PendingOK, StatusIsTerminal

(* The memory of the daemon is gone; what is stored is as it was.          *)
LEMMA CrashClean ==
    ASSUME IndInv, CleanInv, Crash
    PROVE  CleanInv'
<1>1. UNCHANGED <<runs, journal, box>> /\ daemon' = "down" /\ crashes' # 0
  BY SMT, InvParts DEF Crash, storeVars, TypeOK
<1>2. /\ \A b \in Requests : pc'[b] = IF pc[b] = "idle" THEN "idle" ELSE "returned"
      /\ \A r \in Runs : held'[r] = NoRow /\ todo'[r] = NoRow
  BY DEF Crash
<1>3. ASSUME NEW b \in Requests PROVE ExecutorOK(b)'
  BY <1>1, <1>2, CleanParts DEF ExecutorOK, Fresh, Unbound, Working
<1>4. ASSUME NEW r \in Runs PROVE RunOK(r)'
  BY <1>1, <1>2, CleanParts DEF RunOK, StagedOK, BoundOK, CompletionCleanupAction,
     StatusIsTerminal
<1>5. ASSUME NEW b \in Requests PROVE BegunOK(b)'
  BY <1>2 DEF BegunOK
<1>6. ASSUME NEW r \in Runs PROVE PendingOK(r)'
  BY <1>1 DEF PendingOK, Early
<1> QED
  BY <1>3, <1>4, <1>5, <1>6 DEF CleanInv

(* A sandbox that dies while the daemon is down has stopped; an interrupted *)
(* removal that is resumed or taken back leaves nothing live.              *)
LEMMA DiesClean ==
    ASSUME IndInv, CleanInv, NEW q \in Requests, SandboxDies(q) \/ RecoverDeletion(q)
    PROVE  CleanInv'
<1>1. UNCHANGED <<runs, journal, held, todo, snap, crashes, active, pc, daemon>>
  BY DEF SandboxDies, RecoverDeletion, storeVars, execVars
<1>2. /\ \/ box[q] = "running" /\ box'[q] = "stopped"
         \/ box[q] = "deleting" /\ box'[q] \in {"removed", "kept"}
      /\ \A b \in Requests : b # q => box'[b] = box[b]
  BY InvParts DEF SandboxDies, RecoverDeletion, TypeOK
<1>3. ASSUME NEW b \in Requests PROVE ExecutorOK(b)' /\ BoxFits(b)
  <2>1. CASE b = q
    <3>1. ExecutorOK(q) /\ BoxFits(q)
      BY <1>2, CleanParts DEF BoxFits
    <3>2. /\ box[q] # "absent" /\ (box[q] \in Live => box'[q] \in Live)
          /\ (box'[q] \in Live => box[q] \in Live)
      BY <1>2 DEF Live
    <3> QED
      BY <1>1, <2>1, <3>1, <3>2 DEF ExecutorOK, SameSandbox, StatusIsTerminal
  <2>2. CASE b # q
    BY <1>1, <1>2, <2>2, ExecutorKept, CleanParts DEF BoxFits
  <2> QED
    BY <2>1, <2>2
<1>4. ASSUME NEW r \in Runs PROVE RunOK(r)'
  BY <1>1, <1>3, RunKept, CleanParts
<1> QED
  BY <1>1, <1>3, <1>4 DEF CleanInv, BegunOK, PendingOK, StatusIsTerminal

=============================================================================
