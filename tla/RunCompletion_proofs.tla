----------------------- MODULE RunCompletion_proofs -----------------------
(***************************************************************************)
(* The theorems about RunCompletion, for every number of runs, requests,   *)
(* attempts and crashes: its invariants hold, it implements RunOutcome, a  *)
(* run that ended without an error had its policy applied, and a StartRun  *)
(* that lost leaves nothing behind.                                        *)
(*                                                                         *)
(* First the steps of the completion manager and of startup preserve       *)
(* IndInv, and what follows from it; then they preserve CleanInv, and what *)
(* follows from that.                                                      *)
(***************************************************************************)
EXTENDS RunCompletionInvariant

(* Leaves are first-order unless they name SMT.                            *)
USE RequestsResolve, SentinelsDistinct, Zenon

----------------------------------------------------------------------------
(* The completion manager preserves the invariant.                         *)

(* Holds preserves the invariant.                                          *)
LEMMA HoldsStep ==
    ASSUME IndInv, NEW r \in Runs, Holds(r)
    PROVE  IndInv'
<1>1. /\ Registered' /\ SnapshotsFresh' /\ UnstagedNoJournal' /\ BegunIsCurrent'
      /\ JournaledRunIsRunning' /\ OneStatusEvent' /\ LaunchOnce' /\ TaskRunsOnce'
      /\ LeavesSettled' /\ NoStrandedRun'
  BY SMTT(30), InvParts DEF Registered, SnapshotsFresh, StatusIsTerminal,
     UnstagedNoJournal, BegunIsCurrent, NonTerminal, JournaledRunIsRunning,
     OneStatusEvent, LaunchOnce, TaskRunsOnce, LeavesSettled, NoStrandedRun, Holds,
     storeVars, execVars
<1>2. TypeOK'
  BY SMTT(30), InvParts DEF TypeOK, Boxes, Live, Holds, storeVars, execVars
<1>3. RowsOwned'
  BY SMTT(30), InvParts DEF RowsOwned, Holds, storeVars, execVars, JournaledRunIsRunning
<1>4. HeldIsJournaled'
  BY SMTT(30), Sentinels, InvParts DEF TypeOK, HeldIsJournaled, Holds, storeVars,
     execVars, JournaledRunIsRunning
<1>5. StartupCovers'
  BY Sentinels, InvParts DEF TypeOK, StartupCovers, Early, NonTerminal,
     StatusIsTerminal, Holds, storeVars, execVars, JournaledRunIsRunning, Registered
<1>. QED  BY <1>1, <1>2, <1>3, <1>4, <1>5 DEF IndInv

(* ProcessBegin remembers what it read.                                    *)
LEMMA ProcessBeginHolds ==
    ASSUME IndInv, NEW r \in Runs, ProcessBegin(r)
    PROVE  Holds(r)
<1>. DEFINE h == [step |-> "cleanup", row |-> runs[r], completion |-> journal[r]]
<1>1. runs[r] \in Row /\ journal[r] \in Completion
  BY InvParts DEF TypeOK, JournaledRunIsRunning, ProcessBegin
<1>2. h \in Holding /\ h.row = runs[r] /\ h.completion = journal[r]
  BY <1>1 DEF Holding
<1>. QED  BY <1>2, Zenon DEF ProcessBegin, Holds

(* AbandonBegin remembers what it read.                                    *)
LEMMA AbandonBeginHolds ==
    ASSUME IndInv, NEW r \in Runs, AbandonBegin(r)
    PROVE  Holds(r)
<1>. DEFINE h == [step |-> "abandon", row |-> runs[r], completion |-> journal[r]]
<1>1. runs[r] \in Row /\ journal[r] \in Completion
  BY InvParts DEF TypeOK, JournaledRunIsRunning, AbandonBegin
<1>2. h \in Holding /\ h.row = runs[r] /\ h.completion = journal[r]
  BY <1>1 DEF Holding
<1>. QED  BY <1>2, Zenon DEF AbandonBegin, Holds

(* CleanupSucceeds remembers what it read.                                 *)
LEMMA CleanupSucceedsHolds ==
    ASSUME IndInv, NEW r \in Runs, CleanupSucceeds(r)
    PROVE  Holds(r)
<1>. DEFINE h == [step |-> "finalize", row |-> held[r].row, completion |-> held[r].completion]
<1>1. held[r] \in Holding /\ held[r] # NoRow /\ daemon # "down"
  BY SMTT(30), InvParts DEF TypeOK, StartupCovers, CleanupSucceeds
<1>2. h \in Holding /\ h.row = held[r].row /\ h.completion = held[r].completion
  BY <1>1 DEF Holding
<1>3. held' = [held EXCEPT ![r] = h]
  BY DEF CleanupSucceeds
<1>4. \/ box' = box
      \/ \E q \in Requests, b \in {"removed", "stopped"} : box' = [box EXCEPT ![q] = b]
  <2>1. held[r].row.sandbox \in Requests \cup {NoRow}
    BY <1>1 DEF Holding, Row
  <2>. QED  BY <2>1, Zenon DEF CleanupSucceeds
<1>5. UNCHANGED <<storeVars, taskStarts, execVars, active, daemon, todo, crashes>>
  BY DEF CleanupSucceeds
<1>. QED  BY <1>1, <1>2, <1>3, <1>4, <1>5, Zenon DEF Holds

(* Finalizing transactions preserve the invariant.                         *)
LEMMA PublishesStep ==
    ASSUME IndInv, NEW r \in Runs, held[r] # NoRow, Publishes(r)
    PROVE  IndInv'
<1>a. Journaled(r)
  BY HolderIsJournaled
<1>1. TaskRunsOnce'
  BY InvParts DEF TaskRunsOnce, Publishes, execVars
<1>2. TypeOK'
  BY SMTT(30), InvParts DEF TypeOK, Publishes, execVars
<1>3. RowsOwned'
  BY SMTT(30), Sentinels, InvParts DEF RowsOwned, RowOf, Publishes, execVars
<1>4. Registered'
  BY SMTT(30), InvParts DEF Registered, Publishes, execVars
<1>5. SnapshotsFresh'
  BY SMTT(30), <1>a, Sentinels, InvParts DEF TypeOK, SnapshotsFresh, Bound,
     StatusIsTerminal, Publishes, Journaled, execVars, JournaledRunIsRunning,
     UnstagedNoJournal, Unstaged, Preparing, Launching, Registered
<1>6. UnstagedNoJournal'
  BY <1>a, Sentinels, InvParts DEF TypeOK, UnstagedNoJournal, Unstaged, Preparing,
     Launching, Publishes, Journaled, execVars, Registered
<1>7. BegunIsCurrent'
  BY SMTT(30), <1>a, Sentinels, InvParts DEF TypeOK, BegunIsCurrent, NonTerminal,
     StatusIsTerminal, Publishes, Journaled, execVars, UnstagedNoJournal, Registered
<1>8. HeldIsJournaled'
  BY <1>a, Sentinels, InvParts DEF TypeOK, HeldIsJournaled, Publishes, Journaled,
     execVars
<1>9. JournaledRunIsRunning'
  BY <1>a, Sentinels DEF IndInv, TypeOK, JournaledRunIsRunning, Publishes, Journaled,
     execVars
<1>10. OneStatusEvent'
  BY SMTT(30), <1>a, TablesTyped, InvParts DEF OneStatusEvent, StatusIsTerminal,
     Publishes, Journaled
<1>11. LaunchOnce'
  BY SMTT(30), Sentinels, InvParts DEF LaunchOnce, NonTerminal, StatusIsTerminal,
     Publishes, execVars
<1>12. LeavesSettled'
  BY SMTT(30), InvParts DEF TypeOK, LeavesSettled, StatusIsTerminal, Publishes, execVars
<1>13. StartupCovers'
  BY SMTT(30), Sentinels, InvParts DEF TypeOK, StartupCovers, NonTerminal,
     StatusIsTerminal, Publishes, execVars
<1>14. NoStrandedRun'
  BY SMTT(30), <1>a, Sentinels, InvParts DEF TypeOK, NoStrandedRun, StatusIsTerminal,
     Publishes, Journaled, execVars, Registered
<1>. QED  BY <1>1, <1>2, <1>3, <1>4, <1>5, <1>6, <1>7, <1>8, <1>9, <1>10, <1>11,
            <1>12, <1>13, <1>14 DEF IndInv

(* Recording a cleanup failure preserves the invariant.                    *)
LEMMA PostponesStep ==
    ASSUME IndInv, NEW r \in Runs, held[r] # NoRow, Postpones(r)
    PROVE  IndInv'
<1>a. Journaled(r)
  BY HolderIsJournaled
<1>b. /\ runs[r].detach => runs[r].sandbox # NoRow
      /\ runs[r].sandbox # NoRow => RunOf[runs[r].sandbox] = r
      /\ journal[r].sandbox # NoRow => RunOf[journal[r].sandbox] = r
  BY <1>a, Sentinels, InvParts DEF RowsOwned, RowOf, Journaled
<1>1. TaskRunsOnce'
  BY InvParts DEF TaskRunsOnce, Postpones, execVars
<1>2. TypeOK'
  BY SMTT(30), InvParts DEF TypeOK, Postpones, execVars
<1>3. RowsOwned'
  BY SMTT(30), <1>a, InvParts DEF RowsOwned, RowOf, Postpones, Journaled, execVars
<1>4. Registered'
  BY SMTT(30), InvParts DEF Registered, Postpones, execVars
<1>5. SnapshotsFresh'
  BY SMTT(30), <1>a, InvParts DEF SnapshotsFresh, StatusIsTerminal, Postpones,
     Journaled, execVars
<1>6. UnstagedNoJournal'
  BY SMTT(30), <1>a, InvParts DEF UnstagedNoJournal, Postpones, Journaled, execVars
<1>7. BegunIsCurrent'
  BY SMTT(30), <1>a, InvParts DEF BegunIsCurrent, NonTerminal, Postpones, Journaled,
     execVars
<1>8. HeldIsJournaled'
  BY SMTT(30), InvParts DEF HeldIsJournaled, Postpones
<1>9. JournaledRunIsRunning'
  BY SMTT(30), <1>a, Sentinels, InvParts DEF TypeOK, JournaledRunIsRunning, Postpones,
     Journaled, execVars
<1>10. OneStatusEvent'
  BY <1>a, Sentinels DEF IndInv, TypeOK, OneStatusEvent, StatusIsTerminal, Postpones,
     Journaled, execVars
<1>11. LaunchOnce'
  BY SMTT(30), <1>a, Sentinels, InvParts DEF TypeOK, LaunchOnce, NonTerminal,
     StatusIsTerminal, BeforeTask, Preparing, Postpones, Journaled, execVars,
     UnstagedNoJournal, Registered
<1>12. LeavesSettled'
  BY SMTT(30), InvParts DEF TypeOK, LeavesSettled, Postpones, execVars
<1>13. StartupCovers'
  BY SMTT(30), InvParts DEF TypeOK, StartupCovers, NonTerminal, Postpones, execVars
<1>14. NoStrandedRun'
  BY SMTT(30), <1>a, Sentinels, InvParts DEF TypeOK, NoStrandedRun, StatusIsTerminal,
     Postpones, Journaled, execVars, Registered
<1>. QED  BY <1>1, <1>2, <1>3, <1>4, <1>5, <1>6, <1>7, <1>8, <1>9, <1>10, <1>11,
            <1>12, <1>13, <1>14 DEF IndInv

(* FinalizeProjectRunCompletion publishes the staged result.               *)
LEMMA FinalizeStep ==
    ASSUME IndInv, NEW r \in Runs, Finalize(r)
    PROVE  Publishes(r) /\ IndInv'
<1>0. held[r] # NoRow /\ box' \in [Requests -> Boxes]
  BY InvParts DEF Finalize, TypeOK
<1>1. Publishes(r)
  BY <1>0, FinalizePublishes, Zenon DEF Finalize
<1>. QED  BY <1>1, PublishesStep DEF Finalize

(* AbandonCompletion publishes the staged result.                          *)
LEMMA AbandonCommitStep ==
    ASSUME IndInv, NEW r \in Runs, AbandonCommit(r)
    PROVE  Publishes(r) /\ IndInv'
<1>0. held[r] # NoRow /\ box' \in [Requests -> Boxes]
  BY InvParts DEF AbandonCommit, TypeOK
<1>1. Publishes(r)
  BY <1>0, FinalizePublishes, Zenon DEF AbandonCommit
<1>. QED  BY <1>1, PublishesStep DEF AbandonCommit

(* A failed cleanup is retried or, at the bound, abandoned.                *)
LEMMA CleanupFailsStep ==
    ASSUME IndInv, NEW r \in Runs, CleanupFails(r)
    PROVE  (Publishes(r) \/ Postpones(r)) /\ IndInv'
<1>. DEFINE attempt == held[r].completion.attempt + 1
<1>1. held[r] # NoRow
  BY DEF CleanupFails
<1>2. CASE attempt < MaxAttempts
  BY <1>1, <1>2, RetryPostpones, PostponesStep
<1>3. CASE ~(attempt < MaxAttempts)
  <2>1. Publishes(r)
    BY <1>1, <1>3, CleanupFailsBoxed, FinalizePublishes, Zenon DEF CleanupFails
  <2>. QED  BY <1>1, <2>1, PublishesStep
<1>. QED  BY <1>2, <1>3

(* RetryDue preserves the invariant.                                       *)
LEMMA RetryDueStep ==
    ASSUME IndInv, NEW r \in Runs, RetryDue(r)
    PROVE  IndInv'
<1>a. PICK c \in Completion :
        /\ c.target = journal[r].target /\ c.sandbox = journal[r].sandbox
        /\ journal' = [journal EXCEPT ![r] = c]
  BY RetryKeepsTarget
<1>d. /\ journal[r] # NoRow
      /\ UNCHANGED <<runs, statusEvents, box, taskStarts, execVars, active, held,
                   daemon, todo, crashes>>
  BY DEF RetryDue
<1>1. Registered' /\ SnapshotsFresh' /\ OneStatusEvent' /\ TaskRunsOnce'
  BY InvParts DEF Registered, SnapshotsFresh, StatusIsTerminal, OneStatusEvent,
     TaskRunsOnce, RetryDue, storeVars, execVars
<1>2. TypeOK'
  BY <1>a, <1>d, Sentinels, InvParts DEF TypeOK, execVars
<1>3. RowsOwned'
  BY SMTT(30), <1>a, <1>d, InvParts DEF RowsOwned, execVars
<1>4. UnstagedNoJournal'
  BY <1>a, <1>d, Sentinels, InvParts DEF TypeOK, UnstagedNoJournal, Unstaged, Preparing,
     Launching, execVars, Registered
<1>5. BegunIsCurrent'
  BY SMTT(30), <1>a, <1>d, Sentinels, InvParts DEF TypeOK, BegunIsCurrent, NonTerminal,
     StatusIsTerminal, execVars, Registered
<1>6. HeldIsJournaled'
  BY <1>a, <1>d, Sentinels, InvParts DEF TypeOK, HeldIsJournaled, execVars
<1>7. JournaledRunIsRunning'
  BY <1>a, <1>d, Sentinels, InvParts DEF TypeOK, JournaledRunIsRunning, execVars
<1>8. LaunchOnce'
  BY SMTT(30), <1>a, <1>d, InvParts DEF LaunchOnce, NonTerminal, execVars
<1>9. LeavesSettled'
  BY <1>a, <1>d, Sentinels, InvParts DEF TypeOK, LeavesSettled, StatusIsTerminal,
     execVars, Registered
<1>10. StartupCovers'
  BY SMTT(30), <1>a, <1>d, InvParts DEF StartupCovers, NonTerminal, execVars
<1>11. NoStrandedRun'
  BY SMTT(30), <1>a, <1>d, Sentinels, InvParts DEF TypeOK, NoStrandedRun,
     StatusIsTerminal, execVars, Registered
<1>. QED  BY <1>1, <1>2, <1>3, <1>4, <1>5, <1>6, <1>7, <1>8, <1>9, <1>10, <1>11 DEF
            IndInv

----------------------------------------------------------------------------
(* Startup reconciliation preserves the invariant.                         *)

(* ListStaleRuns preserves the invariant.                                  *)
LEMMA ListStaleRunsStep ==
    ASSUME IndInv, ListStaleRuns
    PROVE  IndInv'
<1>a. \A r \in Runs : active[r] = NoRow
  BY SMTT(30), InvParts DEF Registered, StartupCovers, Early, ListStaleRuns, TypeOK,
     Executing, Preparing, Launching, Completing
<1>b. \A r \in Runs : runs[r] # Absent => runs[r] \in Row
  BY InvParts DEF TypeOK
<1>c. \A row \in Row : row.status \in {"pending", "running"} \cup Terminal /\ row # NoRow
  BY DEF Row, Statuses
<1>1. /\ Registered' /\ SnapshotsFresh' /\ UnstagedNoJournal' /\ BegunIsCurrent'
      /\ HeldIsJournaled' /\ JournaledRunIsRunning' /\ OneStatusEvent'
      /\ LaunchOnce' /\ TaskRunsOnce'
  BY Frame DEF ListStaleRuns, storeVars, execVars
<1>2. TypeOK'
  BY <1>a, <1>b, <1>c, InvParts DEF TypeOK, ListStaleRuns, storeVars, execVars
<1>3. RowsOwned'
  BY <1>a, <1>b, <1>c, InvParts DEF TypeOK, RowsOwned, RowOf, ListStaleRuns, storeVars,
     execVars
<1>4. LeavesSettled'
  BY <1>a, <1>b, <1>c, InvParts DEF TypeOK, LeavesSettled, StatusIsTerminal, Registered,
     ListStaleRuns, storeVars, execVars
<1>5. StartupCovers'
  BY <1>a, <1>b, <1>c, InvParts DEF TypeOK, StartupCovers, Early, NonTerminal,
     StatusIsTerminal, Registered, ListStaleRuns, storeVars, execVars
<1>6. NoStrandedRun'
  BY <1>a, <1>b, <1>c, InvParts DEF TypeOK, NoStrandedRun, StatusIsTerminal, Registered,
     ListStaleRuns, storeVars, execVars
<1>. QED  BY <1>1, <1>2, <1>3, <1>4, <1>5, <1>6 DEF IndInv

(* Startup re-attaches a detached run without a staged result.             *)
LEMMA ReattachStep ==
    ASSUME IndInv, NEW r \in Runs, ReconcileRun(r),
           todo[r].detach, journal[r] = NoRow
    PROVE  IndInv'
<1>a. /\ todo[r] \in Row /\ todo[r] # NoRow /\ active[r] = NoRow /\ runs[r] \in Row
      /\ daemon \in {"reconcilePending", "reconcileRunning"}
      /\ todo[r].status = (IF daemon = "reconcilePending" THEN "pending" ELSE "running")
      /\ daemon = "reconcileRunning" => runs[r].status # "pending"
  BY InvParts DEF TypeOK, StartupCovers, ReconcileRun
<1>b. todo' = [todo EXCEPT ![r] = NoRow]
      /\ UNCHANGED <<box, taskStarts, target, cancelled, held, daemon, crashes>>
  BY DEF ReconcileRun
<1>c. \A q \in Requests : pc[q] \in Executing => RunOf[q] # r
  BY SMTT(30), <1>a, InvParts DEF Registered
<1>d. /\ todo[r].sandbox \in Requests /\ RunOf[todo[r].sandbox] = r
      /\ daemon = "reconcileRunning" /\ RowOf(r, todo[r])
  BY <1>a, InvParts DEF RowsOwned, RowOf, Row
<1>e. /\ active' = [active EXCEPT ![r] = todo[r].sandbox]
      /\ pc' = [pc EXCEPT ![todo[r].sandbox] = "follow"]
      /\ snap' = [snap EXCEPT ![todo[r].sandbox] = todo[r]]
      /\ UNCHANGED <<runs, journal, statusEvents>>
  BY <1>a DEF ReconcileRun, storeVars
<1>f. \A q \in Requests : pc[q] # "begun"
  BY <1>d, InvParts DEF StartupCovers
<1>1. HeldIsJournaled' /\ JournaledRunIsRunning' /\ OneStatusEvent' /\ TaskRunsOnce'
  BY SMTT(30), InvParts DEF HeldIsJournaled, JournaledRunIsRunning, OneStatusEvent,
     StatusIsTerminal, TaskRunsOnce, ReconcileRun, storeVars, execVars
<1>2. TypeOK'
  BY ZenonT(30), <1>a, <1>b, <1>c, <1>d, <1>e, <1>f, InvParts DEF TypeOK, Executing, Launching,
     Completing
<1>3. RowsOwned'
  BY SMTT(30), <1>b, <1>e, InvParts DEF RowsOwned, RowOf
<1>4. Registered'
  BY SMTT(30), <1>a, <1>b, <1>c, <1>d, <1>e, <1>f, InvParts DEF TypeOK, Registered,
     Executing, Preparing, Completing
<1>5. SnapshotsFresh'
  BY SMTT(30), <1>a, <1>e, InvParts DEF TypeOK, SnapshotsFresh, Bound
<1>6. UnstagedNoJournal'
  BY SMTT(30), <1>b, <1>c, <1>d, <1>e, InvParts DEF UnstagedNoJournal, Unstaged,
     Launching, Registered
<1>7. BegunIsCurrent'
  BY SMTT(30), <1>a, <1>d, <1>e, <1>f, InvParts DEF BegunIsCurrent
<1>8. LaunchOnce'
  BY SMTT(30), <1>b, <1>e, InvParts DEF LaunchOnce, NonTerminal, BeforeTask, Preparing
<1>9. LeavesSettled'
  BY SMTT(30), <1>d, <1>e, InvParts DEF LeavesSettled
<1>10. StartupCovers'
  BY SMTT(30), <1>b, <1>d, <1>e, InvParts DEF TypeOK, StartupCovers, Early, NonTerminal
<1>11. NoStrandedRun'
  BY <1>a, <1>b, <1>f DEF NoStrandedRun, Registered
<1>. QED  BY <1>1, <1>2, <1>3, <1>4, <1>5, <1>6, <1>7, <1>8, <1>9, <1>10,
             <1>11 DEF IndInv

(* Startup leaves a detached run with a staged result alone.               *)
LEMMA AlreadyStagedStep ==
    ASSUME IndInv, NEW r \in Runs, ReconcileRun(r),
           todo[r].detach /\ journal[r] # NoRow
    PROVE  IndInv'
<1>a. /\ todo[r] \in Row /\ todo[r] # NoRow /\ active[r] = NoRow /\ runs[r] \in Row
      /\ daemon \in {"reconcilePending", "reconcileRunning"}
      /\ todo[r].status = (IF daemon = "reconcilePending" THEN "pending" ELSE "running")
      /\ daemon = "reconcileRunning" => runs[r].status # "pending"
  BY SMTT(30), InvParts DEF TypeOK, StartupCovers, ReconcileRun
<1>b. todo' = [todo EXCEPT ![r] = NoRow]
      /\ UNCHANGED <<box, taskStarts, target, cancelled, held, daemon, crashes>>
  BY DEF ReconcileRun
<1>c. \A q \in Requests : pc[q] \in Executing => RunOf[q] # r
  BY SMTT(30), <1>a, InvParts DEF Registered
<1>d. UNCHANGED <<runs, journal, statusEvents, active, pc, snap>>
  BY DEF ReconcileRun, storeVars
<1>1. /\ Registered' /\ SnapshotsFresh' /\ UnstagedNoJournal' /\ BegunIsCurrent'
      /\ HeldIsJournaled' /\ JournaledRunIsRunning' /\ OneStatusEvent'
      /\ LaunchOnce' /\ TaskRunsOnce'
  BY <1>b, <1>d, Frame
<1>5. LeavesSettled' /\ NoStrandedRun'
  BY <1>b, <1>d, InvParts DEF LeavesSettled, NoStrandedRun, StatusIsTerminal
<1>2. TypeOK'
  BY ZenonT(30), <1>a, <1>b, <1>d, InvParts DEF TypeOK
<1>3. RowsOwned'
  <2>1. RowsOwned /\ todo \in [Runs -> Row \cup {NoRow}]
    BY InvParts DEF TypeOK
  <2> QED
    BY SMTT(30), <1>b, <1>d, <2>1 DEF RowsOwned
<1>4. StartupCovers'
  BY SMTT(30), <1>b, <1>d, InvParts DEF StartupCovers, NonTerminal,
     JournaledRunIsRunning
<1>. QED  BY <1>1, <1>2, <1>3, <1>4, <1>5 DEF IndInv

(* Startup stages any other listed run as failed.                          *)
LEMMA StageInterruptedStep ==
    ASSUME IndInv, NEW r \in Runs, ReconcileRun(r),
           ~todo[r].detach
    PROVE  IndInv'
<1>a. /\ todo[r] \in Row /\ todo[r] # NoRow /\ active[r] = NoRow /\ runs[r] \in Row
      /\ daemon \in {"reconcilePending", "reconcileRunning"}
      /\ todo[r].status = (IF daemon = "reconcilePending" THEN "pending" ELSE "running")
      /\ daemon = "reconcileRunning" => runs[r].status # "pending"
  BY SMTT(30), InvParts DEF TypeOK, StartupCovers, ReconcileRun
<1>b. todo' = [todo EXCEPT ![r] = NoRow]
      /\ UNCHANGED <<box, taskStarts, target, cancelled, held, daemon, crashes>>
  BY DEF ReconcileRun
<1>c. \A q \in Requests : pc[q] \in Executing => RunOf[q] # r
  BY SMTT(30), <1>a, InvParts DEF Registered
<1>d. UNCHANGED <<active, pc, snap>>
  BY DEF ReconcileRun
<1>f. Stages(r)
  BY InterruptedStages
<1>e. /\ \A q \in Requests : pc[q] \notin {"begun"} \cup Preparing \cup Launching
      /\ held[r] # NoRow => journal[r] # NoRow
  BY <1>a, InvParts DEF StartupCovers, Early, HeldIsJournaled, Preparing, Launching
<1>1. TaskRunsOnce'
  BY InvParts DEF TaskRunsOnce, ReconcileRun, storeVars, execVars
<1>2. TypeOK'
  BY SMTT(30), <1>b, <1>d, <1>e, <1>f, InvParts DEF Stages, TypeOK
<1>3. RowsOwned'
  <2>1. \A s \in Runs : todo'[s] # NoRow => todo'[s] = todo[s]
    BY <1>b, TablesTyped
  <2>. QED  BY <1>a, <1>b, <1>d, <1>f, <2>1, StagesOwned, InvParts DEF RowsOwned
<1>4. Registered'
  BY SMTT(30), <1>d, <1>f, InvParts DEF Stages, TypeOK, Registered
<1>5. SnapshotsFresh'
  <2>1. \A q \in Requests : /\ pc[q] \notin Bound /\ pc[q] # "markWrite"
                             /\ pc[q] # "bindWrite" /\ pc[q] # "launch"
                             /\ pc[q] # "detachWrite" /\ pc[q] # "task"
    BY <1>e DEF Bound, Preparing, Launching
  <2>2. \A q \in Requests : pc[q] \in {"follow", "interrupt", "stage"} => snap[q] # NoRow
    BY InvParts DEF SnapshotsFresh
  <2>. QED  BY <1>d, <2>1, <2>2 DEF SnapshotsFresh
<1>6. UnstagedNoJournal'
  BY SMTT(30), <1>a, <1>d, <1>f, InvParts DEF Stages, TypeOK, UnstagedNoJournal,
     Unstaged, Preparing, Launching, Registered
<1>7. BegunIsCurrent'
  BY SMTT(30), <1>d, <1>e, <1>f, InvParts DEF Stages, TypeOK, BegunIsCurrent
<1>8. HeldIsJournaled'
  BY SMTT(30), <1>b, <1>f, TablesTyped, InvParts DEF Stages, HeldIsJournaled
<1>9. JournaledRunIsRunning'
  BY SMTT(30), <1>f, TablesTyped, InvParts DEF Stages, JournaledRunIsRunning
<1>10. OneStatusEvent'
  BY SMTT(30), <1>f, Sentinels, TablesTyped, InvParts DEF Stages, OneStatusEvent,
     StatusIsTerminal
<1>11. LaunchOnce'
  BY SMTT(30), <1>b, <1>d, <1>e, <1>f, InvParts DEF Stages, TypeOK, LaunchOnce,
     BeforeTask, Launching
<1>12. LeavesSettled'
  BY SMTT(30), <1>a, <1>d, <1>f, InvParts DEF Stages, TypeOK, LeavesSettled
<1>13. StartupCovers'
  BY SMTT(30), <1>b, <1>d, <1>f, Sentinels, InvParts DEF Stages, TypeOK, StartupCovers,
     NonTerminal, StatusIsTerminal, JournaledRunIsRunning
<1>14. NoStrandedRun'
  BY <1>a, <1>b, <1>c, <1>d, <1>e, <1>f, Sentinels, InvParts DEF Stages, TypeOK,
     NoStrandedRun, StatusIsTerminal, Registered
<1>. QED  BY ZenonT(30), <1>1, <1>2, <1>3, <1>4, <1>5, <1>6, <1>7, <1>8, <1>9, <1>10,
             <1>11, <1>12, <1>13, <1>14 DEF IndInv

(* Reconciled preserves the invariant.                                     *)
LEMMA ReconciledStep ==
    ASSUME IndInv, Reconciled
    PROVE  IndInv'
<1>1. /\ Registered' /\ SnapshotsFresh' /\ UnstagedNoJournal' /\ BegunIsCurrent'
      /\ HeldIsJournaled' /\ JournaledRunIsRunning' /\ OneStatusEvent'
      /\ LaunchOnce' /\ TaskRunsOnce' /\ RowsOwned'
  BY Frame, RowsFrame DEF Reconciled, storeVars, execVars
<1>2. TypeOK'
  BY InvParts DEF TypeOK, Reconciled, storeVars, execVars
<1>3. LeavesSettled'
  BY InvParts DEF TypeOK, LeavesSettled, StatusIsTerminal, Registered, Reconciled,
     storeVars, execVars
<1>4. StartupCovers'
  BY SMTT(30), InvParts DEF TypeOK, StartupCovers, Early, NonTerminal, StatusIsTerminal,
     Registered, Reconciled, storeVars, execVars
<1>5. NoStrandedRun'
  BY InvParts DEF TypeOK, NoStrandedRun, StatusIsTerminal, StartupCovers, NonTerminal,
     Registered, Reconciled, storeVars, execVars
<1>. QED  BY <1>1, <1>2, <1>3, <1>4, <1>5 DEF IndInv

(* Startup handles one listed run.                                         *)
LEMMA ReconcileRunStep ==
    ASSUME IndInv, NEW r \in Runs, ReconcileRun(r)
    PROVE  IndInv'
<1>1. active[r] = NoRow
  BY InvParts DEF StartupCovers, ReconcileRun
<1>2. CASE todo[r].detach /\ journal[r] = NoRow
  BY <1>2, ReattachStep
<1>3. CASE todo[r].detach /\ journal[r] # NoRow
  BY <1>3, AlreadyStagedStep
<1>4. CASE ~todo[r].detach
  BY <1>4, StageInterruptedStep
<1>. QED  BY <1>2, <1>3, <1>4

----------------------------------------------------------------------------
(* The invariant, and what follows from it.                                *)

(* The invariant holds initially.                                          *)
LEMMA InitInv == Init => IndInv
<1>. SUFFICES ASSUME Init PROVE IndInv
  OBVIOUS
<1>1. TypeOK
  BY SMTT(30), CrashesBounded DEF Init, TypeOK, Boxes, Terminal
<1>2. RowsOwned /\ Registered /\ SnapshotsFresh
  BY DEF Init, RowsOwned, Registered, SnapshotsFresh, Bound, Executing, Preparing,
     Launching, Completing
<1>3. UnstagedNoJournal /\ BegunIsCurrent /\ HeldIsJournaled /\ JournaledRunIsRunning
  BY DEF Init, UnstagedNoJournal, Unstaged, Preparing, Launching, BegunIsCurrent,
     HeldIsJournaled, JournaledRunIsRunning
<1>4. OneStatusEvent /\ LaunchOnce /\ TaskRunsOnce /\ LeavesSettled
  BY SMTT(30) DEF Init, OneStatusEvent, LaunchOnce, BeforeTask, Preparing, TaskRunsOnce,
     LeavesSettled, StatusIsTerminal
<1>5. StartupCovers /\ NoStrandedRun
  BY DEF Init, StartupCovers, NoStrandedRun, NonTerminal, StatusIsTerminal
<1>. QED  BY <1>1, <1>2, <1>3, <1>4, <1>5 DEF IndInv

(* Every step preserves the invariant.                                     *)
LEMMA NextInv == IndInv /\ [Next]_vars => IndInv'
<1>. SUFFICES ASSUME IndInv, [Next]_vars PROVE IndInv'
  OBVIOUS
<1>1. ASSUME NEW q \in Requests, BeginRun(q) PROVE IndInv'
  BY <1>1, BeginRunStep
<1>2. ASSUME NEW q \in Requests, Execute(q) PROVE IndInv'
  <2>1. CASE register(q)  BY <2>1, registerStep
  <2>2. CASE unregister(q)  BY <2>2, unregisterStep
  <2>3. CASE prepareProjectRun(q)  BY <2>3, prepareProjectRunMoves, AdvancesStep
  <2>4. CASE CreateSandbox(q)  BY <2>4, CreateSandboxMoves, AdvancesStep
  <2>5. CASE BindSandboxRead(q)  BY <2>5, BindSandboxReadMoves, AdvancesStep, ReadsStep
  <2>6. CASE BindSandboxWrite(q)
    BY <2>6, BindSandboxWriteWrites, AdvancesStep, WritesStep
  <2>7. CASE startProjectRunSandbox(q)
    BY <2>7, startProjectRunSandboxMoves, AdvancesStep
  <2>8. CASE MarkRunningRead(q)  BY <2>8, MarkRunningReadMoves, AdvancesStep, ReadsStep
  <2>9. CASE MarkRunningWrite(q)  BY <2>9, MarkRunningWriteWrites, WritesStep
  <2>10. CASE LaunchTask(q)  BY <2>10, LaunchTaskStep
  <2>11. CASE persistDetachedRunFields(q)
    BY <2>11, persistDetachedRunFieldsWrites, WritesStep
  <2>12. CASE Disconnect(q)  BY <2>12, DisconnectMoves, LeavesStep
  <2>13. CASE ReattachFails(q)  BY <2>13, ReattachFailsMoves, AdvancesStep
  <2>14. CASE StageReattachFailure(q)
    BY <2>14, StageReattachFailureStages, ExecutorStagesStep
  <2>15. CASE CompleteRead(q)  BY <2>15, CompleteReadMoves, ReadsStep, LeavesStep
  <2>16. CASE CompleteStage(q)  BY <2>16, CompleteStageStages, ExecutorStagesStep
  <2>17. CASE CompleteReturns(q)  BY <2>17, CompleteReturnsMoves, LeavesStep
  <2>. QED  BY <1>2, <2>1, <2>2, <2>3, <2>4, <2>5, <2>6, <2>7, <2>8, <2>9,
               <2>10, <2>11, <2>12, <2>13, <2>14, <2>15, <2>16, <2>17 DEF Execute
<1>3. ASSUME NEW q \in Requests, TaskEnds(q) \/ SandboxDies(q) \/ RecoverDeletion(q)
      PROVE  IndInv'
  BY <1>3, TaskEndsMoves, AdvancesStep, SandboxDiesStep, RecoverDeletionStep
<1>4. ASSUME NEW r \in Runs, Manage(r) PROVE IndInv'
  BY <1>4, ProcessBeginHolds, CleanupSucceedsHolds, HoldsStep, FinalizeStep,
     CleanupFailsStep, RetryDueStep, AbandonCommitStep DEF Manage
<1>5. ASSUME NEW r \in Runs, StopActiveRun(r) \/ AbandonBegin(r) PROVE IndInv'
  BY <1>5, StopActiveRunStep, AbandonBeginHolds, HoldsStep
<1>6. CASE Shutdown \/ Crash
  BY <1>6, ShutdownStep, CrashStep
<1>7. CASE Startup
  BY <1>7, RestartStep, ListStaleRunsStep, ReconcileRunStep, ReconciledStep
     DEF Startup
<1>8. CASE UNCHANGED vars
  <2>1. /\ Registered' /\ SnapshotsFresh' /\ UnstagedNoJournal' /\ BegunIsCurrent'
        /\ HeldIsJournaled' /\ JournaledRunIsRunning' /\ OneStatusEvent'
        /\ LaunchOnce' /\ TaskRunsOnce' /\ RowsOwned' /\ LeavesSettled'
        /\ StartupCovers' /\ NoStrandedRun'
    BY <1>8, Frame, RowsFrame, PhaseFrame DEF vars
  <2>2. TypeOK'
    BY <1>8, InvParts DEF vars, TypeOK
  <2>. QED  BY <2>1, <2>2 DEF IndInv
<1>. QED  BY <1>1, <1>2, <1>3, <1>4, <1>5, <1>6, <1>7, <1>8 DEF Next

(* The inductive invariant holds in every reachable state.                 *)
THEOREM Invariance == Spec => []IndInv
BY InitInv, NextInv, PTL DEF Spec

(* Every reachable state is well typed, for any number of runs, requests,  *)
(* cleanup attempts and crashes.                                           *)
THEOREM TypeCorrect == Spec => []TypeOK
BY Invariance, PTL, InvParts

(* StageProjectRunCompletion and the finalizing transactions keep the      *)
(* journal and the run table in step.                                      *)
THEOREM JournalInStep == Spec => []JournaledRunIsRunning
BY Invariance, PTL, InvParts

(* Exactly one terminal status event is appended per terminal run.         *)
THEOREM StatusEventOnce == Spec => []OneStatusEvent
BY Invariance, PTL, InvParts

(* A run's task is launched at most once, whatever StartRun retries,       *)
(* daemon crashes and re-attachments happen.                               *)
THEOREM ExecutedOnce == Spec => []TaskRunsOnce
BY Invariance, PTL, InvParts

(* Once a daemon serves, every unfinished run has somebody responsible.    *)
THEOREM NothingStranded == Spec => []NoStrandedRun
BY Invariance, PTL, InvParts

----------------------------------------------------------------------------
(* The completion protocol implements RunOutcome                           *)

(* Nothing a client sees of run r changes.                                 *)
SameOutcome(r) ==
    /\ StatusIsTerminal(runs[r])' <=> StatusIsTerminal(runs[r])
    /\ StatusIsTerminal(runs[r]) => runs'[r].status = runs[r].status
    /\ ~StatusIsTerminal(runs[r]) =>
          /\ journal'[r] = NoRow <=> journal[r] = NoRow
          /\ journal[r] # NoRow => journal'[r].target = journal[r].target

(* Steps that change no outcome are stutters of RunOutcome.                *)
LEMMA SameForAll ==
    ASSUME \A r \in Runs : SameOutcome(r)
    PROVE  UNCHANGED <<decision, published>>
<1>1. decision' = decision
  BY DEF SameOutcome, decision, StatusIsTerminal
<1>2. published' = published
  BY DEF SameOutcome, published
<1>. QED  BY <1>1, <1>2

(* Staging decides an open run or changes no outcome.                      *)
LEMMA StagesDecides ==
    ASSUME IndInv, NEW r \in Runs, Stages(r)
    PROVE  [Outcome!Next]_(Outcome!vars)
<1>1. CASE UNCHANGED <<runs, journal>>
  <2>1. UNCHANGED <<decision, published>>
    BY <1>1, SameForAll DEF SameOutcome, StatusIsTerminal
  <2>. QED  BY <2>1 DEF Outcome!vars
<1>2. CASE ~UNCHANGED <<runs, journal>>
  <2>1. PICK c \in Completion, row \in Row :
          /\ ~StatusIsTerminal(runs[r]) /\ journal[r] = NoRow
          /\ journal' = [journal EXCEPT ![r] = c]
          /\ row.status = "running" /\ runs' = [runs EXCEPT ![r] = row]
    BY <1>2 DEF Stages
  <2>2. c.target \in Terminal /\ c # NoRow
    BY DEF Completion
  <2>3. published' = published
    BY <2>1, Sentinels, InvParts DEF published, StatusIsTerminal, TypeOK
  <2>4. decision' = [decision EXCEPT ![r] = c.target]
    <3>1. /\ journal'[r] = c /\ runs'[r] = row
          /\ \A x \in Runs : x # r => journal'[x] = journal[x] /\ runs'[x] = runs[x]
      BY <2>1, InvParts DEF TypeOK
    <3>2. ~StatusIsTerminal(row)
      BY <2>1, Sentinels DEF StatusIsTerminal
    <3>3. \A x \in Runs : decision'[x] = IF x = r THEN c.target ELSE decision[x]
      BY <2>2, <3>1, <3>2 DEF decision, StatusIsTerminal
    <3>4. /\ decision = [x \in Runs |-> decision[x]]
          /\ decision' = [x \in Runs |-> decision'[x]]
      BY DEF decision
    <3>. QED  BY <3>3, <3>4
  <2>5. decision[r] = "open"
    BY <2>1 DEF decision
  <2>6. Outcome!Decide(r)
    BY <2>2, <2>3, <2>4, <2>5, Zenon DEF Outcome!Decide, Outcome!Results, Terminal
  <2>. QED  BY <2>6 DEF Outcome!Next
<1>. QED  BY <1>1, <1>2

(* A finalizing transaction publishes the decided result.                  *)
LEMMA PublishesPublishes ==
    ASSUME IndInv, NEW r \in Runs, held[r] # NoRow, Publishes(r)
    PROVE  [Outcome!Next]_(Outcome!vars)
<1>1. Journaled(r)
  BY HolderIsJournaled
<1>2. PICK row \in Row :
        /\ row.status = journal[r].target /\ row.status \in Terminal
        /\ runs' = [runs EXCEPT ![r] = row]
  BY DEF Publishes
<1>3. journal' = [journal EXCEPT ![r] = NoRow]
  BY DEF Publishes
<1>4. ~StatusIsTerminal(runs[r]) /\ StatusIsTerminal(row)
  BY <1>1, <1>2, Sentinels DEF Journaled, StatusIsTerminal
<1>5. decision' = decision
  BY <1>1, <1>2, <1>3, <1>4, InvParts DEF decision, Journaled, TypeOK
<1>6. published' = published \cup {r}
  BY SMTT(30), <1>2, <1>4, InvParts DEF published, TypeOK
<1>7. decision[r] # "open" /\ r \notin published
  BY <1>1, <1>2, <1>4 DEF decision, published, Journaled, Terminal
<1>8. Outcome!Publish(r)
  BY <1>5, <1>6, <1>7 DEF Outcome!Publish
<1>. QED  BY <1>8 DEF Outcome!Next

(* Every step is a RunOutcome step or a stutter.                           *)
LEMMA StepRefines ==
    ASSUME IndInv, [Next]_vars
    PROVE  [Outcome!Next]_(Outcome!vars)
<1>1. CASE UNCHANGED <<runs, journal>>
  <2>1. UNCHANGED <<decision, published>>
    BY <1>1, SameForAll DEF SameOutcome, StatusIsTerminal
  <2>. QED  BY <2>1 DEF Outcome!vars
<1>2. ASSUME NEW q \in Requests, BeginRun(q) PROVE [Outcome!Next]_(Outcome!vars)
  <2>1. Inserts(q) /\ journal' = journal
    BY <1>2, BeginRunInserts, Zenon DEF BeginRun
  <2>2. \A r \in Runs : SameOutcome(r)
    BY SMTT(30), <2>1, Sentinels, InvParts DEF TypeOK, Inserts, SameOutcome,
       StatusIsTerminal
  <2>. QED  BY <2>2, SameForAll DEF Outcome!vars
<1>3. ASSUME NEW q \in Requests, Writes(q) PROVE [Outcome!Next]_(Outcome!vars)
  <2>1. Untouched(q)
    BY <1>3, UnstagedUntouched DEF Writes
  <2>2. PICK row \in Row : row.status \in {"pending", "running"}
                         /\ runs' = [runs EXCEPT ![RunOf[q]] = row]
    BY <1>3 DEF Writes, Rewrites
  <2>3. journal' = journal
    BY <1>3 DEF Writes
  <2>4. \A r \in Runs : SameOutcome(r)
    BY <2>1, <2>2, <2>3, Sentinels, InvParts DEF TypeOK, Untouched, SameOutcome,
       StatusIsTerminal
  <2>. QED  BY <2>4, SameForAll DEF Outcome!vars
<1>4. ASSUME NEW q \in Requests, Advances(q) \/ Reads(q) \/ Leaves(q)
      PROVE  [Outcome!Next]_(Outcome!vars)
  BY <1>1, <1>4 DEF Advances, Reads, Leaves, Moves
<1>7. ASSUME NEW q \in Requests, CompleteStage(q) \/ StageReattachFailure(q)
      PROVE  [Outcome!Next]_(Outcome!vars)
  <2>1. ExecutorStages(q)
    BY <1>7, CompleteStageStages, StageReattachFailureStages
  <2>. QED  BY <2>1, StagesDecides DEF ExecutorStages
<1>8. ASSUME NEW r \in Runs, ReconcileRun(r) PROVE [Outcome!Next]_(Outcome!vars)
  <2>1. CASE ~todo[r].detach
    BY <1>8, <2>1, InterruptedStages, StagesDecides
  <2>2. CASE todo[r].detach
    BY <1>1, <1>8, <2>2 DEF ReconcileRun, storeVars
  <2>. QED  BY <2>1, <2>2
<1>9. ASSUME NEW r \in Runs, held[r] # NoRow, Postpones(r)
      PROVE  [Outcome!Next]_(Outcome!vars)
  <2>1. Journaled(r)
    BY <1>9, HolderIsJournaled
  <2>2. PICK c \in Completion : c.target = journal[r].target /\ journal' = [journal EXCEPT ![r] = c]
    BY <1>9, Zenon DEF Postpones
  <2>3. PICK row \in Row : row.status = "running" /\ runs' = [runs EXCEPT ![r] = row]
    BY <1>9, Zenon DEF Postpones
  <2>4. SameOutcome(r)
    BY <2>1, <2>2, <2>3, Sentinels, InvParts DEF TypeOK, Journaled, SameOutcome,
       StatusIsTerminal
  <2>5. ASSUME NEW x \in Runs, x # r PROVE SameOutcome(x)
    BY <2>2, <2>3, <2>5, InvParts DEF TypeOK, SameOutcome, StatusIsTerminal
  <2>. QED  BY <2>4, <2>5, SameForAll DEF Outcome!vars
<1>10. ASSUME NEW r \in Runs, Finalize(r) \/ AbandonCommit(r) \/ CleanupFails(r)
       PROVE  [Outcome!Next]_(Outcome!vars)
  <2>1. held[r] # NoRow
    BY <1>10, Zenon DEF Finalize, AbandonCommit, CleanupFails
  <2>. QED  BY <1>9, <1>10, <2>1, FinalizeStep, AbandonCommitStep, CleanupFailsStep,
              PublishesPublishes
<1>11. ASSUME NEW r \in Runs, RetryDue(r) PROVE [Outcome!Next]_(Outcome!vars)
  <2>1. PICK c \in Completion : c.target = journal[r].target /\ journal' = [journal EXCEPT ![r] = c]
    BY <1>11, RetryKeepsTarget
  <2>2. journal[r] # NoRow /\ runs' = runs
    BY <1>11 DEF RetryDue
  <2>3. SameOutcome(r)
    BY <2>1, <2>2, Sentinels, InvParts DEF TypeOK, SameOutcome, StatusIsTerminal
  <2>4. ASSUME NEW x \in Runs, x # r PROVE SameOutcome(x)
    BY <2>1, <2>2, <2>4, InvParts DEF TypeOK, SameOutcome, StatusIsTerminal
  <2>. QED  BY <2>3, <2>4, SameForAll DEF Outcome!vars
<1>12. ASSUME NEW q \in Requests, Execute(q) PROVE [Outcome!Next]_(Outcome!vars)
  <2>1. CASE CompleteStage(q) \/ StageReattachFailure(q)
    BY <1>7, <2>1
  <2>2. CASE register(q) \/ unregister(q) \/ LaunchTask(q)
    BY <1>1, <2>2 DEF register, unregister, LaunchTask, storeVars
  <2>3. CASE BindSandboxWrite(q) \/ MarkRunningWrite(q) \/ persistDetachedRunFields(q)
    BY <1>3, <1>4, <2>3, BindSandboxWriteWrites, MarkRunningWriteWrites,
       persistDetachedRunFieldsWrites
  <2>4. CASE prepareProjectRun(q) \/ CreateSandbox(q) \/ BindSandboxRead(q)
             \/ startProjectRunSandbox(q) \/ MarkRunningRead(q) \/ Disconnect(q)
             \/ ReattachFails(q) \/ CompleteRead(q) \/ CompleteReturns(q)
    BY <1>4, <2>4, prepareProjectRunMoves, CreateSandboxMoves,
       BindSandboxReadMoves, startProjectRunSandboxMoves, MarkRunningReadMoves,
       DisconnectMoves, ReattachFailsMoves, CompleteReadMoves, CompleteReturnsMoves
  <2>. QED  BY <1>12, <2>1, <2>2, <2>3, <2>4 DEF Execute
<1>13. CASE Next
  <2>1. ASSUME NEW q \in Requests, TaskEnds(q) \/ SandboxDies(q) \/ RecoverDeletion(q)
        PROVE  [Outcome!Next]_(Outcome!vars)
    BY <1>1, <2>1 DEF TaskEnds, SandboxDies, RecoverDeletion, storeVars
  <2>2. ASSUME NEW r \in Runs, StopActiveRun(r) \/ AbandonBegin(r) \/ ProcessBegin(r)
                                \/ CleanupSucceeds(r)
        PROVE  [Outcome!Next]_(Outcome!vars)
    BY <1>1, <2>2 DEF StopActiveRun, AbandonBegin, ProcessBegin,
       CleanupSucceeds, storeVars
  <2>3. ASSUME Shutdown \/ Crash \/ Restart \/ ListStaleRuns \/ Reconciled
        PROVE  [Outcome!Next]_(Outcome!vars)
    BY <1>1, <2>3 DEF Shutdown, Crash, Restart, ListStaleRuns, Reconciled, storeVars
  <2>. QED  BY <1>2, <1>8, <1>10, <1>11, <1>12, <1>13, <2>1, <2>2, <2>3 DEF
               Next, Manage, Startup
<1>14. CASE UNCHANGED vars
  BY <1>1, <1>14 DEF vars
<1>. QED  BY <1>13, <1>14

(* The completion protocol, with its crashes, retries, abandonment and     *)
(* re-attached executors, implements RunOutcome: the first staged result   *)
(* is the one that is published, and what is published never changes.      *)
THEOREM FirstWriterDecides == Spec => FirstWriterWins
<1>1. Init => Outcome!Init
  <2>1. ASSUME Init PROVE decision = [r \in Runs |-> "open"] /\ published = {}
    BY <2>1 DEF Init, decision, published, StatusIsTerminal
  <2>. QED  BY <2>1 DEF Outcome!Init
<1>2. IndInv /\ [Next]_vars => [Outcome!Next]_(Outcome!vars)
  BY StepRefines
<1>. QED  BY <1>1, <1>2, Invariance, PTL DEF Spec, FirstWriterWins, Outcome!Spec
----------------------------------------------------------------------------
(* The sandboxes, in steps of the completion manager                       *)

(* A sandbox that the cleanup of a run may touch.                          *)
Touched(r, b) ==
    /\ runs[r].sandbox = b /\ RunOf[b] = r /\ ~StatusIsTerminal(runs[r])
    /\ box[b] # "absent"

(* A transaction on one run that keeps its sandbox and policy, or ends it, *)
(* and may touch the sandbox bound to it.                                  *)
LEMMA RowsClean ==
    ASSUME IndInv, CleanInv, NEW r \in Runs, NEW row \in Row, runs[r] # Absent,
           runs' = [runs EXCEPT ![r] = row],
           \/ row.status \in Terminal
           \/ /\ row.status = "running" /\ ~StatusIsTerminal(runs[r])
              /\ row.policy = runs[r].policy /\ row.created = runs[r].created
              /\ row.sandbox = runs[r].sandbox,
           runs[r].sandbox # NoRow => row.sandbox = runs[r].sandbox,
           RunOK(r)', UNCHANGED <<active, daemon, crashes>>,
           \A b \in Requests : box'[b] = box[b] \/ Touched(r, b),
           \A s \in Runs : s # r =>
               journal'[s] = journal[s] /\ held'[s] = held[s] /\ todo'[s] = todo[s],
           \A b \in Requests :
               \/ pc'[b] = pc[b] /\ snap'[b] = snap[b]
               \/ RunOf[b] = r /\ pc[b] = "stage" /\ pc'[b] = "wait"
               \/ RunOf[b] = r /\ pc[b] = "interrupt" /\ pc'[b] = "leave"
    PROVE  CleanInv'
<1>1. /\ runs'[r] = row /\ (\A s \in Runs : s # r => runs'[s] = runs[s])
      /\ \A b \in Requests : RunOf[b] \in Runs
  BY InvParts DEF TypeOK
<1>2. StatusIsTerminal(row) <=> row.status \in Terminal
  BY Sentinels DEF StatusIsTerminal
<1>3. ASSUME NEW b \in Requests PROVE ExecutorOK(b)'
  <2>1. CASE RunOf[b] = r /\ pc'[b] = pc[b] /\ snap'[b] = snap[b]
    <3>1. ExecutorOK(b) /\ b # NoRow
      BY CleanParts
    <3>2. CASE box'[b] = box[b]
      BY SMTT(30), <1>1, <1>2, <2>1, <3>1, <3>2
         DEF ExecutorOK, SameSandbox, Terminal, StatusIsTerminal
    <3>3. CASE Touched(r, b)
      <4>1. runs[r].sandbox = b /\ row.sandbox = b
        BY <3>1, <3>3 DEF Touched
      <4>2. pc[b] \notin Fresh /\ pc[b] \notin Unbound
        BY <2>1, <3>1, <3>3, <4>1 DEF ExecutorOK, Touched
      <4>3. pc[b] \notin {"bindRead", "bindWrite"}
        BY <4>2 DEF Unbound
      <4> QED
        BY SMT, <1>1, <1>2, <2>1, <3>1, <4>1, <4>2, <4>3
           DEF ExecutorOK, SameSandbox, Terminal, StatusIsTerminal
    <3> QED
      BY <3>2, <3>3
  <2>2. CASE RunOf[b] = r /\ pc'[b] \in {"wait", "leave"} /\ pc[b] \in {"stage", "interrupt"}
    <3>1. ExecutorOK(b) /\ b # NoRow
      BY CleanParts
    <3>2. pc[b] \notin {"bindRead", "bindWrite"}
      BY <2>2
    <3>3. runs[RunOf[b]].sandbox = b => runs'[RunOf[b]].sandbox = b
      BY <1>1, <2>2, <3>1
    <3>4. CASE box'[b] = box[b]
      BY <2>2, <3>1, <3>2, <3>3, <3>4, DepartedKept
    <3>5. CASE Touched(r, b)
      <4>1. /\ pc'[b] \notin Fresh /\ pc'[b] \notin Unbound /\ pc'[b] \notin Working
            /\ pc'[b] \notin {"bindRead", "bindWrite", "complete", "stage"}
            /\ pc'[b] \notin {"markWrite", "detachWrite", "follow", "interrupt", "stage"}
        BY <2>2 DEF Fresh, Unbound, Working
      <4> QED
        BY <2>2, <3>3, <3>5, <4>1 DEF ExecutorOK, Touched
    <3> QED
      BY <3>4, <3>5
  <2>3. CASE RunOf[b] # r
    BY <1>1, <2>3, ExecutorKept, CleanParts DEF Touched
  <2> QED
    BY <2>1, <2>2, <2>3
<1>4. ASSUME NEW s \in Runs, s # r PROVE RunOK(s)'
  BY <1>1, <1>4, RunKept, CleanParts DEF BoxFits, Touched
<1>5. ASSUME NEW b \in Requests PROVE BegunOK(b)'
  <2> SUFFICES ASSUME pc'[b] = "begun", ~StatusIsTerminal(runs'[RunOf[b]]),
                      active[RunOf[b]] = NoRow \/ pc'[active[RunOf[b]]] = "leave"
               PROVE  runs'[RunOf[b]].sandbox = NoRow
    BY DEF BegunOK
  <2>1. pc[b] = "begun"
    OBVIOUS
  <2>2. active[RunOf[b]] # NoRow => active[RunOf[b]] \in Requests /\ RunOf[active[RunOf[b]]] = RunOf[b]
    BY SMT, <1>1, InvParts DEF TypeOK, Registered
  <2>3. active[RunOf[b]] # NoRow => pc[active[RunOf[b]]] # "interrupt"
    BY <2>1, <2>2, InvParts DEF BegunIsCurrent
  <2>4. active[RunOf[b]] = NoRow \/ pc[active[RunOf[b]]] = "leave"
    BY <2>2, <2>3
  <2>5. CASE RunOf[b] = r
    BY SMTT(30), <1>1, <1>2, <2>1, <2>4, <2>5, CleanParts DEF BegunOK
  <2>6. CASE RunOf[b] # r
    BY SMT, <1>1, <2>1, <2>4, <2>6, CleanParts DEF BegunOK
  <2> QED
    BY <2>5, <2>6
<1>6. ASSUME NEW s \in Runs PROVE PendingOK(s)'
  <2>1. CASE s = r
    BY <1>1, <2>1 DEF PendingOK, Terminal
  <2>2. CASE s # r
    <3>1. active[s] # NoRow => active[s] \in Requests /\ RunOf[active[s]] = s
      BY SMT, InvParts DEF TypeOK, Registered
    <3> QED
      BY <1>1, <2>2, <3>1 DEF CleanInv, PendingOK
  <2> QED
    BY <2>1, <2>2
<1> QED
  BY <1>3, <1>4, <1>5, <1>6 DEF CleanInv

(* What StageProjectRunCompletion leaves when it creates a journal row.    *)
LEMMA StagedRunOK ==
    ASSUME IndInv, CleanInv, NEW r \in Runs, runs[r] # Absent, NEW t \in Terminal,
           NEW b \in Requests \cup {NoRow}, NEW old,
           SameSandbox(old, r), ~StatusIsTerminal(runs[r]), journal[r] = NoRow,
           b # NoRow => runs[r].sandbox \in {b, NoRow},
           StageProjectRunCompletion(r, t, b, CompletionCleanupAction(old)),
           todo'[r] \in {todo[r], NoRow}, held' = held, box' = box
    PROVE  /\ RunOK(r)'
           /\ \A s \in Runs : s # r => journal'[s] = journal[s]
           /\ \E row \in Row :
                 /\ runs' = [runs EXCEPT ![r] = row]
                 /\ row.status = "running" /\ row.policy = runs[r].policy
                 /\ row.created = runs[r].created /\ row.sandbox = runs[r].sandbox
<1> DEFINE c == NewCompletion(t, b, CompletionCleanupAction(old), 0, TRUE)
           row == ProjectRun("running", runs[r].sandbox, runs[r].created, runs[r].policy,
                             FALSE, runs[r].detach)
<1>1. c.sandbox = b /\ c.action = CompletionCleanupAction(runs[r])
  BY DEF NewCompletion, CompletionCleanupAction, SameSandbox
<1>2. /\ row \in Row /\ row.status = "running" /\ row.policy = runs[r].policy
      /\ row.created = runs[r].created
      /\ row.sandbox = runs[r].sandbox /\ row # Absent /\ ~StatusIsTerminal(row)
  <2>1. runs[r] \in Row
    BY InvParts DEF TypeOK
  <2>2. /\ row \in Row /\ row.status = "running" /\ row.policy = runs[r].policy
        /\ row.created = runs[r].created /\ row.sandbox = runs[r].sandbox
    BY <2>1 DEF ProjectRun, Row, Statuses
  <2> QED
    BY <2>2, Sentinels DEF StatusIsTerminal
<1>3. journal' = [journal EXCEPT ![r] = c] /\ runs' = [runs EXCEPT ![r] = row]
  BY DEF StageProjectRunCompletion
<1> HIDE DEF c, row
<1>4. /\ journal'[r] = c /\ runs'[r] = row /\ held[r] = NoRow
      /\ \A s \in Runs : s # r => journal'[s] = journal[s]
  BY <1>3, InvParts DEF TypeOK, HeldIsJournaled
<1>5. CompletionCleanupAction(row) = CompletionCleanupAction(runs[r])
  BY <1>2 DEF CompletionCleanupAction
<1>6. StagedOK(r)'
  BY <1>1, <1>2, <1>4, <1>5 DEF StagedOK
<1>7. runs[r].sandbox # NoRow => BoundOK(r)'
  BY <1>2, <1>4, <1>5, CleanParts DEF RunOK, BoundOK
<1>8. RunOK(r)'
  BY <1>2, <1>4, <1>6, <1>7, CleanParts DEF RunOK, SameSandbox
<1> QED
  BY <1>2, <1>3, <1>4, <1>8

(* An executor stages its result and waits or leaves.                      *)
LEMMA ExecutorStagesClean ==
    ASSUME IndInv, CleanInv, NEW q \in Requests, pc[q] \in {"stage", "interrupt"},
           NEW t \in Terminal, NEW b \in {q, NoRow}, b # NoRow => pc[q] = "stage",
           StageProjectRunCompletion(RunOf[q], t, b, CompletionCleanupAction(snap[q])),
           pc' = [pc EXCEPT ![q] = IF pc[q] = "stage" THEN "wait" ELSE "leave"],
           snap' = [snap EXCEPT ![q] = NoRow],
           UNCHANGED <<box, active, held, daemon, todo, crashes>>
    PROVE  CleanInv'
<1>1. pc[q] \in Unstaged
  BY DEF Unstaged
<1>2. /\ pc'[q] = IF pc[q] = "stage" THEN "wait" ELSE "leave"
      /\ \A p \in Requests : p # q => pc'[p] = pc[p] /\ snap'[p] = snap[p]
  BY InvParts DEF TypeOK
<1>3. CASE StatusIsTerminal(runs[RunOf[q]])
  <2>1. UNCHANGED <<runs, journal>> /\ runs[RunOf[q]].status # "pending"
    BY <1>3 DEF StageProjectRunCompletion, storeVars, StatusIsTerminal, Terminal
  <2>2. ExecutorOK(q)'
    <3>1. ExecutorOK(q)
      BY <1>1, Unstaging
    <3>2. pc[q] \notin {"bindRead", "bindWrite"} /\ pc'[q] \in {"wait", "leave"}
      BY <1>2
    <3> QED
      BY <2>1, <3>1, <3>2, DepartedKept
  <2>3. BoxFits(q)
    BY DEF BoxFits
  <2> DEFINE p == IF pc[q] = "stage" THEN "wait" ELSE "leave"
  <2>4. p # "begun"
    OBVIOUS
  <2> HIDE DEF p
  <2>5. pc' = [pc EXCEPT ![q] = p]
    BY DEF p
  <2> QED
    BY ZenonT(30), <1>1, <1>2, <1>3, <2>1, <2>2, <2>3, <2>4, <2>5, Unstaging, MovesClean
<1>4. CASE ~StatusIsTerminal(runs[RunOf[q]])
  <2>1. SameSandbox(snap[q], RunOf[q]) /\ b \in Requests \cup {NoRow}
    BY <1>1, <1>4, Unstaging DEF ExecutorOK
  <2>2. b # NoRow => runs[RunOf[q]].sandbox \in {b, NoRow}
    BY <1>1, <1>4, Unstaging DEF ExecutorOK
  <2>3. /\ RunOK(RunOf[q])'
        /\ \A s \in Runs : s # RunOf[q] => journal'[s] = journal[s]
        /\ \E row \in Row :
              /\ runs' = [runs EXCEPT ![RunOf[q]] = row]
              /\ row.status = "running" /\ row.policy = runs[RunOf[q]].policy
              /\ row.created = runs[RunOf[q]].created
              /\ row.sandbox = runs[RunOf[q]].sandbox
    BY <1>1, <1>4, <2>1, <2>2, Unstaging, StagedRunOK
  <2>4. PICK row \in Row : /\ runs' = [runs EXCEPT ![RunOf[q]] = row]
                          /\ row.status = "running" /\ row.policy = runs[RunOf[q]].policy
                          /\ row.created = runs[RunOf[q]].created
                          /\ row.sandbox = runs[RunOf[q]].sandbox
    BY <2>3
  <2>5. RunOf[q] \in Runs /\ runs[RunOf[q]] # Absent
    BY <1>1, Unstaging
  <2>6. \A s \in Runs : s # RunOf[q] =>
           journal'[s] = journal[s] /\ held'[s] = held[s] /\ todo'[s] = todo[s]
    BY <2>3
  <2>7. \A p \in Requests :
           \/ pc'[p] = pc[p] /\ snap'[p] = snap[p]
           \/ RunOf[p] = RunOf[q] /\ pc[p] = "stage" /\ pc'[p] = "wait"
           \/ RunOf[p] = RunOf[q] /\ pc[p] = "interrupt" /\ pc'[p] = "leave"
    BY <1>2
  <2> QED
    BY <1>4, <2>3, <2>4, <2>5, <2>6, <2>7, RowsClean
<1> QED
  BY <1>3, <1>4

(* Complete stages what its executor made of the run.                      *)
LEMMA CompleteStageClean ==
    ASSUME IndInv, CleanInv, NEW q \in Requests, CompleteStage(q)
    PROVE  CleanInv'
<1> DEFINE b == IF box[q] = "absent" THEN NoRow ELSE q
<1>1. target[q] \in Terminal /\ b \in {q, NoRow}
  BY InvParts DEF TypeOK
<1>2. /\ pc[q] = "stage"
      /\ StageProjectRunCompletion(RunOf[q], target[q], b, CompletionCleanupAction(snap[q]))
      /\ pc' = [pc EXCEPT ![q] = "wait"] /\ snap' = [snap EXCEPT ![q] = NoRow]
      /\ UNCHANGED <<box, active, held, daemon, todo, crashes>>
  BY DEF CompleteStage
<1> HIDE DEF b
<1> QED
  BY <1>1, <1>2, ExecutorStagesClean

(* onFailure of a re-attached run stages it failed.                        *)
LEMMA ReattachFailureClean ==
    ASSUME IndInv, CleanInv, NEW q \in Requests, StageReattachFailure(q)
    PROVE  CleanInv'
<1>1. "failed" \in Terminal /\ NoRow \in {q, NoRow}
  BY DEF Terminal
<1>2. /\ pc[q] = "interrupt"
      /\ StageProjectRunCompletion(RunOf[q], "failed", NoRow, CompletionCleanupAction(snap[q]))
      /\ pc' = [pc EXCEPT ![q] = "leave"] /\ snap' = [snap EXCEPT ![q] = NoRow]
      /\ UNCHANGED <<box, active, held, daemon, todo, crashes>>
  BY DEF StageReattachFailure
<1> QED
  BY <1>1, <1>2, ExecutorStagesClean

(* The completion manager and the operator take the run lock.              *)
LEMMA HoldsClean ==
    ASSUME IndInv, CleanInv, NEW r \in Runs, journal[r] # NoRow,
           NEW step \in {"cleanup", "abandon"},
           held' = [held EXCEPT ![r] = [step |-> step, row |-> runs[r],
                                        completion |-> journal[r]]],
           UNCHANGED <<runs, journal, box, pc, snap, active, daemon, todo, crashes>>
    PROVE  CleanInv'
<1>1. runs[r] # Absent /\ runs[r].status = "running" /\ runs[r] \in Row
  BY InvParts DEF JournaledRunIsRunning, TypeOK
<1>2. ~StatusIsTerminal(runs[r]) /\ runs' = [runs EXCEPT ![r] = runs[r]]
  BY <1>1, Sentinels, InvParts DEF StatusIsTerminal, TypeOK
<1>3. /\ held'[r].step = step /\ held'[r].row = runs[r] /\ held'[r].completion = journal[r]
      /\ \A s \in Runs : s # r => held'[s] = held[s]
  BY InvParts DEF TypeOK
<1>4. HolderOK(r)' /\ (StagedOK(r) => StagedOK(r)') /\ (BoundOK(r) => BoundOK(r)')
  BY <1>3 DEF HolderOK, StagedOK, BoundOK, SameSandbox, CompletionCleanupAction
<1>5. RunOK(r)'
  BY <1>1, <1>2, <1>4, CleanParts DEF RunOK, SameSandbox
<1> QED
  BY <1>1, <1>2, <1>3, <1>5, RowsClean

(* A retry becomes due.                                                    *)
LEMMA RetryDueClean ==
    ASSUME IndInv, CleanInv, NEW r \in Runs, RetryDue(r)
    PROVE  CleanInv'
<1> DEFINE c == NewCompletion(journal[r].target, journal[r].sandbox, journal[r].action,
                              journal[r].attempt, TRUE)
<1>1. journal[r] # NoRow /\ runs[r] # Absent /\ runs[r].status = "running" /\ runs[r] \in Row
  BY InvParts DEF RetryDue, JournaledRunIsRunning, TypeOK
<1>2. ~StatusIsTerminal(runs[r]) /\ runs' = [runs EXCEPT ![r] = runs[r]]
  BY <1>1, Sentinels, InvParts DEF StatusIsTerminal, TypeOK, RetryDue
<1>3. c.sandbox = journal[r].sandbox /\ c.action = journal[r].action
  BY DEF NewCompletion
<1>4. journal' = [journal EXCEPT ![r] = c]
      /\ UNCHANGED <<runs, box, pc, snap, active, held, daemon, todo, crashes>>
  BY DEF RetryDue, execVars
<1> HIDE DEF c
<1>5. journal'[r] = c /\ \A s \in Runs : s # r => journal'[s] = journal[s]
  BY <1>4, InvParts DEF TypeOK
<1>6. /\ StagedOK(r) => StagedOK(r)'
      /\ HolderOK(r) => HolderOK(r)'
      /\ BoundOK(r) => BoundOK(r)'
  BY <1>3, <1>4, <1>5
     DEF HolderOK, StagedOK, BoundOK, SameSandbox, CompletionCleanupAction, Cleaned
<1>7. RunOK(r)'
  BY <1>1, <1>2, <1>4, <1>6, CleanParts DEF RunOK, SameSandbox
<1> QED
  BY <1>1, <1>2, <1>4, <1>5, <1>7, RowsClean

(* The cleanup does to the sandbox of the run what its policy asks for.    *)
LEMMA CleanupClean ==
    ASSUME IndInv, CleanInv, NEW r \in Runs, CleanupSucceeds(r)
    PROVE  CleanInv'
<1> DEFINE q == runs[r].sandbox
<1>1. /\ held[r] # NoRow /\ Journaled(r) /\ runs[r] # Absent /\ RunOK(r)
      /\ ~StatusIsTerminal(runs[r])
  BY HolderIsJournaled, Sentinels, CleanParts DEF CleanupSucceeds, Journaled,
     StatusIsTerminal
<1>2. /\ StagedOK(r) /\ HolderOK(r) /\ held[r].row.sandbox = q
      /\ q # NoRow => q \in Requests /\ RunOf[q] = r /\ BoundOK(r)
                      /\ held[r].completion.action = CompletionCleanupAction(runs[r])
  BY <1>1, InvParts DEF RunOK, HolderOK, StagedOK, Journaled, Row, SameSandbox,
     RowsOwned, RowOf
<1>3. UNCHANGED <<runs, journal, pc, snap, active, daemon, todo, crashes>>
  BY DEF CleanupSucceeds, storeVars, execVars
<1>4. /\ held'[r].step = "finalize" /\ held'[r].row = held[r].row
      /\ held'[r].completion = held[r].completion
      /\ \A s \in Runs : s # r => held'[s] = held[s]
  BY InvParts DEF CleanupSucceeds, TypeOK
<1>5. \A b \in Requests : b # q => box'[b] = box[b]
  BY <1>2, InvParts DEF CleanupSucceeds, TypeOK
<1>6. q # NoRow => /\ box'[q] # "absent" /\ Cleaned(r)'
                   /\ CompletionCleanupAction(runs[r]) # "remove" => box'[q] \in Live
  <2> SUFFICES ASSUME q # NoRow
               PROVE  /\ box'[q] # "absent" /\ Cleaned(r)'
                      /\ CompletionCleanupAction(runs[r]) # "remove" => box'[q] \in Live
    OBVIOUS
  <2>1. /\ CompletionCleanupAction(runs[r]) \in {"none", "stop", "remove"}
        /\ q \in Requests /\ box[q] # "absent"
        /\ CompletionCleanupAction(runs[r]) # "remove" => box[q] \in Live
    BY <1>2 DEF CompletionCleanupAction, BoundOK
  <2>2. /\ CompletionCleanupAction(runs[r]) = "none" => box'[q] = box[q]
        /\ CompletionCleanupAction(runs[r]) = "remove" => box'[q] = "removed"
        /\ CompletionCleanupAction(runs[r]) = "stop" => box'[q] = "stopped"
    BY <1>2, <2>1, InvParts DEF CleanupSucceeds, TypeOK, Live
  <2> QED
    BY <1>3, <2>1, <2>2 DEF Cleaned, Live
<1>7. ASSUME NEW s \in Runs PROVE RunOK(s)'
  <2>1. CASE s = r
    <3>1. Cleaned(r)'
      <4>1. q = NoRow => CompletionCleanupAction(runs'[r]) = "none"
        BY <1>3 DEF CompletionCleanupAction
      <4> QED
        BY <1>6, <4>1 DEF Cleaned
    <3>2. HolderOK(r)'
      BY <1>2, <1>3, <1>4, <3>1 DEF HolderOK, SameSandbox
    <3>3. StagedOK(r)'
      BY <1>2, <1>3 DEF StagedOK, CompletionCleanupAction
    <3>4. q # NoRow => BoundOK(r)'
      BY <1>3, <1>6 DEF BoundOK
    <3> QED
      BY <1>1, <1>3, <2>1, <3>2, <3>3, <3>4 DEF RunOK, SameSandbox, StatusIsTerminal
  <2>2. CASE s # r
    BY <1>2, <1>3, <1>4, <1>5, <2>2, RunKept, CleanParts DEF BoxFits
  <2> QED
    BY <2>1, <2>2
<1> HIDE DEF q
<1>8. ASSUME NEW b \in Requests PROVE box'[b] = box[b] \/ Touched(r, b)
  BY <1>1, <1>2, <1>5 DEF q, Touched, BoundOK
<1>9. /\ runs[r] \in Row /\ runs' = [runs EXCEPT ![r] = runs[r]]
      /\ runs[r].status = "running"
  BY <1>1, <1>3, InvParts DEF TypeOK, Journaled
<1> QED
  BY ZenonT(30), <1>1, <1>3, <1>4, <1>7, <1>8, <1>9, RowsClean

(* A finalizing transaction ends the run and drops its journal row.        *)
LEMMA PublishClean ==
    ASSUME IndInv, CleanInv, NEW r \in Runs, held[r] # NoRow, NEW e \in BOOLEAN,
           finalizeProjectRunCompletion(
               r, terminalRunUpdate(held[r].row, held[r].completion), e),
           held' = [held EXCEPT ![r] = NoRow],
           \A b \in Requests : box'[b] = box[b] \/ Touched(r, b),
           UNCHANGED <<taskStarts, execVars, active, daemon, todo, crashes>>
    PROVE  CleanInv'
<1> DEFINE h == held[r]
           up == terminalRunUpdate(h.row, h.completion)
           row == ProjectRun(up.status, up.sandbox, up.created, up.policy, e,
                             runs[r].detach)
           b == IF journal[r].sandbox # NoRow THEN journal[r].sandbox ELSE runs[r].sandbox
<1>1. Journaled(r) /\ runs[r] # Absent /\ RunOK(r)
  BY HolderIsJournaled, Sentinels, CleanParts DEF Journaled
<1>2. h.row \in Row /\ h.completion \in Completion /\ StagedOK(r) /\ HolderOK(r)
  BY <1>1 DEF Journaled, Holding, RunOK
<1>3. /\ up.status = h.completion.target /\ up.policy = runs[r].policy /\ up.sandbox = b
      /\ up.created = runs[r].created
  BY <1>1, <1>2 DEF terminalRunUpdate, ProjectRun, HolderOK, SameSandbox, Journaled
<1>4. /\ up.status \in Terminal /\ b \in Requests \cup {NoRow} /\ up.created \in BOOLEAN
      /\ up.policy \in {"keep", "stop", "remove"} /\ runs[r].detach \in BOOLEAN
  BY <1>1, <1>2, <1>3 DEF Row, Completion, Journaled
<1>5. row \in Row /\ row.status \in Terminal /\ row.sandbox = b
  BY <1>3, <1>4 DEF ProjectRun, Row, Statuses
<1>6. runs' = [runs EXCEPT ![r] = row] /\ journal' = [journal EXCEPT ![r] = NoRow]
  BY DEF finalizeProjectRunCompletion
<1>7. runs[r].sandbox # NoRow => b = runs[r].sandbox
  BY <1>2 DEF StagedOK
<1> HIDE DEF b, row, up, h
<1>8. /\ runs'[r] = row /\ journal'[r] = NoRow /\ held'[r] = NoRow
      /\ \A s \in Runs : s # r => journal'[s] = journal[s] /\ held'[s] = held[s]
  BY <1>6, InvParts DEF TypeOK
<1>9. RunOK(r)'
  <2>1. StatusIsTerminal(row) /\ row # Absent
    BY <1>5, Sentinels DEF StatusIsTerminal
  <2> QED
    BY <1>8, <2>1 DEF RunOK
<1> QED
  BY <1>1, <1>5, <1>6, <1>7, <1>8, <1>9, RowsClean DEF execVars

(* A failed cleanup leaves the sandbox of the run as it was, or half done. *)
LEMMA HalfCleanedTouched ==
    ASSUME IndInv, CleanInv, NEW r \in Runs, CleanupFails(r)
    PROVE  /\ \A b \in Requests : box'[b] = box[b] \/ Touched(r, b)
           /\ runs[r].sandbox # NoRow =>
                 /\ box'[runs[r].sandbox] # "absent"
                 /\ CompletionCleanupAction(runs[r]) # "remove" =>
                       box'[runs[r].sandbox] \in Live
<1> DEFINE q == runs[r].sandbox
<1>1. /\ Journaled(r) /\ runs[r] # Absent /\ RunOK(r) /\ ~StatusIsTerminal(runs[r])
      /\ held[r] # NoRow
  BY HolderIsJournaled, Sentinels, CleanParts DEF CleanupFails, Journaled, StatusIsTerminal
<1>2. held[r].row.sandbox = q /\ q # NoRow
  BY <1>1 DEF CleanupFails, Journaled
<1>3. /\ q \in Requests /\ RunOf[q] = r
  BY <1>1, <1>2, InvParts DEF Journaled, Row, RowsOwned, RowOf
<1>4. BoundOK(r) /\ held[r].completion.action = CompletionCleanupAction(runs[r])
  BY <1>1, <1>2 DEF RunOK, StagedOK, HolderOK, Journaled
<1>5. PICK b \in HalfCleaned(held[r].completion.action, box[q]) :
         box' = [box EXCEPT ![q] = b]
  BY <1>2 DEF CleanupFails
<1>6. box'[q] = b /\ \A x \in Requests : x # q => box'[x] = box[x]
  BY <1>3, <1>5, InvParts DEF TypeOK
<1>7. /\ b # "absent"
      /\ CompletionCleanupAction(runs[r]) # "remove" => b \in Live
  <2>1. box[q] # "absent" /\ (CompletionCleanupAction(runs[r]) # "remove" => box[q] \in Live)
    BY <1>4 DEF BoundOK
  <2>2. b \in {box[q], "removed", "deleting", "kept", "stopped"}
    BY <1>5 DEF HalfCleaned
  <2>3. CompletionCleanupAction(runs[r]) # "remove" => b \in {box[q], "stopped"}
    BY <1>4, <1>5 DEF HalfCleaned
  <2>4. b # "absent"
    BY <2>1, <2>2
  <2>5. CompletionCleanupAction(runs[r]) # "remove" => b \in Live
    BY <2>1, <2>3 DEF Live
  <2> QED
    BY <2>4, <2>5
<1>8. ASSUME NEW x \in Requests PROVE box'[x] = box[x] \/ Touched(r, x)
  BY <1>1, <1>3, <1>4, <1>6 DEF Touched, BoundOK
<1> QED
  BY <1>6, <1>7, <1>8

(* A failed cleanup is recorded and retried, or abandoned with the error.  *)
LEMMA CleanupFailsClean ==
    ASSUME IndInv, CleanInv, NEW r \in Runs, CleanupFails(r)
    PROVE  CleanInv'
<1> DEFINE attempt == held[r].completion.attempt + 1
<1>1. /\ held[r] # NoRow /\ held' = [held EXCEPT ![r] = NoRow]
      /\ UNCHANGED <<taskStarts, execVars, active, daemon, todo, crashes>>
      /\ \A b \in Requests : box'[b] = box[b] \/ Touched(r, b)
  BY HalfCleanedTouched DEF CleanupFails
<1>2. CASE finalizeProjectRunCompletion(
               r, terminalRunUpdate(held[r].row, held[r].completion), TRUE)
  BY <1>1, <1>2, PublishClean
<1>3. CASE ~finalizeProjectRunCompletion(
               r, terminalRunUpdate(held[r].row, held[r].completion), TRUE)
  <2> DEFINE c == NewCompletion(journal[r].target, journal[r].sandbox, journal[r].action,
                                attempt, FALSE)
             row == ProjectRun(runs[r].status, runs[r].sandbox, runs[r].created,
                               runs[r].policy, TRUE, runs[r].detach)
  <2>1. Journaled(r) /\ runs[r] # Absent /\ RunOK(r) /\ ~StatusIsTerminal(runs[r])
    BY <1>1, HolderIsJournaled, Sentinels, CleanParts DEF Journaled, StatusIsTerminal
  <2>2. /\ row \in Row /\ row.status = "running" /\ row.sandbox = runs[r].sandbox
        /\ row.policy = runs[r].policy /\ row.created = runs[r].created
    BY <2>1 DEF ProjectRun, Row, Journaled
  <2>3. c.sandbox = journal[r].sandbox /\ c.action = journal[r].action
    BY DEF NewCompletion
  <2>4. journal' = [journal EXCEPT ![r] = c] /\ runs' = [runs EXCEPT ![r] = row]
    BY <1>3 DEF CleanupFails
  <2> HIDE DEF c, row
  <2>5. /\ journal'[r] = c /\ runs'[r] = row /\ held'[r] = NoRow
        /\ \A s \in Runs : s # r => journal'[s] = journal[s] /\ held'[s] = held[s]
    BY <1>1, <2>4, InvParts DEF TypeOK
  <2>6. CompletionCleanupAction(row) = CompletionCleanupAction(runs[r])
    BY <2>2 DEF CompletionCleanupAction
  <2>7. StagedOK(r)'
    BY <1>1, <2>1, <2>2, <2>3, <2>5, <2>6 DEF RunOK, Journaled, StagedOK
  <2>8. ~StatusIsTerminal(row) /\ row # Absent
    BY <2>2, Sentinels DEF StatusIsTerminal
  <2>9. runs[r].sandbox # NoRow => BoundOK(r)'
    BY <2>2, <2>5, <2>6, HalfCleanedTouched DEF BoundOK
  <2>10. RunOK(r)'
    BY <1>1, <2>1, <2>2, <2>5, <2>7, <2>8, <2>9 DEF RunOK, SameSandbox
  <2> QED
    BY <1>1, <2>1, <2>2, <2>4, <2>5, <2>10, RowsClean DEF execVars
<1> QED
  BY <1>2, <1>3

(* The completion manager and the operator.                                *)
LEMMA ManageClean ==
    ASSUME IndInv, CleanInv, NEW r \in Runs, Manage(r) \/ AbandonBegin(r)
    PROVE  CleanInv'
<1>1. CASE ProcessBegin(r)
  BY <1>1, HoldsClean DEF ProcessBegin, storeVars, execVars
<1>2. CASE CleanupSucceeds(r)
  BY <1>2, CleanupClean
<1>3. CASE Finalize(r)
  BY <1>3, PublishClean DEF Finalize
<1>4. CASE CleanupFails(r)
  BY <1>4, CleanupFailsClean
<1>5. CASE RetryDue(r)
  BY <1>5, RetryDueClean
<1>6. CASE AbandonCommit(r)
  BY <1>6, PublishClean DEF AbandonCommit
<1>7. CASE AbandonBegin(r)
  BY <1>7, HoldsClean DEF AbandonBegin, storeVars, execVars
<1> QED
  BY <1>1, <1>2, <1>3, <1>4, <1>5, <1>6, <1>7 DEF Manage

----------------------------------------------------------------------------
(* The sandboxes, at startup                                               *)

(* Listing rows remembers the sandbox and the policy of each.              *)
LEMMA ListClean ==
    ASSUME IndInv, CleanInv, ListStaleRuns
    PROVE  CleanInv'
<1>1. /\ UNCHANGED <<runs, journal, held, box, snap, crashes, active, pc>>
      /\ \A r \in Runs : todo'[r] \in {runs[r], NoRow}
  BY DEF ListStaleRuns, storeVars, execVars
<1>2. ASSUME NEW b \in Requests PROVE ExecutorOK(b)' /\ BegunOK(b)'
  BY <1>1, ExecutorKept, CleanParts DEF BegunOK, StatusIsTerminal
<1>3. ASSUME NEW r \in Runs PROVE RunOK(r)'
  <2>1. /\ StagedOK(r) => StagedOK(r)'
        /\ HolderOK(r) => HolderOK(r)'
        /\ BoundOK(r) => BoundOK(r)'
    BY <1>1 DEF StagedOK, HolderOK, BoundOK, SameSandbox, Cleaned, CompletionCleanupAction
  <2>2. todo'[r] # NoRow => SameSandbox(todo[r], r)'
    BY <1>1 DEF SameSandbox
  <2> QED
    BY <1>1, <2>1, <2>2, CleanParts DEF RunOK, StatusIsTerminal
<1>4. ASSUME NEW r \in Runs PROVE PendingOK(r)'
  <2>1. CASE daemon = "listPending"
    BY <2>1 DEF ListStaleRuns, PendingOK, Early
  <2>2. CASE daemon = "listRunning"
    BY <1>1, <2>2, InvParts DEF StartupCovers, PendingOK
  <2> QED
    BY <2>1, <2>2 DEF ListStaleRuns
<1> QED
  BY <1>2, <1>3, <1>4 DEF CleanInv

(* A listed row that is handled by somebody else is dropped.               *)
LEMMA DropClean ==
    ASSUME IndInv, CleanInv, NEW r \in Runs, todo[r] # NoRow,
           todo' = [todo EXCEPT ![r] = NoRow],
           UNCHANGED <<runs, journal, held, box, snap, crashes, active, pc, daemon>>
    PROVE  CleanInv'
<1>1. todo'[r] = NoRow /\ \A s \in Runs : s # r => todo'[s] = todo[s]
  BY InvParts DEF TypeOK
<1>2. ASSUME NEW b \in Requests PROVE ExecutorOK(b)' /\ BegunOK(b)'
  BY ExecutorKept, CleanParts DEF BegunOK, StatusIsTerminal
<1>3. ASSUME NEW s \in Runs PROVE RunOK(s)'
  <2>1. /\ StagedOK(s) => StagedOK(s)'
        /\ HolderOK(s) => HolderOK(s)'
        /\ BoundOK(s) => BoundOK(s)'
    BY DEF StagedOK, HolderOK, BoundOK, SameSandbox, Cleaned, CompletionCleanupAction
  <2> QED
    BY <1>1, <2>1, CleanParts DEF RunOK, StatusIsTerminal, SameSandbox
<1> QED
  BY <1>2, <1>3 DEF CleanInv, PendingOK

(* A detached run is re-attached with the sandbox its row names.           *)
LEMMA ReattachClean ==
    ASSUME IndInv, CleanInv, NEW r \in Runs, ReconcileRun(r),
           todo[r].detach, journal[r] = NoRow, active[r] = NoRow
    PROVE  CleanInv'
<1> DEFINE q == todo[r].sandbox
<1>1. /\ todo[r] # NoRow /\ q \in Requests /\ RunOf[q] = r /\ todo[r].status # "pending"
      /\ runs[r] # Absent
  BY InvParts DEF ReconcileRun, TypeOK, RowsOwned, RowOf, Row, StartupCovers
<1>2. daemon = "reconcileRunning" /\ pc[q] \in {"idle", "returned"}
  <2>1. daemon = "reconcileRunning"
    BY <1>1, InvParts DEF ReconcileRun, StartupCovers
  <2>2. pc[q] \notin Executing
    BY SMT, <1>1, InvParts DEF Registered
  <2> QED
    BY <1>1, <2>1, <2>2, InvParts DEF StartupCovers, Executing, Completing
<1>3. /\ active' = [active EXCEPT ![r] = q] /\ pc' = [pc EXCEPT ![q] = "follow"]
      /\ snap' = [snap EXCEPT ![q] = todo[r]] /\ todo' = [todo EXCEPT ![r] = NoRow]
      /\ UNCHANGED <<runs, journal, held, box, crashes, daemon>>
  BY DEF ReconcileRun, storeVars
<1> HIDE DEF q
<1>4. /\ active'[r] = q /\ (\A s \in Runs : s # r => active'[s] = active[s] /\ todo'[s] = todo[s])
      /\ pc'[q] = "follow" /\ snap'[q] = todo[r] /\ todo'[r] = NoRow
      /\ \A b \in Requests : b # q => pc'[b] = pc[b] /\ snap'[b] = snap[b]
  BY <1>1, <1>3, InvParts DEF TypeOK
<1>5. ~StatusIsTerminal(runs[r]) => SameSandbox(todo[r], r) /\ runs[r].sandbox = q
  BY <1>1, CleanParts DEF RunOK, SameSandbox, q
<1>6. ASSUME NEW b \in Requests PROVE ExecutorOK(b)'
  <2>1. CASE b = q
    <3>1. ExecutorOK(b) /\ RunOf[b] = r
      BY <1>1, <2>1, CleanParts
    <3>2. /\ pc'[b] = "follow" /\ pc[b] \in {"idle", "returned"} /\ snap'[b] = todo[r]
          /\ ~StatusIsTerminal(runs[r]) => SameSandbox(todo[r], r) /\ runs[r].sandbox = b
      BY <1>2, <1>4, <1>5, <2>1
    <3> QED
      BY SMT, <1>3, <3>1, <3>2 DEF ExecutorOK, Fresh, Unbound, SameSandbox, StatusIsTerminal
  <2>2. CASE b # q
    BY ZenonT(30), <1>3, <1>4, <2>2, ExecutorKept, CleanParts
  <2> QED
    BY <2>1, <2>2
<1>7. ASSUME NEW s \in Runs PROVE RunOK(s)'
  <2>1. /\ StagedOK(s) => StagedOK(s)'
        /\ HolderOK(s) => HolderOK(s)'
        /\ BoundOK(s) => BoundOK(s)'
    BY <1>3 DEF StagedOK, HolderOK, BoundOK, SameSandbox, Cleaned, CompletionCleanupAction
  <2> QED
    <3>1. RunOK(s) /\ todo'[s] \in {todo[s], NoRow}
      BY <1>4, CleanParts
    <3> QED
      BY SMTT(30), <1>3, <2>1, <3>1 DEF RunOK, StatusIsTerminal, SameSandbox
<1>8. ASSUME NEW s \in Runs, active[s] # NoRow
      PROVE  active[s] # q /\ active[s] \in Requests
  <2>1. active[s] \in Requests
    BY <1>8, InvParts DEF TypeOK
  <2>2. pc[active[s]] \in Executing
    BY <1>8, InvParts DEF Registered
  <2>3. pc[q] \notin Executing
    BY ZenonT(30), <1>2 DEF Executing, Preparing, Launching, Completing
  <2> QED
    BY <2>1, <2>2, <2>3
<1>9. ASSUME NEW b \in Requests PROVE BegunOK(b)'
  <2>1. RunOf[b] \in Runs
    OBVIOUS
  <2> QED
    BY SMT, <1>1, <1>3, <1>4, <1>8, <2>1, CleanParts DEF BegunOK, StatusIsTerminal
<1>10. ASSUME NEW s \in Runs PROVE PendingOK(s)'
  <2>1. "follow" \in Unstaged
    BY DEF Unstaged
  <2> QED
    BY SMT, <1>1, <1>3, <1>4, <1>8, <2>1, CleanParts DEF PendingOK
<1> QED
  BY <1>6, <1>7, <1>9, <1>10 DEF CleanInv

(* Startup handles a listed row.                                           *)
LEMMA ReconcileClean ==
    ASSUME IndInv, CleanInv, NEW r \in Runs, ReconcileRun(r)
    PROVE  CleanInv'
<1>1. /\ todo[r] # NoRow /\ todo' = [todo EXCEPT ![r] = NoRow] /\ runs[r] # Absent
      /\ UNCHANGED <<held, box, crashes, daemon>>
  BY InvParts DEF ReconcileRun, StartupCovers
<1>2. CASE todo[r].detach
  <2>1. CASE journal[r] = NoRow /\ active[r] = NoRow
    BY <1>2, <2>1, ReattachClean
  <2>2. CASE ~(journal[r] = NoRow /\ active[r] = NoRow)
    BY <1>1, <1>2, <2>2, DropClean DEF ReconcileRun, storeVars
  <2> QED
    BY <2>1, <2>2
<1>3. CASE ~todo[r].detach
  <2>1. /\ StageProjectRunCompletion(r, "failed", NoRow, CompletionCleanupAction(todo[r]))
        /\ UNCHANGED <<active, pc, snap>>
    BY <1>3 DEF ReconcileRun
  <2>2. CASE StatusIsTerminal(runs[r]) \/ journal[r] # NoRow
    BY <1>1, <2>1, <2>2, DropClean DEF StageProjectRunCompletion, storeVars
  <2>3. CASE ~StatusIsTerminal(runs[r]) /\ journal[r] = NoRow
    <3>1. /\ "failed" \in Terminal /\ SameSandbox(todo[r], r)
          /\ todo'[r] = NoRow /\ \A s \in Runs : s # r => todo'[s] = todo[s]
      BY <1>1, <2>3, InvParts, CleanParts DEF Terminal, RunOK, TypeOK
    <3>2. /\ RunOK(r)'
          /\ \A s \in Runs : s # r => journal'[s] = journal[s]
          /\ \E row \in Row :
                /\ runs' = [runs EXCEPT ![r] = row]
                /\ row.status = "running" /\ row.policy = runs[r].policy
                /\ row.created = runs[r].created /\ row.sandbox = runs[r].sandbox
      BY <1>1, <2>1, <2>3, <3>1, StagedRunOK
    <3>3. PICK row \in Row : /\ runs' = [runs EXCEPT ![r] = row]
                             /\ row.status = "running" /\ row.policy = runs[r].policy
                             /\ row.created = runs[r].created
                             /\ row.sandbox = runs[r].sandbox
      BY <3>2
    <3> QED
      BY <1>1, <2>1, <2>3, <3>1, <3>2, <3>3, RowsClean
  <2> QED
    BY <2>2, <2>3
<1> QED
  BY <1>2, <1>3

----------------------------------------------------------------------------
(* The sandbox invariant, and what follows from it                         *)

(* No sandbox exists, no run is bound to one.                              *)
LEMMA InitClean == Init => CleanInv
<1> SUFFICES ASSUME Init PROVE CleanInv
  OBVIOUS
<1>1. ASSUME NEW q \in Requests PROVE ExecutorOK(q) /\ BegunOK(q)
  <2>1. box[q] = "absent" /\ pc[q] = "idle" /\ "absent" \notin Live
    BY DEF Init, Live
  <2>2. pc[q] \notin Unbound /\ pc[q] \notin Working
    BY <2>1 DEF Unbound, Working
  <2> QED
    BY <2>1, <2>2 DEF ExecutorOK, BegunOK
<1>2. ASSUME NEW r \in Runs PROVE RunOK(r) /\ PendingOK(r)
  BY DEF Init, RunOK, PendingOK
<1> QED
  BY <1>1, <1>2 DEF CleanInv

(* Every step of an executor.                                              *)
LEMMA ExecuteClean ==
    ASSUME IndInv, CleanInv, NEW q \in Requests, Execute(q)
    PROVE  CleanInv'
BY RegisterClean, UnregisterClean, PrepareClean, CreateClean, BindReadClean, BindWriteClean,
   StartSandboxClean, MarkReadClean, MarkWriteClean, LaunchClean, DetachWriteClean,
   DisconnectClean, ReattachFailsClean, ReattachFailureClean, CompleteReadClean,
   CompleteStageClean, CompleteReturnsClean DEF Execute

(* Every step.                                                             *)
LEMMA NextClean == IndInv /\ CleanInv /\ [Next]_vars => CleanInv'
<1> SUFFICES ASSUME IndInv, CleanInv, [Next]_vars PROVE CleanInv'
  OBVIOUS
<1>1. ASSUME NEW q \in Requests,
             BeginRun(q) \/ Execute(q) \/ TaskEnds(q) \/ SandboxDies(q) \/ RecoverDeletion(q)
      PROVE  CleanInv'
  BY <1>1, BeginRunClean, ExecuteClean, TaskEndsClean, DiesClean
<1>2. ASSUME NEW r \in Runs, Manage(r) \/ AbandonBegin(r) \/ ReconcileRun(r)
      PROVE  CleanInv'
  BY <1>2, ManageClean, ReconcileClean
<1>3. CASE \/ Shutdown \/ Restart \/ Reconciled \/ UNCHANGED vars
           \/ \E r \in Runs : StopActiveRun(r)
  BY <1>3, PhaseClean
<1>4. CASE Crash \/ ListStaleRuns
  BY <1>4, CrashClean, ListClean
<1> QED
  BY <1>1, <1>2, <1>3, <1>4 DEF Next, Startup

(* The cleanup invariant holds throughout.                                 *)
LEMMA CleanInvariance == Spec => []CleanInv
BY InitClean, NextClean, Invariance, PTL DEF Spec

(* A finalizing transaction that keeps an error says so in the row, and    *)
(* nothing but a finalizing transaction ends a run.                        *)
LEMMA EndsByFinalize ==
    ASSUME IndInv, [Next]_vars, NEW r \in Runs, runs[r] # Absent,
           ~StatusIsTerminal(runs[r]), StatusIsTerminal(runs'[r]), ~runs'[r].cleanupError
    PROVE  Finalize(r)
<1>1. runs'[r] # runs[r] /\ runs'[r].status \in Terminal
  BY DEF StatusIsTerminal
<1>2. ASSUME NEW x \in Runs, NEW row \in Row, row.status \notin Terminal
      PROVE  runs' # [runs EXCEPT ![x] = row]
  BY <1>1, <1>2, InvParts DEF TypeOK
<1>3. ASSUME NEW q \in Requests PROVE ~BeginRun(q)
  <2> SUFFICES ASSUME BeginRun(q) PROVE FALSE
    OBVIOUS
  <2>1. Inserts(q) /\ runs' # runs
    BY <1>1, BeginRunInserts DEF BeginRun
  <2> QED
    BY <1>2, <2>1, Sentinels DEF Inserts
<1>4. ASSUME NEW q \in Requests PROVE ~Writes(q) /\ ~Advances(q) /\ ~Reads(q) /\ ~Leaves(q)
  <2>1. ~Advances(q) /\ ~Reads(q) /\ ~Leaves(q)
    BY <1>1 DEF Advances, Reads, Leaves, Moves
  <2>2. ASSUME Writes(q) PROVE FALSE
    <3>1. PICK row \in Row : row.status \in {"pending", "running"}
                           /\ runs' = [runs EXCEPT ![RunOf[q]] = row]
      BY <2>2 DEF Writes, Rewrites
    <3> QED
      BY <1>2, <3>1, Sentinels
  <2> QED
    BY <2>1, <2>2
<1>5. ASSUME NEW x \in Runs, NEW t, NEW b, NEW a PROVE ~StageProjectRunCompletion(x, t, b, a)
  <2> DEFINE row == ProjectRun("running", runs[x].sandbox, runs[x].created, runs[x].policy,
                               FALSE, runs[x].detach)
  <2> SUFFICES ASSUME runs' = [runs EXCEPT ![x] = row] PROVE FALSE
    BY <1>1 DEF StageProjectRunCompletion, storeVars
  <2>1. row.status \notin Terminal
    BY DEF ProjectRun, Terminal
  <2> HIDE DEF row
  <2> QED
    BY <1>1, <2>1, InvParts DEF TypeOK
<1>6. ASSUME NEW q \in Requests PROVE ~Execute(q)
  <2>1. /\ ~CompleteStage(q) /\ ~StageReattachFailure(q)
    BY <1>5 DEF CompleteStage, StageReattachFailure
  <2>2. ~register(q) /\ ~unregister(q) /\ ~LaunchTask(q)
    BY <1>1 DEF register, unregister, LaunchTask, storeVars
  <2>3. ~BindSandboxWrite(q) /\ ~MarkRunningWrite(q) /\ ~persistDetachedRunFields(q)
    BY <1>4, BindSandboxWriteWrites, MarkRunningWriteWrites, persistDetachedRunFieldsWrites
  <2>4. /\ ~prepareProjectRun(q) /\ ~CreateSandbox(q) /\ ~BindSandboxRead(q)
        /\ ~startProjectRunSandbox(q) /\ ~MarkRunningRead(q) /\ ~Disconnect(q)
        /\ ~ReattachFails(q) /\ ~CompleteRead(q) /\ ~CompleteReturns(q)
    BY <1>4, prepareProjectRunMoves, CreateSandboxMoves,
       BindSandboxReadMoves, startProjectRunSandboxMoves, MarkRunningReadMoves,
       DisconnectMoves, ReattachFailsMoves, CompleteReadMoves, CompleteReturnsMoves
  <2> QED
    BY <2>1, <2>2, <2>3, <2>4 DEF Execute
<1>7. ASSUME NEW q \in Requests PROVE ~TaskEnds(q) /\ ~SandboxDies(q) /\ ~RecoverDeletion(q)
  BY <1>1 DEF TaskEnds, SandboxDies, RecoverDeletion, storeVars
<1>8. ASSUME NEW x \in Runs
      PROVE  /\ ~StopActiveRun(x) /\ ~AbandonBegin(x) /\ ~ProcessBegin(x)
             /\ ~CleanupSucceeds(x) /\ ~RetryDue(x) /\ ~ReconcileRun(x)
  BY <1>1, <1>5 DEF StopActiveRun, AbandonBegin, ProcessBegin, CleanupSucceeds, RetryDue,
     ReconcileRun, storeVars
<1>9. ~(Shutdown \/ Crash \/ Restart \/ ListStaleRuns \/ Reconciled)
  BY <1>1 DEF Shutdown, Crash, Restart, ListStaleRuns, Reconciled, storeVars
<1>10. ASSUME NEW x \in Runs, CleanupFails(x) \/ AbandonCommit(x) PROVE FALSE
  <2>1. ASSUME NEW row, row.cleanupError PROVE runs' # [runs EXCEPT ![x] = row]
    BY <1>1, <2>1, InvParts DEF TypeOK
  <2>2. ASSUME NEW a, NEW b, NEW c, NEW d, NEW e
        PROVE  runs' # [runs EXCEPT ![x] = ProjectRun(a, b, c, d, TRUE, e)]
    <3> DEFINE row == ProjectRun(a, b, c, d, TRUE, e)
    <3>1. row.cleanupError
      BY DEF ProjectRun
    <3> HIDE DEF row
    <3>2. runs' # [runs EXCEPT ![x] = row]
      BY <2>1, <3>1
    <3> QED
      BY <3>2 DEF row
  <2>3. ASSUME NEW up PROVE ~finalizeProjectRunCompletion(x, up, TRUE)
    <3> SUFFICES ASSUME finalizeProjectRunCompletion(x, up, TRUE) PROVE FALSE
      OBVIOUS
    <3>1. runs' = [runs EXCEPT ![x] = ProjectRun(up.status, up.sandbox, up.created,
                                                 up.policy, TRUE, runs[x].detach)]
      BY DEF finalizeProjectRunCompletion
    <3> QED
      BY <2>2, <3>1
  <2>4. CASE AbandonCommit(x)
    BY <2>3, <2>4 DEF AbandonCommit
  <2>5. CASE CleanupFails(x)
    <3>1. runs' = [runs EXCEPT ![x] =
                     ProjectRun(runs[x].status, runs[x].sandbox, runs[x].created,
                                runs[x].policy, TRUE, runs[x].detach)]
      BY <2>3, <2>5 DEF CleanupFails
    <3> QED
      BY <2>2, <3>1
  <2> QED
    BY <1>10, <2>4, <2>5
<1>11. ASSUME NEW x \in Runs, Finalize(x) PROVE x = r
  BY <1>1, <1>11, InvParts DEF Finalize, finalizeProjectRunCompletion, TypeOK
<1>12. ~UNCHANGED vars
  BY <1>1 DEF vars
<1> QED
  BY <1>3, <1>6, <1>7, <1>8, <1>9, <1>10, <1>11, <1>12 DEF Next, Manage, Startup

(* A run that ends without a cleanup error had its policy applied to the   *)
(* sandbox bound to it, whoever finalizes it: a worker, a retry or the     *)
(* daemon started after a crash. The operator who abandons it keeps the    *)
(* error.                                                                  *)
THEOREM CleanupNeverLies == Spec => CleanupIsHonest
<1> DEFINE Honest(r) ==
             LET row == runs[r]
                 bound == row # Absent /\ row.sandbox # NoRow
                 removes == row.policy = "remove" /\ row.created
             IN
             /\ bound /\ ~StatusIsTerminal(row)
             /\ StatusIsTerminal(runs'[r]) /\ ~runs'[r].cleanupError
             => /\ removes => box[row.sandbox] = "removed"
                /\ ~removes /\ row.policy # "keep" => box[row.sandbox] = "stopped"
<1>1. IndInv /\ CleanInv /\ [Next]_vars => [\A r \in Runs : Honest(r)]_vars
  <2> SUFFICES ASSUME IndInv, CleanInv, [Next]_vars, NEW r \in Runs,
                      runs[r] # Absent, runs[r].sandbox # NoRow,
                      ~StatusIsTerminal(runs[r]), StatusIsTerminal(runs'[r]),
                      ~runs'[r].cleanupError
               PROVE  Honest(r)
    OBVIOUS
  <2>1. Finalize(r)
    BY EndsByFinalize
  <2>2. Cleaned(r)
    BY <2>1, CleanParts DEF Finalize, RunOK, HolderOK
  <2>3. CompletionCleanupAction(runs[r]) =
          IF runs[r].policy = "keep" THEN "none"
          ELSE IF runs[r].policy = "remove" /\ runs[r].created THEN "remove" ELSE "stop"
    BY DEF CompletionCleanupAction
  <2> QED
    BY <2>2, <2>3 DEF Cleaned
<1> QED
  BY <1>1, CleanInvariance, Invariance, PTL DEF Spec, CleanupIsHonest

(* Unless the daemon died or the removal failed, a StartRun that returned  *)
(* has bound the sandbox it created, or has removed it.                    *)
THEOREM LoserCleansUp == Spec => []LoserLeavesNoSandbox
<1>1. CleanInv => LoserLeavesNoSandbox
  BY CleanParts DEF ExecutorOK, LoserLeavesNoSandbox
<1> QED
  BY <1>1, CleanInvariance, PTL
=============================================================================
