------------------------ MODULE StopAdmission_proofs ------------------------
(***************************************************************************)
(* What the stop gate of a sandbox guarantees for any number of executions *)
(* and stops.  The three invariants of the gate are inductive together:    *)
(* the exact count closes the gate to begin while a stop is under way, and *)
(* that keeps a graceful outcome and the cancellation true.                *)
(***************************************************************************)
EXTENDS StopAdmission, TLAPS, FiniteSetTheorems

Pcs == {"idle", "signal", "wait", "lock", "stop", "driver", "release"}
StopType == [kind : Kinds, pending : SUBSET Execs, pc : Pcs,
             outcome : {"skipped", "graceful", "forced"}]

(* Only a graceful stop signals or has a graceful outcome, and a removal   *)
(* never releases.                                                         *)
StopsOK ==
    /\ st \in [Stops -> StopType]
    /\ \A s \in Stops : st[s].pc \in {"signal", "wait"} => st[s].kind = "graceful"
    /\ \A s \in Stops : st[s].outcome = "graceful" => st[s].kind = "graceful"
    /\ \A s \in Stops : st[s].pc = "release" => st[s].kind # "remove"

GateInv ==
    /\ StopsOK
    /\ stopping \in Nat /\ leaked \in {0, 1}
    /\ active \subseteq Execs
    /\ GateIsBalanced
    /\ GracefulIsReal
    /\ CanceledBeforeStop

(* Leaves are first-order unless they name SMT.                            *)
USE Zenon

(* The stops that hold the gate are counted over a finite set.             *)
LEMMA HoldingFinite == IsFiniteSet(Holding) /\ Cardinality(Holding) \in Nat
<1>1. Holding \in SUBSET Stops
    BY DEF Holding
<1>2. IsFiniteSet(Holding)
    BY <1>1, StopsFinite, FS_Subset
<1> QED
    BY <1>2, FS_CardinalityType

(* A stop is counted from the step that closes the gate to the one that    *)
(* releases it.                                                            *)
LEMMA HoldingCounts ==
    ASSUME NEW s \in Stops, NEW r, st \in [Stops -> StopType],
           st' = [st EXCEPT ![s] = r]
    PROVE  /\ (Holds(st[s]) <=> Holds(r)) => Cardinality(Holding') = Cardinality(Holding)
           /\ ~Holds(st[s]) /\ Holds(r) => Cardinality(Holding') = Cardinality(Holding) + 1
           /\ Holds(st[s]) /\ ~Holds(r) => Cardinality(Holding') = Cardinality(Holding) - 1
<1>1. ASSUME NEW t \in Stops PROVE st'[t] = IF t = s THEN r ELSE st[t]
    OBVIOUS
<1>2. Holding' = {t \in Stops : Holds(st'[t])}
    BY DEF Holding
<1>3. CASE (Holds(st[s]) <=> Holds(r))
  <2>1. Holding' = Holding
    BY <1>1, <1>2, <1>3 DEF Holding
  <2> QED
    BY <1>3, <2>1
<1>4. CASE ~Holds(st[s]) /\ Holds(r)
  <2>1. Holding' = Holding \cup {s} /\ s \notin Holding
    BY <1>1, <1>2, <1>4 DEF Holding
  <2> QED
    BY <1>4, <2>1, HoldingFinite, FS_AddElement
<1>5. CASE Holds(st[s]) /\ ~Holds(r)
  <2>1. Holding' = Holding \ {s} /\ s \in Holding
    BY <1>1, <1>2, <1>5 DEF Holding
  <2> QED
    BY <1>5, <2>1, HoldingFinite, FS_RemoveElement
<1> QED
    BY <1>3, <1>4, <1>5 DEF Holds

(* begin is refused while a stop holds the gate or a removal closed it.    *)
LEMMA GateClosed ==
    ASSUME GateInv, Holding # {} \/ leaked = 1
    PROVE  stopping > 0
<1>1. Holding # {} => Cardinality(Holding) # 0
    BY HoldingFinite, FS_EmptySet
<1> QED
    BY SMT, <1>1, HoldingFinite DEF GateInv, GateIsBalanced

(* No stop holds the gate and nothing runs when the daemon starts.         *)
LEMMA InitGate == Init => GateInv
<1> SUFFICES ASSUME Init PROVE GateInv
    OBVIOUS
<1>1. StopsOK
    BY DEF Init, StopsOK, StopType, Idle, Kinds, Pcs
<1>2. Holding = {} /\ InDriver = {}
    BY DEF Init, Holding, Holds, InDriver, At, Idle
<1>3. Cardinality(Holding) = 0
    BY <1>2, FS_EmptySet
<1> QED
    BY SMT, <1>1, <1>2, <1>3
    DEF Init, GateInv, GateIsBalanced, GracefulIsReal, CanceledBeforeStop

(* A step of one stop keeps the invariant if it keeps the count, reports a *)
(* graceful outcome only when nothing is active, and reaches the driver    *)
(* only by canceling what is.                                              *)
LEMMA StopMoves ==
    ASSUME GateInv, NEW s \in Stops, NEW r \in StopType,
           st' = [st EXCEPT ![s] = r],
           r.pc \in {"signal", "wait"} => r.kind = "graceful",
           r.outcome = "graceful" => r.kind = "graceful",
           r.pc = "release" => r.kind # "remove",
           r.outcome = "graceful" /\ Holds(r) =>
               active = {} \/ (Holds(st[s]) /\ st[s].outcome = "graceful"),
           r.pc = "driver" => canceled' = active,
           active' = active, canceled' = canceled \/ canceled' = active,
           leaked' = leaked \/ (leaked' = 1 /\ canceled' = active),
           stopping' = Cardinality(Holding') + leaked'
    PROVE  GateInv'
<1>1. \A t \in Stops : st'[t] = IF t = s THEN r ELSE st[t]
    BY DEF GateInv, StopsOK
<1>2. StopsOK'
  <2>1. st' \in [Stops -> StopType]
    BY DEF GateInv, StopsOK
  <2> QED
    BY <1>1, <2>1 DEF GateInv, StopsOK
<1>3. stopping' \in Nat /\ leaked' \in {0, 1}
  <2>1. Holding' \in SUBSET Stops
    BY DEF Holding
  <2>2. Cardinality(Holding') \in Nat
    BY <2>1, StopsFinite, FS_Subset, FS_CardinalityType
  <2> QED
    BY SMT, <2>2 DEF GateInv
<1>4. GracefulIsReal'
  <2> SUFFICES ASSUME NEW t \in Holding', st'[t].outcome = "graceful" PROVE active = {}
    BY DEF GracefulIsReal
  <2>1. t \in Stops /\ Holds(st'[t])
    BY DEF Holding
  <2>2. CASE t = s
    BY <1>1, <2>1, <2>2 DEF GateInv, GracefulIsReal, Holding
  <2>3. CASE t # s
    BY <1>1, <2>1, <2>3 DEF GateInv, GracefulIsReal, Holding
  <2> QED
    BY <2>2, <2>3
<1>5. CanceledBeforeStop'
  <2> SUFFICES ASSUME NEW t \in InDriver', t \in Holding' \/ leaked' = 1
               PROVE  active \subseteq canceled'
    BY DEF CanceledBeforeStop
  <2>1. t \in Stops /\ st'[t].pc = "driver" /\ (Holds(st'[t]) \/ leaked' = 1)
    BY DEF InDriver, At, Holding
  <2>2. CASE canceled' = active
    BY <2>2
  <2>3. CASE canceled' # active
    <3>1. t # s /\ st'[t] = st[t] /\ leaked' = leaked /\ canceled' = canceled
      BY <1>1, <2>1, <2>3
    <3>2. t \in InDriver /\ (t \in Holding \/ leaked = 1)
      BY <2>1, <3>1 DEF InDriver, At, Holding
    <3> QED
      BY <3>1, <3>2 DEF GateInv, CanceledBeforeStop
  <2> QED
    BY <2>2, <2>3
<1> QED
    BY <1>2, <1>3, <1>4, <1>5 DEF GateInv, GateIsBalanced

(* Executions touch neither the stops nor the gate, so a step of theirs    *)
(* keeps the invariant if what it leaves active is as canceled as before.  *)
LEMMA WorkMoves ==
    ASSUME GateInv, UNCHANGED <<stopping, st, leaked>>,
           active' \subseteq active,
           active \subseteq canceled => active' \subseteq canceled'
    PROVE  GateInv'
<1>1. Holding' = Holding /\ InDriver' = InDriver
    BY DEF Holding, Holds, InDriver, At
<1>2. GracefulIsReal'
    BY <1>1 DEF GateInv, GracefulIsReal
<1>3. CanceledBeforeStop'
    BY <1>1 DEF GateInv, CanceledBeforeStop
<1> QED
    BY <1>1, <1>2, <1>3 DEF GateInv, StopsOK, GateIsBalanced

(* begin finds the gate open, so no stop holds it.                         *)
LEMMA BeginStep ==
    ASSUME GateInv, NEW e \in Execs, Begin(e)
    PROVE  GateInv'
<1>1. Holding = {} /\ leaked # 1
    BY SMT, GateClosed DEF Begin, GateInv
<1>2. Holding' = Holding /\ InDriver' = InDriver /\ UNCHANGED <<stopping, st, leaked>>
    BY DEF Begin, Holding, Holds, InDriver, At
<1>3. GracefulIsReal' /\ CanceledBeforeStop'
    BY <1>1, <1>2 DEF GracefulIsReal, CanceledBeforeStop
<1>4. active' \subseteq Execs
    BY DEF Begin, GateInv
<1> QED
    BY <1>2, <1>3, <1>4 DEF GateInv, StopsOK, GateIsBalanced

(* Every other step of an execution.                                       *)
LEMMA ExecStep ==
    ASSUME GateInv, NEW e \in Execs,
           CommandLocks(e) \/ CommandUnlocks(e) \/ ContextEnds(e)
               \/ GuestReady(e) \/ GuestExits(e) \/ Finish(e)
    PROVE  GateInv'
<1>1. CASE CommandLocks(e) \/ CommandUnlocks(e) \/ GuestReady(e) \/ GuestExits(e)
    BY <1>1, WorkMoves
    DEF CommandLocks, CommandUnlocks, GuestReady, GuestExits, work
<1>2. CASE ContextEnds(e)
    BY <1>2, WorkMoves DEF ContextEnds
<1>3. CASE Finish(e)
    BY <1>3, WorkMoves DEF Finish
<1> QED
    BY <1>1, <1>2, <1>3

(* The steps of a stop that leave it holding the gate as it did.           *)
LEMMA HoldMoves ==
    ASSUME GateInv, NEW s \in Stops, NEW r \in StopType,
           st' = [st EXCEPT ![s] = r], Holds(r) <=> Holds(st[s]),
           r.pc \in {"signal", "wait"} => r.kind = "graceful",
           r.outcome = "graceful" => r.kind = "graceful",
           r.pc = "release" => r.kind # "remove",
           r.outcome = "graceful" => active = {} \/ st[s].outcome = "graceful",
           r.pc = "driver" => canceled' = active,
           active' = active, canceled' = canceled \/ canceled' = active,
           UNCHANGED <<stopping, leaked>>
    PROVE  GateInv'
<1>1. Cardinality(Holding') = Cardinality(Holding)
    BY HoldingCounts DEF GateInv, StopsOK
<1>2. stopping' = Cardinality(Holding') + leaked'
    BY <1>1 DEF GateInv, GateIsBalanced
<1> QED
    BY <1>2, StopMoves

(* PrepareSandboxStop and BeginSandboxForceStop close the gate.            *)
LEMMA CloseStep ==
    ASSUME GateInv, NEW s \in Stops, PrepareSandboxStop(s) \/ BeginSandboxForceStop(s)
    PROVE  GateInv'
<1>1. PICK r \in StopType :
        /\ st' = [st EXCEPT ![s] = r] /\ Holds(r)
        /\ r.pc \in {"signal", "wait"} => r.kind = "graceful"
        /\ r.pc \notin {"release", "driver"}
        /\ r.outcome = "graceful" => active = {} /\ r.kind = "graceful"
  <2>1. CASE PrepareSandboxStop(s)
    <3> DEFINE r == [kind |-> "graceful", pending |-> active,
                     pc |-> IF active = {} THEN "lock" ELSE "signal",
                     outcome |-> IF active = {} THEN "graceful" ELSE "skipped"]
    <3>1. r \in StopType
        BY DEF StopType, Kinds, Pcs, GateInv
    <3>2. st' = [st EXCEPT ![s] = r]
        BY <2>1 DEF PrepareSandboxStop
    <3> QED
        BY <3>1, <3>2 DEF Holds
  <2>2. CASE BeginSandboxForceStop(s)
    <3> DEFINE r == [Idle EXCEPT !.pc = "lock"]
    <3>1. r \in StopType /\ r.kind = "force" /\ r.pc = "lock" /\ r.outcome = "skipped"
        BY DEF StopType, Kinds, Pcs, Idle
    <3>2. st' = [st EXCEPT ![s] = r]
        BY <2>2 DEF BeginSandboxForceStop
    <3> QED
        BY <3>1, <3>2 DEF Holds
  <2> QED
    BY <2>1, <2>2
<1>2. ~Holds(st[s])
    BY DEF PrepareSandboxStop, BeginSandboxForceStop, At, Holds
<1>3. Cardinality(Holding') = Cardinality(Holding) + 1
    BY <1>1, <1>2, HoldingCounts DEF GateInv, StopsOK
<1>4. /\ stopping' = stopping + 1 /\ active' = active /\ leaked' = leaked
      /\ canceled' = canceled \/ canceled' = active
    BY DEF PrepareSandboxStop, BeginSandboxForceStop, Blocked, work
<1>5. stopping' = Cardinality(Holding') + leaked'
    BY SMT, <1>3, <1>4, HoldingFinite DEF GateInv, GateIsBalanced
<1> QED
    BY <1>1, <1>4, <1>5, StopMoves

(* A stop that moves on with its other fields as they are.                 *)
LEMMA MovedOK ==
    ASSUME StopsOK, NEW s \in Stops, NEW pc \in Pcs
    PROVE  LET r == [st[s] EXCEPT !.pc = pc]
           IN  r \in StopType /\ r.pc = pc /\ r.kind = st[s].kind /\ r.outcome = st[s].outcome
<1>1. st[s] \in StopType
    BY DEF StopsOK
<1> QED
    BY <1>1 DEF StopType

(* The graceful preparation: signal, wait, give up.                        *)
LEMMA PrepareStep ==
    ASSUME GateInv, NEW s \in Stops, SignalRound(s) \/ WaitEnds(s) \/ GraceExpires(s)
    PROVE  GateInv'
<1>0. /\ st \in [Stops -> StopType] /\ st[s] \in StopType
      /\ st[s].pc \in {"signal", "wait"} /\ st[s].kind = "graceful"
    BY DEF GateInv, StopsOK, SignalRound, WaitEnds, GraceExpires, At
<1>1. CASE SignalRound(s)
  <2> DEFINE live == st[s].pending \cap active
             told == {e \in live : guest[e] # "starting"}
             r == [st[s] EXCEPT !.pending = live \ told,
                                !.pc = IF live = told THEN "wait" ELSE @,
                                !.outcome = IF live = told THEN "skipped" ELSE @]
  <2>1. /\ r \in StopType /\ r.kind = "graceful" /\ r.pc \in {"signal", "wait"}
        /\ r.outcome = "graceful" => st[s].outcome = "graceful"
    BY <1>0 DEF StopType, Pcs
  <2>2. st' = [st EXCEPT ![s] = r]
    BY <1>0, <1>1 DEF SignalRound, AllSignaled
  <2>3. Holds(r) <=> Holds(st[s])
    BY <1>0, <2>1 DEF Holds
  <2>4. active' = active /\ canceled' = canceled /\ UNCHANGED <<stopping, leaked>>
    BY <1>1 DEF SignalRound
  <2> HIDE DEF r
  <2> QED
    BY <2>1, <2>2, <2>3, <2>4, HoldMoves
<1>2. CASE WaitEnds(s)
  <2> DEFINE r == [st[s] EXCEPT !.pc = "lock", !.outcome = "graceful"]
  <2>1. r \in StopType /\ r.kind = "graceful" /\ r.pc = "lock"
    BY <1>0 DEF StopType, Pcs
  <2>2. st' = [st EXCEPT ![s] = r]
    BY <1>0, <1>2 DEF WaitEnds
  <2>3. Holds(r) <=> Holds(st[s])
    BY <1>0, <2>1 DEF Holds
  <2>4. active = {} /\ active' = active /\ canceled' = canceled /\ UNCHANGED <<stopping, leaked>>
    BY <1>2 DEF WaitEnds, work
  <2> HIDE DEF r
  <2> QED
    BY <2>1, <2>2, <2>3, <2>4, HoldMoves
<1>3. CASE GraceExpires(s)
  <2> DEFINE r == [st[s] EXCEPT !.pc = "lock", !.pending = {}, !.outcome = "forced"]
  <2>1. r \in StopType /\ r.kind = "graceful" /\ r.pc = "lock" /\ r.outcome = "forced"
    BY <1>0 DEF StopType, Pcs
  <2>2. st' = [st EXCEPT ![s] = r]
    BY <1>0, <1>3 DEF GraceExpires
  <2>3. Holds(r) <=> Holds(st[s])
    BY <1>0, <2>1 DEF Holds
  <2>4. active' = active /\ canceled' = active /\ UNCHANGED <<stopping, leaked>>
    BY <1>3 DEF GraceExpires
  <2> HIDE DEF r
  <2> QED
    BY <2>1, <2>2, <2>3, <2>4, HoldMoves
<1> QED
    BY <1>1, <1>2, <1>3

(* A locked stop or a removal queues for the lock without closing the gate. *)
LEMMA LocksFirstStep ==
    ASSUME GateInv, NEW s \in Stops, NEW kind \in Kinds, LocksFirst(s, kind)
    PROVE  GateInv'
<1> DEFINE r == [Idle EXCEPT !.kind = kind, !.pc = "lock"]
<1>1. r \in StopType /\ r.kind = kind /\ r.pc = "lock" /\ r.outcome = "skipped"
    BY DEF StopType, Kinds, Pcs, Idle
<1>2. st' = [st EXCEPT ![s] = r] /\ kind \in {"locked", "remove"}
    BY DEF LocksFirst
<1>3. ~Holds(r) /\ ~Holds(st[s])
    BY <1>1, <1>2 DEF LocksFirst, Holds, At
<1>4. active' = active /\ canceled' = canceled /\ UNCHANGED <<stopping, leaked>>
    BY DEF LocksFirst, work
<1> HIDE DEF r
<1> QED
    BY <1>1, <1>2, <1>3, <1>4, HoldMoves

(* The lock: a locked stop closes the gate as soon as it has it.           *)
LEMMA LocksStep ==
    ASSUME GateInv, NEW s \in Stops, Locks(s)
    PROVE  GateInv'
<1> DEFINE r == [st[s] EXCEPT !.pc = "stop"]
<1>1. /\ r \in StopType /\ r.pc = "stop" /\ r.kind = st[s].kind
      /\ r.outcome = st[s].outcome /\ st[s].pc = "lock"
      /\ st[s].outcome = "graceful" => st[s].kind = "graceful"
    BY MovedOK DEF Pcs, GateInv, StopsOK, Locks, At
<1>2. st' = [st EXCEPT ![s] = r]
    BY DEF Locks, Goes, GateInv, StopsOK
<1>3. active' = active /\ leaked' = leaked
    BY DEF Locks
<1> HIDE DEF r
<1>4. CASE st[s].kind # "locked"
  <2>1. Holds(r) <=> Holds(st[s])
    BY <1>1, <1>4 DEF Holds
  <2>2. canceled' = canceled /\ stopping' = stopping
    BY <1>4 DEF Locks
  <2> QED
    BY <1>1, <1>2, <1>3, <2>1, <2>2, HoldMoves
<1>5. CASE st[s].kind = "locked"
  <2>1. Holds(r) /\ ~Holds(st[s])
    BY <1>1, <1>5 DEF Holds
  <2>2. canceled' = active /\ stopping' = stopping + 1
    BY <1>5 DEF Locks, Blocked
  <2>3. Cardinality(Holding') = Cardinality(Holding) + 1
    BY <1>2, <2>1, HoldingCounts DEF GateInv, StopsOK
  <2>4. stopping' = Cardinality(Holding') + leaked'
    BY SMT, <1>3, <2>2, <2>3, HoldingFinite DEF GateInv, GateIsBalanced
  <2>5. r.outcome # "graceful"
    BY <1>1, <1>5 DEF GateInv, StopsOK
  <2> QED
    BY <1>1, <1>2, <1>3, <2>1, <2>2, <2>4, <2>5, StopMoves
<1> QED
    BY <1>4, <1>5

(* Under the lock, up to the answer of the driver.                         *)
LEMMA DriverStep ==
    ASSUME GateInv, NEW s \in Stops,
           SkipsDriver(s) \/ DriverStops(s) \/ DriverFails(s)
    PROVE  GateInv'
<1> DEFINE r == [st[s] EXCEPT !.pc = "release"]
<1>1. /\ r \in StopType /\ r.pc = "release" /\ r.kind = st[s].kind
      /\ r.outcome = st[s].outcome
      /\ st[s].outcome = "graceful" => st[s].kind = "graceful"
    BY MovedOK DEF Pcs, GateInv, StopsOK
<1>2. st[s].pc \in {"stop", "driver"} /\ st[s].kind # "remove"
    BY DEF SkipsDriver, DriverStops, DriverFails, At
<1>3. st' = [st EXCEPT ![s] = r]
    BY DEF SkipsDriver, DriverStops, DriverFails, Goes, GateInv, StopsOK
<1>4. active' = active /\ canceled' = canceled /\ UNCHANGED <<stopping, leaked>>
    BY DEF SkipsDriver, DriverStops, DriverFails, work
<1>5. Holds(r) <=> Holds(st[s])
    BY <1>1, <1>2 DEF Holds
<1> HIDE DEF r
<1> QED
    BY <1>1, <1>2, <1>3, <1>4, <1>5, HoldMoves

(* StopSandbox: a stop finds its own gate, a removal may be the first.     *)
LEMMA CallsDriverStep ==
    ASSUME GateInv, NEW s \in Stops, CallsDriver(s)
    PROVE  GateInv'
<1> DEFINE r == [st[s] EXCEPT !.pc = "driver"]
<1>1. /\ r \in StopType /\ r.pc = "driver" /\ r.kind = st[s].kind
      /\ r.outcome = st[s].outcome /\ st[s].pc = "stop"
      /\ st[s].outcome = "graceful" => st[s].kind = "graceful"
    BY MovedOK DEF Pcs, GateInv, StopsOK, CallsDriver, At
<1>2. st' = [st EXCEPT ![s] = r]
    BY DEF CallsDriver, Goes, GateInv, StopsOK
<1>3. active' = active /\ canceled' = active
    BY DEF CallsDriver, CanceledByDriver
<1>4. Holds(r) <=> Holds(st[s])
    BY <1>1 DEF Holds
<1>5. Cardinality(Holding') = Cardinality(Holding)
    BY <1>2, <1>4, HoldingCounts DEF GateInv, StopsOK
<1> HIDE DEF r
<1>6. CASE st[s].kind = "remove" /\ stopping = 0
  <2>1. stopping' = 1 /\ leaked' = 1
    BY <1>6 DEF CallsDriver, EnsureBlocked
  <2>2. Cardinality(Holding) = 0
    BY SMT, <1>6, HoldingFinite DEF GateInv, GateIsBalanced
  <2>3. stopping' = Cardinality(Holding') + leaked'
    BY SMT, <1>5, <2>1, <2>2
  <2> QED
    BY <1>1, <1>2, <1>3, <1>4, <2>1, <2>3, StopMoves
<1>7. CASE ~(st[s].kind = "remove" /\ stopping = 0)
  <2>1. stopping # 0
    <3>1. CASE st[s].kind = "remove"
      BY <1>7, <3>1
    <3>2. CASE st[s].kind # "remove"
      <4>1. s \in Holding
        BY <1>1, <3>2 DEF Holding, Holds
      <4> QED
        BY SMT, <4>1, GateClosed DEF GateInv
    <3> QED
      BY <3>1, <3>2
  <2>2. stopping' = stopping /\ leaked' = leaked
    BY <1>7, <2>1 DEF CallsDriver, EnsureBlocked
  <2> QED
    BY <1>1, <1>2, <1>3, <1>4, <2>2, HoldMoves
<1> QED
    BY <1>6, <1>7

(* What a stop is when it has returned.                                    *)
LEMMA IdleOK ==
    Idle \in StopType /\ Idle.pc = "idle" /\ Idle.outcome = "skipped" /\ ~Holds(Idle)
BY DEF Idle, StopType, Kinds, Pcs, Holds

(* A removal returns without a word to the gate.                           *)
LEMMA RemovalStep ==
    ASSUME GateInv, NEW s \in Stops,
           RemovalRefused(s) \/ RemovesStopped(s) \/ RemovalStops(s) \/ RemovalFails(s)
    PROVE  GateInv'
<1>1. st[s].kind = "remove" /\ st' = [st EXCEPT ![s] = Idle]
    BY DEF RemovalRefused, RemovesStopped, RemovalStops, RemovalFails
<1>2. active' = active /\ canceled' = canceled /\ UNCHANGED <<stopping, leaked>>
    BY DEF RemovalRefused, RemovesStopped, RemovalStops, RemovalFails, work
<1>3. Holds(Idle) <=> Holds(st[s])
    BY <1>1, IdleOK DEF Holds
<1> QED
    BY <1>1, <1>2, <1>3, IdleOK, HoldMoves

(* FinishSandboxStop takes away what the stop added.                       *)
LEMMA ReleaseStep ==
    ASSUME GateInv, NEW s \in Stops, Releases(s)
    PROVE  GateInv'
<1>1. CASE lock = s /\ st[s].kind # "locked"
    BY <1>1, WorkMoves DEF Releases, work
<1>2. CASE ~(lock = s /\ st[s].kind # "locked")
  <2>1. /\ st' = [st EXCEPT ![s] = Idle] /\ stopping' = Released
        /\ active' = active /\ canceled' = canceled /\ leaked' = leaked
    BY <1>2 DEF Releases, work
  <2>2. Holds(st[s])
    BY DEF Releases, At, Holds, GateInv, StopsOK
  <2>3. Cardinality(Holding') = Cardinality(Holding) - 1
    BY <2>1, <2>2, IdleOK, HoldingCounts DEF GateInv, StopsOK
  <2>4. stopping > 0
    BY <2>2, GateClosed DEF Holding
  <2>5. stopping' = stopping - 1
    BY SMT, <2>1, <2>4 DEF Released, GateInv
  <2>6. stopping' = Cardinality(Holding') + leaked'
    BY SMT, <2>1, <2>3, <2>5, HoldingFinite DEF GateInv, GateIsBalanced
  <2> QED
    BY <2>1, <2>6, IdleOK, StopMoves
<1> QED
    BY <1>1, <1>2

(* Every step keeps what the gate guarantees.                              *)
LEMMA GateHolds == Spec => []GateInv
<1>1. ASSUME GateInv, [Next]_vars PROVE GateInv'
  <2>1. CASE UNCHANGED vars
    BY <1>1, <2>1, WorkMoves DEF vars
  <2>2. CASE Resume
    BY <1>1, <2>2, WorkMoves DEF Resume, work
  <2>3. ASSUME NEW e \in Execs,
               \/ CommandLocks(e) \/ Begin(e) \/ CommandUnlocks(e) \/ ContextEnds(e)
               \/ GuestReady(e) \/ GuestExits(e) \/ Finish(e)
        PROVE  GateInv'
    BY <1>1, <2>3, BeginStep, ExecStep
  <2>4. ASSUME NEW s \in Stops, PrepareSandboxStop(s) \/ BeginSandboxForceStop(s)
        PROVE  GateInv'
    BY <1>1, <2>4, CloseStep
  <2>5. ASSUME NEW s \in Stops, NEW kind \in Kinds, LocksFirst(s, kind)
        PROVE  GateInv'
    BY <1>1, <2>5, LocksFirstStep
  <2>6. ASSUME NEW s \in Stops, GraceExpires(s) \/ Locks(s)
        PROVE  GateInv'
    BY <1>1, <2>6, PrepareStep, LocksStep
  <2>7. ASSUME NEW s \in Stops, StopStep(s)
        PROVE  GateInv'
    BY <1>1, <2>7, PrepareStep, DriverStep, CallsDriverStep, RemovalStep, ReleaseStep
    DEF StopStep
  <2> QED
    BY <1>1, <2>1, <2>2, <2>3, <2>4, <2>5, <2>6, <2>7 DEF Next
<1> QED
    BY <1>1, InitGate, PTL DEF Spec

(* The gate count of sandboxExecutions is exact for any number of stops,   *)
(* graceful, forced, locked or removing: it is the number of stops between *)
(* their close and their release.                                          *)
THEOREM GateCountIsExact == Spec => []GateIsBalanced
<1>1. GateInv => GateIsBalanced
    BY DEF GateInv
<1> QED
    BY <1>1, GateHolds, PTL

(* A stop that reports a graceful outcome left no execution running, for   *)
(* any number of executions and of stops that overlap it.                  *)
THEOREM GracefulStopIsReal == Spec => []GracefulIsReal
<1>1. GateInv => GracefulIsReal
    BY DEF GateInv
<1> QED
    BY <1>1, GateHolds, PTL

(* A driver stop behind a gate of its own finds only canceled executions,  *)
(* whatever the other stops do.                                            *)
THEOREM DriverStopsCanceledOnly == Spec => []CanceledBeforeStop
<1>1. GateInv => CanceledBeforeStop
    BY DEF GateInv
<1> QED
    BY <1>1, GateHolds, PTL
=============================================================================
