---------------------- MODULE ProjectLifecycle_proofs ----------------------
(***************************************************************************)
(* What the project controller guarantees for any number of requests,      *)
(* failures, departing clients and crashes: that its gate admits one       *)
(* request at a time, and from that what the requests may say of the store *)
(* they leave.  The work done under the gate is one kind of step           *)
(* (WorkIsHeld), so the gate's invariant needs only the handful of steps   *)
(* that touch the gate; the invariant of the work (WorkInv) has one lemma  *)
(* per store call.                                                         *)
(***************************************************************************)
EXTENDS ProjectLifecycle, TLAPS

(***************************************************************************)
(* The work a request does under the gate: whatever it reads, writes or    *)
(* fails at, it leaves the gate, the token and the other requests alone    *)
(* and keeps its own record in shape (WorkIsHeld).                         *)
(***************************************************************************)
ApplyPc == {"images", "volume", "links", "upsert", "revision", "agents", "stage",
            "write", "triggers", "enable", "cleanup", "cleanupRefresh", "cleanupInstall",
            "disable", "disableInstall", "closeList", "close", "closeInstall"}
RemovePc == {"downList", "down", "downInstall", "listSandboxes", "stop", "mark", "unlink"}

(* The records of the callers have their type, and a caller is only at the *)
(* steps of its kind of request.                                           *)
PcFits(c) ==
    /\ op[c].kind \in {"apply", "patch"} => op[c].spec \in Specs
    /\ op[c].pc \in ApplyPc => op[c].kind \in {"apply", "patch"}
    /\ op[c].pc \in RemovePc => op[c].kind = "remove"
    /\ op[c].pc \in {"resolve", "wait"} => op[c].kind \in {"apply", "patch", "remove"}
OpsOK == op \in [Callers -> OpType] /\ \A c \in Callers : PcFits(c)

(* The steps a caller takes between AcquireToken and Release.              *)
Work(c) ==
    \/ LoadFails(c) \/ CompareScheduler(c) \/ ListSchedulers(c) \/ Stopped(c)
    \/ \E o \in Outcomes : Apply(c, o) \/ Remove(c, o)
    \/ \E o \in Outcomes, refused \in BOOLEAN : Resolve(c, o, refused)

Held(c) ==
    /\ Holding(c) /\ Holding(c)'
    /\ op' \in [Callers -> OpType]
    /\ \A d \in Callers : d # c => op'[d] = op[d]
    /\ op'[c].gate = op[c].gate /\ op'[c].kind = op[c].kind
    /\ op'[c].spec = op[c].spec /\ op'[c].expected = op[c].expected
    /\ PcFits(c)'
    /\ UNCHANGED locks

(* Leaves are first-order unless they name SMT.                            *)
USE Zenon

(* A write that is not the last step of a request keeps the gate.          *)
LEMMA WroteIsHeld ==
    ASSUME OpsOK, NEW c \in Callers, NEW o \in Outcomes,
           NEW pc \in ApplyPc \cup RemovePc \cup {"list"},
           NEW todo \in SUBSET (Schedulers \cup Sandboxes),
           Holding(c), Wrote(c, o, pc, todo), UNCHANGED locks,
           pc \in ApplyPc => op[c].kind \in {"apply", "patch"},
           pc \in RemovePc => op[c].kind = "remove"
    PROVE  Held(c)
<1>1. op[c] \in OpType /\ op \in [Callers -> OpType]
    BY DEF OpsOK
<1>2. /\ op' = [op EXCEPT ![c] = op'[c]]
      /\ op'[c] = [op[c] EXCEPT !.wrote = IF Takes(o) THEN TRUE ELSE @,
                               !.pc = IF o = "ok" THEN pc ELSE "reply",
                               !.todo = IF o = "ok" THEN todo ELSE {},
                               !.reply = IF o = "ok" THEN @ ELSE "unknown"]
    BY <1>1, Zenon DEF Wrote
<1>3. op'[c] \in OpType
  <2> DEFINE at == IF o = "ok" THEN pc ELSE "reply"
             rest == IF o = "ok" THEN todo ELSE {}
             reply == IF o = "ok" THEN op[c].reply ELSE "unknown"
             wrote == IF Takes(o) THEN TRUE ELSE op[c].wrote
  <2>1. at \in Pcs
      BY DEF Pcs, ApplyPc, RemovePc
  <2>2. rest \in SUBSET (Schedulers \cup Sandboxes) /\ wrote \in BOOLEAN
      BY <1>1, Zenon DEF OpType
  <2>3. reply \in ReplyKinds
      BY <1>1 DEF OpType, ReplyKinds
  <2>4. op'[c] = [op[c] EXCEPT !.wrote = wrote, !.pc = at, !.todo = rest, !.reply = reply]
      BY <1>1, <1>2 DEF OpType
  <2> HIDE DEF at, rest, reply, wrote
  <2> QED
      BY <1>1, <2>1, <2>2, <2>3, <2>4, Zenon DEF OpType
<1>4. /\ op'[c].pc = IF o = "ok" THEN pc ELSE "reply"
      /\ op'[c].kind = op[c].kind /\ op'[c].spec = op[c].spec
      /\ op'[c].gate = op[c].gate /\ op'[c].expected = op[c].expected
    BY <1>1, <1>2 DEF OpType
<1> QED
    BY <1>1, <1>2, <1>3, <1>4 DEF Held, Holding, PcFits, OpsOK, ApplyPc, RemovePc

(* applyProject up to the revision works under the gate.                   *)
LEMMA WritesAreHeld ==
    ASSUME OpsOK, NEW c \in Callers, NEW o \in Outcomes
    PROVE  /\ EnsureImages(c, o) => Held(c)
           /\ EnsureVolume(c, o) => Held(c)
           /\ LinkVolumes(c, o) => Held(c)
           /\ UpsertProject(c, o) => Held(c)
           /\ SaveProjectRevision(c, o) => Held(c)
           /\ UpsertAgents(c, o) => Held(c)
<1>1. EnsureImages(c, o) => Held(c)
    BY SMT, SpecsKnown DEF EnsureImages, Goes, Rest, ImageFails, locks, OpsOK, Held, Holding, PcFits, OpType,
           ApplyPc, RemovePc, Pcs, ReplyKinds
<1>2. EnsureVolume(c, o) => Held(c)
    BY WroteIsHeld DEF EnsureVolume, OpsOK, Holding, PcFits, ApplyPc, RemovePc
<1>3. LinkVolumes(c, o) => Held(c)
    BY WroteIsHeld DEF LinkVolumes, OpsOK, Holding, PcFits, ApplyPc, RemovePc
<1>4. UpsertProject(c, o) => Held(c)
    BY WroteIsHeld DEF UpsertProject, OpsOK, Holding, PcFits, ApplyPc, RemovePc
<1>5. SaveProjectRevision(c, o) => Held(c)
    BY WroteIsHeld, SpecsKnown DEF SaveProjectRevision, OpsOK, Holding, PcFits, ApplyPc, RemovePc
<1>6. UpsertAgents(c, o) => Held(c)
  <2>1. UpsertAgents(c, o) /\ op[c].todo = {} => Held(c)
    BY SMT, SpecsKnown DEF UpsertAgents, locks, OpsOK, Held, Holding, PcFits, OpType, ApplyPc, RemovePc, Pcs
  <2>2. UpsertAgents(c, o) /\ op[c].todo # {} => Held(c)
    <3>1. Rest(c) \in SUBSET (Schedulers \cup Sandboxes)
        BY DEF Rest, OpsOK, OpType
    <3> QED
        BY <3>1, WroteIsHeld DEF UpsertAgents, OpsOK, Holding, PcFits, ApplyPc, RemovePc
  <2> QED
      BY <2>1, <2>2
<1> QED
    BY <1>1, <1>2, <1>3, <1>4, <1>5, <1>6
(* Names that the steps below write.                                       *)
LEMMA NamesKnown ==
    /\ "reply" \in Pcs /\ "stop" \in Pcs /\ "closeList" \in Pcs
    /\ "images" \in Pcs /\ "downList" \in Pcs /\ "notApplied" \in ReplyKinds
    /\ "unknown" \in ReplyKinds /\ "failed" \in ReplyKinds
BY DEF Pcs, ReplyKinds

(* A step that replaces the record of the holder keeps the gate.           *)
LEMMA Moves ==
    ASSUME OpsOK, NEW c \in Callers, NEW r \in OpType,
           op' = [op EXCEPT ![c] = r], Holding(c), UNCHANGED locks,
           r.pc \notin {"idle", "wait", "unref", "resolve"},
           r.gate = op[c].gate, r.kind = op[c].kind,
           r.spec = op[c].spec, r.expected = op[c].expected,
           r.pc \in ApplyPc => op[c].kind \in {"apply", "patch"},
           r.pc \in RemovePc => op[c].kind = "remove"
    PROVE  Held(c)
BY DEF OpsOK, Held, Holding, PcFits

(* ReconcileSchedulers works under the gate.                               *)
LEMMA ReconcileIsHeld ==
    ASSUME OpsOK, NEW c \in Callers, NEW o \in Outcomes
    PROVE  /\ LoadFails(c) => Held(c)
           /\ CompareScheduler(c) => Held(c)
           /\ StageScheduler(c, o) => Held(c)
           /\ ReplaceTriggers(c, o) => Held(c)
           /\ EnableScheduler(c, o) => Held(c)
           /\ CleanupDisable(c, o) => Held(c)
           /\ CleanupRefresh(c, o) => Held(c)
           /\ ListRemoved(c, o) => Held(c)
           /\ DisableRemoved(c, o) => Held(c)
           /\ RefreshAfterReconcile(c, o) => Held(c)
           /\ ListApplied(c, o) => Held(c)
<1>1. LoadFails(c) => Held(c)
    BY SMT, SpecsKnown DEF LoadFails, ReconcileFails, locks, OpsOK, Held, Holding,
       PcFits, OpType, ApplyPc, RemovePc, Pcs, ReplyKinds
<1>c. CompareScheduler(c) => Held(c)
    BY SMT, SpecsKnown DEF CompareScheduler, Rest, Goes, locks, OpsOK, Held, Holding,
       PcFits, OpType, ApplyPc, RemovePc, Pcs, ReplyKinds
<1>2. StageScheduler(c, o) => Held(c)
    BY SMT, SpecsKnown DEF StageScheduler, UncertainFails, locks, OpsOK, Held, Holding,
       PcFits, OpType, ApplyPc, RemovePc, Pcs, ReplyKinds
<1>3. ReplaceTriggers(c, o) => Held(c)
    BY SMT, SpecsKnown DEF ReplaceTriggers, Goes, Rest, locks, OpsOK, Held, Holding,
       PcFits, OpType, ApplyPc, RemovePc, Pcs, ReplyKinds
<1>4. EnableScheduler(c, o) => Held(c)
    BY SMT, SpecsKnown DEF EnableScheduler, Goes, Rest, locks, OpsOK, Held, Holding,
       PcFits, OpType, ApplyPc, RemovePc, Pcs, ReplyKinds
<1>5. ASSUME CleanupDisable(c, o) PROVE Held(c)
  <2> DEFINE r == [op[c] EXCEPT !.pc = "cleanupRefresh", !.todo = {}]
  <2>1. op' = [op EXCEPT ![c] = r] /\ op[c].pc = "cleanup" /\ UNCHANGED locks
      BY <1>5, Zenon DEF CleanupDisable, locks, OpsOK, OpType
  <2>2. /\ r \in OpType /\ r.gate = op[c].gate /\ r.kind = op[c].kind
        /\ r.spec = op[c].spec /\ r.expected = op[c].expected /\ r.pc = "cleanupRefresh"
    <3>1. "cleanupRefresh" \in Pcs /\ {} \in SUBSET (Schedulers \cup Sandboxes)
        BY DEF Pcs
    <3> QED
        BY <3>1 DEF OpsOK, OpType
  <2> HIDE DEF r
  <2>3. Holding(c) /\ op[c].kind \in {"apply", "patch"}
      BY <2>1 DEF Holding, OpsOK, PcFits, ApplyPc
  <2> QED
      BY <2>1, <2>2, <2>3, Moves DEF RemovePc
<1>6. ASSUME CleanupRefresh(c, o) PROVE Held(c)
  <2> DEFINE v == IF NeedsFailClosed(c) THEN "closeList" ELSE "reply"
             r == [op[c] EXCEPT !.pc = v, !.reply = "failed", !.todo = {}]
  <2>1. v \in {"closeList", "reply"}
      OBVIOUS
  <2>2. op' = [op EXCEPT ![c] = r] /\ op[c].pc \in {"cleanupRefresh", "cleanupInstall"}
        /\ UNCHANGED locks
      BY <1>6, Zenon DEF Installing, CleanupRefresh, ReconcileFails, Refresh, locks, OpsOK, OpType
  <2> HIDE DEF v
  <2>3. /\ r \in OpType /\ r.gate = op[c].gate /\ r.kind = op[c].kind
        /\ r.spec = op[c].spec /\ r.expected = op[c].expected
      BY <2>1, NamesKnown, ZenonT(30) DEF OpsOK, OpType
  <2>4. Holding(c) /\ r.pc \notin {"idle", "wait", "unref", "resolve"}
      BY <2>1, <2>2 DEF OpsOK, OpType, Holding
  <2>5. /\ r.pc \in ApplyPc => op[c].kind \in {"apply", "patch"}
        /\ r.pc \in RemovePc => op[c].kind = "remove"
      BY <2>1, <2>2 DEF OpsOK, OpType, PcFits, ApplyPc, RemovePc
  <2> HIDE DEF r
  <2> QED
      BY <2>2, <2>3, <2>4, <2>5, Moves, Zenon
<1>7. ListRemoved(c, o) => Held(c)
    BY SMT, SpecsKnown DEF ListRemoved, ReconcileFails, Enabled, locks, OpsOK, Held, Holding,
       PcFits, OpType, ApplyPc, RemovePc, Pcs, ReplyKinds
<1>8. DisableRemoved(c, o) => Held(c)
    BY SMT, SpecsKnown DEF DisableRemoved, Rest, UncertainFails, locks, OpsOK, Held, Holding,
       PcFits, OpType, ApplyPc, RemovePc, Pcs, ReplyKinds
<1>9. ASSUME RefreshAfterReconcile(c, o) PROVE Held(c)
  <2>1. op[c].pc \in {"disable", "disableInstall"} /\ UNCHANGED locks
      BY <1>9 DEF RefreshAfterReconcile, Refresh, Installing, locks
  <2>2. \/ op' = [op EXCEPT ![c].pc = "list", ![c].todo = {}]
        \/ op' = [op EXCEPT ![c].pc = "reply", ![c].reply = "failed",
                            ![c].clean = FALSE, ![c].todo = {}]
      BY <1>9 DEF RefreshAfterReconcile
  <2> DEFINE r == [op[c] EXCEPT !.pc = "list", !.todo = {}]
             f == [op[c] EXCEPT !.pc = "reply", !.reply = "failed",
                                !.clean = FALSE, !.todo = {}]
  <2>3. op' = [op EXCEPT ![c] = r] \/ op' = [op EXCEPT ![c] = f]
      BY <2>2, Zenon DEF OpsOK, OpType
  <2>4. /\ r \in OpType /\ r.gate = op[c].gate /\ r.kind = op[c].kind
        /\ r.spec = op[c].spec /\ r.expected = op[c].expected /\ r.pc = "list"
    <3>1. "list" \in Pcs /\ {} \in SUBSET (Schedulers \cup Sandboxes)
        BY DEF Pcs
    <3> QED
        BY <3>1 DEF OpsOK, OpType
  <2>5. /\ f \in OpType /\ f.gate = op[c].gate /\ f.kind = op[c].kind
        /\ f.spec = op[c].spec /\ f.expected = op[c].expected /\ f.pc = "reply"
    <3>1. /\ "reply" \in Pcs /\ {} \in SUBSET (Schedulers \cup Sandboxes)
          /\ "failed" \in ReplyKinds /\ FALSE \in BOOLEAN
        BY DEF Pcs, ReplyKinds
    <3> QED
        BY ZenonT(30), <3>1 DEF OpsOK, OpType
  <2> HIDE DEF r, f
  <2>6. Holding(c) /\ op[c].kind \in {"apply", "patch"}
      BY <2>1 DEF Holding, OpsOK, PcFits, ApplyPc
  <2>7. CASE op' = [op EXCEPT ![c] = r]
      BY <2>1, <2>4, <2>6, <2>7, Moves DEF RemovePc
  <2>8. CASE op' = [op EXCEPT ![c] = f]
      BY <2>1, <2>5, <2>6, <2>8, Moves DEF RemovePc
  <2> QED
      BY <2>3, <2>7, <2>8
<1>10. ASSUME ListApplied(c, o) PROVE Held(c)
  <2> DEFINE v == IF o # "ok" THEN "unknown"
                  ELSE IF op[c].kind = "remove" THEN "removed" ELSE "applied"
             r == [op[c] EXCEPT !.pc = "reply", !.reply = v]
  <2>1. v \in ReplyKinds
      BY DEF ReplyKinds
  <2>2. op' = [op EXCEPT ![c] = r] /\ op[c].pc = "list" /\ UNCHANGED locks
      BY <1>10, Zenon DEF ListApplied, Replies, locks, OpsOK, OpType
  <2> HIDE DEF v
  <2>3. /\ r \in OpType /\ r.gate = op[c].gate /\ r.kind = op[c].kind
        /\ r.spec = op[c].spec /\ r.expected = op[c].expected
      BY <2>1, NamesKnown, ZenonT(30) DEF OpsOK, OpType
  <2>4. Holding(c) /\ r.pc \notin {"idle", "wait", "unref", "resolve"}
      BY <2>1, <2>2 DEF OpsOK, OpType, Holding
  <2>5. /\ r.pc \in ApplyPc => op[c].kind \in {"apply", "patch"}
        /\ r.pc \in RemovePc => op[c].kind = "remove"
      BY <2>1, <2>2 DEF OpsOK, OpType, PcFits, ApplyPc, RemovePc
  <2> HIDE DEF r
  <2> QED
      BY <2>2, <2>3, <2>4, <2>5, Moves, Zenon
<1> QED
    BY <1>1, <1>c, <1>2, <1>3, <1>4, <1>5, <1>6, <1>7, <1>8, <1>9, <1>10

(* So does the compensation of a failed reconcile.                         *)
LEMMA CompensationIsHeld ==
    ASSUME OpsOK, NEW c \in Callers, NEW o \in Outcomes
    PROVE  /\ FailClosedList(c, o) => Held(c)
           /\ FailClosedDisable(c, o) => Held(c)
           /\ FailClosedRefresh(c, o) => Held(c)
<1>1. FailClosedList(c, o) => Held(c)
    BY SMT, SpecsKnown DEF FailClosedList, Enabled, locks, OpsOK, Held, Holding,
       PcFits, OpType, ApplyPc, RemovePc, Pcs, ReplyKinds
<1>2. ASSUME FailClosedDisable(c, o) PROVE Held(c)
  <2> DEFINE v == IF o = "ok" THEN op[c].clean ELSE FALSE
             r == [op[c] EXCEPT !.todo = Rest(c), !.clean = v]
  <2>1. v \in BOOLEAN /\ Rest(c) \in SUBSET (Schedulers \cup Sandboxes)
      BY DEF OpsOK, OpType, Rest
  <2>2. op' = [op EXCEPT ![c] = r] /\ op[c].pc = "close" /\ UNCHANGED locks
      BY <1>2, Zenon DEF FailClosedDisable, locks, OpsOK, OpType
  <2> HIDE DEF v
  <2>3. /\ r \in OpType /\ r.gate = op[c].gate /\ r.kind = op[c].kind
        /\ r.spec = op[c].spec /\ r.expected = op[c].expected
      BY <2>1, NamesKnown, ZenonT(30) DEF OpsOK, OpType
  <2>4. Holding(c) /\ r.pc \notin {"idle", "wait", "unref", "resolve"}
      BY SMT, <2>1, <2>2 DEF OpsOK, OpType, Holding
  <2>5. /\ r.pc \in ApplyPc => op[c].kind \in {"apply", "patch"}
        /\ r.pc \in RemovePc => op[c].kind = "remove"
      BY <2>1, <2>2 DEF OpsOK, OpType, PcFits, ApplyPc, RemovePc
  <2> HIDE DEF r
  <2> QED
      BY <2>2, <2>3, <2>4, <2>5, Moves, Zenon
<1>3. ASSUME FailClosedRefresh(c, o) PROVE Held(c)
  <2> DEFINE v == IF o = "ok" THEN op[c].clean ELSE FALSE
             r == [op[c] EXCEPT !.pc = "reply", !.clean = v, !.todo = {}]
  <2>1. v \in BOOLEAN /\ Rest(c) \in SUBSET (Schedulers \cup Sandboxes)
      BY DEF OpsOK, OpType, Rest
  <2>2. op' = [op EXCEPT ![c] = r] /\ op[c].pc \in {"close", "closeInstall"} /\ UNCHANGED locks
      BY <1>3, Zenon DEF FailClosedRefresh, Refresh, Installing, locks, OpsOK, OpType
  <2> HIDE DEF v
  <2>3. /\ r \in OpType /\ r.gate = op[c].gate /\ r.kind = op[c].kind
        /\ r.spec = op[c].spec /\ r.expected = op[c].expected
      BY <2>1, NamesKnown, ZenonT(30) DEF OpsOK, OpType
  <2>4. Holding(c) /\ r.pc \notin {"idle", "wait", "unref", "resolve"}
      BY <2>1, <2>2 DEF OpsOK, OpType, Holding
  <2>5. /\ r.pc \in ApplyPc => op[c].kind \in {"apply", "patch"}
        /\ r.pc \in RemovePc => op[c].kind = "remove"
      BY <2>1, <2>2 DEF OpsOK, OpType, PcFits, ApplyPc, RemovePc
  <2> HIDE DEF r
  <2> QED
      BY <2>2, <2>3, <2>4, <2>5, Moves, Zenon
<1> QED
    BY <1>1, <1>2, <1>3

(* RemoveProject works under the gate.                                     *)
LEMMA RemoveIsHeld ==
    ASSUME OpsOK, NEW c \in Callers, NEW o \in Outcomes
    PROVE  /\ DownList(c, o) => Held(c)
           /\ DownDisable(c, o) => Held(c)
           /\ DownRefresh(c, o) => Held(c)
           /\ ListRunning(c, o) => Held(c)
           /\ StopSandbox(c, o) => Held(c)
           /\ Stopped(c) => Held(c)
           /\ MarkProjectRemoved(c, o) => Held(c)
           /\ RemoveProjectVolumes(c, o) => Held(c)
<1>1. DownList(c, o) => Held(c)
    BY SMT, SpecsKnown DEF DownList, Enabled, locks, OpsOK, Held, Holding,
       PcFits, OpType, ApplyPc, RemovePc, Pcs, ReplyKinds
<1>2. DownDisable(c, o) => Held(c)
    BY SMT, SpecsKnown DEF DownDisable, Rest, locks, OpsOK, Held, Holding,
       PcFits, OpType, ApplyPc, RemovePc, Pcs, ReplyKinds
<1>3. ASSUME DownRefresh(c, o) PROVE Held(c)
  <2>1. op[c].pc \in {"down", "downInstall"} /\ UNCHANGED locks
      BY <1>3 DEF DownRefresh, Refresh, Installing, locks
  <2>2. \/ op' = [op EXCEPT ![c].pc = "listSandboxes", ![c].todo = {}]
        \/ op' = [op EXCEPT ![c].pc = "reply", ![c].reply = "unknown", ![c].todo = {}]
      BY <1>3 DEF DownRefresh
  <2> QED
      BY SMTT(30), <2>1, <2>2, SpecsKnown DEF locks, OpsOK, Held, Holding,
         PcFits, OpType, ApplyPc, RemovePc, Pcs, ReplyKinds
<1>4. ASSUME ListRunning(c, o) PROVE Held(c)
  <2> DEFINE running == {b \in Sandboxes : sandbox[b] = "running"}
             r == IF o = "ok"
                  THEN [op[c] EXCEPT !.pc = "stop", !.todo = running, !.seen = running]
                  ELSE [op[c] EXCEPT !.pc = "reply", !.reply = "unknown"]
  <2>1. running \in SUBSET Sandboxes
      OBVIOUS
  <2>2. op' = [op EXCEPT ![c] = r] /\ op[c].pc = "listSandboxes" /\ UNCHANGED locks
      BY <1>4, Zenon DEF ListRunning, locks, OpsOK, OpType
  <2> HIDE DEF running
  <2>3. /\ r \in OpType /\ r.gate = op[c].gate /\ r.kind = op[c].kind
        /\ r.spec = op[c].spec /\ r.expected = op[c].expected
      BY <2>1, NamesKnown, ZenonT(30) DEF OpsOK, OpType
  <2>4. Holding(c) /\ r.pc \notin {"idle", "wait", "unref", "resolve"}
      BY <2>1, <2>2 DEF OpsOK, OpType, Holding
  <2>5. /\ r.pc \in ApplyPc => op[c].kind \in {"apply", "patch"}
        /\ r.pc \in RemovePc => op[c].kind = "remove"
      BY <2>1, <2>2 DEF OpsOK, OpType, PcFits, ApplyPc, RemovePc
  <2> HIDE DEF r
  <2> QED
      BY <2>2, <2>3, <2>4, <2>5, Moves, Zenon
<1>5. ASSUME StopSandbox(c, o) PROVE Held(c)
  <2> DEFINE v == IF o = "ok" THEN op[c].clean ELSE FALSE
             w == IF Takes(o) THEN op[c].seen \ {First(c)} ELSE op[c].seen
             r == [op[c] EXCEPT !.todo = Rest(c), !.clean = v, !.seen = w]
  <2>1. v \in BOOLEAN /\ Rest(c) \in SUBSET (Schedulers \cup Sandboxes)
        /\ w \in SUBSET Sandboxes
      BY DEF OpsOK, OpType, Rest
  <2>2. op' = [op EXCEPT ![c] = r] /\ op[c].pc = "stop" /\ UNCHANGED locks
      BY <1>5, Zenon DEF StopSandbox, locks, OpsOK, OpType
  <2> HIDE DEF v, w
  <2>3. /\ r \in OpType /\ r.gate = op[c].gate /\ r.kind = op[c].kind
        /\ r.spec = op[c].spec /\ r.expected = op[c].expected
      BY <2>1, NamesKnown, ZenonT(30) DEF OpsOK, OpType
  <2>4. Holding(c) /\ r.pc \notin {"idle", "wait", "unref", "resolve"}
      BY SMT, <2>1, <2>2 DEF OpsOK, OpType, Holding
  <2>5. /\ r.pc \in ApplyPc => op[c].kind \in {"apply", "patch"}
        /\ r.pc \in RemovePc => op[c].kind = "remove"
      BY <2>1, <2>2 DEF OpsOK, OpType, PcFits, ApplyPc, RemovePc
  <2> HIDE DEF r
  <2> QED
      BY <2>2, <2>3, <2>4, <2>5, Moves, Zenon
<1>6. Stopped(c) => Held(c)
    BY SMT, SpecsKnown DEF Stopped, Goes, Replies, locks, OpsOK, Held, Holding,
       PcFits, OpType, ApplyPc, RemovePc, Pcs, ReplyKinds
<1>7. MarkProjectRemoved(c, o) => Held(c)
    BY SMT, SpecsKnown DEF MarkProjectRemoved, Wrote, Takes, OpsOK, Held, Holding,
       PcFits, OpType, ApplyPc, RemovePc, Pcs, ReplyKinds
<1>8. RemoveProjectVolumes(c, o) => Held(c)
    BY SMT, SpecsKnown DEF RemoveProjectVolumes, Wrote, Takes, OpsOK, Held, Holding,
       PcFits, OpType, ApplyPc, RemovePc, Pcs, ReplyKinds
<1> QED
    BY <1>1, <1>2, <1>3, <1>4, <1>5, <1>6, <1>7, <1>8

(* A refresh of the scheduler controller is part of the work.              *)
LEMMA ListIsHeld ==
    ASSUME OpsOK, NEW c \in Callers, ListSchedulers(c)
    PROVE  Held(c)
<1> DEFINE v == Installing[op[c].pc]
           r == [op[c] EXCEPT !.pc = v, !.todo = Enabled]
<1>1. op[c].pc \in {"cleanupRefresh", "disable", "close", "down"}
    BY DEF ListSchedulers, AtRefresh
<1>2. op' = [op EXCEPT ![c] = r] /\ UNCHANGED locks
    BY DEF ListSchedulers, locks, OpsOK, OpType
<1>3. /\ v \in {"cleanupInstall", "disableInstall", "closeInstall", "downInstall"}
      /\ v = "downInstall" <=> op[c].pc = "down"
    BY SMT, <1>1 DEF Installing
<1>4. v \in Pcs /\ Enabled \in SUBSET (Schedulers \cup Sandboxes)
    BY <1>3 DEF Pcs, Enabled
<1> HIDE DEF v
<1>5. /\ r \in OpType /\ r.gate = op[c].gate /\ r.kind = op[c].kind
      /\ r.spec = op[c].spec /\ r.expected = op[c].expected /\ r.pc = v
    BY <1>4, Zenon DEF OpsOK, OpType
<1> HIDE DEF r
<1>6. Holding(c) /\ r.pc \notin {"idle", "wait", "unref", "resolve"}
    BY <1>1, <1>3, <1>5 DEF Holding
<1>7. /\ r.pc \in ApplyPc => op[c].kind \in {"apply", "patch"}
      /\ r.pc \in RemovePc => op[c].kind = "remove"
    BY <1>1, <1>3, <1>5 DEF OpsOK, PcFits, ApplyPc, RemovePc
<1> QED
    BY <1>2, <1>5, <1>6, <1>7, Moves, Zenon

(* The whole of the work under the gate.                                   *)
LEMMA WorkIsHeld ==
    ASSUME OpsOK, NEW c \in Callers, Work(c)
    PROVE  Held(c)
<1>1. ASSUME NEW o \in Outcomes, NEW refused \in BOOLEAN, Resolve(c, o, refused)
      PROVE  Held(c)
  <2> DEFINE pulls == [op[c] EXCEPT !.pc = "images", !.todo = InSpec[op[c].spec]]
             down == [op[c] EXCEPT !.pc = "downList"]
             refuses == [op[c] EXCEPT !.pc = "reply", !.reply = "notApplied"]
  <2>1. /\ op[c].pc = "resolve" /\ UNCHANGED locks
        /\ \/ op[c].kind # "remove" /\ op' = [op EXCEPT ![c] = pulls]
           \/ op[c].kind = "remove" /\ op' = [op EXCEPT ![c] = down]
           \/ op' = [op EXCEPT ![c] = refuses]
      BY <1>1, Zenon DEF Resolve, Replies, Goes, OpsOK, OpType, locks
  <2>2. op[c].kind # "remove" => pulls \in OpType
    <3>1. op[c].kind # "remove" => InSpec[op[c].spec] \in SUBSET (Schedulers \cup Sandboxes)
        BY <2>1, SpecsKnown DEF OpsOK, PcFits
    <3> QED
        BY <3>1, NamesKnown, ZenonT(30) DEF OpsOK, OpType
  <2>3. down \in OpType /\ refuses \in OpType
      BY NamesKnown, Zenon DEF OpsOK, OpType
  <2>4. Holding(c)
      BY <2>1 DEF Holding
  <2>5. op[c].kind \in {"apply", "patch", "remove"}
      BY <2>1 DEF OpsOK, PcFits
  <2>6. \A r \in {pulls, down, refuses} :
          r.gate = op[c].gate /\ r.kind = op[c].kind /\ r.spec = op[c].spec
          /\ r.expected = op[c].expected
      BY DEF OpsOK, OpType
  <2>7. pulls.pc = "images" /\ down.pc = "downList" /\ refuses.pc = "reply"
      BY DEF OpsOK, OpType
  <2> HIDE DEF pulls, down, refuses
  <2>8. CASE op[c].kind # "remove" /\ op' = [op EXCEPT ![c] = pulls]
      BY <2>1, <2>2, <2>4, <2>5, <2>6, <2>7, <2>8, Moves, Zenon DEF ApplyPc, RemovePc
  <2>9. CASE op[c].kind = "remove" /\ op' = [op EXCEPT ![c] = down]
      BY <2>1, <2>3, <2>4, <2>5, <2>6, <2>7, <2>9, Moves, Zenon DEF ApplyPc, RemovePc
  <2>10. CASE op' = [op EXCEPT ![c] = refuses]
      BY <2>1, <2>3, <2>4, <2>5, <2>6, <2>7, <2>10, Moves, Zenon DEF ApplyPc, RemovePc
  <2> QED
      BY <2>1, <2>8, <2>9, <2>10
<1>2. ASSUME NEW o \in Outcomes, Apply(c, o)
      PROVE  Held(c)
    BY <1>2, WritesAreHeld, ReconcileIsHeld, CompensationIsHeld DEF Apply
<1>3. ASSUME NEW o \in Outcomes, Remove(c, o)
      PROVE  Held(c)
    BY <1>3, RemoveIsHeld DEF Remove
<1>4. "ok" \in Outcomes
    BY DEF Outcomes
<1>5. LoadFails(c) \/ CompareScheduler(c) \/ ListSchedulers(c) \/ Stopped(c) => Held(c)
    BY <1>4, ReconcileIsHeld, RemoveIsHeld, ListIsHeld
<1> QED
    BY <1>1, <1>2, <1>3, <1>5 DEF Work

----------------------------------------------------------------------------
(***************************************************************************)
(* What the steps of a request leave behind.  One request works at a time  *)
(* (GateInv), so what it has established holds until it goes on: WorkInv   *)
(* says, step by step, how far the store has come.  What it says of a row  *)
(* leaves room for the writers outside the gate: they may change the       *)
(* enabled column or the triggers of a row at any moment, and have then    *)
(* overridden that part of it.                                             *)
(***************************************************************************)
Row == [rev : 1..Len(revision), on : BOOLEAN, trig : Specs \cup {None, Altered}]

(* The row of scheduler s is the one of spec p: staged, with its triggers, *)
(* and enabled or not.                                                     *)
Placed(s) == s \in Schedulers /\ rows[s] \in Row /\ rows[s].rev = project.rev
StagedOff(s) == Placed(s) /\ ("enabled" \in overridden[s] \/ ~rows[s].on)
Triggered(s, p) == "triggers" \in overridden[s] \/ rows[s].trig = p
Fits(s, p) ==
    /\ Placed(s) /\ Triggered(s, p)
    /\ "enabled" \in overridden[s] \/ (rows[s].on <=> s \in EnabledIn[p])

(* The schedulers enabled by a request, and a list that has just these     *)
(* among the ones not set by hand.                                         *)
Strays == {s \in Schedulers : On(s) /\ "enabled" \notin overridden[s]}
Agrees(l) ==
    /\ l \subseteq Schedulers
    /\ \A s \in Schedulers : "enabled" \in overridden[s] \/ (s \in l <=> On(s))

(* What a refresh outside the gate listed since the last list of a request *)
(* agrees with the store, and so does what the controller holds by it.     *)
OutsideAgrees ==
    \A r \in Refreshers : lists[r] # None /\ ~lists[r].late => Agrees(lists[r].on)
Fresh == OutsideAgrees /\ (stale \/ Agrees(held))

(* The store at any moment.                                                *)
StoreOK ==
    /\ revision \in Seq(Specs)
    /\ project # None => project \in [removed : BOOLEAN, hash : Specs, rev : 0..Len(revision)]
    /\ agents \in [Schedulers -> Nat] /\ rows \in [Schedulers -> Row \cup {None}]
    /\ overridden \in [Schedulers -> SUBSET {"enabled", "triggers"}]
    /\ EnabledIsConsistent

(* An apply or a patch is at one of the steps pcs, or has said Applied.    *)
AtOrApplied(c, pcs) ==
    /\ op[c].kind \in {"apply", "patch"}
    /\ op[c].pc \in pcs \/ (op[c].pc = "reply" /\ op[c].reply = "applied")

AfterReconcile == {"list"}
AfterStage == AfterReconcile \cup {"disable", "disableInstall"}
AfterAgents == AfterStage \cup {"stage", "write", "triggers", "enable"}
AfterRevision == AfterAgents \cup {"agents"}
AfterUpsert == AfterRevision \cup {"revision"}
AfterLinks == AfterUpsert \cup {"upsert"}
AfterVolume == AfterLinks \cup {"links"}
AfterImages == AfterVolume \cup {"volume"}

(* What the finished steps of an apply have established.                   *)
Established(c) ==
    LET p == op[c].spec IN
    /\ AtOrApplied(c, AfterImages) => InSpec[p] \subseteq images
    /\ AtOrApplied(c, AfterVolume) => volume
    /\ AtOrApplied(c, AfterLinks) => links = p
    /\ AtOrApplied(c, AfterUpsert) =>
          /\ project \in [removed : BOOLEAN, hash : Specs, rev : 0..Len(revision)]
          /\ ~project.removed /\ project.hash = p
    /\ AtOrApplied(c, AfterRevision) => project.rev > 0 /\ revision[project.rev] = p
    /\ AtOrApplied(c, AfterAgents) => \A s \in InSpec[p] : agents[s] = project.rev
    /\ AtOrApplied(c, AfterStage) => \A s \in InSpec[p] : Fits(s, p)
    /\ AtOrApplied(c, AfterReconcile) => Strays \subseteq InSpec[p] /\ Fresh

(* How far the loop has come that the request is in.                       *)
LoopOK(c) ==
    LET p == op[c].spec todo == op[c].todo IN
    /\ op[c].pc = "images" => todo \subseteq InSpec[p] /\ InSpec[p] \ todo \subseteq images
    /\ op[c].pc = "agents" =>
          todo \subseteq InSpec[p] /\ \A s \in InSpec[p] \ todo : agents[s] = project.rev
    /\ op[c].pc \in {"stage", "write", "triggers", "enable"} =>
          todo \subseteq InSpec[p] /\ \A s \in InSpec[p] \ todo : Fits(s, p)
    /\ op[c].pc \in {"write", "triggers", "enable", "cleanup"} =>
          todo # {} /\ todo \subseteq Schedulers
    /\ op[c].pc \in {"triggers", "enable"} => StagedOff(First(c))
    /\ op[c].pc = "enable" => Triggered(First(c), p) /\ First(c) \in EnabledIn[p]
    /\ op[c].pc = "cleanup" => First(c) \in Schedulers /\ rows[First(c)] \in Row
    /\ op[c].pc \in {"disable", "close", "down"} =>
          \A s \in todo : s \in Schedulers /\ rows[s] \in Row
    /\ op[c].pc = "disable" =>
          (\A s \in todo : s \notin InSpec[p]) /\ Strays \subseteq todo \cup InSpec[p]
    /\ op[c].pc = "disableInstall" => Strays \subseteq InSpec[p]
    /\ op[c].pc = "close" /\ op[c].clean => Strays \subseteq todo
    /\ op[c].pc = "closeInstall" /\ op[c].clean => Strays = {}
    /\ op[c].pc \in {"disableInstall", "closeInstall"} => Agrees(todo) /\ OutsideAgrees
    /\ op[c].pc = "reply" /\ op[c].reply = "failed" /\ op[c].kind # "remove"
          /\ op[c].dirty /\ op[c].clean => Strays = {} /\ Fresh

(* A request that needs the project has found it, and the revision a patch *)
(* read is still the current one when it writes.  A removal has disabled   *)
(* and stopped what it found, up to where it is.                           *)
ProjectOK(c) ==
    /\ op[c].pc \in {"downList", "down", "downInstall", "listSandboxes", "stop", "mark"} =>
          project # None
    /\ op[c].pc = "down" => Strays \subseteq op[c].todo
    /\ op[c].pc \in {"downInstall", "listSandboxes", "stop", "mark", "unlink"} => Strays = {}
    /\ op[c].pc = "stop" /\ op[c].clean => op[c].seen \subseteq op[c].todo
    /\ op[c].pc \in {"mark", "unlink"} => op[c].seen = {}
    /\ op[c].pc = "unlink" => project.removed
    /\ op[c].pc = "list" /\ op[c].kind = "remove" => RemovedIsWhole(c)
    /\ op[c].pc = "reply" /\ op[c].reply = "removed" => RemovedIsWhole(c)
    /\ op[c].kind = "patch" =>
        /\ op[c].pc \in {"images", "volume", "links", "upsert"} => project # None
        /\ op[c].pc \in {"images", "volume", "links", "upsert", "revision"} =>
              project.rev > 0 /\ revision[project.rev] = op[c].expected

(* What a request has written so far, and what it may say of it.           *)
ReplyOK(c) ==
    /\ op[c].pc \in {"idle", "wait", "resolve"} => ~op[c].wrote
    /\ op[c].pc = "images" /\ op[c].todo = InSpec[op[c].spec] => ~op[c].wrote
    /\ op[c].pc \in {"closeList", "close", "closeInstall"} => op[c].reply = "failed"
    /\ op[c].pc \notin {"closeList", "close", "closeInstall", "reply", "unref"} =>
          op[c].reply = "none"
    /\ op[c].reply = "notApplied" => ~op[c].wrote
    /\ op[c].pc = "list" => op[c].kind \in {"apply", "patch", "remove"}
    /\ op[c].reply = "applied" => op[c].kind \in {"apply", "patch"}

Progress(c) == Established(c) /\ LoopOK(c) /\ ProjectOK(c) /\ ReplyOK(c)

ListsOK == lists \in [Refreshers -> [on : SUBSET Schedulers, late : BOOLEAN] \cup {None}]

WorkInv == StoreOK /\ ListsOK /\ \A c \in Callers : Progress(c)

MinExists == \A S \in SUBSET Nat : S # {} => Min(S) \in S

(* The fields of the record of caller c that the invariants speak of.      *)
Fields(c, pc, todo, wrote, dirty, clean, reply) ==
    /\ op'[c].pc = pc /\ op'[c].todo = todo /\ op'[c].wrote = wrote
    /\ op'[c].dirty = dirty /\ op'[c].clean = clean /\ op'[c].reply = reply
    /\ op'[c].kind = op[c].kind /\ op'[c].spec = op[c].spec
    /\ op'[c].expected = op[c].expected

USE DEF AfterReconcile, AfterStage, AfterAgents, AfterRevision, AfterUpsert,
        AfterLinks, AfterVolume, AfterImages

(* What the three common updates make of the record.                       *)
LEMMA CommonUpdates ==
    ASSUME OpsOK, NEW c \in Callers
    PROVE  /\ \A pc : Goes(c, pc) =>
                Fields(c, pc, op[c].todo, op[c].wrote, op[c].dirty, op[c].clean, op[c].reply)
           /\ \A r : Replies(c, r) =>
                Fields(c, "reply", op[c].todo, op[c].wrote, op[c].dirty, op[c].clean, r)
           /\ \A o, pc, todo : Wrote(c, o, pc, todo) =>
                IF o = "ok"
                THEN Fields(c, pc, todo, TRUE, op[c].dirty, op[c].clean, op[c].reply)
                ELSE \E wrote : Fields(c, "reply", {}, wrote, op[c].dirty, op[c].clean, "unknown")
<1>1. op \in [Callers -> OpType] /\ op[c] \in OpType
    BY DEF OpsOK
<1>2. ASSUME NEW pc, Goes(c, pc)
      PROVE  Fields(c, pc, op[c].todo, op[c].wrote, op[c].dirty, op[c].clean, op[c].reply)
    BY <1>1, <1>2 DEF Goes, Fields, OpType
<1>3. ASSUME NEW r, Replies(c, r)
      PROVE  Fields(c, "reply", op[c].todo, op[c].wrote, op[c].dirty, op[c].clean, r)
    BY <1>1, <1>3 DEF Replies, Fields, OpType
<1>4. ASSUME NEW o, NEW pc, NEW todo, Wrote(c, o, pc, todo)
      PROVE  IF o = "ok"
             THEN Fields(c, pc, todo, TRUE, op[c].dirty, op[c].clean, op[c].reply)
             ELSE \E wrote : Fields(c, "reply", {}, wrote, op[c].dirty, op[c].clean, "unknown")
  <2>1. CASE o = "ok"
      BY <1>1, <1>4, <2>1 DEF Wrote, Takes, Fields, OpType
  <2>2. CASE o # "ok"
      BY <1>1, <1>4, <2>2 DEF Wrote, Fields, OpType
  <2> QED
      BY <2>1, <2>2
<1> QED
    BY <1>2, <1>3, <1>4

(* Of which a few fields are often all that matters: on to the next step,  *)
LEMMA GoesTo ==
    ASSUME OpsOK, NEW c \in Callers, NEW pc, Goes(c, pc)
    PROVE  /\ op'[c].pc = pc /\ op'[c].reply = op[c].reply
           /\ op'[c].wrote = op[c].wrote /\ op'[c].kind = op[c].kind
<1>1. Fields(c, pc, op[c].todo, op[c].wrote, op[c].dirty, op[c].clean, op[c].reply)
    BY CommonUpdates
<1> QED
    BY <1>1 DEF Fields

(* to the reply,                                                           *)
LEMMA RepliesWith ==
    ASSUME OpsOK, NEW c \in Callers, NEW r, Replies(c, r)
    PROVE  op'[c].pc = "reply" /\ op'[c].reply = r /\ op'[c].wrote = op[c].wrote
<1>1. Fields(c, "reply", op[c].todo, op[c].wrote, op[c].dirty, op[c].clean, r)
    BY CommonUpdates
<1> QED
    BY <1>1 DEF Fields

(* and on after a write that succeeded.                                    *)
LEMMA WroteThenGoes ==
    ASSUME OpsOK, NEW c \in Callers, NEW pc, NEW todo, Wrote(c, "ok", pc, todo)
    PROVE  op'[c].pc = pc /\ op'[c].reply = op[c].reply /\ op'[c].kind = op[c].kind
<1>1. Fields(c, pc, todo, TRUE, op[c].dirty, op[c].clean, op[c].reply)
    BY CommonUpdates
<1> QED
    BY <1>1 DEF Fields

(* A request that ends in an error has nothing more to answer for.         *)
LEMMA Fails ==
    ASSUME NEW c \in Callers, op'[c].pc = "reply",
           \/ op'[c].reply = "unknown"
           \/ op'[c].reply = "notApplied" /\ ~op'[c].wrote
           \/ op'[c].reply = "failed"
              /\ ~(op'[c].kind # "remove" /\ op'[c].dirty /\ op'[c].clean)
    PROVE  Progress(c)'
<1>1. Established(c)'
    BY DEF Established, AtOrApplied
<1>2. LoopOK(c)'
    BY DEF LoopOK
<1>3. ProjectOK(c)' /\ ReplyOK(c)'
    BY DEF ProjectOK, ReplyOK
<1> QED
    BY <1>1, <1>2, <1>3 DEF Progress

(* So has one whose write failed.                                          *)
LEMMA WriteFails ==
    ASSUME OpsOK, NEW c \in Callers, NEW o, NEW pc, NEW todo, Wrote(c, o, pc, todo), o # "ok"
    PROVE  Progress(c)'
<1>1. PICK wrote : Fields(c, "reply", {}, wrote, op[c].dirty, op[c].clean, "unknown")
    BY CommonUpdates
<1>2. op'[c].pc = "reply" /\ op'[c].reply = "unknown"
    BY <1>1 DEF Fields
<1> QED
    BY <1>2, Fails

(* A removal establishes nothing for an apply.                             *)
LEMMA Downs ==
    ASSUME NEW c \in Callers, op'[c].kind = "remove", op'[c].reply = "none",
           op'[c].pc \in RemovePc \cup {"list"}, ProjectOK(c)',
           op'[c].pc = "down" => \A s \in op'[c].todo : s \in Schedulers /\ rows'[s] \in Row'
    PROVE  Progress(c)'
<1>1. Established(c)'
    BY DEF Established, AtOrApplied
<1>2. LoopOK(c)'
    BY DEF LoopOK, RemovePc
<1>3. ReplyOK(c)'
    BY DEF ReplyOK, RemovePc
<1> QED
    BY <1>1, <1>2, <1>3 DEF Progress

(* The requests that wait, and the one that left, depend on no row.        *)
LEMMA OthersWait ==
    ASSUME GateExclusion, NEW c \in Callers, Held(c), NEW d \in Callers, d # c, Progress(d)
    PROVE  Progress(d)'
<1>1. op'[d] = op[d] /\ op[d].pc \in {"idle", "wait", "unref"}
    BY DEF Held, GateExclusion, Holding
<1>2. Established(d)' /\ LoopOK(d)' /\ ProjectOK(d)'
  <2>1. Established(d)'
    BY <1>1 DEF Established, AtOrApplied
  <2>2. LoopOK(d)'
    BY <1>1 DEF LoopOK
  <2>3. ProjectOK(d)'
    BY <1>1 DEF ProjectOK
  <2> QED
    BY <2>1, <2>2, <2>3
<1>3. ReplyOK(d)'
    BY <1>1 DEF Progress, ReplyOK
<1> QED
    BY <1>2, <1>3 DEF Progress

(* The invariant of the store speaks of these only.                        *)
LEMMA StoreKept ==
    ASSUME StoreOK, UNCHANGED <<project, revision, agents, rows, overridden>>
    PROVE  /\ StoreOK' /\ Row' = Row /\ Enabled' = Enabled /\ Strays' = Strays
           /\ \A s, p : Fits(s, p) => Fits(s, p)'
           /\ \A l : Agrees(l) => Agrees(l)'
<1>1. StoreOK' /\ Row' = Row /\ Enabled' = Enabled /\ Strays' = Strays
    BY DEF StoreOK, Row, EnabledIsConsistent, On, Enabled, Strays
<1>2. \A s, p : Fits(s, p) => Fits(s, p)'
    BY <1>1 DEF Fits, Placed, Triggered
<1>3. \A l : Agrees(l) => Agrees(l)'
    BY DEF Agrees, On
<1> QED
    BY <1>1, <1>2, <1>3

(* EnsureVolume and LinkVolumes.                                           *)
LEMMA VolumeProgress ==
    ASSUME OpsOK, StoreOK, NEW c \in Callers, Progress(c), NEW o \in Outcomes,
           EnsureVolume(c, o) \/ LinkVolumes(c, o)
    PROVE  StoreOK' /\ Progress(c)'
<1>1. StoreOK' /\ UNCHANGED <<project, revision, agents, rows, images, cache>>
    BY StoreKept DEF EnsureVolume, LinkVolumes
<1>2. CASE EnsureVolume(c, o)
  <2>1. /\ op[c].pc = "volume" /\ Wrote(c, o, "links", {}) /\ links' = links
        /\ o = "ok" => volume'
      BY <1>2 DEF EnsureVolume, Takes
  <2>2. CASE o = "ok"
    <3>1. Fields(c, "links", {}, TRUE, op[c].dirty, op[c].clean, op[c].reply)
        BY <2>1, <2>2, CommonUpdates
    <3>2. Established(c)'
        BY <1>1, <2>1, <2>2, <3>1 DEF Progress, Established, AtOrApplied, Fields
    <3>3. LoopOK(c)'
        BY <3>1 DEF LoopOK, Fields
    <3>4. ProjectOK(c)' /\ ReplyOK(c)'
        BY <1>1, <2>1, <3>1 DEF Progress, ProjectOK, ReplyOK, Fields
    <3> QED
        BY <1>1, <3>2, <3>3, <3>4 DEF Progress
  <2>3. CASE o # "ok"
      BY <1>1, <2>1, <2>3, WriteFails
  <2> QED
      BY <2>2, <2>3
<1>3. CASE LinkVolumes(c, o)
  <2>1. /\ op[c].pc = "links" /\ Wrote(c, o, "upsert", {}) /\ volume' = volume
        /\ o = "ok" => links' = op[c].spec
      BY <1>3 DEF LinkVolumes, Takes
  <2>2. CASE o = "ok"
    <3>1. Fields(c, "upsert", {}, TRUE, op[c].dirty, op[c].clean, op[c].reply)
        BY <2>1, <2>2, CommonUpdates
    <3>2. Established(c)'
        BY <1>1, <2>1, <2>2, <3>1 DEF Progress, Established, AtOrApplied, Fields
    <3>3. LoopOK(c)'
        BY <3>1 DEF LoopOK, Fields
    <3>4. ProjectOK(c)' /\ ReplyOK(c)'
        BY <1>1, <2>1, <3>1 DEF Progress, ProjectOK, ReplyOK, Fields
    <3> QED
        BY <1>1, <3>2, <3>3, <3>4 DEF Progress
  <2>3. CASE o # "ok"
      BY <1>1, <2>1, <2>3, WriteFails
  <2> QED
      BY <2>2, <2>3
<1> QED
    BY <1>2, <1>3

(* A loop takes one of its schedulers at a time.                           *)
LEMMA FirstIsNext ==
    ASSUME MinExists, NEW c \in Callers, op[c].todo \subseteq Schedulers, op[c].todo # {}
    PROVE  First(c) \in op[c].todo /\ First(c) \in Schedulers
BY SpecsKnown DEF MinExists, First

(* The spec of an apply or a patch is known, and so are its schedulers.    *)
LEMMA SpecOf ==
    ASSUME OpsOK, NEW c \in Callers, op[c].pc \in ApplyPc
    PROVE  /\ op[c].kind \in {"apply", "patch"} /\ op[c].spec \in Specs
           /\ InSpec[op[c].spec] \subseteq Schedulers
           /\ EnabledIn[op[c].spec] \subseteq InSpec[op[c].spec]
BY SpecsKnown DEF OpsOK, PcFits

(* ensureImages.                                                           *)
LEMMA ImagesProgress ==
    ASSUME OpsOK, StoreOK, MinExists, NEW c \in Callers, Progress(c), NEW o \in Outcomes,
           EnsureImages(c, o)
    PROVE  StoreOK' /\ Progress(c)'
<1>1. StoreOK' /\ UNCHANGED <<project, revision, agents, rows, volume, links, cache>>
    BY StoreKept DEF EnsureImages
<1>2. /\ op[c].pc = "images" /\ op[c].spec \in Specs
      /\ InSpec[op[c].spec] \subseteq Schedulers /\ op[c].todo \subseteq InSpec[op[c].spec]
      /\ InSpec[op[c].spec] \ op[c].todo \subseteq images
    BY SpecOf DEF EnsureImages, Progress, LoopOK, ApplyPc
<1>3. op \in [Callers -> OpType] /\ op[c] \in OpType
    BY DEF OpsOK
<1>4. op[c].reply = "none"
    BY <1>2 DEF Progress, ReplyOK
<1>5. CASE op[c].todo = {}
  <2>1. images' = images
      BY <1>5 DEF EnsureImages
  <2>2. Fields(c, "volume", op[c].todo, op[c].wrote, op[c].dirty, op[c].clean, op[c].reply)
      BY <1>5, CommonUpdates DEF EnsureImages
  <2>3. Established(c)'
      BY <1>2, <1>4, <1>5, <2>1, <2>2 DEF Established, AtOrApplied, Fields
  <2>4. LoopOK(c)'
      BY <2>2 DEF LoopOK, Fields
  <2>5. ProjectOK(c)' /\ ReplyOK(c)'
      BY <1>1, <1>2, <1>4, <2>2 DEF Progress, ProjectOK, ReplyOK, Fields
  <2> QED
      BY <1>1, <2>3, <2>4, <2>5 DEF Progress
<1>6. CASE op[c].todo # {} /\ o = "ok"
  <2>1. First(c) \in op[c].todo
      BY <1>2, <1>6, FirstIsNext
  <2>2. images' = images \cup {First(c)}
      BY <1>6 DEF EnsureImages
  <2>3. \E wrote : Fields(c, "images", Rest(c), wrote, op[c].dirty, op[c].clean, op[c].reply)
    <3> DEFINE new == op[c].wrote \/ First(c) \notin images
    <3>1. op' = [op EXCEPT ![c].todo = Rest(c), ![c].wrote = new]
        BY <1>3, <1>6 DEF EnsureImages
    <3> HIDE DEF new
    <3>2. Fields(c, "images", Rest(c), new, op[c].dirty, op[c].clean, op[c].reply)
        BY <1>2, <1>3, <3>1 DEF Fields, OpType
    <3> QED
        BY <3>2
  <2>4. Established(c)'
      BY <1>4, <2>3 DEF Established, AtOrApplied, Fields
  <2>5. Rest(c) \subseteq InSpec[op[c].spec] /\ Rest(c) # InSpec[op[c].spec]
        /\ InSpec[op[c].spec] \ Rest(c) \subseteq images'
      BY <1>2, <2>1, <2>2 DEF Rest
  <2>6. LoopOK(c)'
      BY <2>3, <2>5 DEF LoopOK, Fields
  <2>7. ProjectOK(c)' /\ ReplyOK(c)'
      BY <1>1, <1>2, <1>4, <2>3, <2>5 DEF Progress, ProjectOK, ReplyOK, Fields
  <2> QED
      BY <1>1, <2>4, <2>6, <2>7 DEF Progress
<1>7. CASE op[c].todo # {} /\ o # "ok"
  <2>1. op'[c].pc = "reply" /\ op'[c].reply = ImageFails(c, o)
        /\ op'[c].wrote = (op[c].wrote \/ o = "late")
    <3> DEFINE new == op[c].wrote \/ o = "late"
               why == ImageFails(c, o)
    <3>1. op' = [op EXCEPT ![c].pc = "reply", ![c].wrote = new, ![c].reply = why]
        BY <1>3, <1>7 DEF EnsureImages
    <3> HIDE DEF new, why
    <3>2. op'[c].pc = "reply" /\ op'[c].wrote = new /\ op'[c].reply = why
        BY <1>3, <3>1 DEF OpType
    <3> QED
        BY <3>2 DEF new, why
  <2>2. op'[c].reply = "unknown" \/ (op'[c].reply = "notApplied" /\ ~op'[c].wrote)
      BY <1>2, <2>1 DEF ImageFails, Progress, ReplyOK
  <2> QED
      BY <1>1, <2>1, <2>2, Fails
<1> QED
    BY <1>5, <1>6, <1>7

(* UpsertProject.                                                          *)
LEMMA UpsertProgress ==
    ASSUME OpsOK, StoreOK, NEW c \in Callers, Progress(c), NEW o \in Outcomes,
           UpsertProject(c, o)
    PROVE  StoreOK' /\ Progress(c)'
<1> DEFINE Typed == [removed : BOOLEAN, hash : Specs, rev : 0..Len(revision)]
<1>1. UNCHANGED <<revision, agents, rows, overridden, volume, links, images, cache>>
    BY DEF UpsertProject
<1>2. /\ op[c].pc = "upsert" /\ op[c].spec \in Specs /\ Wrote(c, o, "revision", {})
      /\ project' = IF Takes(o) THEN Upserted(c) ELSE project
    BY SpecOf DEF UpsertProject, ApplyPc
<1>3. /\ Upserted(c) \in Typed /\ ~Upserted(c).removed /\ Upserted(c).hash = op[c].spec
      /\ project # None => Upserted(c).rev = project.rev
  <2>1. Len(revision) \in Nat
      BY SMT DEF StoreOK
  <2>2. 0 \in 0..Len(revision)
      BY SMT, <2>1
  <2>3. (IF project = None THEN 0 ELSE project.rev) \in 0..Len(revision)
      BY <2>2 DEF StoreOK
  <2> QED
      BY <1>2, <2>3 DEF Upserted
<1>4. StoreOK'
    BY <1>1, <1>2, <1>3 DEF StoreOK, Row, EnabledIsConsistent, On
<1>5. CASE o = "ok"
  <2>1. Fields(c, "revision", {}, TRUE, op[c].dirty, op[c].clean, op[c].reply)
      BY <1>2, <1>5, CommonUpdates
  <2>2. project' = Upserted(c)
      BY <1>2, <1>5 DEF Takes
  <2>3. Established(c)'
      BY <1>1, <1>2, <1>3, <2>1, <2>2 DEF Progress, Established, AtOrApplied, Fields, ReplyOK
  <2>4. LoopOK(c)'
      BY <2>1 DEF LoopOK, Fields
  <2>5. ProjectOK(c)'
      BY <1>1, <1>2, <1>3, <2>1, <2>2 DEF Progress, ProjectOK, Fields
  <2>6. ReplyOK(c)'
      BY <1>2, <2>1 DEF Progress, ReplyOK, Fields
  <2> QED
      BY <1>4, <2>3, <2>4, <2>5, <2>6 DEF Progress
<1>6. CASE o # "ok"
    BY <1>2, <1>4, <1>6, WriteFails
<1> QED
    BY <1>5, <1>6

(* A revision is added behind the others.                                  *)
LEMMA RevisionAdded ==
    ASSUME StoreOK, NEW p \in Specs, revision' = Append(revision, p)
    PROVE  /\ revision' \in Seq(Specs) /\ Len(revision) \in Nat
           /\ Len(revision') = Len(revision) + 1 /\ revision'[Len(revision')] = p
           /\ \A i \in 1..Len(revision) : revision'[i] = revision[i]
           /\ 1..Len(revision) \subseteq 1..Len(revision')
           /\ 0..Len(revision) \subseteq 0..Len(revision')
           /\ Len(revision') \in 1..Len(revision') /\ Len(revision') \in 0..Len(revision')
           /\ Len(revision') > 0
BY SMT DEF StoreOK

(* SaveProjectRevision.                                                    *)
LEMMA RevisionProgress ==
    ASSUME OpsOK, StoreOK, NEW c \in Callers, Progress(c), NEW o \in Outcomes,
           SaveProjectRevision(c, o)
    PROVE  StoreOK' /\ Progress(c)'
<1>1. UNCHANGED <<agents, rows, overridden, volume, links, images, cache>>
    BY DEF SaveProjectRevision
<1>2. /\ op[c].pc = "revision" /\ op[c].spec \in Specs /\ op[c].kind \in {"apply", "patch"}
      /\ InSpec[op[c].spec] \subseteq Schedulers
      /\ Wrote(c, o, "agents", InSpec[op[c].spec])
    BY SpecOf DEF SaveProjectRevision, ApplyPc
<1>3. /\ project \in [removed : BOOLEAN, hash : Specs, rev : 0..Len(revision)]
      /\ ~project.removed /\ project.hash = op[c].spec
    BY <1>2 DEF Progress, Established, AtOrApplied
<1>4. /\ StoreOK'
      /\ project' \in [removed : BOOLEAN, hash : Specs, rev : 0..Len(revision')]
      /\ ~project'.removed /\ project'.hash = op[c].spec
      /\ o = "ok" => project'.rev > 0 /\ revision'[project'.rev] = op[c].spec
  <2>1. CASE Takes(o) /\ ~SameRevision(c)
    <3>1. /\ revision' = Append(revision, op[c].spec)
          /\ project' = [removed |-> FALSE, hash |-> op[c].spec, rev |-> Len(revision')]
        BY <2>1 DEF SaveProjectRevision
    <3>2. /\ project' \in [removed : BOOLEAN, hash : Specs, rev : 0..Len(revision')]
          /\ ~project'.removed /\ project'.hash = op[c].spec
          /\ project'.rev > 0 /\ revision'[project'.rev] = op[c].spec
        BY <1>2, <3>1, RevisionAdded
    <3>3. Row \subseteq Row'
        BY <1>2, <3>1, RevisionAdded DEF Row
    <3>4. rows' \in [Schedulers -> Row' \cup {None}]
        BY <1>1, <3>3 DEF StoreOK
    <3>5. EnabledIsConsistent'
      <4> SUFFICES ASSUME NEW s \in Schedulers, On(s), overridden[s] = {}
                   PROVE  rows[s].trig = revision'[rows[s].rev]
          BY <1>1 DEF EnabledIsConsistent, On
      <4>1. rows[s] \in Row /\ rows[s].trig = revision[rows[s].rev]
          BY DEF StoreOK, On, EnabledIsConsistent
      <4>2. rows[s].rev \in 1..Len(revision)
          BY <4>1 DEF Row
      <4> QED
          BY <1>2, <3>1, <4>1, <4>2, RevisionAdded
    <3>6. StoreOK'
        BY <1>1, <1>2, <3>1, <3>2, <3>4, <3>5, RevisionAdded DEF StoreOK
    <3> QED
        BY <3>2, <3>6
  <2>2. CASE ~(Takes(o) /\ ~SameRevision(c))
    <3>1. UNCHANGED <<revision, project>>
        BY <2>2 DEF SaveProjectRevision
    <3>2. StoreOK'
        BY <1>1, <3>1, StoreKept
    <3>3. o = "ok" => project.rev > 0 /\ revision[project.rev] = op[c].spec
        BY <2>2 DEF Takes, SameRevision
    <3> QED
        BY <1>3, <3>1, <3>2, <3>3
  <2> QED
      BY <2>1, <2>2
<1>5. CASE o = "ok"
  <2>1. Fields(c, "agents", InSpec[op[c].spec], TRUE, op[c].dirty, op[c].clean, op[c].reply)
      BY <1>2, <1>5, CommonUpdates
  <2>2. Established(c)'
      BY <1>1, <1>2, <1>4, <1>5, <2>1 DEF Progress, Established, AtOrApplied, Fields, ReplyOK
  <2>3. LoopOK(c)'
      BY <2>1 DEF LoopOK, Fields
  <2>4. ProjectOK(c)' /\ ReplyOK(c)'
      BY <1>2, <2>1 DEF Progress, ProjectOK, ReplyOK, Fields
  <2> QED
      BY <1>4, <2>2, <2>3, <2>4 DEF Progress
<1>6. CASE o # "ok"
    BY <1>2, <1>4, <1>6, WriteFails
<1> QED
    BY <1>5, <1>6

(* UpsertAgents.                                                           *)
LEMMA AgentsProgress ==
    ASSUME OpsOK, StoreOK, MinExists, NEW c \in Callers, Progress(c), NEW o \in Outcomes,
           UpsertAgents(c, o)
    PROVE  StoreOK' /\ Progress(c)'
<1>1. UNCHANGED <<project, revision, rows, overridden, volume, links, images, cache>>
    BY DEF UpsertAgents
<1>2. /\ op[c].pc = "agents" /\ op[c].kind \in {"apply", "patch"} /\ op[c].spec \in Specs
      /\ InSpec[op[c].spec] \subseteq Schedulers /\ op[c].todo \subseteq InSpec[op[c].spec]
      /\ \A s \in InSpec[op[c].spec] \ op[c].todo : agents[s] = project.rev
    BY SpecOf DEF UpsertAgents, Progress, LoopOK, ApplyPc
<1>3. op \in [Callers -> OpType] /\ op[c] \in OpType
    BY DEF OpsOK
<1>4. op[c].reply = "none"
    BY <1>2 DEF Progress, ReplyOK
<1>5. CASE op[c].todo = {}
  <2>1. UNCHANGED agents /\ StoreOK'
      BY <1>1, <1>5, StoreKept DEF UpsertAgents
  <2>2. Fields(c, "stage", InSpec[op[c].spec], op[c].wrote, op[c].dirty, op[c].clean, op[c].reply)
    <3>1. op' = [op EXCEPT ![c].pc = "stage", ![c].todo = InSpec[op[c].spec]]
        BY <1>5 DEF UpsertAgents
    <3> QED
        BY <1>3, <3>1 DEF Fields, OpType
  <2>3. Established(c)'
      BY <1>1, <1>2, <1>4, <1>5, <2>1, <2>2 DEF Progress, Established, AtOrApplied, Fields
  <2>4. LoopOK(c)'
      BY <2>2 DEF LoopOK, Fields
  <2>5. ProjectOK(c)' /\ ReplyOK(c)'
      BY <1>2, <1>4, <2>2 DEF Progress, ProjectOK, ReplyOK, Fields
  <2> QED
      BY <2>1, <2>3, <2>4, <2>5 DEF Progress
<1>6. CASE op[c].todo # {}
  <2>1. First(c) \in op[c].todo /\ First(c) \in Schedulers
      BY <1>2, <1>6, FirstIsNext
  <2>2. /\ agents' = IF Takes(o) THEN [agents EXCEPT ![First(c)] = project.rev] ELSE agents
        /\ Wrote(c, o, "agents", Rest(c))
      BY <1>6 DEF UpsertAgents
  <2>3. project.rev \in Nat
    <3>1. project.rev \in 0..Len(revision)
        BY <1>2 DEF Progress, Established, AtOrApplied
    <3> QED
        BY SMT, <3>1 DEF StoreOK
  <2>4. StoreOK'
      BY <1>1, <2>2, <2>3 DEF StoreOK, Row, EnabledIsConsistent, On
  <2>5. CASE o = "ok"
    <3>1. Fields(c, "agents", Rest(c), TRUE, op[c].dirty, op[c].clean, op[c].reply)
        BY <2>2, <2>5, CommonUpdates
    <3>2. agents' = [agents EXCEPT ![First(c)] = project.rev]
        BY <2>2, <2>5 DEF Takes
    <3>3. /\ Rest(c) \subseteq InSpec[op[c].spec]
          /\ \A s \in InSpec[op[c].spec] \ Rest(c) : agents'[s] = project.rev
        BY <1>2, <2>1, <3>2 DEF Rest, StoreOK
    <3>4. Established(c)'
        BY <1>1, <1>2, <1>4, <3>1 DEF Progress, Established, AtOrApplied, Fields
    <3>5. LoopOK(c)'
        BY <1>1, <3>1, <3>3 DEF LoopOK, Fields
    <3>6. ProjectOK(c)' /\ ReplyOK(c)'
        BY <1>2, <1>4, <3>1 DEF Progress, ProjectOK, ReplyOK, Fields
    <3> QED
        BY <2>4, <3>4, <3>5, <3>6 DEF Progress
  <2>6. CASE o # "ok"
      BY <2>2, <2>4, <2>6, WriteFails
  <2> QED
      BY <2>5, <2>6
<1> QED
    BY <1>5, <1>6

----------------------------------------------------------------------------
(* ReconcileSchedulers.                                                    *)

(* What a write to the row of scheduler s leaves of the others.            *)
Elsewhere(s) ==
    \A t \in Schedulers : t # s =>
        /\ rows'[t] = rows[t] /\ overridden'[t] = overridden[t]
        /\ t \in Strays' => t \in Strays
        /\ \A p : Fits(t, p) => Fits(t, p)'

(* The row of a scheduler is replaced.                                     *)
LEMMA RowWritten ==
    ASSUME StoreOK, NEW s \in Schedulers, NEW r \in Row,
           NEW v \in SUBSET {"enabled", "triggers"}, r.on /\ v = {} => r.trig = revision[r.rev],
           rows' = [rows EXCEPT ![s] = r], overridden' = [overridden EXCEPT ![s] = v],
           UNCHANGED <<project, revision, agents>>
    PROVE  /\ StoreOK' /\ Row' = Row /\ rows'[s] = r /\ overridden'[s] = v
           /\ Elsewhere(s)
<1>1. Row' = Row
    BY DEF Row
<1>2. /\ rows \in [Schedulers -> Row \cup {None}]
      /\ overridden \in [Schedulers -> SUBSET {"enabled", "triggers"}]
    BY DEF StoreOK
<1>3. rows' \in [Schedulers -> Row \cup {None}] /\ rows'[s] = r
      /\ \A t \in Schedulers : t # s => rows'[t] = rows[t]
    BY <1>2
<1>4. overridden' \in [Schedulers -> SUBSET {"enabled", "triggers"}] /\ overridden'[s] = v
      /\ \A t \in Schedulers : t # s => overridden'[t] = overridden[t]
    BY <1>2
<1>5. EnabledIsConsistent'
    BY <1>3, <1>4 DEF StoreOK, EnabledIsConsistent, On
<1>6. StoreOK'
    BY <1>1, <1>3, <1>4, <1>5 DEF StoreOK
<1>7. ASSUME NEW t \in Schedulers, t # s, NEW p, Fits(t, p) PROVE Fits(t, p)'
    BY <1>1, <1>3, <1>4, <1>7 DEF Fits, Placed, Triggered
<1>8. ASSUME NEW t \in Schedulers, t # s, t \in Strays' PROVE t \in Strays
    BY <1>3, <1>4, <1>8 DEF Strays, On
<1>9. Elsewhere(s)
    BY <1>3, <1>4, <1>7, <1>8 DEF Elsewhere
<1> QED
    BY <1>1, <1>3, <1>4, <1>6, <1>9

(* A store call of a request writes the row, or fails without effect.      *)
LEMMA RowSaved ==
    ASSUME StoreOK, NEW s \in Schedulers, NEW r \in Row, NEW parts, NEW o,
           Saves(s, r, parts, o),
           r.on /\ overridden[s] \ parts = {} => r.trig = revision[r.rev]
    PROVE  /\ StoreOK' /\ Row' = Row
           /\ UNCHANGED <<project, revision, agents, volume, links, images>>
           /\ Elsewhere(s)
           /\ Takes(o) => rows'[s] = r /\ overridden'[s] = overridden[s] \ parts
           /\ ~Takes(o) => UNCHANGED <<rows, overridden>>
<1>1. UNCHANGED <<project, revision, agents, volume, links, images>>
    BY DEF Saves
<1>2. CASE Takes(o)
  <2>1. PICK v \in SUBSET {"enabled", "triggers"} : v = overridden[s] \ parts
      BY DEF StoreOK
  <2>2. rows' = [rows EXCEPT ![s] = r] /\ overridden' = [overridden EXCEPT ![s] = v]
      BY <1>2, <2>1 DEF Saves
  <2>3. r.on /\ v = {} => r.trig = revision[r.rev]
      BY <2>1
  <2> QED
      BY <1>1, <1>2, <2>1, <2>2, <2>3, RowWritten
<1>3. CASE ~Takes(o)
  <2>1. UNCHANGED <<rows, overridden>>
      BY <1>3 DEF Saves
  <2>2. /\ StoreOK' /\ Row' = Row /\ Strays' = Strays
        /\ \A t, p : Fits(t, p) => Fits(t, p)'
      BY <1>1, <2>1, StoreKept
  <2>3. Elsewhere(s)
      BY <2>1, <2>2 DEF Elsewhere
  <2> QED
      BY <1>1, <1>3, <2>1, <2>2, <2>3
<1> QED
    BY <1>2, <1>3

(* DisableProjectScheduler: the row stays, off if the write took effect.   *)
LEMMA RowDisabled ==
    ASSUME StoreOK, NEW s \in Schedulers, rows[s] \in Row, NEW o, SetEnabled(s, FALSE, o)
    PROVE  /\ StoreOK' /\ Row' = Row /\ rows'[s] \in Row' /\ Elsewhere(s)
           /\ UNCHANGED <<project, revision, agents, volume, links, images>>
           /\ Strays' \subseteq Strays
           /\ Takes(o) => s \notin Strays'
<1>1. PICK r \in Row : r = [rows[s] EXCEPT !.on = FALSE] /\ ~r.on
  <2>1. [rows[s] EXCEPT !.on = FALSE] \in Row /\ ~[rows[s] EXCEPT !.on = FALSE].on
      BY DEF Row
  <2> QED
      BY <2>1
<1>2. Saves(s, r, {"enabled"}, o)
    BY <1>1 DEF SetEnabled
<1>3. /\ StoreOK' /\ Row' = Row
      /\ UNCHANGED <<project, revision, agents, volume, links, images>>
      /\ Elsewhere(s) /\ (Takes(o) => rows'[s] = r)
      /\ ~Takes(o) => UNCHANGED <<rows, overridden>>
    BY <1>1, <1>2, RowSaved
<1>4. Takes(o) => s \notin Strays'
    BY <1>1, <1>3 DEF Strays, On
<1>5. ~Takes(o) => Strays' = Strays
    BY <1>3 DEF Strays, On
<1>6. Strays' \subseteq Strays
  <2> SUFFICES ASSUME NEW t, t \in Strays' PROVE t \in Strays
      OBVIOUS
  <2>1. t \in Schedulers
      BY DEF Strays
  <2> QED
      BY <1>3, <1>4, <1>5, <2>1 DEF Elsewhere
<1>7. rows'[s] \in Row'
    BY <1>1, <1>3
<1> QED
    BY <1>3, <1>4, <1>6, <1>7

(* A reconcile that fails either changed nothing or goes on to fail closed.*)
LEMMA FailingReconcile ==
    ASSUME OpsOK, NEW c \in Callers, ReconcileFails(c) \/ UncertainFails(c)
    PROVE  Progress(c)'
<1>1. op \in [Callers -> OpType] /\ op[c] \in OpType
    BY DEF OpsOK
<1>2. \/ op'[c].pc = "closeList" /\ op'[c].reply = "failed"
      \/ op'[c].pc = "reply" /\ op'[c].reply = "failed" /\ ~op'[c].dirty
  <2>1. CASE ReconcileFails(c)
    <3> DEFINE v == IF NeedsFailClosed(c) THEN "closeList" ELSE "reply"
    <3>1. op' = [op EXCEPT ![c].pc = v, ![c].reply = "failed", ![c].todo = {}]
        BY <2>1 DEF ReconcileFails
    <3> HIDE DEF v
    <3>2. op'[c].pc = v /\ op'[c].reply = "failed" /\ op'[c].dirty = op[c].dirty
        BY <1>1, <3>1 DEF OpType
    <3> QED
        BY <3>2 DEF v, NeedsFailClosed
  <2>2. CASE UncertainFails(c)
      BY <1>1, <2>2 DEF UncertainFails, OpType
  <2> QED
      BY <2>1, <2>2
<1>3. CASE op'[c].pc = "closeList" /\ op'[c].reply = "failed"
  <2>1. Established(c)'
      BY <1>3 DEF Established, AtOrApplied
  <2>2. LoopOK(c)' /\ ProjectOK(c)'
      BY <1>3 DEF LoopOK, ProjectOK
  <2>3. ReplyOK(c)'
      BY <1>3 DEF ReplyOK
  <2> QED
      BY <2>1, <2>2, <2>3 DEF Progress
<1> QED
    BY <1>2, <1>3, Fails

(* The store calls of an apply on its schedulers.                          *)
Staging == {"stage", "write", "triggers", "enable"}

(* What an apply has established stays while it stages its schedulers.     *)
LEMMA StagingKeeps ==
    ASSUME NEW c \in Callers, Progress(c), op[c].pc \in Staging,
           NEW pc \in Staging, NEW todo, NEW dirty,
           Fields(c, pc, todo, op[c].wrote, dirty, op[c].clean, op[c].reply),
           UNCHANGED <<project, revision, agents, volume, links, images>>
    PROVE  Established(c)' /\ ProjectOK(c)' /\ ReplyOK(c)'
<1>1. op[c].reply = "none" /\ op'[c].reply = "none" /\ op'[c].pc = pc
    BY DEF Progress, ReplyOK, Fields, Staging
<1>2. Established(c)'
    BY <1>1 DEF Progress, Established, AtOrApplied, Fields, Staging
<1>3. ProjectOK(c)' /\ ReplyOK(c)'
    BY <1>1 DEF ProjectOK, ReplyOK, Fields, Staging
<1> QED
    BY <1>2, <1>3

(* Where the reconcile of the spec stands.                                 *)
LEMMA StagingAt ==
    ASSUME OpsOK, StoreOK, MinExists, NEW c \in Callers, Progress(c), op[c].pc \in Staging
    PROVE  /\ op[c].kind \in {"apply", "patch"} /\ op[c].spec \in Specs
           /\ InSpec[op[c].spec] \subseteq Schedulers /\ op[c].todo \subseteq InSpec[op[c].spec]
           /\ \A s \in InSpec[op[c].spec] \ op[c].todo : Fits(s, op[c].spec)
           /\ op[c].pc # "stage" => op[c].todo # {}
           /\ op[c].todo # {} => First(c) \in op[c].todo /\ First(c) \in Schedulers
           /\ project.rev \in 1..Len(revision) /\ revision[project.rev] = op[c].spec
           /\ op[c].reply = "none"
<1>1. /\ op[c].kind \in {"apply", "patch"} /\ op[c].spec \in Specs
      /\ InSpec[op[c].spec] \subseteq Schedulers
    BY SpecOf DEF Staging, ApplyPc
<1>2. /\ op[c].todo \subseteq InSpec[op[c].spec]
      /\ \A s \in InSpec[op[c].spec] \ op[c].todo : Fits(s, op[c].spec)
      /\ op[c].pc # "stage" => op[c].todo # {}
    BY DEF Progress, LoopOK, Staging
<1>3. op[c].todo # {} => First(c) \in op[c].todo /\ First(c) \in Schedulers
    BY <1>1, <1>2, FirstIsNext
<1>4. project.rev \in 0..Len(revision) /\ project.rev > 0 /\ revision[project.rev] = op[c].spec
    BY <1>1 DEF Progress, Established, AtOrApplied, Staging
<1>5. project.rev \in 1..Len(revision)
    BY SMT, <1>4 DEF StoreOK
<1>6. op[c].reply = "none"
    BY DEF Progress, ReplyOK, Staging
<1> QED
    BY <1>1, <1>2, <1>3, <1>4, <1>5, <1>6

(* What the next step of the staging has to show.                          *)
LEMMA StagingNext ==
    ASSUME NEW c \in Callers, NEW p, NEW todo, NEW f, op'[c].spec = p, op'[c].todo = todo,
           op'[c].pc \in Staging, todo \subseteq InSpec[p],
           \A s \in InSpec[p] \ todo : Fits(s, p)',
           op'[c].pc # "stage" => todo # {} /\ todo \subseteq Schedulers /\ First(c)' = f,
           op'[c].pc \in {"triggers", "enable"} => StagedOff(f)',
           op'[c].pc = "enable" => Triggered(f, p)' /\ f \in EnabledIn[p]
    PROVE  LoopOK(c)'
<1>1. op'[c].pc \in {"triggers", "enable"} => StagedOff(First(c))'
    BY DEF StagedOff, Placed
<1>2. op'[c].pc = "enable" => Triggered(First(c), p)'
    BY DEF Triggered
<1> QED
    BY <1>1, <1>2 DEF LoopOK, Staging

(* The loop goes on with the next scheduler once this one is as wanted.    *)
LEMMA StagedOne ==
    ASSUME OpsOK, StoreOK, MinExists, NEW c \in Callers, Progress(c),
           op[c].pc \in Staging, op[c].todo # {},
           NEW f \in Schedulers, f = First(c), NEW p \in Specs, p = op[c].spec,
           Fits(f, p)', Elsewhere(f),
           UNCHANGED <<project, revision, agents, volume, links, images>>,
           \/ op' = [op EXCEPT ![c].pc = "stage", ![c].todo = Rest(c)]
           \/ op[c].pc = "stage" /\ op' = [op EXCEPT ![c].todo = Rest(c)]
    PROVE  Progress(c)'
<1>0. op \in [Callers -> OpType] /\ op[c] \in OpType
    BY DEF OpsOK
<1>1. Fields(c, "stage", Rest(c), op[c].wrote, op[c].dirty, op[c].clean, op[c].reply)
  <2> DEFINE R == Rest(c)
  <2>1. CASE op' = [op EXCEPT ![c].pc = "stage", ![c].todo = R]
    <3> HIDE DEF R
    <3> QED
        BY ZenonT(30), <1>0, <2>1 DEF Fields, OpType
  <2>2. CASE op[c].pc = "stage" /\ op' = [op EXCEPT ![c].todo = R]
    <3> HIDE DEF R
    <3> QED
        BY <1>0, <2>2 DEF Fields, OpType
  <2> QED
      BY <2>1, <2>2
<1>2. Established(c)' /\ ProjectOK(c)' /\ ReplyOK(c)'
  <2>1. "stage" \in Staging
      BY DEF Staging
  <2> QED
      BY <1>1, <2>1, StagingKeeps
<1>3. PICK T \in SUBSET Schedulers : T = op[c].todo \ {f}
    BY StagingAt
<1>4. op'[c].todo = T /\ op'[c].spec = p /\ op'[c].pc = "stage"
    BY <1>1, <1>3 DEF Fields, Rest
<1>5. T \subseteq InSpec[p] /\ InSpec[p] \subseteq Schedulers
    BY <1>3, StagingAt
<1>6. ASSUME NEW s \in InSpec[p] \ T PROVE Fits(s, p)'
  <2>1. CASE s = f
      BY <2>1
  <2>2. CASE s # f
    <3>1. s \in Schedulers /\ Fits(s, p)
        BY <1>3, <1>5, <2>2, StagingAt
    <3> QED
        BY <2>2, <3>1 DEF Elsewhere
  <2> QED
      BY <2>1, <2>2
<1>7. LoopOK(c)'
  <2>1. op'[c].pc \in Staging
      BY <1>4 DEF Staging
  <2> QED
      BY <1>4, <1>5, <1>6, <2>1, StagingNext
<1> QED
    BY <1>2, <1>7 DEF Progress

(* CompareScheduler.                                                       *)
LEMMA CompareProgress ==
    ASSUME OpsOK, StoreOK, MinExists, NEW c \in Callers, Progress(c), CompareScheduler(c)
    PROVE  StoreOK' /\ Progress(c)'
<1>1. op[c].pc = "stage" /\ op[c].todo # {} /\ op[c].pc \in Staging
    BY DEF CompareScheduler, Staging
<1>2. PICK f \in Schedulers : f = First(c) /\ f \in op[c].todo
    BY <1>1, StagingAt
<1>3. PICK p \in Specs : p = op[c].spec
    BY <1>1, StagingAt
<1>4. UNCHANGED <<project, revision, agents, rows, volume, links, images>>
    BY DEF CompareScheduler
<1>5. CASE Unchanged(f, p)
  <2>1. /\ op' = [op EXCEPT ![c].todo = Rest(c)]
        /\ overridden' = [overridden EXCEPT ![f] = {}]
      BY <1>2, <1>3, <1>5 DEF CompareScheduler
  <2>2. project.rev \in 1..Len(revision) /\ revision[project.rev] = p
      BY <1>1, <1>3, StagingAt
  <2>3. PICK r \in Row : /\ r = rows[f] /\ r.rev = project.rev /\ r.trig = p
                         /\ r.on <=> f \in EnabledIn[p]
    <3>0. p \in Specs \cup {None, Altered}
        BY <1>3
    <3>1. CASE f \in EnabledIn[p]
      <4>1. (f \in EnabledIn[p]) = TRUE
          BY SMT, <3>1
      <4>2. rows[f] = [rev |-> project.rev, on |-> TRUE, trig |-> p]
          BY <1>5, <4>1 DEF Unchanged
      <4>3. rows[f] \in Row
          BY SMT, <2>2, <3>0, <4>2 DEF Row
      <4>4. rows[f].rev = project.rev /\ rows[f].on = TRUE /\ rows[f].trig = p
          BY SMT, <4>2
      <4> QED
          BY <3>1, <4>3, <4>4
    <3>2. CASE f \notin EnabledIn[p]
      <4>1. (f \in EnabledIn[p]) = FALSE
          BY SMT, <3>2
      <4>2. rows[f] = [rev |-> project.rev, on |-> FALSE, trig |-> p]
          BY <1>5, <4>1 DEF Unchanged
      <4>3. rows[f] \in Row
          BY SMT, <2>2, <3>0, <4>2 DEF Row
      <4>4. rows[f].rev = project.rev /\ rows[f].on = FALSE /\ rows[f].trig = p
          BY SMT, <4>2
      <4> QED
          BY <3>2, <4>3, <4>4
    <3> QED
        BY <3>1, <3>2
  <2>4. rows' = [rows EXCEPT ![f] = r]
      BY <1>4, <2>3 DEF StoreOK
  <2>5. StoreOK' /\ Row' = Row /\ rows'[f] = r /\ Elsewhere(f)
    <3>1. {} \in SUBSET {"enabled", "triggers"}
        OBVIOUS
    <3> QED
        BY <1>4, <2>1, <2>2, <2>3, <2>4, <3>1, RowWritten
  <2>6. Fits(f, p)'
      BY <1>4, <2>3, <2>5 DEF Fits, Placed, Triggered
  <2>7. Progress(c)'
      BY <1>1, <1>2, <1>3, <1>4, <2>1, <2>5, <2>6, StagedOne
  <2> QED
      BY <2>5, <2>7
<1>6. CASE ~Unchanged(f, p)
  <2>1. Goes(c, "write") /\ UNCHANGED overridden
      BY <1>2, <1>3, <1>6 DEF CompareScheduler
  <2>2. Fields(c, "write", op[c].todo, op[c].wrote, op[c].dirty, op[c].clean, op[c].reply)
      BY <2>1, CommonUpdates
  <2>3. StoreOK' /\ \A s, q : Fits(s, q) => Fits(s, q)'
      BY <1>4, <2>1, StoreKept
  <2>4. Established(c)' /\ ProjectOK(c)' /\ ReplyOK(c)'
    <3>1. "write" \in Staging
        BY DEF Staging
    <3> QED
        BY <1>1, <1>4, <2>2, <3>1, StagingKeeps
  <2>5. PICK T \in SUBSET Schedulers : T = op[c].todo
      BY <1>1, StagingAt
  <2>6. op'[c].todo = T /\ op'[c].spec = p /\ op'[c].pc = "write" /\ First(c)' = f
      BY <1>2, <1>3, <2>2, <2>5 DEF Fields, First
  <2>7. T # {} /\ T \subseteq InSpec[p] /\ \A s \in InSpec[p] \ T : Fits(s, p)'
      BY <1>1, <1>3, <2>3, <2>5, StagingAt
  <2>8. LoopOK(c)'
    <3>1. op'[c].pc \in Staging
        BY <2>6 DEF Staging
    <3> QED
        BY <2>6, <2>7, <3>1, StagingNext
  <2> QED
      BY <2>3, <2>4, <2>8 DEF Progress
<1> QED
    BY <1>5, <1>6

(* The row of the scheduler that is being staged has been written, and the *)
(* next call on it is up.                                                  *)
LEMMA StagedNext ==
    ASSUME OpsOK, StoreOK, MinExists, NEW c \in Callers, Progress(c),
           op[c].pc \in Staging, op[c].todo # {},
           NEW f \in Schedulers, f = First(c), NEW p \in Specs, p = op[c].spec,
           NEW pc \in {"triggers", "enable"}, NEW dirty,
           Fields(c, pc, op[c].todo, op[c].wrote, dirty, op[c].clean, op[c].reply),
           StagedOff(f)', pc = "enable" => Triggered(f, p)' /\ f \in EnabledIn[p],
           Elsewhere(f), UNCHANGED <<project, revision, agents, volume, links, images>>
    PROVE  Progress(c)'
<1>1. pc \in Staging
    BY DEF Staging
<1>2. Established(c)' /\ ProjectOK(c)' /\ ReplyOK(c)'
    BY <1>1, StagingKeeps
<1>3. PICK T \in SUBSET Schedulers : T = op[c].todo
    BY StagingAt
<1>4. op'[c].todo = T /\ op'[c].spec = p /\ op'[c].pc = pc /\ First(c)' = f
    BY <1>3 DEF Fields, First
<1>5. T # {} /\ T \subseteq InSpec[p] /\ InSpec[p] \subseteq Schedulers /\ f \in T
    BY <1>3, StagingAt
<1>6. ASSUME NEW s \in InSpec[p] \ T PROVE Fits(s, p)'
  <2>1. s \in Schedulers /\ s # f /\ Fits(s, p)
      BY <1>3, <1>5, StagingAt
  <2> QED
      BY <2>1 DEF Elsewhere
<1>7. LoopOK(c)'
    BY <1>1, <1>4, <1>5, <1>6, StagingNext
<1> QED
    BY <1>2, <1>7 DEF Progress

(* StageScheduler.                                                         *)
LEMMA StageProgress ==
    ASSUME OpsOK, StoreOK, MinExists, NEW c \in Callers, Progress(c), NEW o \in Outcomes,
           StageScheduler(c, o)
    PROVE  StoreOK' /\ Progress(c)'
<1>0. op \in [Callers -> OpType] /\ op[c] \in OpType
    BY DEF OpsOK
<1>1. op[c].pc = "write" /\ op[c].pc \in Staging
    BY DEF StageScheduler, Staging
<1>2. PICK f \in Schedulers : f = First(c) /\ op[c].todo # {}
    BY <1>1, StagingAt
<1>3. PICK p \in Specs : p = op[c].spec
    BY <1>1, StagingAt
<1>4. PICK st \in Row : st = Staged(f) /\ ~st.on /\ st.rev = project.rev
  <2>1. (IF rows[f] = None THEN None ELSE rows[f].trig) \in Specs \cup {None, Altered}
      BY DEF StoreOK, Row
  <2>2. Staged(f) \in Row /\ ~Staged(f).on /\ Staged(f).rev = project.rev
      BY <1>1, <2>1, StagingAt DEF Staged, Row
  <2> QED
      BY <2>2
<1>5. Saves(f, st, {"enabled"}, o)
    BY <1>2, <1>4 DEF StageScheduler
<1>6. /\ StoreOK' /\ Row' = Row /\ Elsewhere(f) /\ (Takes(o) => rows'[f] = st)
      /\ UNCHANGED <<project, revision, agents, volume, links, images>>
    BY <1>4, <1>5, RowSaved
<1>7. CASE o = "ok"
  <2>1. Fields(c, "triggers", op[c].todo, op[c].wrote, TRUE, op[c].clean, op[c].reply)
    <3>1. op' = [op EXCEPT ![c].pc = "triggers", ![c].dirty = TRUE]
        BY <1>7 DEF StageScheduler
    <3> QED
        BY <1>0, <3>1 DEF Fields, OpType
  <2>2. StagedOff(f)'
      BY <1>4, <1>6, <1>7 DEF StagedOff, Placed, Takes
  <2> QED
      BY <1>1, <1>2, <1>3, <1>6, <2>1, <2>2, StagedNext
<1>8. CASE o # "ok"
    BY <1>6, <1>8, FailingReconcile DEF StageScheduler
<1> QED
    BY <1>7, <1>8

(* A failed step of the staging leaves its row to the cleanup.             *)
LEMMA CleanupNext ==
    ASSUME NEW c \in Callers, Progress(c), op[c].pc \in {"triggers", "enable"},
           NEW f \in Schedulers, f = First(c), rows'[f] \in Row', Goes(c, "cleanup"), OpsOK
    PROVE  Progress(c)'
<1>1. Fields(c, "cleanup", op[c].todo, op[c].wrote, op[c].dirty, op[c].clean, op[c].reply)
    BY CommonUpdates
<1>2. op'[c].pc = "cleanup" /\ op'[c].reply = "none" /\ op'[c].todo = op[c].todo
    BY <1>1 DEF Fields, Progress, ReplyOK
<1>3. First(c)' = f
    BY <1>2 DEF First
<1>4. op[c].todo # {} /\ op[c].todo \subseteq Schedulers
    BY DEF Progress, LoopOK
<1>5. LoopOK(c)'
    BY <1>2, <1>3, <1>4 DEF LoopOK
<1>6. Established(c)' /\ ProjectOK(c)'
    BY <1>2 DEF Established, AtOrApplied, ProjectOK
<1>7. ReplyOK(c)'
    BY <1>2 DEF ReplyOK
<1> QED
    BY <1>5, <1>6, <1>7 DEF Progress

(* ReplaceTriggers and EnableScheduler: the row of the scheduler that is   *)
(* being staged.                                                           *)
LEMMA StagedRow ==
    ASSUME OpsOK, StoreOK, MinExists, NEW c \in Callers, Progress(c),
           op[c].pc \in {"triggers", "enable"}
    PROVE  /\ First(c) \in Schedulers /\ op[c].todo # {} /\ StagedOff(First(c))
           /\ op[c].pc = "enable" =>
                Triggered(First(c), op[c].spec) /\ First(c) \in EnabledIn[op[c].spec]
<1>1. op[c].todo # {} /\ op[c].pc \in Staging
    BY DEF Progress, LoopOK, Staging
<1>2. /\ StagedOff(First(c))
      /\ op[c].pc = "enable" =>
           Triggered(First(c), op[c].spec) /\ First(c) \in EnabledIn[op[c].spec]
    BY DEF Progress, LoopOK
<1> QED
    BY <1>1, <1>2, StagingAt

(* ReplaceTriggers.                                                        *)
LEMMA TriggersProgress ==
    ASSUME OpsOK, StoreOK, MinExists, NEW c \in Callers, Progress(c), NEW o \in Outcomes,
           ReplaceTriggers(c, o)
    PROVE  StoreOK' /\ Progress(c)'
<1>1. op[c].pc = "triggers" /\ op[c].pc \in Staging
    BY DEF ReplaceTriggers, Staging
<1>2. PICK f \in Schedulers : f = First(c) /\ op[c].todo # {} /\ StagedOff(f)
    BY <1>1, StagedRow
<1>3. PICK p \in Specs : p = op[c].spec /\ revision[project.rev] = p
    BY <1>1, StagingAt
<1>4. PICK r \in Row : /\ r = [rows[f] EXCEPT !.trig = p]
                       /\ r.rev = project.rev /\ r.on = rows[f].on /\ r.trig = p
  <2>1. rows[f] \in Row /\ rows[f].rev = project.rev
      BY <1>2 DEF StagedOff, Placed
  <2> DEFINE w == [rows[f] EXCEPT !.trig = p]
  <2>2. w \in Row
      BY <2>1 DEF Row
  <2>3. w.rev = rows[f].rev /\ w.on = rows[f].on /\ w.trig = p
      BY <2>1 DEF Row
  <2> QED
      BY <2>1, <2>2, <2>3
<1>5. Saves(f, r, {"triggers"}, o)
    BY <1>2, <1>3, <1>4 DEF ReplaceTriggers
<1>6. /\ StoreOK' /\ Row' = Row /\ Elsewhere(f)
      /\ UNCHANGED <<project, revision, agents, volume, links, images>>
      /\ Takes(o) => rows'[f] = r /\ overridden'[f] = overridden[f] \ {"triggers"}
      /\ ~Takes(o) => UNCHANGED <<rows, overridden>>
    BY <1>3, <1>4, <1>5, RowSaved
<1>7. CASE o # "ok"
  <2>1. Goes(c, "cleanup")
      BY <1>7 DEF ReplaceTriggers
  <2>2. rows'[f] \in Row'
      BY <1>2, <1>6 DEF StagedOff, Placed
  <2> QED
      BY <1>1, <1>2, <1>6, <2>1, <2>2, CleanupNext
<1>8. ASSUME o = "ok" PROVE StagedOff(f)' /\ Triggered(f, p)'
  <2>1. rows'[f] = r /\ ("enabled" \in overridden[f] => "enabled" \in overridden'[f])
      BY <1>6, <1>8 DEF Takes
  <2>2. "enabled" \in overridden[f] \/ ~r.on
      BY <1>2, <1>4 DEF StagedOff
  <2> QED
      BY <1>4, <1>6, <2>1, <2>2 DEF StagedOff, Placed, Triggered
<1>9. CASE o = "ok" /\ f \in EnabledIn[p]
  <2>1. Goes(c, "enable")
      BY <1>2, <1>3, <1>9 DEF ReplaceTriggers
  <2>2. Fields(c, "enable", op[c].todo, op[c].wrote, op[c].dirty, op[c].clean, op[c].reply)
      BY <2>1, CommonUpdates
  <2> QED
      BY <1>1, <1>2, <1>3, <1>6, <1>8, <1>9, <2>2, StagedNext
<1>10. CASE o = "ok" /\ f \notin EnabledIn[p]
  <2>1. op' = [op EXCEPT ![c].pc = "stage", ![c].todo = Rest(c)]
      BY <1>2, <1>3, <1>10 DEF ReplaceTriggers
  <2>2. Fits(f, p)'
      BY <1>8, <1>10 DEF Fits, StagedOff
  <2>3. Progress(c)'
      BY <1>1, <1>2, <1>3, <1>6, <2>1, <2>2, StagedOne
  <2> QED
      BY <1>6, <2>3
<1> QED
    BY <1>7, <1>9, <1>10

(* EnableScheduler.                                                        *)
LEMMA EnableProgress ==
    ASSUME OpsOK, StoreOK, MinExists, NEW c \in Callers, Progress(c), NEW o \in Outcomes,
           EnableScheduler(c, o)
    PROVE  StoreOK' /\ Progress(c)'
<1>1. op[c].pc = "enable" /\ op[c].pc \in Staging
    BY DEF EnableScheduler, Staging
<1>2. PICK f \in Schedulers : f = First(c) /\ op[c].todo # {}
    BY <1>1, StagedRow
<1>3. PICK p \in Specs : p = op[c].spec /\ revision[project.rev] = p
    BY <1>1, StagingAt
<1>4. StagedOff(f) /\ Triggered(f, p) /\ f \in EnabledIn[p]
    BY <1>1, <1>2, <1>3, StagedRow
<1>5. PICK r \in Row : /\ r = [rows[f] EXCEPT !.on = TRUE]
                       /\ r.rev = project.rev /\ r.on = TRUE /\ r.trig = rows[f].trig
  <2> DEFINE w == [rows[f] EXCEPT !.on = TRUE]
  <2>1. rows[f] \in Row /\ rows[f].rev = project.rev
      BY <1>4 DEF StagedOff, Placed
  <2>2. w \in Row
      BY <2>1 DEF Row
  <2>3. w.rev = rows[f].rev /\ w.on = TRUE /\ w.trig = rows[f].trig
      BY <2>1 DEF Row
  <2> QED
      BY <2>1, <2>2, <2>3
<1>6. Saves(f, r, {"enabled"}, o)
    BY <1>2, <1>5 DEF EnableScheduler, SetEnabled
<1>7. overridden[f] \ {"enabled"} = {} => r.trig = revision[r.rev]
  <2>1. overridden[f] \ {"enabled"} = {} => "triggers" \notin overridden[f]
      BY SMT
  <2> QED
      BY <1>3, <1>4, <1>5, <2>1 DEF Triggered
<1>8. /\ StoreOK' /\ Row' = Row /\ Elsewhere(f)
      /\ UNCHANGED <<project, revision, agents, volume, links, images>>
      /\ Takes(o) => rows'[f] = r /\ overridden'[f] = overridden[f] \ {"enabled"}
      /\ ~Takes(o) => UNCHANGED <<rows, overridden>>
    BY <1>6, <1>7, RowSaved
<1>9. CASE o # "ok"
  <2>1. Goes(c, "cleanup")
      BY <1>9 DEF EnableScheduler
  <2>2. rows'[f] \in Row'
      BY <1>4, <1>8 DEF StagedOff, Placed
  <2> QED
      BY <1>1, <1>2, <1>8, <2>1, <2>2, CleanupNext
<1>10. CASE o = "ok"
  <2>1. op' = [op EXCEPT ![c].pc = "stage", ![c].todo = Rest(c)]
      BY <1>10 DEF EnableScheduler
  <2>2. rows'[f] = r /\ ("triggers" \in overridden[f] => "triggers" \in overridden'[f])
      BY <1>8, <1>10 DEF Takes
  <2>3. Fits(f, p)'
      BY <1>4, <1>5, <1>8, <2>2 DEF Fits, Placed, Triggered
  <2>4. Progress(c)'
      BY <1>1, <1>2, <1>3, <1>8, <2>1, <2>3, StagedOne
  <2> QED
      BY <1>8, <2>4
<1> QED
    BY <1>9, <1>10

(* cleanupFailedSchedulerReconcile, and a comparison that cannot load.     *)
LEMMA CleanupProgress ==
    ASSUME OpsOK, StoreOK, MinExists, NEW c \in Callers, Progress(c), NEW o \in Outcomes,
           CleanupDisable(c, o) \/ CleanupRefresh(c, o) \/ LoadFails(c)
    PROVE  StoreOK' /\ Progress(c)'
<1>0. op \in [Callers -> OpType] /\ op[c] \in OpType
    BY DEF OpsOK
<1>1. CASE CleanupDisable(c, o)
  <2>1. op[c].pc = "cleanup" /\ SetEnabled(First(c), FALSE, o)
        /\ op' = [op EXCEPT ![c].pc = "cleanupRefresh", ![c].todo = {}]
      BY <1>1 DEF CleanupDisable
  <2>2. First(c) \in Schedulers /\ rows[First(c)] \in Row /\ op[c].reply = "none"
      BY <2>1 DEF Progress, LoopOK, ReplyOK
  <2>3. StoreOK'
      BY <2>1, <2>2, RowDisabled
  <2>4. op'[c].pc = "cleanupRefresh" /\ op'[c].reply = "none"
      BY <1>0, <2>1, <2>2 DEF OpType
  <2>5. Established(c)' /\ LoopOK(c)'
      BY <2>4 DEF Established, AtOrApplied, LoopOK
  <2>6. ProjectOK(c)' /\ ReplyOK(c)'
      BY <2>4 DEF ProjectOK, ReplyOK
  <2> QED
      BY <2>3, <2>5, <2>6 DEF Progress
<1>2. CASE CleanupRefresh(c, o) \/ LoadFails(c)
  <2>1. UNCHANGED store /\ ReconcileFails(c)
      BY <1>2 DEF CleanupRefresh, LoadFails, Refresh
  <2> QED
      BY <2>1, StoreKept, FailingReconcile DEF store
<1> QED
    BY <1>1, <1>2

(* A request lists the rows for the scheduler controller: the list agrees  *)
(* with the store, and every list made outside the gate before is late.    *)
LEMMA ListProgress ==
    ASSUME OpsOK, StoreOK, NEW c \in Callers, Progress(c), Held(c), ListSchedulers(c)
    PROVE  StoreOK' /\ Progress(c)'
<1>0. op \in [Callers -> OpType] /\ op[c] \in OpType
    BY DEF OpsOK
<1>1. /\ op[c].pc \in {"cleanupRefresh", "disable", "close", "down"} /\ op[c].todo = {}
      /\ UNCHANGED <<project, revision, agents, rows, overridden, volume, links, images>>
    BY DEF ListSchedulers, AtRefresh, store
<1>2. /\ StoreOK' /\ Row' = Row /\ Enabled' = Enabled /\ Strays' = Strays
      /\ \A s, p : Fits(s, p) => Fits(s, p)'
      /\ \A l : Agrees(l) => Agrees(l)'
    BY <1>1, StoreKept
<1>3. Agrees(Enabled)' /\ Enabled \subseteq Schedulers
  <2>1. Agrees(Enabled) /\ Enabled \subseteq Schedulers
      BY DEF Agrees, Enabled
  <2> QED
      BY <1>2, <2>1
<1>4. OutsideAgrees'
  <2> SUFFICES ASSUME NEW r \in Refreshers, lists'[r] # None, ~lists'[r].late
               PROVE  FALSE
      BY DEF OutsideAgrees
  <2>1. lists'[r] = IF lists[r] = None THEN None ELSE [on |-> lists[r].on, late |-> TRUE]
      BY DEF ListSchedulers
  <2> QED
      BY SMT, <2>1
<1>5. PICK E : E = Enabled
    OBVIOUS
<1>6. PICK v : v = Installing[op[c].pc]
    OBVIOUS
<1>v. /\ op[c].pc = "cleanupRefresh" => v = "cleanupInstall"
      /\ op[c].pc = "disable" => v = "disableInstall"
      /\ op[c].pc = "close" => v = "closeInstall"
      /\ op[c].pc = "down" => v = "downInstall"
    BY SMT, <1>6 DEF Installing
<1>7. Fields(c, v, E, op[c].wrote, op[c].dirty, op[c].clean, op[c].reply)
  <2>1. op' = [op EXCEPT ![c].pc = v, ![c].todo = E]
      BY <1>0, <1>5, <1>6 DEF ListSchedulers, OpType
  <2> QED
      BY <1>0, <2>1 DEF Fields, OpType
<1>8. CASE op[c].pc = "cleanupRefresh"
  <2>1. op'[c].pc = "cleanupInstall" /\ op'[c].reply = "none"
      BY <1>v, <1>7, <1>8 DEF Fields, Progress, ReplyOK
  <2>2. Established(c)' /\ LoopOK(c)'
      BY <2>1 DEF Established, AtOrApplied, LoopOK
  <2>3. ProjectOK(c)' /\ ReplyOK(c)'
      BY <2>1 DEF ProjectOK, ReplyOK
  <2> QED
      BY <1>2, <2>2, <2>3 DEF Progress
<1>9. CASE op[c].pc = "close"
  <2>1. op[c].reply = "failed" /\ (op[c].clean => Strays = {})
      BY <1>1, <1>9 DEF Progress, LoopOK, ReplyOK
  <2>2. /\ op'[c].pc = "closeInstall" /\ op'[c].reply = "failed"
        /\ op'[c].clean = op[c].clean /\ op'[c].todo = E
      BY <1>v, <1>7, <1>9, <2>1 DEF Fields
  <2>3. Established(c)'
      BY <2>2 DEF Established, AtOrApplied
  <2>4. LoopOK(c)'
      BY <1>2, <1>3, <1>4, <1>5, <2>1, <2>2 DEF LoopOK, Agrees
  <2>5. ProjectOK(c)' /\ ReplyOK(c)'
      BY <2>2 DEF ProjectOK, ReplyOK
  <2> QED
      BY <1>2, <2>3, <2>4, <2>5 DEF Progress
<1>10. CASE op[c].pc = "down"
  <2>1. op[c].reply = "none" /\ op[c].kind = "remove" /\ project # None /\ Strays = {}
      BY <1>1, <1>10 DEF Progress, ProjectOK, ReplyOK, OpsOK, PcFits, RemovePc
  <2>2. /\ op'[c].pc = "downInstall" /\ op'[c].reply = "none" /\ op'[c].kind = "remove"
        /\ op'[c].pc \in RemovePc
      BY <1>v, <1>7, <1>10, <2>1 DEF Fields, RemovePc
  <2>3. ProjectOK(c)'
      BY <1>1, <1>2, <2>1, <2>2 DEF ProjectOK
  <2> QED
      BY <1>2, <2>2, <2>3, Downs
<1>11. CASE op[c].pc = "disable"
  <2>1. PICK p \in Specs : p = op[c].spec
      BY <1>11, SpecOf DEF ApplyPc
  <2>2. op[c].reply = "none" /\ op[c].kind \in {"apply", "patch"}
      BY <1>11, SpecOf DEF Progress, ReplyOK, ApplyPc
  <2>3. /\ op'[c].pc = "disableInstall" /\ op'[c].spec = p /\ op'[c].todo = E
        /\ op'[c].kind = op[c].kind /\ op'[c].reply = "none"
      BY <1>v, <1>7, <1>11, <2>1, <2>2 DEF Fields
  <2>4. Strays' \subseteq InSpec[p] /\ \A s \in InSpec[p] : Fits(s, p)'
    <3>1. Strays \subseteq InSpec[p]
        BY <1>1, <1>11, <2>1 DEF Progress, LoopOK
    <3>2. \A s \in InSpec[p] : Fits(s, p)
        BY <1>11, <2>1, <2>2 DEF Progress, Established, AtOrApplied
    <3> QED
        BY <1>2, <3>1, <3>2
  <2>5. Established(c)'
      BY <1>1, <1>11, <2>1, <2>2, <2>3, <2>4 DEF Progress, Established, AtOrApplied
  <2>6. LoopOK(c)'
      BY <1>2, <1>3, <1>4, <1>5, <2>3, <2>4 DEF LoopOK, Agrees
  <2>7. ProjectOK(c)' /\ ReplyOK(c)'
      BY <2>3 DEF ProjectOK, ReplyOK
  <2> QED
      BY <1>2, <2>5, <2>6, <2>7 DEF Progress
<1> QED
    BY <1>1, <1>8, <1>9, <1>10, <1>11

(* Schedulers that dropped out of the spec are listed, then disabled.      *)
LEMMA ListRemovedProgress ==
    ASSUME OpsOK, StoreOK, MinExists, NEW c \in Callers, Progress(c), NEW o \in Outcomes,
           ListRemoved(c, o)
    PROVE  StoreOK' /\ Progress(c)'
<1>1. /\ op[c].pc = "stage" /\ op[c].todo = {} /\ op[c].pc \in Staging
      /\ UNCHANGED <<project, revision, agents, rows, overridden, volume, links, images>>
    BY DEF ListRemoved, Staging, store
<1>2. /\ StoreOK' /\ Row' = Row /\ Strays' = Strays
      /\ \A s, p : Fits(s, p) => Fits(s, p)'
    BY <1>1, StoreKept
<1>3. CASE o = "ok"
  <2>0. op \in [Callers -> OpType] /\ op[c] \in OpType
      BY DEF OpsOK
  <2>1. PICK T : T = Enabled \ InSpec[op[c].spec]
      OBVIOUS
  <2>2. Fields(c, "disable", T, op[c].wrote, op[c].dirty, op[c].clean, op[c].reply)
    <3>1. op' = [op EXCEPT ![c].pc = "disable", ![c].todo = T]
        BY <1>3, <2>1 DEF ListRemoved
    <3> QED
        BY <2>0, <3>1 DEF Fields, OpType
  <2>3. PICK p \in Specs : p = op[c].spec
      BY <1>1, StagingAt
  <2>4. /\ op[c].reply = "none" /\ op[c].kind \in {"apply", "patch"}
        /\ \A s \in InSpec[p] : Fits(s, p)
      BY <1>1, <2>3, StagingAt
  <2>5. \A s \in InSpec[p] : Fits(s, p)'
      BY <1>2, <2>4
  <2>6. Established(c)'
    <3>1. op'[c].pc = "disable" /\ op'[c].spec = p /\ op'[c].kind = op[c].kind
          /\ op'[c].reply = "none"
        BY <2>2, <2>3, <2>4 DEF Fields
    <3> QED
        BY <1>1, <2>3, <2>4, <2>5, <3>1 DEF Progress, Established, AtOrApplied
  <2>7. \A s \in T : s \in Schedulers /\ rows'[s] \in Row'
      BY <1>1, <1>2, <2>1 DEF Enabled, On, StoreOK
  <2>8. LoopOK(c)'
    <3>1. op'[c].pc = "disable" /\ op'[c].todo = T /\ op'[c].spec = p
        BY <2>2, <2>3 DEF Fields
    <3>2. (\A s \in T : s \notin InSpec[p]) /\ Strays' \subseteq T \cup InSpec[p]
      <4>1. Strays \subseteq Enabled
          BY DEF Strays, Enabled
      <4> QED
          BY <1>2, <2>1, <2>3, <4>1
    <3> QED
        BY <2>7, <3>1, <3>2 DEF LoopOK
  <2>9. ProjectOK(c)' /\ ReplyOK(c)'
      BY <2>2, <2>4 DEF ProjectOK, ReplyOK, Fields
  <2> QED
      BY <1>2, <2>6, <2>8, <2>9 DEF Progress
<1>4. CASE o # "ok"
    BY <1>2, <1>4, FailingReconcile DEF ListRemoved
<1> QED
    BY <1>3, <1>4

(* Where the disabling stands.                                             *)
LEMMA DisablingAt ==
    ASSUME OpsOK, StoreOK, NEW c \in Callers, Progress(c), op[c].pc = "disable"
    PROVE  /\ op[c].kind \in {"apply", "patch"} /\ op[c].spec \in Specs
           /\ InSpec[op[c].spec] \subseteq Schedulers
           /\ op[c].todo \subseteq Schedulers /\ op[c].reply = "none"
           /\ \A s \in op[c].todo : rows[s] \in Row /\ s \notin InSpec[op[c].spec]
           /\ Strays \subseteq op[c].todo \cup InSpec[op[c].spec]
           /\ \A s \in InSpec[op[c].spec] : Fits(s, op[c].spec)
<1>1. /\ op[c].kind \in {"apply", "patch"} /\ op[c].spec \in Specs
      /\ InSpec[op[c].spec] \subseteq Schedulers
    BY SpecOf DEF ApplyPc
<1>2. /\ op[c].todo \subseteq Schedulers
      /\ \A s \in op[c].todo : rows[s] \in Row /\ s \notin InSpec[op[c].spec]
      /\ Strays \subseteq op[c].todo \cup InSpec[op[c].spec]
    BY DEF Progress, LoopOK
<1>3. \A s \in InSpec[op[c].spec] : Fits(s, op[c].spec)
    BY <1>1 DEF Progress, Established, AtOrApplied
<1>4. op[c].reply = "none"
    BY DEF Progress, ReplyOK
<1> QED
    BY <1>1, <1>2, <1>3, <1>4

(* DisableRemoved.                                                         *)
LEMMA DisableRemovedProgress ==
    ASSUME OpsOK, StoreOK, MinExists, NEW c \in Callers, Progress(c), NEW o \in Outcomes,
           DisableRemoved(c, o)
    PROVE  StoreOK' /\ Progress(c)'
<1>0. op \in [Callers -> OpType] /\ op[c] \in OpType
    BY DEF OpsOK
<1>1. op[c].pc = "disable" /\ op[c].todo # {} /\ SetEnabled(First(c), FALSE, o)
    BY DEF DisableRemoved
<1>2. PICK f \in Schedulers : f = First(c) /\ f \in op[c].todo
    BY <1>1, DisablingAt, FirstIsNext
<1>3. PICK p \in Specs : p = op[c].spec
    BY <1>1, DisablingAt
<1>4. /\ StoreOK' /\ Row' = Row /\ rows'[f] \in Row'
      /\ UNCHANGED <<project, revision, agents, volume, links, images>>
      /\ Elsewhere(f) /\ Strays' \subseteq Strays
      /\ Takes(o) => f \notin Strays'
  <2>1. rows[f] \in Row
      BY <1>1, <1>2, DisablingAt
  <2> QED
      BY <1>1, <1>2, <2>1, RowDisabled
<1>5. CASE o = "ok"
  <2>1. PICK T \in SUBSET Schedulers : T = op[c].todo \ {f}
      BY <1>1, DisablingAt
  <2>2. Fields(c, "disable", T, op[c].wrote, TRUE, op[c].clean, op[c].reply)
    <3>1. op' = [op EXCEPT ![c].todo = T, ![c].dirty = TRUE]
        BY <1>2, <1>5, <2>1 DEF DisableRemoved, Rest
    <3> QED
        BY <1>0, <1>1, <3>1 DEF Fields, OpType
  <2>3. /\ op'[c].pc = "disable" /\ op'[c].todo = T /\ op'[c].spec = p /\ op'[c].kind = op[c].kind
        /\ op'[c].reply = "none"
      BY <1>1, <1>3, <2>2, DisablingAt DEF Fields
  <2>4. f \notin InSpec[p] /\ InSpec[p] \subseteq Schedulers
        /\ \A s \in InSpec[p] : Fits(s, p)
      BY <1>1, <1>2, <1>3, DisablingAt
  <2>6. \A s \in InSpec[p] : Fits(s, p)'
      BY <1>4, <2>4 DEF Elsewhere
  <2>7. Established(c)'
      BY <1>1, <1>3, <1>4, <2>3, <2>6 DEF Progress, Established, AtOrApplied
  <2>8. f \notin Strays'
      BY <1>4, <1>5 DEF Takes
  <2>9. (\A s \in T : s \notin InSpec[p]) /\ Strays' \subseteq T \cup InSpec[p]
      BY <1>1, <1>3, <1>4, <2>1, <2>8, DisablingAt
  <2>10. \A s \in T : s \in Schedulers /\ rows'[s] \in Row'
    <3>1. \A s \in T : s \in Schedulers /\ s # f /\ rows[s] \in Row
        BY <1>1, <2>1, DisablingAt
    <3> QED
        BY <1>4, <3>1 DEF Elsewhere
  <2>11. LoopOK(c)'
      BY <2>3, <2>9, <2>10 DEF LoopOK
  <2>12. ProjectOK(c)' /\ ReplyOK(c)'
      BY <2>3 DEF ProjectOK, ReplyOK
  <2> QED
      BY <1>4, <2>7, <2>11, <2>12 DEF Progress
<1>6. CASE o # "ok"
    BY <1>4, <1>6, FailingReconcile DEF DisableRemoved
<1> QED
    BY <1>5, <1>6

(* RefreshAfterReconcile.                                                  *)
LEMMA RefreshProgress ==
    ASSUME OpsOK, StoreOK, NEW c \in Callers, Progress(c), NEW o \in Outcomes,
           RefreshAfterReconcile(c, o)
    PROVE  StoreOK' /\ Progress(c)'
<1>0. op \in [Callers -> OpType] /\ op[c] \in OpType
    BY DEF OpsOK
<1>1. UNCHANGED <<project, revision, agents, rows, overridden, volume, links, images>>
    BY DEF RefreshAfterReconcile, Refresh, store
<1>2. /\ StoreOK' /\ Strays' = Strays
      /\ \A s, p : Fits(s, p) => Fits(s, p)'
      /\ \A l : Agrees(l) => Agrees(l)'
    BY <1>1, StoreKept
<1>3. CASE o = "ok"
  <2>1. /\ op[c].pc = "disableInstall" /\ held' = op[c].todo /\ UNCHANGED lists
        /\ op' = [op EXCEPT ![c].pc = "list", ![c].todo = {}]
    <3>1. Installing["disable"] = "disableInstall"
        BY SMT DEF Installing
    <3> QED
        BY <1>3, <3>1 DEF RefreshAfterReconcile, Refresh
  <2>2. PICK p \in Specs : p = op[c].spec
      BY <2>1, SpecOf DEF ApplyPc
  <2>3. op[c].kind \in {"apply", "patch"} /\ op[c].reply = "none"
      BY <2>1, SpecOf DEF Progress, ReplyOK, ApplyPc
  <2>4. /\ op'[c].pc = "list" /\ op'[c].spec = p /\ op'[c].kind = op[c].kind
        /\ op'[c].reply = "none"
      BY <1>0, <2>1, <2>2, <2>3 DEF OpType
  <2>5. Strays' \subseteq InSpec[p] /\ Fresh'
    <3>1. Strays \subseteq InSpec[p] /\ Agrees(op[c].todo) /\ OutsideAgrees
        BY <2>1, <2>2 DEF Progress, LoopOK
    <3>2. OutsideAgrees'
        BY <1>2, <2>1, <3>1 DEF OutsideAgrees
    <3>3. Agrees(held)'
        BY <1>1, <2>1, <3>1 DEF Agrees, On
    <3> QED
        BY <1>2, <3>1, <3>2, <3>3 DEF Fresh
  <2>6. \A s \in InSpec[p] : Fits(s, p)'
    <3>1. \A s \in InSpec[p] : Fits(s, p)
        BY <2>1, <2>2, <2>3 DEF Progress, Established, AtOrApplied
    <3> QED
        BY <1>2, <3>1
  <2>7. Established(c)'
      BY <1>1, <2>1, <2>2, <2>3, <2>4, <2>5, <2>6 DEF Progress, Established, AtOrApplied
  <2>8. LoopOK(c)' /\ ProjectOK(c)'
      BY <2>3, <2>4 DEF LoopOK, ProjectOK
  <2>9. ReplyOK(c)'
      BY <2>3, <2>4 DEF ReplyOK
  <2> QED
      BY <1>2, <2>7, <2>8, <2>9 DEF Progress
<1>4. CASE o # "ok"
  <2>1. op' = [op EXCEPT ![c].pc = "reply", ![c].reply = "failed",
                         ![c].clean = FALSE, ![c].todo = {}]
      BY <1>4 DEF RefreshAfterReconcile
  <2>2. op'[c].pc = "reply" /\ op'[c].reply = "failed" /\ ~op'[c].clean
      BY <1>0, <2>1 DEF OpType
  <2> QED
      BY <1>2, <2>2, Fails
<1> QED
    BY <1>3, <1>4

(* ListApplied: the reply says Applied of a project that is.               *)
LEMMA ListAppliedProgress ==
    ASSUME OpsOK, StoreOK, NEW c \in Callers, Progress(c), NEW o \in Outcomes,
           ListApplied(c, o)
    PROVE  StoreOK' /\ Progress(c)'
<1>1. /\ op[c].pc = "list"
      /\ UNCHANGED <<project, revision, agents, rows, overridden, volume, links, images, cache>>
    BY DEF ListApplied, store
<1>2. /\ StoreOK' /\ Enabled' = Enabled /\ Strays' = Strays
      /\ \A s, p : Fits(s, p) => Fits(s, p)'
      /\ \A l : Agrees(l) => Agrees(l)'
    BY <1>1, StoreKept
<1>3. PICK v : v = IF o # "ok" THEN "unknown"
                   ELSE IF op[c].kind = "remove" THEN "removed" ELSE "applied"
    OBVIOUS
<1>4. Fields(c, "reply", op[c].todo, op[c].wrote, op[c].dirty, op[c].clean, v)
    BY <1>3, CommonUpdates DEF ListApplied
<1>5. op'[c].pc = "reply" /\ op'[c].reply = v /\ op'[c].spec = op[c].spec
      /\ op'[c].kind = op[c].kind
    BY <1>4 DEF Fields
<1>6. CASE v = "unknown"
    BY <1>2, <1>5, <1>6, Fails
<1>r. CASE v = "removed"
  <2>1. op[c].kind = "remove" /\ op'[c].seen = op[c].seen
    <3>1. Replies(c, v)
        BY <1>3 DEF ListApplied
    <3> QED
        BY <1>3, <1>r, <3>1 DEF Replies, OpsOK, OpType
  <2>2. RemovedIsWhole(c)
      BY <1>1, <2>1 DEF Progress, ProjectOK
  <2>3. RemovedIsWhole(c)'
      BY <1>1, <1>2, <2>1, <2>2 DEF RemovedIsWhole, SetByHand
  <2>4. Established(c)' /\ LoopOK(c)'
      BY <1>5, <1>r DEF Established, AtOrApplied, LoopOK
  <2>5. ProjectOK(c)' /\ ReplyOK(c)'
      BY <1>5, <1>r, <2>3 DEF ProjectOK, ReplyOK
  <2> QED
      BY <1>2, <2>4, <2>5 DEF Progress
<1>7. CASE v = "applied"
  <2>1. Established(c)'
    <3>1. CASE op[c].kind \notin {"apply", "patch"}
        BY <1>5, <3>1 DEF Established, AtOrApplied
    <3>2. CASE op[c].kind \in {"apply", "patch"}
      <4>1. PICK p : p = op[c].spec
          OBVIOUS
      <4>2. /\ InSpec[p] \subseteq images /\ volume /\ links = p
            /\ project \in [removed : BOOLEAN, hash : Specs, rev : 0..Len(revision)]
            /\ ~project.removed /\ project.hash = p
            /\ project.rev > 0 /\ revision[project.rev] = p
            /\ \A s \in InSpec[p] : agents[s] = project.rev
            /\ \A s \in InSpec[p] : Fits(s, p)
            /\ Strays \subseteq InSpec[p] /\ Fresh
          BY <1>1, <3>2, <4>1 DEF Progress, Established, AtOrApplied
      <4>3. (\A s \in InSpec[p] : Fits(s, p)') /\ Fresh'
        <5>1. held' = held /\ lists' = lists /\ stale' = stale
            BY <1>1 DEF cache
        <5>2. OutsideAgrees'
            BY <1>2, <4>2, <5>1 DEF Fresh, OutsideAgrees
        <5>3. stale' \/ Agrees(held)'
            BY <1>2, <4>2, <5>1 DEF Fresh, Agrees
        <5> QED
            BY <1>2, <4>2, <5>2, <5>3 DEF Fresh
      <4>4. op'[c].spec = p
          BY <1>5, <4>1
      <4> QED
          BY <1>1, <1>2, <4>2, <4>3, <4>4 DEF Established
    <3> QED
        BY <3>1, <3>2
  <2>2. LoopOK(c)' /\ ProjectOK(c)'
      BY <1>5, <1>7 DEF LoopOK, ProjectOK
  <2>3. ReplyOK(c)'
    <3>1. op[c].kind \in {"apply", "patch"}
        BY <1>1, <1>3, <1>7 DEF Progress, ReplyOK
    <3> QED
        BY <1>5, <1>7, <3>1 DEF ReplyOK
  <2> QED
      BY <1>2, <2>1, <2>2, <2>3 DEF Progress
<1> QED
    BY <1>3, <1>6, <1>r, <1>7

(* disableProjectSchedulersAfterReconcileFailure.                          *)
LEMMA CompensationProgress ==
    ASSUME OpsOK, StoreOK, MinExists, NEW c \in Callers, Progress(c), NEW o \in Outcomes,
           FailClosedList(c, o) \/ FailClosedDisable(c, o) \/ FailClosedRefresh(c, o)
    PROVE  StoreOK' /\ Progress(c)'
<1>0. op \in [Callers -> OpType] /\ op[c] \in OpType
    BY DEF OpsOK
<1>1. ASSUME op'[c].pc = "close", op'[c].reply = "failed",
             \A s \in op'[c].todo : s \in Schedulers /\ rows'[s] \in Row',
             op'[c].clean => Strays' \subseteq op'[c].todo
      PROVE  Progress(c)'
  <2>1. Established(c)'
      BY <1>1 DEF Established, AtOrApplied
  <2>2. LoopOK(c)'
      BY <1>1 DEF LoopOK
  <2>3. ProjectOK(c)' /\ ReplyOK(c)'
      BY <1>1 DEF ProjectOK, ReplyOK
  <2> QED
      BY <2>1, <2>2, <2>3 DEF Progress
<1>2. CASE FailClosedList(c, o)
  <2>1. op[c].pc = "closeList" /\ UNCHANGED <<project, revision, agents, rows, overridden>>
        /\ op[c].reply = "failed"
      BY <1>2 DEF FailClosedList, store, Progress, ReplyOK
  <2>2. StoreOK' /\ Row' = Row /\ Strays' = Strays
      BY <2>1, StoreKept
  <2>3. CASE o = "ok"
    <3>1. op' = [op EXCEPT ![c].pc = "close", ![c].todo = Enabled]
        BY <1>2, <2>3 DEF FailClosedList
    <3>2. op'[c].pc = "close" /\ op'[c].todo = Enabled /\ op'[c].reply = "failed"
        BY <1>0, <2>1, <3>1 DEF OpType
    <3>3. \A s \in Enabled : s \in Schedulers /\ rows'[s] \in Row'
        BY <2>1, <2>2 DEF Enabled, On, StoreOK
    <3>4. /\ Strays' \subseteq op'[c].todo
          /\ \A s \in op'[c].todo : s \in Schedulers /\ rows'[s] \in Row'
      <4>1. Strays \subseteq Enabled
          BY DEF Strays, Enabled
      <4> QED
          BY <2>2, <3>2, <3>3, <4>1
    <3> QED
        BY <1>1, <2>2, <3>2, <3>4
  <2>4. CASE o # "ok"
    <3>1. op' = [op EXCEPT ![c].pc = "reply", ![c].clean = FALSE]
        BY <1>2, <2>4 DEF FailClosedList
    <3>2. op'[c].pc = "reply" /\ op'[c].reply = "failed" /\ ~op'[c].clean
        BY <1>0, <2>1, <3>1 DEF OpType
    <3> QED
        BY <2>2, <3>2, Fails
  <2> QED
      BY <2>3, <2>4
<1>3. ASSUME op[c].pc = "close"
      PROVE  /\ op[c].reply = "failed" /\ op[c].todo \subseteq Schedulers
             /\ \A s \in op[c].todo : rows[s] \in Row
             /\ op[c].clean => Strays \subseteq op[c].todo
    BY <1>3 DEF Progress, LoopOK, ReplyOK
<1>4. CASE FailClosedDisable(c, o)
  <2>1. op[c].pc = "close" /\ op[c].todo # {} /\ SetEnabled(First(c), FALSE, o)
      BY <1>4 DEF FailClosedDisable
  <2>2. PICK f \in Schedulers : f = First(c) /\ f \in op[c].todo
      BY <1>3, <2>1, FirstIsNext
  <2>3. /\ StoreOK' /\ Row' = Row /\ rows'[f] \in Row'
        /\ Elsewhere(f) /\ Strays' \subseteq Strays
        /\ Takes(o) => f \notin Strays'
      BY <1>3, <2>1, <2>2, RowDisabled
  <2>4. PICK T : T = op[c].todo \ {f}
      OBVIOUS
  <2>5. PICK v : v = IF o = "ok" THEN op[c].clean ELSE FALSE
      OBVIOUS
  <2>6. op'[c].pc = "close" /\ op'[c].todo = T /\ op'[c].clean = v /\ op'[c].reply = "failed"
    <3>1. op' = [op EXCEPT ![c].todo = T, ![c].clean = v]
        BY <1>4, <2>2, <2>4, <2>5 DEF FailClosedDisable, Rest
    <3> QED
        BY <1>0, <1>3, <2>1, <3>1 DEF OpType
  <2>7. v => Strays' \subseteq T
      BY <1>3, <2>1, <2>3, <2>4, <2>5 DEF Takes
  <2>8. \A s \in T : s \in Schedulers /\ rows'[s] \in Row'
      BY <1>3, <2>1, <2>3, <2>4 DEF Elsewhere
  <2> QED
      BY <1>1, <2>3, <2>6, <2>7, <2>8
<1>5. CASE FailClosedRefresh(c, o)
  <2>1. UNCHANGED <<project, revision, agents, rows, overridden>>
      BY <1>5 DEF FailClosedRefresh, Refresh, store
  <2>2. StoreOK' /\ Strays' = Strays /\ \A l : Agrees(l) => Agrees(l)'
      BY <2>1, StoreKept
  <2>3. PICK v : v = IF o = "ok" THEN op[c].clean ELSE FALSE
      OBVIOUS
  <2>i. Installing["close"] = "closeInstall"
      BY SMT DEF Installing
  <2>4. op[c].pc \in {"close", "closeInstall"} /\ op[c].reply = "failed"
      BY <1>5, <2>i DEF FailClosedRefresh, Refresh, Progress, ReplyOK
  <2>5. op'[c].pc = "reply" /\ op'[c].clean = v /\ op'[c].reply = "failed"
    <3>1. op' = [op EXCEPT ![c].pc = "reply", ![c].clean = v, ![c].todo = {}]
        BY <1>5, <2>3 DEF FailClosedRefresh
    <3> QED
        BY <1>0, <2>4, <3>1 DEF OpType
  <2>6. v => Strays' = {} /\ Fresh'
    <3> SUFFICES ASSUME v PROVE Strays' = {} /\ Fresh'
        OBVIOUS
    <3>1. /\ o = "ok" /\ op[c].clean /\ op[c].pc = "closeInstall"
          /\ held' = op[c].todo /\ UNCHANGED lists
        BY <1>5, <2>3, <2>i DEF FailClosedRefresh, Refresh
    <3>2. Strays = {} /\ Agrees(op[c].todo) /\ OutsideAgrees
        BY <3>1 DEF Progress, LoopOK
    <3>3. OutsideAgrees'
        BY <2>2, <3>1, <3>2 DEF OutsideAgrees
    <3>4. Agrees(held)'
        BY <2>1, <3>1, <3>2 DEF Agrees, On
    <3> QED
        BY <2>2, <3>2, <3>3, <3>4 DEF Fresh
  <2>7. LoopOK(c)'
      BY <2>5, <2>6 DEF LoopOK
  <2>8. Established(c)'
      BY <2>5 DEF Established, AtOrApplied
  <2>9. ProjectOK(c)' /\ ReplyOK(c)'
      BY <2>5 DEF ProjectOK, ReplyOK
  <2> QED
      BY <2>2, <2>7, <2>8, <2>9 DEF Progress
<1> QED
    BY <1>2, <1>4, <1>5

----------------------------------------------------------------------------
(* RemoveProject and Resolve.                                              *)

(* The steps of a removal.                                                 *)
LEMMA RemoveProgress ==
    ASSUME OpsOK, StoreOK, MinExists, NEW c \in Callers, Progress(c), NEW o \in Outcomes,
           Remove(c, o) \/ Stopped(c), Held(c)
    PROVE  StoreOK' /\ Progress(c)'
<1>0. op \in [Callers -> OpType] /\ op[c] \in OpType
    BY DEF OpsOK
<1>i. Installing["down"] = "downInstall"
    BY SMT DEF Installing
<1>1. op[c].pc \in RemovePc
    BY <1>i DEF Remove, DownList, DownDisable, DownRefresh, Refresh, ListRunning, StopSandbox,
           Stopped, MarkProjectRemoved, RemoveProjectVolumes, RemovePc
<1>2. op[c].kind = "remove" /\ op'[c].kind = "remove" /\ op[c].reply = "none"
    BY <1>1 DEF OpsOK, PcFits, Held, Progress, ReplyOK, RemovePc
<1>3. /\ op[c].pc \in {"downList", "down", "downInstall", "listSandboxes", "stop", "mark"} =>
            project # None
      /\ op[c].pc = "down" => Strays \subseteq op[c].todo
      /\ op[c].pc \in {"downInstall", "listSandboxes", "stop", "mark", "unlink"} => Strays = {}
    BY DEF Progress, ProjectOK
<1>4. CASE DownList(c, o)
  <2>1. StoreOK' /\ Row' = Row /\ UNCHANGED <<project, rows>> /\ op[c].pc = "downList"
        /\ Strays' = Strays
      BY <1>4, StoreKept DEF DownList, store
  <2>2. CASE o = "ok"
    <3>1. op' = [op EXCEPT ![c].pc = "down", ![c].todo = Enabled]
        BY <1>4, <2>2 DEF DownList
    <3>2. op'[c].pc = "down" /\ op'[c].todo = Enabled /\ op'[c].reply = "none"
        BY <1>0, <1>2, <3>1 DEF OpType
    <3>3. \A s \in Enabled : s \in Schedulers /\ rows'[s] \in Row'
        BY <2>1 DEF Enabled, On, StoreOK
    <3>4. op'[c].pc \in RemovePc
        BY <3>2 DEF RemovePc
    <3>5. ProjectOK(c)'
      <4>1. Strays \subseteq Enabled
          BY DEF Strays, Enabled
      <4> QED
          BY <1>2, <1>3, <2>1, <3>2, <4>1 DEF ProjectOK
    <3> QED
        BY <1>2, <2>1, <3>2, <3>3, <3>4, <3>5, Downs
  <2>3. CASE o # "ok"
    <3>1. op' = [op EXCEPT ![c].pc = "reply", ![c].reply = "unknown"]
        BY <1>4, <2>3 DEF DownList
    <3>2. op'[c].pc = "reply" /\ op'[c].reply = "unknown"
        BY <1>0, <3>1 DEF OpType
    <3> QED
        BY <2>1, <3>2, Fails
  <2> QED
      BY <2>2, <2>3
<1>5. CASE DownDisable(c, o)
  <2>1. op[c].pc = "down" /\ op[c].todo # {} /\ SetEnabled(First(c), FALSE, o)
      BY <1>5 DEF DownDisable
  <2>2. op[c].todo \subseteq Schedulers /\ \A s \in op[c].todo : rows[s] \in Row
      BY <2>1 DEF Progress, LoopOK
  <2>3. PICK f \in Schedulers : f = First(c) /\ f \in op[c].todo
      BY <2>1, <2>2, FirstIsNext
  <2>4. /\ StoreOK' /\ Row' = Row /\ rows'[f] \in Row' /\ project' = project
        /\ Elsewhere(f) /\ Strays' \subseteq Strays
        /\ Takes(o) => f \notin Strays'
      BY <2>1, <2>2, <2>3, RowDisabled
  <2>5. CASE o = "ok"
    <3>1. PICK T : T = op[c].todo \ {f}
        OBVIOUS
    <3>2. op' = [op EXCEPT ![c].todo = T, ![c].dirty = TRUE]
        BY <1>5, <2>3, <2>5, <3>1 DEF DownDisable, Rest
    <3>3. op'[c].pc = "down" /\ op'[c].todo = T /\ op'[c].reply = "none"
        BY <1>0, <1>2, <2>1, <3>2 DEF OpType
    <3>4. \A s \in T : s \in Schedulers /\ rows'[s] \in Row'
        BY <2>2, <2>4, <3>1 DEF Elsewhere
    <3>5. op'[c].pc \in RemovePc
        BY <3>3 DEF RemovePc
    <3>6. Strays' \subseteq T
        BY <1>3, <2>1, <2>4, <2>5, <3>1 DEF Takes
    <3>7. ProjectOK(c)'
        BY <1>2, <1>3, <2>1, <2>4, <3>3, <3>6 DEF ProjectOK
    <3> QED
        BY <1>2, <2>4, <3>3, <3>4, <3>5, <3>7, Downs
  <2>6. CASE o # "ok"
    <3>1. op' = [op EXCEPT ![c].pc = "reply", ![c].reply = "unknown", ![c].todo = {}]
        BY <1>5, <2>6 DEF DownDisable
    <3>2. op'[c].pc = "reply" /\ op'[c].reply = "unknown"
        BY <1>0, <3>1 DEF OpType
    <3> QED
        BY <2>4, <3>2, Fails
  <2> QED
      BY <2>5, <2>6
<1>6. CASE DownRefresh(c, o)
  <2>1. StoreOK' /\ UNCHANGED project /\ Strays' = Strays
      BY <1>6, StoreKept DEF DownRefresh, Refresh, store
  <2>2. CASE o = "ok"
    <3>1. op' = [op EXCEPT ![c].pc = "listSandboxes", ![c].todo = {}]
        BY <1>6, <2>2 DEF DownRefresh
    <3>2. op'[c].pc = "listSandboxes" /\ op'[c].reply = "none" /\ op'[c].pc \in RemovePc
        BY <1>0, <1>2, <3>1 DEF OpType, RemovePc
    <3>3. op[c].pc = "downInstall" \/ (op[c].pc = "down" /\ op[c].todo = {})
        BY <1>6, <1>i, <2>2 DEF DownRefresh, Refresh
    <3>4. ProjectOK(c)'
        BY <1>2, <1>3, <2>1, <3>2, <3>3 DEF ProjectOK
    <3> QED
        BY <1>2, <2>1, <3>2, <3>4, Downs
  <2>3. CASE o # "ok"
    <3>1. op' = [op EXCEPT ![c].pc = "reply", ![c].reply = "unknown", ![c].todo = {}]
        BY <1>6, <2>3 DEF DownRefresh
    <3>2. op'[c].pc = "reply" /\ op'[c].reply = "unknown"
        BY <1>0, <3>1 DEF OpType
    <3> QED
        BY <2>1, <3>2, Fails
  <2> QED
      BY <2>2, <2>3
<1>7. CASE ListRunning(c, o)
  <2>1. StoreOK' /\ UNCHANGED project /\ op[c].pc = "listSandboxes" /\ Strays' = Strays
      BY <1>7, StoreKept DEF ListRunning, store
  <2>2. CASE o = "ok"
    <3>1. PICK T : T = {b \in Sandboxes : sandbox[b] = "running"}
        OBVIOUS
    <3>2. op' = [op EXCEPT ![c].pc = "stop", ![c].todo = T, ![c].seen = T]
        BY <1>7, <2>2, <3>1 DEF ListRunning
    <3>3. op'[c].pc = "stop" /\ op'[c].reply = "none" /\ op'[c].todo = T /\ op'[c].seen = T
        BY <1>0, <1>2, <3>2 DEF OpType
    <3>4. op'[c].pc \in RemovePc
        BY <3>3 DEF RemovePc
    <3>5. ProjectOK(c)'
        BY <1>2, <1>3, <2>1, <3>3 DEF ProjectOK
    <3> QED
        BY <1>2, <2>1, <3>3, <3>4, <3>5, Downs
  <2>3. CASE o # "ok"
    <3>1. op' = [op EXCEPT ![c].pc = "reply", ![c].reply = "unknown"]
        BY <1>7, <2>3 DEF ListRunning
    <3>2. op'[c].pc = "reply" /\ op'[c].reply = "unknown"
        BY <1>0, <3>1 DEF OpType
    <3> QED
        BY <2>1, <3>2, Fails
  <2> QED
      BY <2>2, <2>3
<1>8. CASE StopSandbox(c, o)
  <2>1. StoreOK' /\ UNCHANGED project /\ op[c].pc = "stop" /\ Strays' = Strays
      BY <1>8, StoreKept DEF StopSandbox, store
  <2>2. PICK v : v = IF o = "ok" THEN op[c].clean ELSE FALSE
      OBVIOUS
  <2>3. PICK w : w = IF Takes(o) THEN op[c].seen \ {First(c)} ELSE op[c].seen
      OBVIOUS
  <2>4. PICK T : T = op[c].todo \ {First(c)}
      OBVIOUS
  <2>5. op' = [op EXCEPT ![c].todo = T, ![c].clean = v, ![c].seen = w]
      BY <1>0, <1>8, <2>2, <2>3, <2>4 DEF StopSandbox, Rest, OpType
  <2>6. /\ op'[c].pc = "stop" /\ op'[c].reply = "none" /\ op'[c].todo = T
        /\ op'[c].clean = v /\ op'[c].seen = w
      BY <1>0, <1>2, <2>1, <2>5 DEF OpType
  <2>7. op'[c].pc \in RemovePc
      BY <2>6 DEF RemovePc
  <2>8. v => w \subseteq T
    <3>1. v => o = "ok" /\ op[c].seen \subseteq op[c].todo
        BY <2>1, <2>2 DEF Progress, ProjectOK
    <3> QED
        BY <2>3, <2>4, <3>1 DEF Takes
  <2>9. ProjectOK(c)'
      BY <1>2, <1>3, <2>1, <2>6, <2>8 DEF ProjectOK
  <2> QED
      BY <1>2, <2>1, <2>6, <2>7, <2>9, Downs
<1>9. CASE Stopped(c)
  <2>1. /\ StoreOK' /\ UNCHANGED project /\ op[c].pc = "stop" /\ op[c].todo = {}
        /\ Strays' = Strays
      BY <1>9, StoreKept DEF Stopped, store
  <2>2. CASE Replies(c, "failed")
    <3>1. op'[c].pc = "reply" /\ op'[c].reply = "failed"
        BY <2>2, RepliesWith
    <3> QED
        BY <1>2, <2>1, <3>1, Fails
  <2>3. CASE op[c].clean /\ \E pc \in {"unlink", "mark"} :
               Goes(c, pc) /\ (pc = "unlink" => project.removed)
    <3>1. PICK pc \in {"unlink", "mark"} : Goes(c, pc) /\ (pc = "unlink" => project.removed)
        BY <2>3
    <3>2. op'[c].pc = pc /\ op'[c].reply = "none" /\ op'[c].seen = op[c].seen
        BY <1>0, <1>2, <3>1 DEF Goes, OpType
    <3>3. op'[c].pc \in RemovePc
        BY <3>2 DEF RemovePc
    <3>4. op[c].seen = {}
        BY <2>1, <2>3 DEF Progress, ProjectOK
    <3>5. ProjectOK(c)'
        BY <1>2, <1>3, <2>1, <3>1, <3>2, <3>4 DEF ProjectOK
    <3> QED
        BY <1>2, <2>1, <3>2, <3>3, <3>5, Downs
  <2> QED
      BY <1>9, <2>2, <2>3 DEF Stopped, AllStopped
<1>10. CASE MarkProjectRemoved(c, o)
  <2>1. /\ op[c].pc = "mark" /\ UNCHANGED <<revision, agents, rows, overridden>>
        /\ project' = IF Takes(o) THEN [project EXCEPT !.removed = TRUE] ELSE project
        /\ Wrote(c, o, "unlink", {})
      BY <1>10 DEF MarkProjectRemoved
  <2>2. StoreOK' /\ (o = "ok" => project'.removed)
    <3>1. /\ project' \in [removed : BOOLEAN, hash : Specs, rev : 0..Len(revision)]
          /\ o = "ok" => project'.removed
        BY <1>3, <2>1 DEF StoreOK, Takes
    <3> QED
        BY <2>1, <3>1 DEF StoreOK, Row, EnabledIsConsistent, On
  <2>3. CASE o = "ok"
    <3>1. op'[c].pc = "unlink" /\ op'[c].reply = "none"
        BY <1>2, <2>1, <2>3, WroteThenGoes
    <3>2. op'[c].pc \in RemovePc
        BY <3>1 DEF RemovePc
    <3>3. op'[c].seen = {}
      <4>1. op[c].seen = {}
          BY <2>1 DEF Progress, ProjectOK
      <4> QED
          BY <1>0, <2>1, <4>1 DEF Wrote, OpType
    <3>4. Strays' = {}
        BY <1>3, <2>1 DEF Strays, On
    <3>5. ProjectOK(c)'
        BY <1>2, <2>2, <2>3, <3>1, <3>3, <3>4 DEF ProjectOK
    <3> QED
        BY <1>2, <2>2, <3>1, <3>2, <3>5, Downs
  <2>4. CASE o # "ok"
      BY <2>1, <2>2, <2>4, WriteFails
  <2> QED
      BY <2>3, <2>4
<1>11. CASE RemoveProjectVolumes(c, o)
  <2>1. /\ StoreOK' /\ Wrote(c, o, "list", {}) /\ op[c].pc = "unlink" /\ Strays' = Strays
        /\ UNCHANGED <<project, rows, overridden>>
        /\ o = "ok" => links' = None
      BY <1>11, StoreKept DEF RemoveProjectVolumes, Takes
  <2>2. CASE o = "ok"
    <3>1. op'[c].pc = "list" /\ op'[c].reply = "none"
        BY <1>2, <2>1, <2>2, WroteThenGoes
    <3>2. op[c].seen = {} /\ project.removed /\ Strays = {}
        BY <2>1 DEF Progress, ProjectOK
    <3>3. op'[c].seen = {}
        BY <1>0, <2>1, <3>2 DEF Wrote, OpType
    <3>4. (Enabled \subseteq SetByHand)'
        BY <2>1, <3>2 DEF Strays, Enabled, SetByHand
    <3>5. RemovedIsWhole(c)'
        BY <2>1, <2>2, <3>2, <3>3, <3>4 DEF RemovedIsWhole
    <3>6. ProjectOK(c)'
        BY <1>2, <3>1, <3>5 DEF ProjectOK
    <3> QED
        BY <1>2, <2>1, <3>1, <3>6, Downs
  <2>3. CASE o # "ok"
      BY <2>1, <2>3, WriteFails
  <2> QED
      BY <2>2, <2>3
<1> QED
    BY <1>4, <1>5, <1>6, <1>7, <1>8, <1>9, <1>10, <1>11 DEF Remove

(* A request finds the project under the gate, or is refused.              *)
LEMMA ResolveProgress ==
    ASSUME OpsOK, StoreOK, NEW c \in Callers, Progress(c), NEW o \in Outcomes,
           NEW refused \in BOOLEAN, Resolve(c, o, refused)
    PROVE  StoreOK' /\ Progress(c)'
<1>0. op \in [Callers -> OpType] /\ op[c] \in OpType
    BY DEF OpsOK
<1>1. op[c].pc = "resolve" /\ StoreOK'
      /\ UNCHANGED <<project, revision, agents, rows, overridden>>
    BY StoreKept DEF Resolve, store
<1>2. ~op[c].wrote /\ op[c].reply = "none" /\ op[c].kind \in {"apply", "patch", "remove"}
    BY <1>1 DEF Progress, ReplyOK, OpsOK, PcFits
<1>3. \/ Replies(c, "notApplied")
      \/ op[c].kind = "remove" /\ Goes(c, "downList") /\ project # None
      \/ /\ op[c].kind # "remove"
         /\ op[c].kind = "patch" =>
              project # None /\ project.rev > 0 /\ revision[project.rev] = op[c].expected
         /\ op' = [op EXCEPT ![c].pc = "images", ![c].todo = InSpec[op[c].spec]]
    BY <1>2 DEF Resolve, HashExpected
<1>4. CASE Replies(c, "notApplied")
  <2>1. op'[c].pc = "reply" /\ op'[c].reply = "notApplied" /\ ~op'[c].wrote
      BY <1>2, <1>4, RepliesWith
  <2> QED
      BY <1>1, <2>1, Fails
<1>5. CASE op[c].kind = "remove" /\ Goes(c, "downList") /\ project # None
  <2>1. op'[c].pc = "downList" /\ op'[c].reply = "none" /\ op'[c].kind = "remove"
      BY <1>2, <1>5, GoesTo
  <2>2. op'[c].pc \in RemovePc
      BY <2>1 DEF RemovePc
  <2>3. ProjectOK(c)'
      BY <1>1, <1>5, <2>1 DEF ProjectOK
  <2> QED
      BY <1>1, <2>1, <2>2, <2>3, Downs
<1>6. CASE /\ op[c].kind # "remove"
           /\ op[c].kind = "patch" =>
                project # None /\ project.rev > 0 /\ revision[project.rev] = op[c].expected
           /\ op' = [op EXCEPT ![c].pc = "images", ![c].todo = InSpec[op[c].spec]]
  <2>1. Fields(c, "images", InSpec[op[c].spec], op[c].wrote, op[c].dirty, op[c].clean, op[c].reply)
      BY <1>0, <1>6 DEF Fields, OpType
  <2>2. op'[c].pc = "images" /\ op'[c].todo = InSpec[op'[c].spec] /\ op'[c].reply = "none"
        /\ ~op'[c].wrote /\ op'[c].kind = op[c].kind /\ op'[c].expected = op[c].expected
      BY <1>2, <2>1 DEF Fields
  <2>3. Established(c)'
      BY <2>2 DEF Established, AtOrApplied
  <2>4. LoopOK(c)'
      BY <2>2 DEF LoopOK
  <2>5. ProjectOK(c)'
      BY <1>1, <1>6, <2>2 DEF ProjectOK
  <2>6. ReplyOK(c)'
      BY <2>2 DEF ReplyOK
  <2> QED
      BY <1>1, <2>3, <2>4, <2>5, <2>6 DEF Progress
<1> QED
    BY <1>3, <1>4, <1>5, <1>6

(* The lists of the refreshes outside the gate keep their type.            *)
LEMMA WorkKeepsLists ==
    ASSUME ListsOK, NEW c \in Callers, Work(c)
    PROVE  ListsOK'
<1>1. ASSUME NEW o \in Outcomes, Apply(c, o) PROVE UNCHANGED lists
  <2>1. CASE EnsureImages(c, o) \/ EnsureVolume(c, o) \/ LinkVolumes(c, o)
             \/ UpsertProject(c, o) \/ SaveProjectRevision(c, o) \/ UpsertAgents(c, o)
      BY <2>1 DEF EnsureImages, EnsureVolume, LinkVolumes, UpsertProject,
         SaveProjectRevision, UpsertAgents, cache
  <2>2. CASE StageScheduler(c, o) \/ ReplaceTriggers(c, o) \/ EnableScheduler(c, o)
             \/ CleanupDisable(c, o) \/ CleanupRefresh(c, o)
      BY <2>2 DEF StageScheduler, ReplaceTriggers, EnableScheduler, CleanupDisable,
         CleanupRefresh, Refresh, cache
  <2>3. CASE ListRemoved(c, o) \/ DisableRemoved(c, o) \/ RefreshAfterReconcile(c, o)
             \/ FailClosedList(c, o) \/ FailClosedDisable(c, o) \/ FailClosedRefresh(c, o)
             \/ ListApplied(c, o)
      BY <2>3 DEF ListRemoved, DisableRemoved, RefreshAfterReconcile, FailClosedList,
         FailClosedDisable, FailClosedRefresh, ListApplied, Refresh, cache
  <2> QED
      BY <1>1, <2>1, <2>2, <2>3 DEF Apply
<1>2. ASSUME NEW o \in Outcomes, Remove(c, o) PROVE UNCHANGED lists
    BY <1>2 DEF Remove, DownList, DownDisable, DownRefresh, Refresh, ListRunning,
       StopSandbox, MarkProjectRemoved, RemoveProjectVolumes, cache
<1>3. ASSUME NEW o \in Outcomes, NEW refused \in BOOLEAN, Resolve(c, o, refused)
      PROVE  UNCHANGED lists
    BY <1>3 DEF Resolve, cache
<1>4. CASE LoadFails(c) \/ CompareScheduler(c) \/ Stopped(c)
    BY <1>4 DEF LoadFails, CompareScheduler, Stopped, cache, ListsOK
<1>5. CASE ListSchedulers(c)
  <2>1. lists' = [r \in Refreshers |->
                    IF lists[r] = None THEN None ELSE [on |-> lists[r].on, late |-> TRUE]]
      BY <1>5 DEF ListSchedulers
  <2>2. ASSUME NEW r \in Refreshers, lists[r] # None
        PROVE  [on |-> lists[r].on, late |-> TRUE] \in [on : SUBSET Schedulers, late : BOOLEAN]
      BY <2>2 DEF ListsOK
  <2> QED
      BY <2>1, <2>2 DEF ListsOK
<1> QED
    BY <1>1, <1>2, <1>3, <1>4, <1>5 DEF Work, ListsOK

(* All the work of a request.                                              *)
LEMMA WorkProgress ==
    ASSUME OpsOK, WorkInv, GateExclusion, MinExists, NEW c \in Callers, Work(c)
    PROVE  WorkInv'
<1>1. Held(c) /\ StoreOK /\ Progress(c)
    BY WorkIsHeld DEF WorkInv
<1>2. StoreOK' /\ Progress(c)'
  <2>1. ASSUME NEW o \in Outcomes, Apply(c, o) PROVE StoreOK' /\ Progress(c)'
    <3>1. CASE EnsureImages(c, o) \/ EnsureVolume(c, o) \/ LinkVolumes(c, o)
               \/ UpsertProject(c, o) \/ SaveProjectRevision(c, o) \/ UpsertAgents(c, o)
        BY <1>1, <3>1, ImagesProgress, VolumeProgress, UpsertProgress, RevisionProgress,
           AgentsProgress
    <3>2. CASE StageScheduler(c, o) \/ ReplaceTriggers(c, o) \/ EnableScheduler(c, o)
               \/ CleanupDisable(c, o) \/ CleanupRefresh(c, o)
        BY <1>1, <3>2, StageProgress, TriggersProgress, EnableProgress, CleanupProgress
    <3>3. CASE ListRemoved(c, o) \/ DisableRemoved(c, o) \/ RefreshAfterReconcile(c, o)
               \/ FailClosedList(c, o) \/ FailClosedDisable(c, o) \/ FailClosedRefresh(c, o)
               \/ ListApplied(c, o)
        BY <1>1, <3>3, ListRemovedProgress, DisableRemovedProgress, RefreshProgress,
           CompensationProgress, ListAppliedProgress
    <3> QED
        BY <2>1, <3>1, <3>2, <3>3 DEF Apply
  <2>2. ASSUME NEW o \in Outcomes, Remove(c, o) PROVE StoreOK' /\ Progress(c)'
      BY <1>1, <2>2, RemoveProgress
  <2>3. ASSUME NEW o \in Outcomes, NEW refused \in BOOLEAN, Resolve(c, o, refused)
        PROVE  StoreOK' /\ Progress(c)'
      BY <1>1, <2>3, ResolveProgress
  <2>4. "ok" \in Outcomes
      BY DEF Outcomes
  <2>5. CASE LoadFails(c) \/ CompareScheduler(c) \/ ListSchedulers(c) \/ Stopped(c)
      BY <1>1, <2>4, <2>5, CleanupProgress, CompareProgress, ListProgress, RemoveProgress
  <2> QED
      BY <2>1, <2>2, <2>3, <2>5 DEF Work
<1>3. \A d \in Callers : d # c => Progress(d)'
    BY <1>1, OthersWait DEF WorkInv
<1>4. ListsOK'
    BY WorkKeepsLists DEF WorkInv
<1> QED
    BY <1>2, <1>3, <1>4 DEF WorkInv

(* What a step outside the gate may do to the store and the controller:    *)
(* whatever a request has established stays.                               *)
Harmless ==
    /\ UNCHANGED <<project, revision, agents, volume, links, images>>
    /\ Row' = Row /\ Strays' \subseteq Strays
    /\ \A s \in Schedulers : rows[s] \in Row => rows'[s] \in Row
    /\ \A s, p : Fits(s, p) => Fits(s, p)'
    /\ \A s : StagedOff(s) => StagedOff(s)'
    /\ \A s \in Schedulers : \A p : Triggered(s, p) => Triggered(s, p)'
    /\ \A l : Agrees(l) => Agrees(l)'
    /\ OutsideAgrees => OutsideAgrees'
    /\ Fresh => Fresh'

(* The record of caller d is the same but for its gate and its client.     *)
SameWork(d) ==
    /\ op'[d].pc = op[d].pc /\ op'[d].kind = op[d].kind /\ op'[d].spec = op[d].spec
    /\ op'[d].expected = op[d].expected /\ op'[d].todo = op[d].todo /\ op'[d].seen = op[d].seen
    /\ op'[d].wrote = op[d].wrote /\ op'[d].dirty = op[d].dirty /\ op'[d].clean = op[d].clean
    /\ op'[d].reply = op[d].reply

(* What a request has established depends on its record and the store.     *)
LEMMA ProgressKept ==
    ASSUME NEW d \in Callers, Progress(d), SameWork(d), Harmless
    PROVE  Progress(d)'
<1> USE DEF SameWork
<1>1. First(d)' = First(d)
    BY DEF First
<1>2. Established(d)'
  <2>1. UNCHANGED <<project, revision, agents, volume, links, images>>
        /\ Strays' \subseteq Strays /\ (Fresh => Fresh')
        /\ \A s, p : Fits(s, p) => Fits(s, p)'
      BY DEF Harmless
  <2>2. PICK p : p = op[d].spec /\ p = op'[d].spec
      OBVIOUS
  <2>3. AtOrApplied(d, AfterStage)' => \A s \in InSpec[p] : Fits(s, p)'
      BY <2>1, <2>2 DEF Progress, Established, AtOrApplied
  <2>4. AtOrApplied(d, AfterReconcile)' => Strays' \subseteq InSpec[p] /\ Fresh'
      BY <2>1, <2>2 DEF Progress, Established, AtOrApplied
  <2> QED
      BY <2>1, <2>2, <2>3, <2>4 DEF Progress, Established, AtOrApplied
<1>3. LoopOK(d)'
  <2>1. PICK p, T : p = op[d].spec /\ p = op'[d].spec /\ T = op[d].todo /\ T = op'[d].todo
      OBVIOUS
  <2>2. PICK f : f = First(d) /\ f = First(d)'
      BY <1>1
  <2>3. /\ op'[d].pc = "images" => T \subseteq InSpec[p] /\ InSpec[p] \ T \subseteq images'
        /\ op'[d].pc = "agents" =>
             T \subseteq InSpec[p] /\ \A s \in InSpec[p] \ T : agents'[s] = project'.rev
      BY <2>1 DEF Progress, LoopOK, Harmless
  <2>4. /\ op'[d].pc \in {"stage", "write", "triggers", "enable"} =>
             T \subseteq InSpec[p] /\ \A s \in InSpec[p] \ T : Fits(s, p)'
        /\ op'[d].pc \in {"write", "triggers", "enable", "cleanup"} =>
             T # {} /\ T \subseteq Schedulers
      BY <2>1 DEF Progress, LoopOK, Harmless
  <2>5. /\ op'[d].pc \in {"triggers", "enable"} => StagedOff(f)'
        /\ op'[d].pc = "enable" => Triggered(f, p)' /\ f \in EnabledIn[p]
        /\ op'[d].pc = "cleanup" => f \in Schedulers /\ rows'[f] \in Row'
    <3>1. /\ op[d].pc \in {"triggers", "enable"} => StagedOff(f) /\ f \in Schedulers
          /\ op[d].pc = "enable" => Triggered(f, p) /\ f \in EnabledIn[p]
          /\ op[d].pc = "cleanup" => f \in Schedulers /\ rows[f] \in Row
        BY <2>1, <2>2 DEF Progress, LoopOK, StagedOff, Placed
    <3> QED
        BY <3>1 DEF Harmless
  <2>6. /\ op'[d].pc \in {"disable", "close", "down"} =>
             \A s \in T : s \in Schedulers /\ rows'[s] \in Row'
        /\ op'[d].pc = "disable" =>
             (\A s \in T : s \notin InSpec[p]) /\ Strays' \subseteq T \cup InSpec[p]
        /\ op'[d].pc = "disableInstall" => Strays' \subseteq InSpec[p]
        /\ op'[d].pc = "close" /\ op'[d].clean => Strays' \subseteq T
        /\ op'[d].pc = "closeInstall" /\ op'[d].clean => Strays' = {}
      BY <2>1 DEF Progress, LoopOK, Harmless
  <2>7. /\ op'[d].pc \in {"disableInstall", "closeInstall"} => Agrees(T)' /\ OutsideAgrees'
        /\ op'[d].pc = "reply" /\ op'[d].reply = "failed" /\ op'[d].kind # "remove"
              /\ op'[d].dirty /\ op'[d].clean => Strays' = {} /\ Fresh'
      BY <2>1 DEF Progress, LoopOK, Harmless
  <2> QED
      BY ZenonT(30), <2>1, <2>2, <2>3, <2>4, <2>5, <2>6, <2>7 DEF LoopOK
<1>4. ProjectOK(d)'
  <2>1. RemovedIsWhole(d) => RemovedIsWhole(d)'
    <3>1. Enabled \subseteq SetByHand <=> Strays = {}
        BY DEF Enabled, SetByHand, Strays
    <3>2. (Enabled \subseteq SetByHand)' <=> Strays' = {}
        BY DEF Enabled, SetByHand, Strays
    <3>3. Strays = {} => Strays' = {}
        BY DEF Harmless
    <3> QED
        BY <3>1, <3>2, <3>3 DEF RemovedIsWhole, Harmless
  <2> QED
      BY <2>1 DEF Progress, ProjectOK, Harmless
<1>5. ReplyOK(d)'
    BY DEF Progress, ReplyOK
<1> QED
    BY <1>2, <1>3, <1>4, <1>5 DEF Progress

(* A step that leaves the store and the controller alone is harmless.      *)
LEMMA NothingIsHarmless ==
    ASSUME StoreOK, UNCHANGED <<store, cache>>
    PROVE  StoreOK' /\ Harmless
<1>1. /\ UNCHANGED <<project, revision, agents, rows, overridden, volume, links, images>>
      /\ UNCHANGED <<held, lists, stale>>
    BY DEF store, cache
<1>2. /\ StoreOK' /\ Row' = Row /\ Strays' = Strays
      /\ \A s, p : Fits(s, p) => Fits(s, p)'
      /\ \A l : Agrees(l) => Agrees(l)'
    BY <1>1, StoreKept
<1>3. /\ \A s : StagedOff(s) => StagedOff(s)'
      /\ \A s \in Schedulers : \A p : Triggered(s, p) => Triggered(s, p)'
    BY <1>1, <1>2 DEF StagedOff, Placed, Triggered
<1>4. OutsideAgrees => OutsideAgrees'
    BY <1>1, <1>2 DEF OutsideAgrees
<1>5. Fresh => Fresh'
    BY <1>1, <1>2, <1>4 DEF Fresh, Agrees
<1> QED
    BY <1>1, <1>2, <1>3, <1>4, <1>5 DEF Harmless

(* SetSchedulerEnabled and SetSchedulerTriggerEnabled are harmless: the    *)
(* part of the row they write is no longer the request's.                  *)
LEMMA OverridesAreHarmless ==
    ASSUME StoreOK, NEW s \in Schedulers, NEW part \in {"enabled", "triggers"}, NEW r \in Row,
           Overrides(s, part, r), rows[s] \in Row, r.rev = rows[s].rev,
           part = "triggers" => r.on = rows[s].on,
           part = "enabled" => r.trig = rows[s].trig
    PROVE  StoreOK' /\ Harmless
<1>1. /\ UNCHANGED <<project, revision, agents, volume, links, images>>
      /\ held' = held /\ lists' = lists /\ stale' = stale
    BY DEF Overrides, cache
<1>2. PICK v \in SUBSET {"enabled", "triggers"} : v = overridden[s] \cup {part} /\ v # {}
  <2>1. overridden[s] \cup {part} \in SUBSET {"enabled", "triggers"}
      BY DEF StoreOK
  <2> QED
      BY <2>1
<1>3. rows' = [rows EXCEPT ![s] = r] /\ overridden' = [overridden EXCEPT ![s] = v]
    BY <1>2 DEF Overrides
<1>4. StoreOK' /\ Row' = Row /\ rows'[s] = r /\ overridden'[s] = v /\ Elsewhere(s)
    BY <1>1, <1>2, <1>3, RowWritten
<1>5. overridden[s] \subseteq v /\ part \in v
    BY <1>2
<1>6. Strays' \subseteq Strays
  <2> SUFFICES ASSUME NEW t, t \in Strays' PROVE t \in Strays
      OBVIOUS
  <2>1. t \in Schedulers
      BY DEF Strays
  <2>2. CASE t = s
    <3>1. "enabled" \notin v /\ rows'[s] # None /\ r.on
        BY <1>4, <2>2 DEF Strays, On
    <3>2. part = "triggers" /\ "enabled" \notin overridden[s]
        BY <1>5, <3>1
    <3>3. rows[s] # None
        BY NoneIsNoRow, SMT DEF Row, StoreOK
    <3> QED
        BY <2>2, <3>1, <3>2, <3>3 DEF Strays, On
  <2>3. CASE t # s
      BY <1>4, <2>1, <2>3 DEF Elsewhere
  <2> QED
      BY <2>2, <2>3
<1>7. ASSUME NEW t \in Schedulers, rows[t] \in Row PROVE rows'[t] \in Row
    BY <1>4, <1>7 DEF Elsewhere
<1>8. ASSUME NEW t \in Schedulers, NEW p, Triggered(t, p) PROVE Triggered(t, p)'
  <2>1. CASE t = s
      BY <1>4, <1>5, <1>8, <2>1 DEF Triggered
  <2>2. CASE t # s
      BY <1>4, <1>8, <2>2 DEF Triggered, Elsewhere
  <2> QED
      BY <2>1, <2>2
<1>9. ASSUME NEW t, Placed(t) PROVE Placed(t)'
  <2>1. CASE t = s
      BY <1>1, <1>4, <1>9, <2>1 DEF Placed
  <2>2. CASE t # s
      BY <1>1, <1>4, <1>9, <2>2 DEF Placed, Elsewhere
  <2> QED
      BY <2>1, <2>2
<1>10. ASSUME NEW t, StagedOff(t) PROVE StagedOff(t)'
  <2>1. Placed(t)' /\ t \in Schedulers
      BY <1>9, <1>10 DEF StagedOff, Placed
  <2>2. CASE t = s
      BY <1>4, <1>5, <1>10, <2>1, <2>2 DEF StagedOff
  <2>3. CASE t # s
      BY <1>4, <1>10, <2>1, <2>3 DEF StagedOff, Elsewhere
  <2> QED
      BY <2>2, <2>3
<1>11. ASSUME NEW t, NEW p, Fits(t, p) PROVE Fits(t, p)'
  <2>1. Placed(t)' /\ t \in Schedulers /\ Triggered(t, p)'
    <3>1. Placed(t) /\ t \in Schedulers /\ Triggered(t, p)
        BY <1>11 DEF Fits, Placed
    <3> QED
        BY <1>8, <1>9, <3>1
  <2>2. CASE t = s
      BY <1>4, <1>5, <1>11, <2>1, <2>2 DEF Fits
  <2>3. CASE t # s
      BY <1>4, <1>11, <2>1, <2>3 DEF Elsewhere
  <2> QED
      BY <2>2, <2>3
<1>12. ASSUME NEW l, Agrees(l) PROVE Agrees(l)'
  <2> SUFFICES ASSUME NEW t \in Schedulers, "enabled" \notin overridden'[t]
               PROVE  t \in l <=> On(t)'
      BY <1>12 DEF Agrees
  <2>1. CASE t = s
    <3>1. part = "triggers" /\ "enabled" \notin overridden[s]
        BY <1>4, <1>5, <2>1
    <3>2. rows[s] # None /\ rows'[s] # None
        BY <1>4, NoneIsNoRow, SMT DEF Row, StoreOK
    <3>3. On(s)' <=> On(s)
        BY <1>4, <3>1, <3>2 DEF On
    <3> QED
        BY <1>12, <2>1, <3>1, <3>3 DEF Agrees
  <2>2. CASE t # s
      BY <1>4, <1>12, <2>2 DEF Agrees, Elsewhere, On
  <2> QED
      BY <2>1, <2>2
<1>13. OutsideAgrees => OutsideAgrees'
    BY <1>1, <1>12 DEF OutsideAgrees
<1>14. Fresh => Fresh'
  <2>1. Agrees(held) => Agrees(held)'
      BY <1>1, <1>12 DEF Agrees
  <2> QED
      BY <1>1, <1>13, <2>1 DEF Fresh
<1> QED
    BY <1>1, <1>4, <1>6, <1>7, <1>8, <1>10, <1>11, <1>12, <1>13, <1>14 DEF Harmless

(* A write outside the gate.                                               *)
LEMMA WritersAreHarmless ==
    ASSUME StoreOK, NEW s \in Schedulers,
           \/ \E on \in BOOLEAN : SetSchedulerEnabled(s, on)
           \/ \E triggers \in Specs \cup {Altered} : SetSchedulerTriggerEnabled(s, triggers)
    PROVE  StoreOK' /\ Harmless /\ UNCHANGED <<op, lists, locks>>
<1>1. UNCHANGED <<op, lists, locks>> /\ rows[s] \in Row
    BY DEF SetSchedulerEnabled, SetSchedulerTriggerEnabled, Overrides, cache, StoreOK
<1>2. CASE \E on \in BOOLEAN : SetSchedulerEnabled(s, on)
  <2>1. PICK on \in BOOLEAN : SetSchedulerEnabled(s, on)
      BY <1>2
  <2> DEFINE w == [rows[s] EXCEPT !.on = on]
  <2>2. w \in Row /\ w.rev = rows[s].rev /\ w.trig = rows[s].trig
      BY <1>1 DEF Row
  <2>3. Overrides(s, "enabled", w)
      BY <2>1 DEF SetSchedulerEnabled
  <2> HIDE DEF w
  <2> QED
      BY <1>1, <2>2, <2>3, OverridesAreHarmless
<1>3. CASE \E triggers \in Specs \cup {Altered} : SetSchedulerTriggerEnabled(s, triggers)
  <2>1. PICK triggers \in Specs \cup {Altered} : SetSchedulerTriggerEnabled(s, triggers)
      BY <1>3
  <2> DEFINE w == [rows[s] EXCEPT !.trig = triggers]
  <2>2. w \in Row /\ w.rev = rows[s].rev /\ w.on = rows[s].on
    <3>1. triggers \in Specs \cup {None, Altered}
        OBVIOUS
    <3> QED
        BY <1>1, <3>1 DEF Row
  <2>3. Overrides(s, "triggers", w)
      BY <2>1 DEF SetSchedulerTriggerEnabled
  <2> HIDE DEF w
  <2> QED
      BY <1>1, <2>2, <2>3, OverridesAreHarmless
<1> QED
    BY <1>2, <1>3

(* A refresh outside the gate is harmless: what it lists agrees with the   *)
(* store until a request lists after it, and then it is late.              *)
LEMMA RefreshersAreHarmless ==
    ASSUME StoreOK, ListsOK, NEW r \in Refreshers, OutsideList(r) \/ OutsideInstall(r)
    PROVE  StoreOK' /\ ListsOK' /\ Harmless /\ UNCHANGED <<op, locks>>
<1>1. /\ UNCHANGED <<project, revision, agents, rows, overridden, volume, links, images>>
      /\ UNCHANGED <<op, locks>>
    BY DEF OutsideList, OutsideInstall, store
<1>2. /\ StoreOK' /\ Row' = Row /\ Strays' = Strays
      /\ \A s, p : Fits(s, p) => Fits(s, p)'
      /\ \A l : Agrees(l) => Agrees(l)'
    BY <1>1, StoreKept
<1>3. /\ \A s : StagedOff(s) => StagedOff(s)'
      /\ \A s \in Schedulers : \A p : Triggered(s, p) => Triggered(s, p)'
    BY <1>1, <1>2 DEF StagedOff, Placed, Triggered
<1>4. CASE OutsideList(r)
  <2>1. PICK e : e = [on |-> Enabled, late |-> FALSE]
      OBVIOUS
  <2>2. lists' = [lists EXCEPT ![r] = e] /\ UNCHANGED <<held, stale>>
      BY <1>4, <2>1 DEF OutsideList
  <2>3. e \in [on : SUBSET Schedulers, late : BOOLEAN] /\ e.on = Enabled
      BY <2>1 DEF Enabled
  <2>4. ListsOK' /\ \A q \in Refreshers : lists'[q] = IF q = r THEN e ELSE lists[q]
      BY <2>2, <2>3 DEF ListsOK
  <2>5. Agrees(e.on)'
      BY <1>1, <2>3 DEF Agrees, Enabled, On
  <2>6. OutsideAgrees => OutsideAgrees'
      BY <1>2, <2>4, <2>5 DEF OutsideAgrees
  <2>7. Fresh => Fresh'
      BY <1>2, <2>2, <2>6 DEF Fresh, Agrees
  <2> QED
      BY <1>1, <1>2, <1>3, <2>4, <2>6, <2>7 DEF Harmless
<1>5. CASE OutsideInstall(r)
  <2>1. /\ lists[r] # None /\ lists' = [lists EXCEPT ![r] = None]
        /\ held' = lists[r].on /\ stale' = lists[r].late
      BY <1>5 DEF OutsideInstall
  <2>2. ListsOK' /\ \A q \in Refreshers : lists'[q] = IF q = r THEN None ELSE lists[q]
      BY <2>1 DEF ListsOK
  <2>3. OutsideAgrees => OutsideAgrees'
      BY <1>2, <2>2 DEF OutsideAgrees
  <2>4. OutsideAgrees => stale' \/ Agrees(held)'
    <3>1. OutsideAgrees => lists[r].late \/ Agrees(lists[r].on)
        BY <2>1 DEF OutsideAgrees
    <3>2. Agrees(lists[r].on) => Agrees(held)'
        BY <1>1, <2>1 DEF Agrees, On
    <3> QED
        BY <2>1, <3>1, <3>2
  <2>5. Fresh => Fresh'
      BY <2>3, <2>4 DEF Fresh
  <2> QED
      BY <1>1, <1>2, <1>3, <2>2, <2>3, <2>5 DEF Harmless
<1> QED
    BY <1>4, <1>5

(* A request that has not begun, or has left, has nothing to answer for.   *)
LEMMA Resting ==
    ASSUME NEW c \in Callers, op'[c].pc \in {"idle", "wait", "resolve", "unref"},
           op'[c].pc # "unref" => ~op'[c].wrote /\ op'[c].reply = "none",
           op'[c].reply = "notApplied" => ~op'[c].wrote,
           op'[c].reply = "applied" => op'[c].kind \in {"apply", "patch"}
    PROVE  Progress(c)'
<1>1. Established(c)'
    BY DEF Established, AtOrApplied
<1>2. LoopOK(c)' /\ ProjectOK(c)'
    BY DEF LoopOK, ProjectOK
<1>3. ReplyOK(c)'
    BY DEF ReplyOK
<1> QED
    BY <1>1, <1>2, <1>3 DEF Progress

HIDE DEF AfterReconcile, AfterStage, AfterAgents, AfterRevision, AfterUpsert,
        AfterLinks, AfterVolume, AfterImages

----------------------------------------------------------------------------
(* The gate itself.                                                        *)

Refs(g) == {c \in Callers : op[c].gate = g}

(* The gate in the map is the one every request under way refers to, its   *)
(* references are counted, and its token is away exactly while one request *)
(* holds it.                                                               *)
GateInv ==
    /\ OpsOK
    /\ gate \in GateIDs \cup {0}
    /\ gates \in [GateIDs -> [token : BOOLEAN, refs : Nat]]
    /\ \A c \in Callers : op[c].pc = "idle" <=> op[c].gate = 0
    /\ \A c \in Callers : op[c].gate # 0 => op[c].gate = gate
    /\ \A g \in GateIDs : gates[g].refs = Cardinality(Refs(g))
    /\ \A c \in Callers : Holding(c) => ~gates[gate].token
    /\ GateExclusion
    /\ gate # 0 /\ ~gates[gate].token => \E c \in Callers : Holding(c)

(* A caller that is idle holds and refers to nothing.                      *)
LEMMA IdleOK ==
    /\ Idle \in OpType /\ Idle.pc = "idle" /\ Idle.gate = 0 /\ Idle.kind = "none"
BY DEF Idle, OpType, Pcs, ReplyKinds

INSTANCE FiniteSetTheorems

(* References are counted over a finite set.                               *)
LEMMA RefsFinite ==
    ASSUME NEW g PROVE IsFiniteSet(Refs(g)) /\ Cardinality(Refs(g)) \in Nat
<1>1. Refs(g) \in SUBSET Callers
    BY DEF Refs
<1>2. IsFiniteSet(Refs(g))
    BY <1>1, CallersFinite, FS_Subset
<1> QED
    BY <1>2, FS_CardinalityType

(* Work under the gate leaves the gate as it is.                           *)
LEMMA WorkKeepsGate ==
    ASSUME GateInv, NEW c \in Callers, Work(c)
    PROVE  GateInv'
<1>1. Held(c)
    BY WorkIsHeld DEF GateInv
<1>2. OpsOK'
    BY <1>1 DEF GateInv, OpsOK, Held, PcFits
<1>3. \A d \in Callers : /\ op'[d].gate = op[d].gate
                         /\ Holding(d)' <=> Holding(d)
                         /\ op'[d].pc = "idle" <=> op[d].pc = "idle"
    BY <1>1 DEF Held, Holding
<1>4. \A g : Refs(g)' = Refs(g)
    BY <1>3 DEF Refs
<1>5. gate' = gate /\ gates' = gates
    BY <1>1 DEF Held, locks
<1> QED
    BY <1>2, <1>3, <1>4, <1>5 DEF GateInv, GateExclusion

(* acquire: a request that comes in joins the gate of the map or makes one.*)
LEMMA RequestKeepsGate ==
    ASSUME GateInv, NEW c \in Callers, NEW kind, NEW p, NEW e \in Specs \cup {None},
           kind = "remove" => p = None,
           kind # "remove" => p \in Specs,
           Request(c, kind, p, e)
    PROVE  GateInv'
<1> DEFINE g == IF gate = 0 THEN NewGate ELSE gate
           r == [Idle EXCEPT !.pc = "wait", !.kind = kind, !.spec = p,
                             !.expected = e, !.gate = g]
<1>1. /\ op[c].pc = "idle" /\ kind \in Kinds
      /\ gate' = g
      /\ gates' = [gates EXCEPT ![g].refs = @ + 1,
                                ![g].token = IF gate = 0 THEN TRUE ELSE @]
      /\ op' = [op EXCEPT ![c] = r]
    BY DEF Request, Joins, Idle
<1>2. gate = 0 => \A d \in Callers : op[d].gate = 0
    BY DEF GateInv
<1>3. g \in GateIDs /\ (gate = 0 => gates[g].refs = 0)
  <2>1. CASE gate = 0
    <3>1. \A h \in GateIDs : Refs(h) = {}
        BY SMT, <1>2, <2>1 DEF Refs, GateIDs
    <3>2. \A h \in GateIDs : gates[h].refs = 0
        BY <3>1, FS_EmptySet, Zenon DEF GateInv
    <3>3. Cardinality(Callers) \in Nat /\ Cardinality(Callers) # 0
        BY CallersFinite, FS_CardinalityType, FS_EmptySet
    <3>4. 1 \in GateIDs
        BY SMT, <3>3 DEF GateIDs
    <3> QED
        BY <2>1, <3>2, <3>4 DEF NewGate
  <2>2. CASE gate # 0
      BY <2>2 DEF GateInv
  <2> QED
      BY <2>1, <2>2
<1>p. PICK k \in GateIDs : k = g
    BY <1>3
<1>4. k # 0
    BY SMT DEF GateIDs
<1>q. /\ gate' = k /\ (gate # 0 => k = gate) /\ (gate = 0 => gates[k].refs = 0)
      /\ op' = [op EXCEPT ![c] = r] /\ r = [r EXCEPT !.gate = k]
      /\ gates' = [gates EXCEPT ![k].refs = @ + 1,
                                ![k].token = IF gate = 0 THEN TRUE ELSE @]
    BY <1>1, <1>3, <1>p, IdleOK, Zenon DEF OpType
<1> HIDE DEF g
<1>5. r \in OpType /\ r.pc = "wait" /\ r.gate = k /\ r.kind = kind /\ r.spec = p
  <2>1. "wait" \in Pcs /\ p \in Specs \cup {None}
      BY DEF Pcs
  <2> QED
      BY <1>1, <1>p, <2>1, IdleOK, Zenon DEF OpType
<1> HIDE DEF r
<1>6. OpsOK'
  <2>1. op' \in [Callers -> OpType]
      BY <1>1, <1>5 DEF GateInv, OpsOK
  <2>2. PcFits(c)'
      BY <1>1, <1>5, <2>1, KindsKnown DEF PcFits, ApplyPc, RemovePc, GateInv, OpsOK
  <2>3. \A d \in Callers : d # c => PcFits(d)'
      BY <1>1 DEF PcFits, GateInv, OpsOK
  <2> QED
      BY <2>1, <2>2, <2>3 DEF OpsOK
<1>7. op'[c] = r /\ \A d \in Callers : d # c => op'[d] = op[d]
    BY <1>1 DEF GateInv, OpsOK
<1>8. ~Holding(c) /\ ~Holding(c)' /\ \A d \in Callers : Holding(d)' <=> Holding(d)
    BY <1>1, <1>5, <1>7 DEF Holding
<1>9. op[c].gate = 0
    BY <1>1 DEF GateInv
<1>10. gates' \in [GateIDs -> [token : BOOLEAN, refs : Nat]]
  <2> DEFINE token == IF gate = 0 THEN TRUE ELSE gates[k].token
  <2>0. gates \in [GateIDs -> [token : BOOLEAN, refs : Nat]]
      BY DEF GateInv
  <2>1. token \in BOOLEAN
      BY <2>0, Zenon
  <2>2. gates[k].refs + 1 \in Nat
      BY SMT, <2>0
  <2>3. gates' = [gates EXCEPT ![k] = [gates[k] EXCEPT !.refs = gates[k].refs + 1,
                                                      !.token = token]]
      BY <1>q, <2>0, Zenon
  <2> HIDE DEF token
  <2> QED
      BY <2>0, <2>1, <2>2, <2>3, Zenon
<1>11. /\ gates'[k].refs = gates[k].refs + 1
       /\ gates'[k].token = IF gate = 0 THEN TRUE ELSE gates[k].token
       /\ \A h \in GateIDs : h # k => gates'[h] = gates[h]
    BY <1>q DEF GateInv
<1>12. \A h \in GateIDs : gates'[h].refs = Cardinality(Refs(h)')
  <2>1. Refs(k)' = Refs(k) \cup {c} /\ c \notin Refs(k)
      BY <1>4, <1>5, <1>7, <1>9 DEF Refs
  <2>2. Cardinality(Refs(k)') = Cardinality(Refs(k)) + 1
      BY <2>1, RefsFinite, FS_AddElement
  <2>3. \A h \in GateIDs : h # k => Refs(h)' = Refs(h)
      BY SMT, <1>5, <1>7, <1>9 DEF Refs, GateIDs
  <2> QED
      BY <1>11, <2>2, <2>3 DEF GateInv
<1>13. \A d \in Callers : /\ op'[d].pc = "idle" <=> op'[d].gate = 0
                          /\ op'[d].gate # 0 => op'[d].gate = gate'
    BY SMT, <1>q, <1>2, <1>4, <1>5, <1>7 DEF GateInv
<1>14. \A d \in Callers : Holding(d) => gate # 0 /\ k = gate
    BY <1>q, <1>2 DEF GateInv, Holding
<1>15. /\ \A d \in Callers : Holding(d)' => ~gates'[gate'].token
       /\ ~gates'[gate'].token => \E d \in Callers : Holding(d)'
    BY <1>q, <1>8, <1>11, <1>14 DEF GateInv
<1> QED
    BY <1>q, <1>6, <1>8, <1>10, <1>12, <1>13, <1>15 DEF GateInv, GateExclusion

(* A step that changes the record of one caller at the gate, and the token.*)
LEMMA TokenMoves ==
    ASSUME GateInv, NEW c \in Callers, NEW r \in OpType,
           op' = [op EXCEPT ![c] = r], r.gate = op[c].gate, r.gate # 0, r.pc # "idle",
           PcFits(c)', UNCHANGED gate,
           NEW token \in BOOLEAN, gates' = [gates EXCEPT ![gate].token = token],
           \A d \in Callers : Holding(d)' => d = c,
           token <=> ~Holding(c)'
    PROVE  GateInv'
<1>1. op'[c] = r /\ \A d \in Callers : d # c => op'[d] = op[d]
    BY DEF GateInv, OpsOK
<1>2. OpsOK'
    BY <1>1 DEF GateInv, OpsOK, PcFits
<1>3. gate \in GateIDs
    BY DEF GateInv
<1>4. /\ gates' \in [GateIDs -> [token : BOOLEAN, refs : Nat]]
      /\ gates'[gate].token = token
      /\ \A h \in GateIDs : gates'[h].refs = gates[h].refs
  <2>1. gates \in [GateIDs -> [token : BOOLEAN, refs : Nat]]
      BY DEF GateInv
  <2> QED
      BY <1>3, <2>1
<1>5. \A h \in GateIDs : Refs(h)' = Refs(h)
    BY SMT, <1>1 DEF Refs
<1>6. \A h \in GateIDs : gates'[h].refs = Cardinality(Refs(h)')
    BY SMT, <1>4, <1>5 DEF GateInv
<1>7. \A d \in Callers : /\ op'[d].pc = "idle" <=> op'[d].gate = 0
                         /\ op'[d].gate # 0 => op'[d].gate = gate'
    BY <1>1 DEF GateInv
<1> QED
    BY <1>2, <1>4, <1>6, <1>7 DEF GateInv, GateExclusion

(* Taking the token and giving it back.                                    *)
LEMMA TokenKeepsGate ==
    ASSUME GateInv, NEW c \in Callers, AcquireToken(c) \/ Release(c)
    PROVE  GateInv'
<1>1. op[c] \in OpType /\ op \in [Callers -> OpType] /\ PcFits(c)
    BY DEF GateInv, OpsOK
<1>2. op[c].gate = gate /\ gate # 0
    BY DEF GateInv, AcquireToken, Release
<1>3. CASE AcquireToken(c)
  <2> DEFINE r == [op[c] EXCEPT !.pc = "resolve"]
  <2>1. op' = [op EXCEPT ![c] = r] /\ UNCHANGED gate /\ op[c].pc = "wait"
      BY <1>1, <1>3 DEF AcquireToken, Goes, OpType
  <2>2. gates[gate].token /\ gates' = [gates EXCEPT ![gate].token = FALSE]
      BY <1>2, <1>3 DEF AcquireToken
  <2>3. r \in OpType /\ r.gate = op[c].gate /\ r.pc = "resolve"
        /\ r.kind = op[c].kind /\ r.spec = op[c].spec
    <3>1. "resolve" \in Pcs
        BY DEF Pcs
    <3> QED
        BY <1>1, <3>1 DEF OpType
  <2>4. \A d \in Callers : ~Holding(d)
      BY <2>2 DEF GateInv
  <2> HIDE DEF r
  <2>5. op'[c] = r /\ \A d \in Callers : d # c => op'[d] = op[d]
      BY <1>1, <2>1
  <2>6. Holding(c)' /\ \A d \in Callers : Holding(d)' => d = c
      BY <2>3, <2>4, <2>5 DEF Holding
  <2>7. PcFits(c)'
      BY <1>1, <2>1, <2>3, <2>5 DEF PcFits, ApplyPc, RemovePc
  <2> QED
      BY <1>2, <2>1, <2>2, <2>3, <2>6, <2>7, TokenMoves, Zenon
<1>4. CASE Release(c)
  <2> DEFINE r == [op[c] EXCEPT !.pc = "unref"]
  <2>1. op' = [op EXCEPT ![c] = r] /\ UNCHANGED gate /\ op[c].pc = "reply"
      BY <1>1, <1>4 DEF Release, Goes, OpType
  <2>2. gates' = [gates EXCEPT ![gate].token = TRUE]
      BY <1>2, <1>4 DEF Release
  <2>3. r \in OpType /\ r.gate = op[c].gate /\ r.pc = "unref"
        /\ r.kind = op[c].kind /\ r.spec = op[c].spec
    <3>1. "unref" \in Pcs
        BY DEF Pcs
    <3> QED
        BY <1>1, <3>1 DEF OpType
  <2>4. \A d \in Callers : Holding(d) => d = c
      BY <2>1 DEF GateInv, GateExclusion, Holding
  <2> HIDE DEF r
  <2>5. op'[c] = r /\ \A d \in Callers : d # c => op'[d] = op[d]
      BY <1>1, <2>1
  <2>6. \A d \in Callers : ~Holding(d)'
      BY <2>3, <2>4, <2>5 DEF Holding
  <2>7. PcFits(c)'
      BY <1>1, <2>1, <2>3, <2>5 DEF PcFits, ApplyPc, RemovePc
  <2> QED
      BY <1>2, <2>1, <2>2, <2>3, <2>6, <2>7, TokenMoves, Zenon
<1> QED
    BY <1>3, <1>4

(* releaseRef: the gate leaves the map with its last reference.            *)
LEMMA LeaveKeepsGate ==
    ASSUME GateInv, NEW c \in Callers, AcquireCanceled(c) \/ Unref(c)
    PROVE  GateInv'
<1>1. /\ op[c].pc \in {"wait", "unref"} /\ op' = [op EXCEPT ![c] = Idle]
      /\ releaseRef(c)
    BY DEF AcquireCanceled, Unref
<1>2. op[c].gate = gate /\ gate # 0 /\ gate \in GateIDs
    BY <1>1 DEF GateInv
<1>3. op'[c] = Idle /\ \A d \in Callers : d # c => op'[d] = op[d]
    BY <1>1 DEF GateInv, OpsOK
<1>4. OpsOK'
    BY <1>1, <1>3, IdleOK DEF GateInv, OpsOK, PcFits, ApplyPc, RemovePc
<1>5. ~Holding(c) /\ \A d \in Callers : Holding(d)' <=> Holding(d)
    BY <1>1, <1>3, IdleOK DEF Holding
<1>6. PICK k \in GateIDs : k = gate
    BY <1>2
<1>7. /\ gates' = [gates EXCEPT ![k].refs = @ - 1]
      /\ gate' = IF gates[k].refs = 1 THEN 0 ELSE k
    BY <1>1, <1>2, <1>6 DEF releaseRef
<1>8. c \in Refs(k) /\ Refs(k)' = Refs(k) \ {c}
    BY <1>2, <1>3, <1>6, IdleOK DEF Refs
<1>9. \A h \in GateIDs : h # k => Refs(h)' = Refs(h)
    BY SMT, <1>2, <1>3, <1>6, IdleOK DEF Refs, GateIDs
<1>10. /\ Cardinality(Refs(k)') = Cardinality(Refs(k)) - 1
       /\ Cardinality(Refs(k)) \in Nat /\ Cardinality(Refs(k)) # 0
    BY SMT, <1>8, RefsFinite, FS_RemoveElement, FS_EmptySet
<1>11. gates[k].refs = Cardinality(Refs(k))
    BY DEF GateInv
<1>12. /\ gates' \in [GateIDs -> [token : BOOLEAN, refs : Nat]]
       /\ gates'[k].refs = gates[k].refs - 1 /\ gates'[k].token = gates[k].token
       /\ \A h \in GateIDs : h # k => gates'[h] = gates[h]
  <2>1. gates \in [GateIDs -> [token : BOOLEAN, refs : Nat]]
      BY DEF GateInv
  <2> QED
      BY SMT, <1>7, <1>10, <1>11, <2>1
<1>13. \A h \in GateIDs : gates'[h].refs = Cardinality(Refs(h)')
    BY <1>9, <1>10, <1>11, <1>12 DEF GateInv
<1>14. gates[k].refs = 1 => \A d \in Callers : d # c => op[d].gate = 0
  <2>1. gates[k].refs = 1 => Refs(k) = {c}
    <3>1. IsFiniteSet(Refs(k))
        BY RefsFinite
    <3>2. gates[k].refs = 1 => \E x : Refs(k) = {x}
        BY <1>11, <3>1, FS_Singleton, Zenon
    <3> QED
        BY <1>8, <3>2
  <2> QED
      BY <1>6, <2>1 DEF Refs, GateInv
<1>15. \A d \in Callers : /\ op'[d].pc = "idle" <=> op'[d].gate = 0
                          /\ op'[d].gate # 0 => op'[d].gate = gate'
    BY SMT, <1>3, <1>6, <1>7, <1>14, IdleOK DEF GateInv
<1>16. \A d \in Callers : Holding(d) => gates[k].refs # 1
    BY <1>5, <1>14 DEF GateInv, Holding
<1>17. /\ \A d \in Callers : Holding(d)' => ~gates'[gate'].token
       /\ gate' # 0 /\ ~gates'[gate'].token => \E d \in Callers : Holding(d)'
    BY <1>5, <1>6, <1>7, <1>12, <1>16 DEF GateInv
<1> QED
    BY <1>4, <1>5, <1>7, <1>12, <1>13, <1>15, <1>17 DEF GateInv, GateExclusion

(* The client of a request goes away; nothing moves at the gate.           *)
LEMMA ClientKeepsGate ==
    ASSUME GateInv, NEW c \in Callers, ClientGoes(c)
    PROVE  GateInv'
<1>1. op \in [Callers -> OpType] /\ op[c] \in OpType /\ PcFits(c)
    BY DEF GateInv, OpsOK
<1>2. op'[c] = [op[c] EXCEPT !.gone = TRUE] /\ \A d \in Callers : d # c => op'[d] = op[d]
    BY <1>1 DEF ClientGoes
<1>3. op' \in [Callers -> OpType]
    BY <1>1, Zenon DEF ClientGoes, OpType
<1>4. \A d \in Callers : /\ op'[d].pc = op[d].pc /\ op'[d].gate = op[d].gate
                         /\ op'[d].kind = op[d].kind /\ op'[d].spec = op[d].spec
    BY SMT, <1>1, <1>2 DEF OpType
<1>5. \A d \in Callers : PcFits(d)' /\ (Holding(d)' <=> Holding(d))
    BY <1>4 DEF GateInv, OpsOK, PcFits, Holding
<1>6. \A g : Refs(g)' = Refs(g)
    BY <1>4 DEF Refs
<1>7. gate' = gate /\ gates' = gates
    BY DEF ClientGoes, locks
<1> QED
    BY <1>3, <1>4, <1>5, <1>6, <1>7 DEF GateInv, GateExclusion, OpsOK

(* With every caller idle the map is empty: at the start, after a crash.   *)
LEMMA EmptyGate ==
    /\ Init => GateInv
    /\ Crash => GateInv'
<1>1. ASSUME Init PROVE GateInv
  <2>1. OpsOK
      BY <1>1, IdleOK DEF Init, OpsOK, PcFits, ApplyPc, RemovePc
  <2>2. \A g \in GateIDs : Refs(g) = {}
      BY SMT, <1>1, IdleOK DEF Init, Refs, GateIDs
  <2>3. \A g \in GateIDs : gates[g].refs = Cardinality(Refs(g))
      BY <1>1, <2>2, FS_EmptySet, Zenon DEF Init
  <2> QED
      BY <1>1, <2>1, <2>3, IdleOK DEF Init, GateInv, GateExclusion, Holding
<1>2. ASSUME Crash PROVE GateInv'
  <2>1. OpsOK'
      BY <1>2, IdleOK DEF Crash, OpsOK, PcFits, ApplyPc, RemovePc
  <2>2. \A g \in GateIDs : Refs(g)' = {}
      BY SMT, <1>2, IdleOK DEF Crash, Refs, GateIDs
  <2>3. \A g \in GateIDs : gates'[g].refs = Cardinality(Refs(g)')
      BY <1>2, <2>2, FS_EmptySet DEF Crash
  <2> QED
      BY <1>2, <2>1, <2>3, IdleOK DEF Crash, GateInv, GateExclusion, Holding
<1> QED
    BY <1>1, <1>2

(* Steps that touch neither the gate nor the callers.                      *)
LEMMA OthersKeepGate ==
    ASSUME GateInv, UNCHANGED <<gate, gates, op>>
    PROVE  GateInv'
BY DEF GateInv, OpsOK, PcFits, Refs, Holding, GateExclusion

(* Every step keeps the gate's invariant.                                  *)
LEMMA NextKeepsGate ==
    ASSUME GateInv, [Next]_vars
    PROVE  GateInv'
<1>1. ASSUME NEW c \in Callers, Step(c) PROVE GateInv'
  <2>1. Work(c) \/ AcquireToken(c) \/ Release(c) \/ AcquireCanceled(c) \/ Unref(c)
      BY <1>1 DEF Step, Work
  <2> QED
      BY <2>1, WorkKeepsGate, TokenKeepsGate, LeaveKeepsGate
<1>2. ASSUME NEW c \in Callers, ClientGoes(c) PROVE GateInv'
    BY <1>2, ClientKeepsGate
<1>3. ASSUME NEW c \in Callers, NEW p \in Specs, Request(c, "apply", p, None)
      PROVE  GateInv'
    BY <1>3, RequestKeepsGate
<1>4. ASSUME NEW c \in Callers, NEW p \in Specs, NEW e \in Specs, Request(c, "patch", p, e)
      PROVE  GateInv'
    BY <1>4, RequestKeepsGate
<1>5. ASSUME NEW c \in Callers, Request(c, "remove", None, None)
      PROVE  GateInv'
    BY <1>5, RequestKeepsGate
<1>6. ASSUME NEW b \in Sandboxes, StartSandbox(b) \/ SandboxEnds(b) PROVE GateInv'
    BY <1>6, OthersKeepGate DEF StartSandbox, SandboxEnds, locks
<1>7. CASE Quiet \/ UNCHANGED vars
    BY <1>7, OthersKeepGate DEF Quiet, vars, locks
<1>8. ASSUME NEW s \in Schedulers,
             \/ \E on \in BOOLEAN : SetSchedulerEnabled(s, on)
             \/ \E triggers \in Specs \cup {Altered} : SetSchedulerTriggerEnabled(s, triggers)
      PROVE  GateInv'
    BY <1>8, OthersKeepGate DEF SetSchedulerEnabled, SetSchedulerTriggerEnabled, Overrides, locks
<1>9. ASSUME NEW r \in Refreshers, OutsideList(r) \/ OutsideInstall(r) PROVE GateInv'
    BY <1>9, OthersKeepGate DEF OutsideList, OutsideInstall, locks
<1> QED
    BY <1>1, <1>2, <1>3, <1>4, <1>5, <1>6, <1>7, <1>8, <1>9, EmptyGate DEF Next

(* projectLifecycleGates: at most one request works on the project, and    *)
(* whoever waits finds the token or a request that will give it back, for  *)
(* any number of clients.                                                  *)
THEOREM GateIsExclusive == Spec => [](GateExclusion /\ TokenNotLost)
<1>1. Init => GateInv
    BY EmptyGate
<1>2. GateInv /\ [Next]_vars => GateInv'
    BY NextKeepsGate
<1>3. GateInv => GateExclusion /\ TokenNotLost
    BY DEF GateInv, TokenNotLost, Holding
<1> QED
    BY <1>1, <1>2, <1>3, PTL DEF Spec

----------------------------------------------------------------------------
(* WorkInv is invariant, and what follows from it.                         *)

(* Nobody has asked for anything, and nothing is stored.                   *)
LEMMA InitWork == Init => WorkInv
<1> SUFFICES ASSUME Init PROVE WorkInv
    OBVIOUS
<1>1. StoreOK
  <2>1. revision \in Seq(Specs) /\ 0 \in Nat
      BY SMT DEF Init
  <2>2. agents \in [Schedulers -> Nat] /\ rows \in [Schedulers -> Row \cup {None}]
      BY <2>1 DEF Init
  <2>3. EnabledIsConsistent
      BY DEF Init, EnabledIsConsistent, On
  <2>4. overridden \in [Schedulers -> SUBSET {"enabled", "triggers"}]
      BY DEF Init
  <2> QED
      BY <2>1, <2>2, <2>3, <2>4 DEF StoreOK, Init
<1>l. ListsOK
    BY DEF Init, ListsOK
<1>2. ASSUME NEW c \in Callers PROVE Progress(c)
  <2>1. op[c].pc = "idle" /\ ~op[c].wrote /\ op[c].reply = "none"
      BY DEF Init, Idle
  <2>2. Established(c) /\ LoopOK(c)
      BY <2>1 DEF Established, AtOrApplied, LoopOK, AfterReconcile, AfterStage, AfterAgents,
         AfterRevision, AfterUpsert, AfterLinks, AfterVolume, AfterImages
  <2>3. ProjectOK(c) /\ ReplyOK(c)
      BY <2>1 DEF ProjectOK, ReplyOK
  <2> QED
      BY <2>2, <2>3 DEF Progress
<1> QED
    BY <1>1, <1>l, <1>2 DEF WorkInv

(* A step that leaves the store and the cache alone, and of the records    *)
(* changes that of c only.                                                 *)
LEMMA OneRecord ==
    ASSUME WorkInv, NEW c \in Callers, Progress(c)', UNCHANGED <<store, cache>>,
           \A d \in Callers : d # c => op'[d] = op[d]
    PROVE  WorkInv'
<1>1. StoreOK' /\ Harmless
    BY NothingIsHarmless DEF WorkInv
<1>2. ListsOK'
    BY DEF WorkInv, ListsOK, cache
<1>3. \A d \in Callers : d # c => Progress(d)'
    BY <1>1, ProgressKept DEF WorkInv, SameWork
<1> QED
    BY <1>1, <1>2, <1>3 DEF WorkInv

(* The steps of a request at the gate.                                     *)
LEMMA GateProgress ==
    ASSUME OpsOK, WorkInv, NEW c \in Callers,
           \/ AcquireToken(c) \/ Release(c) \/ AcquireCanceled(c) \/ Unref(c)
           \/ ClientGoes(c)
           \/ \E kind, p, e : Request(c, kind, p, e)
    PROVE  WorkInv'
<1>0. op \in [Callers -> OpType] /\ op[c] \in OpType /\ Progress(c)
    BY DEF OpsOK, WorkInv
<1>1. UNCHANGED <<store, cache>> /\ \A d \in Callers : d # c => op'[d] = op[d]
    BY <1>0 DEF AcquireToken, Release, AcquireCanceled, Unref, ClientGoes, Request, Joins, Goes
<1>2. CASE AcquireToken(c)
  <2>1. op[c].pc = "wait" /\ Goes(c, "resolve")
      BY <1>2 DEF AcquireToken
  <2>2. op'[c].pc = "resolve" /\ ~op'[c].wrote /\ op'[c].reply = "none"
      BY <1>0, <2>1, GoesTo DEF Progress, ReplyOK
  <2>3. Progress(c)'
      BY <2>2, Resting
  <2> QED
      BY <1>1, <2>3, OneRecord
<1>3. CASE Release(c)
  <2>1. op[c].pc = "reply" /\ Goes(c, "unref")
      BY <1>3 DEF Release
  <2>2. /\ op'[c].pc = "unref" /\ op'[c].reply = "notApplied" => ~op'[c].wrote
        /\ op'[c].reply = "applied" => op'[c].kind \in {"apply", "patch"}
      BY <1>0, <2>1, GoesTo DEF Progress, ReplyOK
  <2>3. op'[c].pc = "unref"
      BY <2>1, GoesTo
  <2>4. Progress(c)'
      BY <2>2, <2>3, Resting
  <2> QED
      BY <1>1, <2>4, OneRecord
<1>4. CASE AcquireCanceled(c) \/ Unref(c)
  <2>1. op'[c] = Idle
      BY <1>0, <1>4 DEF AcquireCanceled, Unref
  <2>2. op'[c].pc = "idle" /\ ~op'[c].wrote /\ op'[c].reply = "none"
      BY SMT, <2>1 DEF Idle
  <2>3. Progress(c)'
      BY <2>2, Resting
  <2> QED
      BY <1>1, <2>3, OneRecord
<1>5. CASE \E kind, p, e : Request(c, kind, p, e)
  <2>1. PICK kind, p, e : Request(c, kind, p, e)
      BY <1>5
  <2>2. PICK g : op' = [op EXCEPT ![c] = [[Idle EXCEPT !.pc = "wait", !.kind = kind, !.spec = p,
                                                     !.expected = e] EXCEPT !.gate = g]]
      BY <2>1 DEF Request, Joins
  <2>3. op'[c].pc = "wait" /\ ~op'[c].wrote /\ op'[c].reply = "none"
      BY <1>0, <2>2 DEF Idle
  <2>4. Progress(c)'
      BY <2>3, Resting
  <2> QED
      BY <1>1, <2>4, OneRecord
<1>6. CASE ClientGoes(c)
  <2>1. SameWork(c)
      BY <1>0, <1>6 DEF ClientGoes, SameWork, OpType
  <2>2. Harmless
      BY <1>1, NothingIsHarmless DEF WorkInv
  <2>3. Progress(c)'
      BY <1>0, <2>1, <2>2, ProgressKept
  <2> QED
      BY <1>1, <2>3, OneRecord
<1> QED
    BY <1>2, <1>3, <1>4, <1>5, <1>6

(* Every step keeps the work's invariant.                                  *)
LEMMA NextKeepsWork ==
    ASSUME GateInv, WorkInv, MinExists, [Next]_vars
    PROVE  WorkInv'
<1>0. OpsOK /\ GateExclusion
    BY DEF GateInv
<1>1. ASSUME NEW c \in Callers, Step(c) PROVE WorkInv'
  <2>1. Work(c) \/ AcquireToken(c) \/ Release(c) \/ AcquireCanceled(c) \/ Unref(c)
      BY <1>1 DEF Step, Work
  <2> QED
      BY <1>0, <2>1, WorkProgress, GateProgress
<1>2. ASSUME NEW c \in Callers, ClientGoes(c) PROVE WorkInv'
    BY <1>0, <1>2, GateProgress
<1>3. ASSUME NEW c \in Callers, NEW kind, NEW p, NEW e, Request(c, kind, p, e)
      PROVE  WorkInv'
    BY <1>0, <1>3, GateProgress
<1>a. ASSUME StoreOK', ListsOK', Harmless, op' = op PROVE WorkInv'
    BY <1>a, ProgressKept DEF WorkInv, SameWork
<1>4. ASSUME UNCHANGED <<store, cache, op>> PROVE WorkInv'
  <2>1. StoreOK' /\ Harmless
      BY <1>4, NothingIsHarmless DEF WorkInv
  <2>2. ListsOK'
      BY <1>4 DEF WorkInv, ListsOK, cache
  <2> QED
      BY <1>4, <1>a, <2>1, <2>2
<1>b. ASSUME NEW s \in Schedulers,
             \/ \E on \in BOOLEAN : SetSchedulerEnabled(s, on)
             \/ \E triggers \in Specs \cup {Altered} : SetSchedulerTriggerEnabled(s, triggers)
      PROVE  WorkInv'
  <2>1. StoreOK' /\ Harmless /\ UNCHANGED <<op, lists>>
      BY <1>b, WritersAreHarmless DEF WorkInv
  <2>2. ListsOK'
      BY <2>1 DEF WorkInv, ListsOK
  <2> QED
      BY <1>a, <2>1, <2>2
<1>c. ASSUME NEW r \in Refreshers, OutsideList(r) \/ OutsideInstall(r) PROVE WorkInv'
    BY <1>a, <1>c, RefreshersAreHarmless DEF WorkInv
<1>5. ASSUME NEW b \in Sandboxes, StartSandbox(b) \/ SandboxEnds(b) PROVE WorkInv'
    BY <1>4, <1>5 DEF StartSandbox, SandboxEnds
<1>6. CASE Quiet \/ UNCHANGED vars
    BY <1>4, <1>6 DEF Quiet, vars
<1>7. ASSUME Crash PROVE WorkInv'
  <2>1. StoreOK' /\ ListsOK'
    <3>1. StoreOK'
        BY <1>7, StoreKept DEF Crash, WorkInv, store
    <3>2. lists' = [r \in Refreshers |-> None]
        BY <1>7 DEF Crash
    <3> QED
        BY <3>1, <3>2 DEF ListsOK
  <2>2. ASSUME NEW d \in Callers PROVE Progress(d)'
    <3>1. op'[d] = Idle
        BY <1>7 DEF Crash
    <3>2. op'[d].pc = "idle" /\ ~op'[d].wrote /\ op'[d].reply = "none"
        BY SMT, <3>1 DEF Idle
    <3> QED
        BY <3>2, Resting
  <2> QED
      BY <2>1, <2>2 DEF WorkInv
<1> QED
    BY <1>1, <1>2, <1>3, <1>5, <1>6, <1>7, <1>b, <1>c DEF Next

INSTANCE WellFoundedInduction

(* A nonempty set of numbers has a least one.                              *)
LEMMA MinIsIn == MinExists
<1> SUFFICES ASSUME NEW S \in SUBSET Nat, S # {}
             PROVE  Min(S) \in S
    BY DEF MinExists
<1> DEFINE R == OpToRel(<,Nat)
<1>1. IsWellFoundedOn(R, Nat)
    BY NatLessThanWellFounded, Zenon
<1>2. R = {ss \in Nat \X Nat : ss[1] < ss[2]}
    BY DEF OpToRel
<1> HIDE DEF R
<1>3. \A T : T \subseteq Nat /\ T # {} => \E x \in T : \A y \in T : ~ (<<y, x>> \in R)
    BY <1>1, WFMin, Zenon
<1>4. PICK x \in S : \A y \in S : ~ (<<y, x>> \in R)
    BY <1>3
<1>5. ASSUME NEW y \in S PROVE x <= y
  <2>1. x \in Nat /\ y \in Nat /\ <<y, x>> \in Nat \X Nat
      OBVIOUS
  <2>2. ~(y < x)
      BY <1>2, <1>4, <2>1, Zenon
  <2> QED
      BY <2>1, <2>2, SMT
<1> QED
    BY <1>5, Zenon DEF Min

(* The two invariants hold together.                                       *)
LEMMA ProjectInvariant == Spec => [](GateInv /\ WorkInv)
<1>1. Init => GateInv /\ WorkInv
    BY EmptyGate, InitWork
<1>2. GateInv /\ WorkInv /\ [Next]_vars => (GateInv /\ WorkInv)'
    BY NextKeepsGate, NextKeepsWork, MinIsIn
<1> QED
    BY <1>1, <1>2, PTL DEF Spec

(* reconcileCurrentSchedulers: an enabled scheduler has the triggers of    *)
(* its own revision wherever a reconcile fails, is abandoned or crashes,   *)
(* unless SetSchedulerEnabled or SetSchedulerTriggerEnabled wrote its row  *)
(* since, for any specs and any number of schedulers.                      *)
THEOREM EnabledStaysConsistent == Spec => []EnabledIsConsistent
<1>1. GateInv /\ WorkInv => EnabledIsConsistent
    BY DEF WorkInv, StoreOK
<1> QED
    BY <1>1, ProjectInvariant, PTL

(* applyProject and PatchProject: an error marked NotApplied proves that   *)
(* the request changed nothing durable, for any spec and any failure.      *)
THEOREM NotAppliedIsProof == Spec => []NotAppliedIsTrue
<1>1. GateInv /\ WorkInv => NotAppliedIsTrue
    BY DEF WorkInv, Progress, ReplyOK, NotAppliedIsTrue
<1> QED
    BY <1>1, ProjectInvariant, PTL

(* applyProject and RemoveProject: a request that reports success leaves   *)
(* the whole project as its spec wants it, or removed, whatever earlier    *)
(* requests left behind, but for what was written by hand and for an older *)
(* list that another refresh installed late.                               *)
THEOREM SuccessMeansWhole == Spec => []SuccessIsWhole
<1>1. ASSUME GateInv, WorkInv, NEW c \in Callers, op[c].pc = "reply", op[c].reply = "applied"
      PROVE  AppliedIsWhole(c)
  <2>1. PICK p : p = op[c].spec
      OBVIOUS
  <2>2. op[c].kind \in {"apply", "patch"} /\ Progress(c)
      BY <1>1 DEF WorkInv, Progress, ReplyOK
  <2>3. /\ p \in Specs /\ InSpec[p] \subseteq Schedulers /\ EnabledIn[p] \subseteq InSpec[p]
      BY ZenonT(30), <1>1, <2>1, <2>2, SpecsKnown DEF GateInv, OpsOK, PcFits
  <2>4. /\ InSpec[p] \subseteq images /\ volume /\ links = p
        /\ ~project.removed /\ project.hash = p /\ revision[project.rev] = p
        /\ \A s \in InSpec[p] : agents[s] = project.rev
        /\ \A s \in InSpec[p] : Fits(s, p)
        /\ Strays \subseteq InSpec[p] /\ Fresh
      BY <1>1, <2>1, <2>2 DEF Progress, Established, AtOrApplied
  <2>5. ASSUME NEW s \in InSpec[p]
        PROVE  /\ rows[s] # None /\ rows[s].rev = project.rev
               /\ "triggers" \in overridden[s] \/ rows[s].trig = p
               /\ "enabled" \in overridden[s] \/ (On(s) <=> s \in EnabledIn[p])
    <3>1. rows[s] \in Row /\ Fits(s, p)
        BY <2>4 DEF Fits, Placed
    <3>2. rows[s] # None
        BY <1>1, <3>1, NoneIsNoRow, SMTT(30) DEF Row, WorkInv, StoreOK
    <3> QED
        BY <3>1, <3>2 DEF Fits, Placed, Triggered, On
  <2>6. ASSUME NEW s \in Schedulers, "enabled" \notin overridden[s]
        PROVE  On(s) <=> s \in EnabledIn[p]
    <3>1. CASE s \in InSpec[p]
        BY <2>5, <2>6, <3>1
    <3>2. CASE s \notin InSpec[p]
        BY <2>3, <2>4, <2>6, <3>2 DEF Strays
    <3> QED
        BY <3>1, <3>2
  <2>7. Enabled \ SetByHand = EnabledIn[p] \ SetByHand
      BY <2>3, <2>6 DEF Enabled, SetByHand
  <2>8. stale \/ held \ SetByHand = EnabledIn[p] \ SetByHand
      BY <2>3, <2>4, <2>6 DEF SetByHand, Fresh, Agrees
  <2> QED
      BY <2>1, <2>4, <2>5, <2>7, <2>8 DEF AppliedIsWhole
<1>2. ASSUME WorkInv, NEW c \in Callers, op[c].pc = "reply", op[c].reply = "removed"
      PROVE  RemovedIsWhole(c)
    BY <1>2 DEF WorkInv, Progress, ProjectOK
<1>3. GateInv /\ WorkInv => SuccessIsWhole
    BY <1>1, <1>2 DEF SuccessIsWhole
<1> QED
    BY <1>3, ProjectInvariant, PTL

(* disableProjectSchedulersAfterReconcileFailure: when the compensation of *)
(* a failed reconcile met no error, no scheduler is enabled in the store,  *)
(* nor in the controller unless an older list came late to it, but one     *)
(* that SetSchedulerEnabled enabled since.                                 *)
THEOREM FailureIsClosed == Spec => []FailsClosed
<1>1. ASSUME WorkInv, NEW c \in Callers, op[c].pc = "reply", op[c].reply = "failed",
             op[c].kind # "remove", op[c].dirty, op[c].clean
      PROVE  Enabled \subseteq SetByHand /\ (stale \/ held \subseteq SetByHand)
  <2>1. Strays = {} /\ Fresh
      BY <1>1 DEF WorkInv, Progress, LoopOK
  <2>2. Enabled \subseteq SetByHand
      BY <2>1 DEF Enabled, SetByHand, Strays
  <2>3. Agrees(held) => held \subseteq SetByHand
      BY <2>1 DEF SetByHand, Strays, Agrees
  <2> QED
      BY <2>1, <2>2, <2>3 DEF Fresh
<1>2. GateInv /\ WorkInv => FailsClosed
    BY <1>1 DEF FailsClosed
<1> QED
    BY <1>2, ProjectInvariant, PTL

(* PatchProject: the revision a patch supersedes is the one its client     *)
(* expected, whatever other requests did before it got the gate.           *)
THEOREM PatchSupersedesExpected == Spec => PatchReplacesExpected
<1> DEFINE Supersedes == revision' # revision /\ revision' # <<>> =>
                       \E c \in Callers :
                          /\ op[c].pc = "revision" /\ op[c].spec = revision'[Len(revision')]
                          /\ op[c].kind = "patch" => revision[project.rev] = op[c].expected
<1>1. ASSUME GateInv, WorkInv, [Next]_vars PROVE Supersedes
  <2> SUFFICES ASSUME revision' # revision
               PROVE  \E c \in Callers :
                          /\ op[c].pc = "revision" /\ op[c].spec = revision'[Len(revision')]
                          /\ op[c].kind = "patch" => revision[project.rev] = op[c].expected
      OBVIOUS
  <2>1. PICK c \in Callers, o \in Outcomes : SaveProjectRevision(c, o)
    <3>1. ASSUME NEW c \in Callers, Step(c)
          PROVE  \E o \in Outcomes : SaveProjectRevision(c, o)
      <4>1. CASE \E o \in Outcomes : Apply(c, o)
          BY <4>1 DEF Apply, Stopped, EnsureImages, EnsureVolume, LinkVolumes, UpsertProject,
             UpsertAgents, StageScheduler, ReplaceTriggers, EnableScheduler, CleanupDisable,
             CleanupRefresh, ListRemoved, DisableRemoved, RefreshAfterReconcile, FailClosedList,
             FailClosedDisable, FailClosedRefresh, ListApplied, Installing, Refresh, SetEnabled, Saves,
             store
      <4>2. CASE \E o \in Outcomes : Remove(c, o)
          BY <4>2 DEF Remove, DownList, DownDisable, DownRefresh, ListRunning, StopSandbox,
             Stopped, MarkProjectRemoved, RemoveProjectVolumes, ListApplied, Installing, Refresh,
             SetEnabled, Saves, store
      <4>3. CASE \/ LoadFails(c) \/ CompareScheduler(c) \/ ListSchedulers(c) \/ Stopped(c)
                 \/ \E o \in Outcomes, refused \in BOOLEAN : Resolve(c, o, refused)
          BY <4>3 DEF LoadFails, CompareScheduler, ListSchedulers, Stopped, Resolve, store
      <4>4. CASE AcquireToken(c) \/ AcquireCanceled(c) \/ Release(c) \/ Unref(c)
          BY <4>4 DEF AcquireToken, AcquireCanceled, Release, Unref, store
      <4> QED
          BY <3>1, <4>1, <4>2, <4>3, <4>4 DEF Step
    <3> QED
        BY <1>1, <3>1 DEF Next, ClientGoes, Request, StartSandbox, SandboxEnds, Crash, Quiet,
           SetSchedulerEnabled, SetSchedulerTriggerEnabled, Overrides, OutsideList,
           OutsideInstall, vars, store
  <2>2. /\ op[c].pc = "revision" /\ revision' = Append(revision, op[c].spec)
        /\ op[c].spec \in Specs
      BY <1>1, <2>1, SpecOf DEF SaveProjectRevision, GateInv, ApplyPc
  <2>3. revision'[Len(revision')] = op[c].spec
      BY <1>1, <2>2, RevisionAdded DEF WorkInv
  <2>4. op[c].kind = "patch" => revision[project.rev] = op[c].expected
      BY <1>1, <2>2 DEF WorkInv, Progress, ProjectOK
  <2> QED
      BY <2>2, <2>3, <2>4
<1>2. GateInv /\ WorkInv /\ [Next]_vars => [Supersedes]_vars
    BY <1>1
<1> QED
    BY <1>2, ProjectInvariant, PTL DEF Spec, PatchReplacesExpected
=============================================================================
