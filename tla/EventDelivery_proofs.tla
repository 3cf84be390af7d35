----------------------- MODULE EventDelivery_proofs -----------------------
(***************************************************************************)
(* What holds of the delivery of events for any number of events, targets, *)
(* schedulers, workers, claims, crashes and failing store calls: slots are *)
(* counted right, a webhook fan-out is whole, an event is executed once    *)
(* while nothing fails, and a withdrawn event starts no run.               *)
(***************************************************************************)
EXTENDS EventDelivery, TLAPS

(* The part of the type invariant the argument needs.                      *)
RowType == [status : EventStatus, claim : 0..MaxClaims, leased : BOOLEAN,
            waiting : BOOLEAN, garbled : BOOLEAN, targets : SUBSET Targets]
EventTyped == event \in [Events -> RowType]
RunsTyped == runs \in [Keys -> RunStatus]
TaskTyped == task \in [Keys -> TaskPC]
BusTyped == batch \subseteq Events /\ offer \in Messages \cup {None} /\ bus \in Seq(Messages)
LoopTyped == loop \in [pc : LoopPC, msg : Messages \cup {None}, left : SUBSET Targets]
CountTyped == crashes \in Nat /\ faults \in Nat
StateTyped == EventTyped /\ RunsTyped /\ TaskTyped /\ BusTyped /\ LoopTyped /\ CountTyped

InBus(m) == \E i \in 1..Len(bus) : bus[i] = m

(* Program points of a goroutine before its event is acknowledged for it,  *)
(* of one that works on an acknowledged event, and of those that have not  *)
(* or have written their run row.                                          *)
Unacked == {"reserved", "start", "entered", "create", "stamp", "prepared", "aborted", "ack"}
Acked == {"register", "execute", "deliver", "leave", "release"}
Rowless == {"start", "entered", "create"}
Rowed == {"stamp", "prepared", "aborted", "ack"} \cup Acked

Fanning == {"busy", "reserve", "enter", "prepare", "abort", "ack", "retry"}

(* Where the runs of the webhook event are that the loop fans out.         *)
Expected(pc) ==
    CASE pc = "enter" -> {"reserved", "entered"}
      [] pc = "prepare" -> {"entered", "create", "stamp", "prepared"}
      [] pc = "abort" -> {"reserved", "entered", "prepared", "aborted"}
      [] pc = "ack" -> {"prepared"}
      [] OTHER -> {"none"}

(* The loop has a message while it works on one, webhook events are fanned *)
(* out, others spawned.                                                    *)
LoopOK ==
    /\ loop.pc = "receive" <=> loop.msg = None
    /\ loop.pc \in Fanning => loop.msg[1] \in Webhook
    /\ loop.pc = "noSubscriber" => Matched(loop.msg[1]) = {}
    /\ loop.pc = "spawn" => /\ loop.msg[1] \notin Webhook
                            /\ loop.left # {} /\ loop.left \subseteq Matched(loop.msg[1])

(* A claimed event is in one place.                                        *)
MessagesApart ==
    /\ \A i, j \in 1..Len(bus) : bus[i] = bus[j] => i = j
    /\ \A i \in 1..Len(bus) : bus[i] # offer /\ bus[i] # loop.msg
    /\ offer # None => offer # loop.msg

(* Nothing was done for a message before the loop has it.                  *)
Idle(k) == task[k] = "none" /\ runs[k] = "absent"
MessagesFresh == \A k \in Keys : offer = Message(k) \/ InBus(Message(k)) => Idle(k)

(* The goroutine of a run is where the loop and the stored row say.        *)
TaskOK(k) ==
    /\ k[2] \notin Matched(k[1]) => Idle(k)
    /\ k[1] \in Webhook =>
         task[k] \in IF loop.msg = Message(k) /\ k[2] \in Matched(k[1])
                     THEN Expected(loop.pc) ELSE {"none"} \cup Acked
    /\ k[1] \notin Webhook =>
         /\ task[k] \in {"none", "start", "create", "stamp", "ack"} \cup Acked
         /\ loop.pc = "spawn" /\ loop.msg = Message(k) /\ k[2] \in loop.left => Idle(k)
    /\ task[k] \in Rowless => runs[k] = "absent"
    /\ task[k] \in Rowed => runs[k] # "absent"
    /\ loop.msg = Message(k) /\ loop.pc \in {"busy", "reserve", "enter"} => runs[k] = "absent"
    /\ loop.msg = Message(k) /\ loop.pc = "retry" /\ faults = 0 => runs[k] = "absent"
    /\ runs[k] = "skipped" => k[1] \notin Webhook /\ task[k] \in {"none", "stamp", "ack"}

(* One run is prepared at a time; a Prepare fails only if the store does.  *)
Preparing(k) == loop.msg = Message(k) /\ task[k] \in {"create", "stamp"}
PrepareOK ==
    /\ loop.pc = "prepare" => \A j, k \in Keys : Preparing(j) /\ Preparing(k) => j = k
    /\ loop.pc = "abort" => faults > 0

Structure == StateTyped /\ LoopOK /\ MessagesApart /\ MessagesFresh /\ PrepareOK
             /\ \A k \in Keys : TaskOK(k)

(* The claims of an event that are under way, and the ones with a run row. *)
UnderWay(e, c) ==
    \/ offer = <<e, c>> \/ loop.msg = <<e, c>> \/ InBus(<<e, c>>)
    \/ \E t \in Targets : task[<<e, t, c>>] \in Unacked
HasRun(e, c) == \E t \in Targets : runs[<<e, t, c>>] # "absent"

(* The claim under way holds its event, which is marked as in flight.      *)
Owned(e, c) ==
    \/ /\ event[e].status = "publishing" /\ event[e].claim = c
       /\ e \in inFlight \/ offer = <<e, c>>
    \/ e \notin Webhook /\ event[e].status = "published"
ClaimOwned ==
    \A e \in Events : e \in Webhook \/ faults = 0 =>
        \A c \in Claims : UnderWay(e, c) =>
            Owned(e, c) /\ \A d \in Claims : UnderWay(e, d) => d = c

(* Without a failure an event gets run rows from one claim only.           *)
RunsOfOneClaim ==
    crashes = 0 /\ faults = 0 =>
        \A e \in Events, c \in Claims : HasRun(e, c) =>
            /\ event[e].status = "published" \/ UnderWay(e, c)
            /\ \A d \in Claims : HasRun(e, d) \/ UnderWay(e, d) => d = c

DeliveryInv == Structure /\ FanOutWhole /\ ClaimOwned /\ RunsOfOneClaim

(* The runs inside their scheduler, and the webhook runs with a queue slot. *)
IsInside(k) == runs[k] # "skipped" /\ task[k] \notin {"none", "reserved", "start", "release"}
IsQueued(k) == k[1] \in Webhook /\ task[k] # "none"
Queued == {k \in Keys : IsQueued(k)}
RunningOK ==
    \A s \in Schedulers : IsFiniteSet(Inside(s)) /\ running[s] = Cardinality(Inside(s))
ReservedOK ==
    Workers # 0 => IsFiniteSet(Queued) /\ reserved = Cardinality(Queued) /\ reserved <= Workers
SlotsOK == running \in [Schedulers -> Nat] /\ reserved \in Nat /\ RunningOK /\ ReservedOK

-----------------------------------------------------------------------------

(* Leaves are first-order unless they name SMT.                            *)
USE Zenon DEF storeVars, dispVars, slotVars, stopVars

(* The parts of a run's key.                                               *)
LEMMA KeyParts ==
    ASSUME NEW k \in Keys
    PROVE  /\ k[1] \in Events /\ k[2] \in Targets /\ k[3] \in Claims
           /\ Message(k) \in Messages /\ k = <<k[1], k[2], k[3]>>
           /\ Message(k)[1] = k[1] /\ Message(k)[2] = k[3] /\ Message(k) = <<k[1], k[3]>>
  BY SMT DEF Keys, Message, Messages

(* The parts of a message, and the keys of its runs.                       *)
LEMMA MessageParts ==
    ASSUME NEW m \in Messages
    PROVE  /\ m[1] \in Events /\ m[2] \in Claims /\ m = <<m[1], m[2]>> /\ m # None
           /\ \A t \in Targets : <<m[1], t, m[2]>> \in Keys
           /\ \A t \in Targets : Message(<<m[1], t, m[2]>>) = m
  BY SMT, NoneDistinct DEF Keys, Message, Messages, Claims

(* An event, a target and a claim make a key.                              *)
LEMMA KeyOf ==
    ASSUME NEW e \in Events, NEW t \in Targets, NEW c \in Claims
    PROVE  /\ <<e, t, c>> \in Keys /\ <<e, c>> \in Messages /\ <<e, c>> # None
           /\ <<e, t, c>>[1] = e /\ <<e, t, c>>[2] = t /\ <<e, t, c>>[3] = c
           /\ Message(<<e, t, c>>) = <<e, c>>
  BY SMT, NoneDistinct DEF Keys, Message, Messages, Claims

(* The matched targets are targets; they stay the same as long as the      *)
(* triggers of the event do.                                               *)
LEMMA MatchedAreTargets ==
    ASSUME EventTyped, NEW e \in Events
    PROVE  Matched(e) \subseteq Targets
  BY DEF EventTyped, RowType, Matched

TriggersKept == \A e \in Events : event'[e].targets = event[e].targets

(* Matching depends on the triggers of the event only.                     *)
LEMMA MatchedKept ==
    ASSUME TriggersKept, NEW e \in Events
    PROVE  Matched(e)' = Matched(e)
  BY DEF TriggersKept, Matched

(* The runs the loop works on: the message it has, for the matched targets. *)
LEMMA LoopKeysAre ==
    ASSUME EventTyped, loop.msg \in Messages
    PROVE  /\ LoopKeys \subseteq Keys
           /\ \A k \in Keys : k \in LoopKeys <=> loop.msg = Message(k) /\ k[2] \in Matched(k[1])
<1>1. Matched(loop.msg[1]) \subseteq Targets
  BY MatchedAreTargets, MessageParts
<1>2. LoopKeys \subseteq Keys
  BY <1>1, MessageParts DEF LoopKeys, KeysOf
<1>3. ASSUME NEW k \in Keys
      PROVE  k \in LoopKeys <=> loop.msg = Message(k) /\ k[2] \in Matched(k[1])
  BY SMT, <1>1, KeyParts, MessageParts DEF LoopKeys, KeysOf
<1> QED
  BY <1>2, <1>3

-----------------------------------------------------------------------------
(* What a step that leaves things alone keeps.                             *)
Later == TriggersKept /\ CountTyped /\ CountTyped' /\ faults <= faults' /\ crashes <= crashes'

(* A run keeps in line with the loop while neither moves.                  *)
LEMMA TaskKept ==
    ASSUME Later, NEW k \in Keys, TaskOK(k), task'[k] = task[k], runs'[k] = runs[k],
           loop' = loop \/ (loop.msg # Message(k) /\ loop'.msg # Message(k))
    PROVE  TaskOK(k)'
<1>1. Matched(k[1])' = Matched(k[1])
  BY MatchedKept, KeyParts DEF Later
<1>2. faults' = 0 => faults = 0
  BY SMT DEF Later, CountTyped
<1>3. CASE loop' = loop
  BY <1>1, <1>2, <1>3 DEF TaskOK, Idle, Message
<1>4. CASE loop.msg # Message(k) /\ loop'.msg # Message(k)
  BY <1>1, <1>4 DEF TaskOK, Idle, Message
<1> QED
  BY <1>3, <1>4

(* The loop keeps in line while it does not move.                          *)
LEMMA LoopKept ==
    ASSUME Later, LoopOK, LoopTyped, loop' = loop
    PROVE  LoopOK'
<1>1. loop.msg # None => Matched(loop.msg[1])' = Matched(loop.msg[1])
  BY MatchedKept, MessageParts DEF Later, LoopTyped
<1> QED
  BY <1>1 DEF LoopOK, Fanning

(* No message appears from nowhere.                                        *)
NoNewMessage ==
    \A m \in Messages : offer' = m \/ InBus(m)' \/ loop'.msg = m =>
                        offer = m \/ InBus(m) \/ loop.msg = m

(* Runs nobody works on are left alone.                                    *)
IdleStays ==
    \A k \in Keys : Idle(k) /\ loop.msg # Message(k) => Idle(k)'

(* Messages on their way stay untouched.                                   *)
LEMMA FreshKept ==
    ASSUME StateTyped, MessagesApart, MessagesFresh, IdleStays, UNCHANGED <<offer, bus>>
    PROVE  MessagesFresh'
<1> SUFFICES ASSUME NEW k \in Keys, (offer = Message(k) \/ InBus(Message(k)))'
             PROVE  Idle(k)'
  BY DEF MessagesFresh
<1>1. offer = Message(k) \/ InBus(Message(k))
  BY DEF InBus
<1>2. loop.msg # Message(k)
  BY <1>1, KeyParts, MessageParts DEF MessagesApart, InBus
<1> QED
  BY <1>1, <1>2 DEF MessagesFresh, IdleStays

(* A claim gets under way only when a message appears.                     *)
LEMMA WayKept ==
    ASSUME NoNewMessage, NEW e \in Events, NEW c \in Claims, UnderWay(e, c)',
           \A k \in Keys : task'[k] \in Unacked => task[k] \in Unacked \/ loop.msg = Message(k)
    PROVE  UnderWay(e, c)
<1>1. CASE (offer = <<e, c>> \/ loop.msg = <<e, c>> \/ InBus(<<e, c>>))'
  BY <1>1 DEF NoNewMessage, UnderWay, Messages
<1>2. CASE \E t \in Targets : task'[<<e, t, c>>] \in Unacked
  BY SMT, <1>2, KeyOf DEF UnderWay
<1> QED
  BY <1>1, <1>2 DEF UnderWay

(* Claims keep their events.                                               *)
LEMMA ClaimOwnedStep ==
    ASSUME Later, ClaimOwned,
           \A e \in Events, c \in Claims : (e \in Webhook \/ faults' = 0) /\ UnderWay(e, c)' =>
               UnderWay(e, c) /\ (Owned(e, c) => Owned(e, c)')
    PROVE  ClaimOwned'
<1>1. faults' = 0 => faults = 0
  BY SMT DEF Later, CountTyped
<1> QED
  BY <1>1, Zenon DEF ClaimOwned

(* Events keep to one claim.                                               *)
LEMMA OneClaimStep ==
    ASSUME Later, ClaimOwned, RunsOfOneClaim,
           crashes' = 0 /\ faults' = 0 => \A e \in Events, c \in Claims :
               /\ UnderWay(e, c)' => UnderWay(e, c)
               /\ HasRun(e, c)' => HasRun(e, c) \/ UnderWay(e, c)
               /\ HasRun(e, c)' /\ event[e].status = "published" => event'[e].status = "published"
               /\ HasRun(e, c)' /\ UnderWay(e, c) => UnderWay(e, c)' \/ event'[e].status = "published"
    PROVE  RunsOfOneClaim'
<1> SUFFICES ASSUME crashes' = 0, faults' = 0, NEW e \in Events, NEW c \in Claims, HasRun(e, c)'
             PROVE  /\ event'[e].status = "published" \/ UnderWay(e, c)'
                    /\ \A d \in Claims : HasRun(e, d)' \/ UnderWay(e, d)' => d = c
  BY DEF RunsOfOneClaim
<1>1. crashes = 0 /\ faults = 0
  BY SMT DEF Later, CountTyped
<1>2. HasRun(e, c) \/ UnderWay(e, c)
  BY Zenon
<1>3. HasRun(e, c) => event[e].status = "published" \/ UnderWay(e, c)
  BY <1>1, Zenon DEF RunsOfOneClaim
<1>4. ASSUME NEW d \in Claims, HasRun(e, d)' \/ UnderWay(e, d)' PROVE d = c
  <2>1. HasRun(e, d) \/ UnderWay(e, d)
    BY <1>4, Zenon
  <2> QED
    BY <1>1, <1>2, <2>1, Zenon DEF RunsOfOneClaim, ClaimOwned
<1> QED
  BY <1>2, <1>3, <1>4, Zenon

(* Fan-outs stay whole.                                                    *)
Whole(e, c) == \A t \in Matched(e) : runs[<<e, t, c>>] # "absent"
Starting == {"register", "execute", "deliver", "leave"}
RowsStay == \A k \in Keys : runs[k] # "absent" => runs'[k] # "absent"

(* Rows are never deleted, so a step has to answer only for what it        *)
(* acknowledges or starts itself.                                          *)
LEMMA WholeStep ==
    ASSUME StateTyped, Later, FanOutWhole, RowsStay,
           \A e \in Webhook : event'[e].status = "published" =>
               event[e].status = "published" \/ \E c \in Claims : Whole(e, c),
           \A k \in Keys : k[1] \in Webhook /\ task'[k] \in Starting =>
               task[k] \in Starting \/ Whole(k[1], k[3])
    PROVE  FanOutWhole'
<1> SUFFICES ASSUME NEW e \in Webhook
             PROVE  /\ event'[e].status = "published" => \E c \in Claims : Whole(e, c)'
                    /\ \A t \in Targets, c \in Claims : task'[<<e, t, c>>] \in Starting => Whole(e, c)'
  BY DEF FanOutWhole, Whole, Starting
<1>1. e \in Events /\ Matched(e)' = Matched(e) /\ Matched(e) \subseteq Targets
  BY TargetsKnown, MatchedKept, MatchedAreTargets DEF Later, StateTyped
<1>2. ASSUME NEW c \in Claims, Whole(e, c) PROVE Whole(e, c)'
  <2>1. ASSUME NEW t \in Matched(e) PROVE runs'[<<e, t, c>>] # "absent"
    <3>1. t \in Targets /\ <<e, t, c>> \in Keys
      BY <1>1, KeyOf
    <3> QED
      BY <1>2, <3>1, Zenon DEF Whole, RowsStay
  <2> QED
    BY <1>1, <2>1, Zenon DEF Whole
<1>3. /\ event[e].status = "published" => \E c \in Claims : Whole(e, c)
      /\ \A t \in Targets, c \in Claims : task[<<e, t, c>>] \in Starting => Whole(e, c)
  BY DEF FanOutWhole, Whole, Starting
<1>4. ASSUME NEW t \in Targets, NEW c \in Claims, task'[<<e, t, c>>] \in Starting
      PROVE  Whole(e, c)
  <2>1. task[<<e, t, c>>] \in Starting \/ Whole(e, c)
    <3>1. <<e, t, c>> \in Keys /\ <<e, t, c>>[1] = e /\ <<e, t, c>>[3] = c
      BY <1>1, KeyOf
    <3> QED
      BY <1>4, <3>1, Zenon
  <2> QED
    BY <1>3, <2>1, Zenon
<1> QED
  BY <1>2, <1>3, <1>4, Zenon

-----------------------------------------------------------------------------
(* Steps that only write event rows that no claim holds.                   *)
LEMMA QuietStep ==
    ASSUME DeliveryInv, Later, EventTyped', BusTyped',
           UNCHANGED <<runs, task, loop, offer, bus, inFlight>>,
           \A e \in Events :
             /\ event[e].status = "publishing" =>
                  event'[e].status = "publishing" /\ event'[e].claim = event[e].claim
             /\ event'[e].status = "published" <=> event[e].status = "published"
    PROVE  DeliveryInv'
<1> USE DEF DeliveryInv, Structure
<1>1. StateTyped' /\ LoopOK'
  BY LoopKept DEF StateTyped, RunsTyped, TaskTyped, LoopTyped, Later
<1>2. MessagesApart' /\ MessagesFresh'
  BY FreshKept, Zenon DEF MessagesApart, Idle, IdleStays
<1>3. PrepareOK' /\ \A k \in Keys : TaskOK(k)'
  <2>1. loop' = loop /\ \A k \in Keys : task'[k] = task[k] /\ runs'[k] = runs[k]
    OBVIOUS
  <2>2. loop.pc = "abort" => faults' > 0
    BY SMT DEF PrepareOK, Later, CountTyped
  <2> QED
    BY <2>1, <2>2, TaskKept DEF PrepareOK, Preparing
<1>4. FanOutWhole'
  BY WholeStep, TargetsKnown DEF RowsStay
<1>5. \A e \in Events, c \in Claims :
        /\ UnderWay(e, c)' <=> UnderWay(e, c)
        /\ HasRun(e, c)' <=> HasRun(e, c)
        /\ Owned(e, c) => Owned(e, c)'
  BY DEF UnderWay, InBus, HasRun, Owned
<1>6. ClaimOwned' /\ RunsOfOneClaim'
  BY <1>5, ClaimOwnedStep, OneClaimStep, Zenon
<1> QED
  BY <1>1, <1>2, <1>3, <1>4, <1>6

(* Steps of one run's goroutine, or of the loop for one run.               *)
TaskStep(k) ==
    /\ \A j \in Keys : j # k => task'[j] = task[j] /\ runs'[j] = runs[j]
    /\ UNCHANGED <<event, batch, offer, bus, loop>>
    /\ \/ inFlight' = inFlight
       \/ /\ k[1] \notin Webhook /\ faults' # 0
          /\ \A e \in Events : e # k[1] => (e \in inFlight' <=> e \in inFlight)
    /\ task[k] # "none" /\ (runs[k] # "absent" => runs'[k] # "absent")
    /\ task'[k] \in Unacked => task[k] \in Unacked
    /\ task[k] \in Unacked /\ faults' = 0 => task'[k] \in Unacked
    /\ runs[k] = "absent" /\ runs'[k] # "absent" => task[k] \in Unacked
    /\ k[1] \in Webhook /\ task'[k] \in Starting => task[k] \in Starting

(* The step of one goroutine keeps the invariant.                          *)
LEMMA TaskStepKeeps ==
    ASSUME DeliveryInv, Later, RunsTyped', TaskTyped', NEW k \in Keys, TaskStep(k), TaskOK(k)',
           task'[k] \in {"create", "stamp"} /\ loop.pc = "prepare" /\ loop.msg = Message(k) =>
               \A j \in Keys : Preparing(j) => j = k
    PROVE  DeliveryInv'
<1> USE DEF DeliveryInv, Structure
<1>1. StateTyped' /\ LoopOK'
  BY LoopKept DEF StateTyped, EventTyped, BusTyped, LoopTyped, Later, TaskStep
<1>2. IdleStays
  BY DEF TaskStep, IdleStays, Idle
<1>3. MessagesApart' /\ MessagesFresh'
  BY <1>2, Zenon, FreshKept DEF MessagesApart, TaskStep
<1>4. PrepareOK'
  <2>1. loop.pc = "prepare" => \A i, j \in Keys : Preparing(i)' /\ Preparing(j)' => i = j
    BY DEF PrepareOK, Preparing, TaskStep
  <2>2. loop.pc = "abort" => faults' > 0
    BY SMT DEF PrepareOK, Later, CountTyped
  <2> QED
    BY <2>1, <2>2, Zenon DEF PrepareOK, TaskStep
<1>5. ASSUME NEW j \in Keys, j # k PROVE TaskOK(j)'
  <2>1. TaskOK(j) /\ task'[j] = task[j] /\ runs'[j] = runs[j] /\ loop' = loop
    BY <1>5 DEF TaskStep
  <2> QED
    BY <2>1, TaskKept
<1>6. FanOutWhole'
  <2>1. RowsStay /\ \A j \in Keys : j[1] \in Webhook /\ task'[j] \in Starting => task[j] \in Starting
    BY DEF RowsStay, TaskStep
  <2> QED
    BY <2>1, WholeStep, Zenon DEF TaskStep
<1>7. ASSUME NEW e \in Events, NEW c \in Claims
      PROVE  /\ UnderWay(e, c)' => UnderWay(e, c)
             /\ faults' = 0 /\ UnderWay(e, c) => UnderWay(e, c)'
             /\ HasRun(e, c)' => HasRun(e, c) \/ UnderWay(e, c)
             /\ e \in Webhook \/ faults' = 0 => (Owned(e, c) => Owned(e, c)')
  <2>1. NoNewMessage /\ \A m \in Messages : InBus(m)' <=> InBus(m)
    BY DEF NoNewMessage, InBus, TaskStep
  <2>2. UnderWay(e, c)' => UnderWay(e, c)
    BY <2>1, WayKept, Zenon DEF TaskStep
  <2>3. faults' = 0 /\ UnderWay(e, c) => UnderWay(e, c)'
    <3>1. <<e, c>> \in Messages /\ \A t \in Targets : <<e, t, c>> \in Keys
      BY DEF Messages, Keys
    <3> QED
      BY <2>1, <3>1, Zenon DEF UnderWay, TaskStep
  <2>4. HasRun(e, c)' => HasRun(e, c) \/ UnderWay(e, c)
    <3>1. \A t \in Targets : <<e, t, c>> \in Keys
      BY DEF Keys
    <3> QED
      BY <3>1, Zenon DEF HasRun, UnderWay, TaskStep
  <2>5. e \in Webhook \/ faults' = 0 => (Owned(e, c) => Owned(e, c)')
    BY DEF Owned, TaskStep
  <2> QED
    BY <2>2, <2>3, <2>4, <2>5
<1>8. ClaimOwned'
  BY <1>7, ClaimOwnedStep, Zenon
<1>9. RunsOfOneClaim'
  <2>1. event' = event
    BY DEF TaskStep
  <2> QED
    BY <1>7, <2>1, OneClaimStep, Zenon
<1> QED
  BY <1>1, <1>3, <1>4, <1>5, <1>6, <1>8, <1>9

(* Steps of the fan-out of one webhook event, the message stays.           *)
FanStep ==
    /\ loop.msg \in Messages /\ loop'.msg = loop.msg
    /\ loop.pc \in Fanning /\ loop'.pc \in Fanning
    /\ UNCHANGED <<event, runs, batch, offer, bus, inFlight>>
    /\ \A k \in Keys : loop.msg # Message(k) => task'[k] = task[k]

(* So does a step of the loop within a fan-out.                            *)
LEMMA FanStepKeeps ==
    ASSUME DeliveryInv, Later, TaskTyped', LoopTyped', FanStep, PrepareOK',
           \A k \in Keys : loop.msg = Message(k) => TaskOK(k)' /\ task'[k] \notin Starting
    PROVE  DeliveryInv'
<1> USE DEF DeliveryInv, Structure
<1>1. StateTyped'
  BY DEF StateTyped, EventTyped, BusTyped, RunsTyped, Later, FanStep
<1>2. LoopOK'
  BY MessageParts DEF LoopOK, FanStep, Fanning
<1>3. MessagesApart' /\ MessagesFresh'
  BY FreshKept, Zenon DEF MessagesApart, FanStep, IdleStays, Idle
<1>4. \A k \in Keys : TaskOK(k)'
  BY TaskKept, Zenon DEF FanStep
<1>5. FanOutWhole'
  <2>1. \A k \in Keys : k[1] \in Webhook /\ task'[k] \in Starting => task[k] \in Starting
    BY DEF FanStep
  <2> QED
    BY <2>1, WholeStep, Zenon DEF FanStep, RowsStay
<1>6. ASSUME NEW e \in Events, NEW c \in Claims
      PROVE  /\ UnderWay(e, c)' => UnderWay(e, c)
             /\ UnderWay(e, c) => UnderWay(e, c)'
             /\ HasRun(e, c)' <=> HasRun(e, c)
             /\ Owned(e, c) => Owned(e, c)'
  <2>1. NoNewMessage /\ \A m \in Messages : InBus(m)' <=> InBus(m)
    BY DEF NoNewMessage, InBus, FanStep
  <2>2. UnderWay(e, c)' => UnderWay(e, c)
    BY <2>1, WayKept, Zenon DEF FanStep
  <2>3. UnderWay(e, c) => UnderWay(e, c)'
    <3>1. <<e, c>> \in Messages /\ \A t \in Targets : <<e, t, c>> \in Keys /\ Message(<<e, t, c>>) = <<e, c>>
      BY DEF Messages, Keys, Message
    <3> QED
      BY <2>1, <3>1, Zenon DEF UnderWay, FanStep
  <2> QED
    BY <2>2, <2>3, Zenon DEF HasRun, Owned, FanStep
<1>7. ClaimOwned'
  BY <1>6, ClaimOwnedStep, Zenon
<1>8. RunsOfOneClaim'
  <2>1. event' = event
    BY DEF FanStep
  <2> QED
    BY <1>6, <2>1, OneClaimStep, Zenon
<1> QED
  BY <1>1, <1>2, <1>3, <1>4, <1>5, <1>7, <1>8

-----------------------------------------------------------------------------
(* How the operators of the model change a piece of state.                 *)

(* A store call succeeds or fails, and the daemon does not crash.          *)
LEMMA StoreCalled ==
    ASSUME CountTyped, TriggersKept, crashes' = crashes, Succeeds \/ Fails \/ faults' = faults
    PROVE  Later /\ (Fails => faults' # 0)
  BY SMT DEF Later, CountTyped, Succeeds, Fails

(* Rows that are not written keep their triggers.                          *)
LEMMA EventUntouched ==
    ASSUME EventTyped, event' = event
    PROVE  EventTyped' /\ TriggersKept
  BY DEF EventTyped, TriggersKept

(* A callback changes the row of its event, if it still has the claim.     *)
LEMMA ResolveChanges ==
    ASSUME EventTyped, NEW m \in Messages, NEW status \in EventStatus, NEW wait \in BOOLEAN,
           event' = Resolve(m, status, wait)
    PROVE  /\ EventTyped' /\ TriggersKept
           /\ \A e \in Events : e # m[1] => event'[e] = event[e]
           /\ event[m[1]].claim = m[2] => event'[m[1]].status = status
           /\ event[m[1]].claim # m[2] => event' = event
<1>1. m[1] \in Events
  BY MessageParts
<1>2. CASE event[m[1]].claim # m[2]
  BY <1>2 DEF Resolve, TriggersKept, EventTyped
<1>3. CASE event[m[1]].claim = m[2]
  <2> DEFINE r == [event[m[1]] EXCEPT !.status = status, !.claim = 0,
                                     !.leased = FALSE, !.waiting = wait]
  <2>1. event' = [event EXCEPT ![m[1]] = r]
    BY <1>3 DEF Resolve
  <2>2. event[m[1]] \in RowType /\ 0 \in 0..MaxClaims
    BY SMT, <1>1, BoundsNatural DEF EventTyped
  <2>3. r \in RowType /\ r.status = status /\ r.targets = event[m[1]].targets
    BY <2>2 DEF RowType
  <2> HIDE DEF r
  <2> QED
    BY <1>1, <1>3, <2>1, <2>3 DEF TriggersKept, EventTyped
<1> QED
  BY <1>2, <1>3

(* So does Ack, NoSubscriberAck or Retry, which also clear the mark.       *)
LEMMA CallbackChanges ==
    ASSUME EventTyped, CountTyped, crashes' = crashes, NEW m \in Messages,
           NEW status \in EventStatus, NEW wait \in BOOLEAN, Callback(m, status, wait)
    PROVE  /\ EventTyped' /\ Later
           /\ \A e \in Events : e # m[1] => event'[e] = event[e] /\ (e \in inFlight' <=> e \in inFlight)
           /\ event' = event \/ event'[m[1]].status = status
           /\ event[m[1]].claim # m[2] => event' = event
           /\ faults' = 0 /\ event[m[1]].claim = m[2] => event'[m[1]].status = status
<1>1. CASE event' = Resolve(m, status, wait) /\ Succeeds
  BY <1>1, ResolveChanges, StoreCalled DEF Callback
<1>2. CASE event' = event /\ Fails
  <2>1. EventTyped' /\ Later /\ faults' # 0
    BY <1>2, EventUntouched, StoreCalled
  <2> QED
    BY <1>2, <2>1 DEF Callback
<1> QED
  BY <1>1, <1>2 DEF Callback

(* The event loop moves, and goroutines are moved.                         *)
LEMMA LoopHasMessage ==
    ASSUME LoopTyped, LoopOK, loop.pc # "receive"
    PROVE  loop.msg \in Messages
  BY DEF LoopTyped, LoopOK

(* LoopGoes keeps the message.                                             *)
LEMMA LoopMoves ==
    ASSUME LoopTyped, NEW p \in LoopPC, LoopGoes(p)
    PROVE  LoopTyped' /\ loop'.pc = p /\ loop'.msg = loop.msg
  BY DEF LoopTyped, LoopGoes

(* LoopEnds drops it.                                                      *)
LEMMA LoopStops ==
    ASSUME LoopEnds
    PROVE  LoopTyped' /\ loop'.pc = "receive" /\ loop'.msg = None
  BY DEF LoopTyped, LoopEnds, LoopPC

(* Set moves the goroutines of a set.                                      *)
LEMMA TasksSet ==
    ASSUME TaskTyped, NEW S, NEW p \in TaskPC, task' = Set(task, S, p)
    PROVE  TaskTyped' /\ \A k \in Keys : task'[k] = IF k \in S THEN p ELSE task[k]
  BY DEF TaskTyped, Set

(* An EXCEPT moves one.                                                    *)
LEMMA TaskMoves ==
    ASSUME TaskTyped, NEW k \in Keys, NEW p \in TaskPC, task' = [task EXCEPT ![k] = p]
    PROVE  TaskTyped' /\ task'[k] = p /\ \A j \in Keys : j # k => task'[j] = task[j]
  BY DEF TaskTyped

(* A run row is written.                                                   *)
LEMMA RunWritten ==
    ASSUME RunsTyped, NEW k \in Keys, NEW s \in RunStatus, runs' = [runs EXCEPT ![k] = s]
    PROVE  RunsTyped' /\ runs'[k] = s /\ \A j \in Keys : j # k => runs'[j] = runs[j]
  BY DEF RunsTyped

-----------------------------------------------------------------------------
(* Events are accepted, leases run out, retries fall due.                  *)
LEMMA EventRowKeeps ==
    ASSUME DeliveryInv, NEW e \in Events,
           CreateEvent(e) \/ ClaimExpires(e) \/ RetryFallsDue(e)
    PROVE  DeliveryInv'
<1>1. EventTyped /\ event[e] \in RowType /\ CountTyped /\ BusTyped
  BY DEF DeliveryInv, Structure, StateTyped, EventTyped
<1>2. PICK r \in RowType :
        /\ event' = [event EXCEPT ![e] = r] /\ r.targets = event[e].targets
        /\ event[e].status = "publishing" => r.status = "publishing" /\ r.claim = event[e].claim
        /\ r.status = "published" <=> event[e].status = "published"
  <2>1. CASE CreateEvent(e)
    <3>1. PICK g \in BOOLEAN :
                 event' = [event EXCEPT ![e].status = "pending", ![e].garbled = g]
      BY <2>1 DEF CreateEvent
    <3> DEFINE r == [event[e] EXCEPT !.status = "pending", !.garbled = g]
    <3>2. r \in RowType /\ r.targets = event[e].targets /\ r.status = "pending"
      BY <1>1 DEF RowType, EventStatus
    <3>3. event' = [event EXCEPT ![e] = r] /\ event[e].status = "absent"
      BY <1>1, <2>1, <3>1 DEF EventTyped, CreateEvent
    <3> HIDE DEF r
    <3> QED
      BY <3>2, <3>3
  <2>2. CASE ClaimExpires(e)
    <3> DEFINE r == [event[e] EXCEPT !.leased = FALSE]
    <3>1. /\ r \in RowType /\ r.targets = event[e].targets
          /\ r.status = event[e].status /\ r.claim = event[e].claim
      BY <1>1 DEF RowType
    <3>2. event' = [event EXCEPT ![e] = r]
      BY <1>1, <2>2 DEF EventTyped, ClaimExpires
    <3> HIDE DEF r
    <3> QED
      BY <3>1, <3>2
  <2>3. CASE RetryFallsDue(e)
    <3> DEFINE r == [event[e] EXCEPT !.waiting = FALSE]
    <3>1. /\ r \in RowType /\ r.targets = event[e].targets
          /\ r.status = event[e].status /\ r.claim = event[e].claim
      BY <1>1 DEF RowType
    <3>2. event' = [event EXCEPT ![e] = r]
      BY <1>1, <2>3 DEF EventTyped, RetryFallsDue
    <3> HIDE DEF r
    <3> QED
      BY <3>1, <3>2
  <2> QED
    BY <2>1, <2>2, <2>3
<1>3. UNCHANGED <<runs, task, loop, offer, bus, inFlight, batch, crashes, faults>>
  BY DEF CreateEvent, ClaimExpires, RetryFallsDue
<1>4. EventTyped' /\ TriggersKept
  BY <1>1, <1>2 DEF EventTyped, TriggersKept
<1>5. Later /\ BusTyped'
  BY <1>1, <1>3, <1>4, StoreCalled DEF BusTyped
<1>6. \A d \in Events :
        /\ event[d].status = "publishing" =>
             event'[d].status = "publishing" /\ event'[d].claim = event[d].claim
        /\ event'[d].status = "published" <=> event[d].status = "published"
  BY <1>1, <1>2 DEF EventTyped
<1> QED
  BY <1>3, <1>4, <1>5, <1>6, QuietStep, Zenon

(* Steps that change nothing the invariant speaks of.                      *)
LEMMA NothingMoves ==
    ASSUME DeliveryInv, crashes' = crashes, Succeeds \/ Fails \/ faults' = faults, batch' \subseteq Events,
           UNCHANGED <<event, runs, task, loop, offer, bus, inFlight>>
    PROVE  DeliveryInv'
<1>1. EventTyped /\ CountTyped /\ BusTyped
  BY DEF DeliveryInv, Structure, StateTyped
<1>2. EventTyped' /\ Later /\ BusTyped'
  BY <1>1, EventUntouched, StoreCalled DEF BusTyped
<1> QED
  BY <1>2, QuietStep, Zenon

(* The stop request withdraws events that wait.                            *)
LEMMA StopEventKeeps ==
    ASSUME DeliveryInv, StopEvent
    PROVE  DeliveryInv'
<1>1. EventTyped /\ CountTyped /\ BusTyped
  BY DEF DeliveryInv, Structure, StateTyped
<1>2. UNCHANGED <<runs, task, loop, offer, bus, inFlight, batch, crashes, faults>>
  BY DEF StopEvent, CancelWaiting, CountPublishing, ListEventDeliveries,
               requestSchedulerRunStop, StopReply
<1>3. CASE CancelWaiting
  <2> DEFINE r(e) == [event[e] EXCEPT !.status = "canceled", !.claim = 0,
                                     !.leased = FALSE, !.waiting = FALSE]
  <2>1. ASSUME NEW e \in Events
        PROVE  r(e) \in RowType /\ r(e).targets = event[e].targets /\ r(e).status = "canceled"
    <3>1. event[e] \in RowType /\ 0 \in 0..MaxClaims
      BY SMT, <1>1, BoundsNatural DEF EventTyped
    <3> QED
      BY <3>1 DEF RowType, EventStatus
  <2> HIDE DEF r
  <2>2. event' = [e \in Events |-> event'[e]]
        /\ \A e \in Events :
             \/ event'[e] = event[e]
             \/ event'[e] = r(e) /\ event[e].status \in {"pending", "retrying"}
    BY <1>3 DEF CancelWaiting, Withdrawable, r
  <2>3. EventTyped' /\ TriggersKept
    BY <1>1, <2>1, <2>2 DEF EventTyped, TriggersKept
  <2>4. Later /\ BusTyped'
    BY <1>1, <1>2, <2>3, StoreCalled DEF BusTyped
  <2>5. \A e \in Events :
          /\ event[e].status = "publishing" =>
               event'[e].status = "publishing" /\ event'[e].claim = event[e].claim
          /\ event'[e].status = "published" <=> event[e].status = "published"
    BY <2>1, <2>2
  <2> QED
    BY <1>2, <2>3, <2>4, <2>5, QuietStep, Zenon
<1>4. CASE event' = event
  BY <1>1, <1>2, <1>4, NothingMoves DEF BusTyped
<1> QED
  BY <1>3, <1>4, Zenon DEF StopEvent, CountPublishing, ListEventDeliveries,
             requestSchedulerRunStop, StopReply

-----------------------------------------------------------------------------
(* A goroutine that moves stays where the loop and the row say: one that   *)
(* dispatchTargets started...                                              *)
LEMMA SpawnedTaskOK ==
    ASSUME Later, LoopOK, NEW k \in Keys, k[1] \notin Webhook, TaskOK(k),
           task[k] # "none", loop' = loop,
           task'[k] \in {"none", "create", "stamp", "ack"} \cup Acked,
           task'[k] = "create" => runs'[k] = "absent", task'[k] \in Rowed => runs'[k] # "absent",
           runs'[k] = "skipped" => task'[k] \in {"none", "stamp", "ack"}
    PROVE  TaskOK(k)'
<1>1. Matched(k[1])' = Matched(k[1]) /\ k[2] \in Matched(k[1])
  BY MatchedKept, KeyParts DEF Later, TaskOK, Idle
<1>2. loop.msg = Message(k) => loop.pc \notin Fanning
  BY KeyParts DEF LoopOK
<1>3. ~(loop.pc = "spawn" /\ loop.msg = Message(k) /\ k[2] \in loop.left)
  BY DEF TaskOK, Idle
<1> QED
  BY <1>1, <1>2, <1>3 DEF TaskOK, Rowless, Acked, Fanning, Message

(* ...one that the loop moves while it fans out...                         *)
LEMMA FannedTaskOK ==
    ASSUME Later, NEW k \in Keys, k[1] \in Webhook, TaskOK(k), task[k] # "none",
           loop' = loop, loop.msg = Message(k), loop.pc \in {"prepare", "abort"},
           task'[k] \in Expected(loop.pc), runs'[k] # "skipped",
           task'[k] \in Rowless => runs'[k] = "absent", task'[k] \in Rowed => runs'[k] # "absent"
    PROVE  TaskOK(k)'
<1>1. Matched(k[1])' = Matched(k[1]) /\ k[2] \in Matched(k[1])
  BY MatchedKept, KeyParts DEF Later, TaskOK, Idle
<1> QED
  BY <1>1 DEF TaskOK, Message

(* ...and one whose event is acknowledged.                                 *)
LEMMA AckedTaskOK ==
    ASSUME Later, LoopOK, NEW k \in Keys, TaskOK(k), task[k] \in Acked, loop' = loop,
           task'[k] \in {"none"} \cup Acked, runs'[k] \notin {"absent", "skipped"}
    PROVE  TaskOK(k)'
<1>1. task[k] # "none"
  BY DEF Acked
<1>2. CASE k[1] \notin Webhook
  <2>1. task'[k] # "create"
    BY DEF Acked
  <2> QED
    BY <1>1, <1>2, <2>1, SpawnedTaskOK, Zenon
<1>3. CASE k[1] \in Webhook
  <2>1. Matched(k[1])' = Matched(k[1]) /\ k[2] \in Matched(k[1])
    BY <1>1, MatchedKept, KeyParts DEF Later, TaskOK, Idle
  <2>2. loop.msg # Message(k)
    BY <1>3, <2>1 DEF TaskOK, Expected, Acked
  <2> QED
    BY <1>3, <2>1, <2>2 DEF TaskOK, Rowless, Acked, Message
<1> QED
  BY <1>2, <1>3

(* Where the runs of webhook events can be.                                *)
LEMMA WebhookTask ==
    ASSUME NEW k \in Keys, TaskOK(k), k[1] \in Webhook
    PROVE  /\ task[k] \notin {"start", "ack"}
           /\ task[k] \in {"create", "stamp"} => loop.msg = Message(k) /\ loop.pc = "prepare"
           /\ task[k] \in {"create", "stamp", "prepared", "aborted", "entered", "reserved"} =>
                loop.msg = Message(k) /\ k[2] \in Matched(k[1]) /\ task[k] \in Expected(loop.pc)
  BY DEF TaskOK, Expected, Acked, Idle

(* All other steps of a run goroutine but a failing CreateSchedulerRun of  *)
(* a fan-out.                                                              *)
LEMMA RunTaskKeeps ==
    ASSUME DeliveryInv, NEW k \in Keys, RunTask(k), ~runTriggerAck(k),
           PrepareCreate(k) => loop' = loop
    PROVE  DeliveryInv'
<1> USE DEF DeliveryInv, Structure, StateTyped
<1>1. TaskOK(k) /\ EventTyped /\ CountTyped /\ RunsTyped /\ TaskTyped /\ LoopTyped /\ LoopOK
  OBVIOUS
<1>2. \A p \in TaskPC : TaskGoes(k, p) =>
        TaskTyped' /\ task'[k] = p /\ \A j \in Keys : j # k => task'[j] = task[j]
  BY <1>1, TaskMoves, Zenon DEF TaskGoes
<1>3. /\ runs' = runs => RunsTyped' /\ \A j \in Keys : runs'[j] = runs[j]
      /\ \A s \in RunStatus : runs' = [runs EXCEPT ![k] = s] =>
           RunsTyped' /\ runs'[k] = s /\ \A j \in Keys : j # k => runs'[j] = runs[j]
  BY <1>1, RunWritten, Zenon DEF RunsTyped
<1>4. /\ event' = event /\ loop' = loop /\ UNCHANGED <<batch, offer, bus, crashes>>
      /\ TriggersKept
  <2>1. event' = event /\ loop' = loop /\ UNCHANGED <<batch, offer, bus, crashes>>
    BY DEF RunTask, PrepareEnter, PrepareCreate, PrepareStamp, register, Execute,
                 ExecuteDeliver, ExecuteLeave, unregister
  <2> QED
    BY <1>1, <2>1, EventUntouched
<1>5. Succeeds \/ Fails \/ faults' = faults
  BY DEF RunTask, PrepareEnter, PrepareCreate, PrepareStamp, register, Execute,
               ExecuteDeliver, ExecuteLeave, unregister, updateTriggerEventDelivery
<1>6. Later /\ (Fails => faults' # 0)
  BY <1>1, <1>4, <1>5, StoreCalled
<1>7. \/ inFlight' = inFlight
      \/ /\ k[1] \notin Webhook /\ faults' # 0
         /\ \A e \in Events : e # k[1] => (e \in inFlight' <=> e \in inFlight)
  <2>1. inFlight' = inFlight \/ (Fails /\ Errs(k))
    BY DEF RunTask, PrepareEnter, PrepareCreate, PrepareStamp, register, Execute,
                 ExecuteDeliver, ExecuteLeave, unregister
  <2> QED
    BY <1>6, <2>1 DEF Errs
<1> DEFINE Local ==
      /\ TaskTyped' /\ RunsTyped' /\ TaskOK(k)'
      /\ \A j \in Keys : j # k => task'[j] = task[j] /\ runs'[j] = runs[j]
      /\ task[k] # "none" /\ (runs[k] # "absent" => runs'[k] # "absent")
      /\ task'[k] \in Unacked => task[k] \in Unacked
      /\ task[k] \in Unacked /\ faults' = 0 => task'[k] \in Unacked
      /\ runs[k] = "absent" /\ runs'[k] # "absent" => task[k] \in Unacked
      /\ k[1] \in Webhook /\ task'[k] \in Starting => task[k] \in Starting
      /\ k[1] \in Webhook /\ task'[k] \in {"create", "stamp"} => task[k] = "create"
<1>8. Local => DeliveryInv'
  <2> SUFFICES ASSUME Local PROVE DeliveryInv'
    OBVIOUS
  <2>1. TaskStep(k)
    BY <1>4, <1>7, Zenon DEF TaskStep
  <2>2. ASSUME task'[k] \in {"create", "stamp"}, loop.pc = "prepare", loop.msg = Message(k),
               NEW j \in Keys, Preparing(j)
        PROVE  j = k
    <3>1. k[1] \in Webhook
      BY <2>2, KeyParts DEF LoopOK, Fanning
    <3>2. Preparing(k)
      BY <2>2, <3>1 DEF Preparing
    <3> QED
      BY <2>2, <3>2, Zenon DEF PrepareOK
  <2> QED
    BY <1>6, <2>1, <2>2, TaskStepKeeps, Zenon
<1> SUFFICES Local
  BY <1>8
<1> HIDE DEF DeliveryInv, Structure, StateTyped
<1>9. CASE PrepareEnter(k)
  <2>1. task[k] = "start" /\ k[1] \notin Webhook /\ runs[k] = "absent"
    BY <1>1, <1>9, WebhookTask DEF PrepareEnter, TaskOK, Rowless
  <2>2. /\ TaskTyped' /\ RunsTyped'
        /\ \A j \in Keys : j # k => task'[j] = task[j] /\ runs'[j] = runs[j]
        /\ \/ task'[k] = "create" /\ runs'[k] = "absent"
           \/ task'[k] = "stamp" /\ runs'[k] = "skipped"
           \/ task'[k] = "none" /\ runs'[k] = "absent" /\ faults' # 0
    BY <1>2, <1>3, <1>6, <1>9, <2>1 DEF PrepareEnter, TaskPC, RunStatus
  <2>3. TaskOK(k)'
    BY <1>1, <1>4, <1>6, <2>1, <2>2, SpawnedTaskOK DEF Rowed, Acked
  <2> QED
    BY <2>1, <2>2, <2>3 DEF Unacked, Starting
<1>10. CASE PrepareCreate(k)
  <2>1. task[k] = "create" /\ runs[k] = "absent"
        /\ (k[1] \in Webhook => loop.msg = Message(k) /\ loop.pc = "prepare")
    BY <1>1, <1>10, WebhookTask DEF PrepareCreate, TaskOK, Rowless
  <2>2. LoopGoes("abort") => loop.pc = "abort"
    BY <1>1, <1>4, LoopMoves DEF LoopPC
  <2>3. /\ TaskTyped' /\ RunsTyped'
        /\ \A j \in Keys : j # k => task'[j] = task[j] /\ runs'[j] = runs[j]
        /\ \/ task'[k] = "stamp" /\ runs'[k] = "running"
           \/ task'[k] = "none" /\ runs'[k] = "absent" /\ faults' # 0 /\ k[1] \notin Webhook
    BY <1>2, <1>3, <1>6, <1>10, <2>1, <2>2 DEF PrepareCreate, TaskPC, RunStatus
  <2>4. TaskOK(k)'
    <3>1. CASE k[1] \in Webhook
      BY <1>1, <1>4, <1>6, <2>1, <2>3, <3>1, FannedTaskOK DEF Rowless, Expected
    <3>2. CASE k[1] \notin Webhook
      BY <1>1, <1>4, <1>6, <2>1, <2>3, <3>2, SpawnedTaskOK DEF Rowed, Acked
    <3> QED
      BY <3>1, <3>2
  <2> QED
    BY <2>1, <2>3, <2>4 DEF Unacked, Starting
<1>11. CASE PrepareStamp(k)
  <2>1. task[k] = "stamp" /\ runs[k] # "absent"
        /\ (k[1] \in Webhook => loop.msg = Message(k) /\ loop.pc = "prepare" /\ runs[k] # "skipped")
    BY <1>1, <1>11, WebhookTask DEF PrepareStamp, TaskOK, Rowed
  <2>2. /\ TaskTyped' /\ RunsTyped'
        /\ \A j \in Keys : j # k => task'[j] = task[j] /\ runs'[j] = runs[j]
        /\ runs'[k] = runs[k] /\ task'[k] = IF k[1] \in Webhook THEN "prepared" ELSE "ack"
    BY <1>2, <1>3, <1>11 DEF PrepareStamp, TaskPC
  <2>3. TaskOK(k)'
    <3>1. CASE k[1] \in Webhook
      BY <1>1, <1>4, <1>6, <2>1, <2>2, <3>1, FannedTaskOK DEF Rowless, Expected
    <3>2. CASE k[1] \notin Webhook
      BY <1>1, <1>4, <1>6, <2>1, <2>2, <3>2, SpawnedTaskOK
    <3> QED
      BY <3>1, <3>2
  <2> QED
    BY <2>1, <2>2, <2>3 DEF Unacked, Starting
<1>12. CASE register(k) \/ Execute(k) \/ ExecuteDeliver(k) \/ ExecuteLeave(k) \/ unregister(k)
  <2>1. task[k] \in Acked /\ runs[k] \notin {"absent", "skipped"}
    BY <1>1, <1>12 DEF register, Execute, ExecuteDeliver, ExecuteLeave, unregister, TaskOK, Rowed, Acked
  <2>2. TaskTyped' /\ (\A j \in Keys : j # k => task'[j] = task[j])
        /\ \/ task'[k] = "none"
           \/ task[k] \in Starting /\ task'[k] \in Acked
    BY <1>2, <1>12 DEF register, Execute, ExecuteDeliver, ExecuteLeave, unregister, TaskPC, Acked, Starting
  <2>3. RunsTyped' /\ (\A j \in Keys : j # k => runs'[j] = runs[j])
        /\ runs'[k] \notin {"absent", "skipped"}
    <3>1. Outcomes \cup (IF k \in stopped THEN {"canceled"} ELSE {})
             \subseteq {"succeeded", "failed", "canceled"}
      BY OutcomesKnown
    <3>2. CASE runs' = runs
      BY <1>3, <2>1, <3>2, Zenon
    <3>3. CASE \E s \in {"succeeded", "failed", "canceled"} : runs' = [runs EXCEPT ![k] = s]
      BY <1>3, <3>3 DEF RunStatus
    <3> QED
      BY <1>12, <3>1, <3>2, <3>3, Zenon DEF register, Execute, ExecuteDeliver, ExecuteLeave, unregister
  <2>4. TaskOK(k)'
    BY <1>1, <1>4, <1>6, <2>1, <2>2, <2>3, AckedTaskOK
  <2> QED
    BY <2>1, <2>2, <2>3, <2>4 DEF Unacked, Acked, Starting
<1> QED
  BY <1>9, <1>10, <1>11, <1>12, Zenon DEF RunTask

-----------------------------------------------------------------------------
(* The fan-out of a webhook event, from one point of the loop to the next. *)
LEMMA FanTaskOK ==
    ASSUME Later, NEW k \in Keys, TaskOK(k), k[1] \in Webhook,
           loop.msg = Message(k), loop'.msg = loop.msg, runs'[k] = runs[k],
           IF k[2] \in Matched(k[1]) THEN task'[k] \in Expected(loop'.pc) ELSE task'[k] = "none",
           task'[k] \in Rowless => runs[k] = "absent", task'[k] \in Rowed => runs[k] # "absent",
           loop'.pc \in {"busy", "reserve", "enter"} => runs[k] = "absent",
           loop'.pc = "retry" /\ faults' = 0 => runs[k] = "absent"
    PROVE  TaskOK(k)' /\ task'[k] \notin Starting
<1>1. Matched(k[1])' = Matched(k[1])
  BY MatchedKept, KeyParts DEF Later
<1>2. task'[k] \notin Starting
  BY DEF Expected, Starting
<1> QED
  BY <1>1, <1>2 DEF TaskOK, Idle, Message

(* The busy check, the reservation, the entries, the preparations and the  *)
(* rollback of dispatchWebhookTargets.                                     *)
LEMMA FanKeeps ==
    ASSUME DeliveryInv, shouldRetryForBusy \/ reserveQueueSlots \/ dispatchEnter \/ dispatchPrepare
                        \/ AbortRest
    PROVE  DeliveryInv'
<1> USE DEF DeliveryInv, Structure, StateTyped
<1>1. EventTyped /\ CountTyped /\ TaskTyped /\ LoopTyped /\ LoopOK /\ PrepareOK
  OBVIOUS
<1>2. loop.pc \in Fanning \ {"ack", "retry"} /\ loop.msg \in Messages /\ loop.msg[1] \in Webhook
  BY <1>1, LoopHasMessage DEF shouldRetryForBusy, reserveQueueSlots, dispatchEnter, dispatchPrepare,
                              AbortRest, LoopOK, Fanning
<1>3. LoopKeys \subseteq Keys
      /\ \A k \in Keys : k \in LoopKeys <=> loop.msg = Message(k) /\ k[2] \in Matched(k[1])
  BY <1>1, <1>2, LoopKeysAre
<1>4. UNCHANGED <<event, runs, batch, offer, bus, inFlight, crashes, faults>>
  BY DEF shouldRetryForBusy, reserveQueueSlots, dispatchEnter, dispatchPrepare, AbortRest
<1>5. Later
  BY <1>1, <1>4, EventUntouched, StoreCalled
<1>6. ASSUME NEW k \in Keys, loop.msg = Message(k)
      PROVE  /\ TaskOK(k) /\ k[1] \in Webhook /\ runs'[k] = runs[k]
             /\ k[2] \notin Matched(k[1]) => task[k] = "none" /\ runs[k] = "absent"
             /\ k[2] \in Matched(k[1]) => task[k] \in Expected(loop.pc)
             /\ loop.pc \in {"busy", "reserve", "enter"} => runs[k] = "absent"
             /\ task[k] \in Rowless => runs[k] = "absent"
             /\ task[k] \in Rowed => runs[k] # "absent"
  <2>1. TaskOK(k) /\ k[1] \in Webhook /\ runs'[k] = runs[k]
    BY <1>2, <1>4, <1>6, KeyParts
  <2> QED
    BY <1>6, <2>1 DEF TaskOK, Idle
<1> DEFINE Local ==
      /\ TaskTyped' /\ LoopTyped' /\ loop'.msg = loop.msg /\ loop'.pc \in Fanning
      /\ \A k \in Keys : k \notin LoopKeys => task'[k] = task[k]
      /\ \A k \in LoopKeys :
           /\ task'[k] \in Expected(loop'.pc)
           /\ task'[k] \in Rowless => runs[k] = "absent"
           /\ task'[k] \in Rowed => runs[k] # "absent"
           /\ loop'.pc \in {"busy", "reserve", "enter"} => runs[k] = "absent"
           /\ loop'.pc = "retry" /\ faults' = 0 => runs[k] = "absent"
      /\ PrepareOK'
<1>7. Local => DeliveryInv'
  <2> SUFFICES ASSUME Local PROVE DeliveryInv'
    OBVIOUS
  <2>1. FanStep
    BY <1>2, <1>3, <1>4 DEF FanStep, Fanning
  <2>2. ASSUME NEW k \in Keys, loop.msg = Message(k)
        PROVE  TaskOK(k)' /\ task'[k] \notin Starting
    <3>1. CASE k[2] \in Matched(k[1])
      BY <1>3, <1>5, <1>6, <2>2, <3>1, FanTaskOK, Zenon
    <3>2. CASE k[2] \notin Matched(k[1])
      <4>1. task'[k] = "none" /\ runs[k] = "absent"
        <5>1. k \notin LoopKeys /\ task[k] = "none" /\ runs[k] = "absent"
          BY <1>3, <1>6, <2>2, <3>2
        <5> QED
          BY <5>1
      <4>2. "none" \notin Rowed
        BY DEF Rowed, Acked
      <4> QED
        BY <1>5, <1>6, <2>2, <3>2, <4>1, <4>2, FanTaskOK, Zenon
    <3> QED
      BY <3>1, <3>2
  <2> QED
    BY <1>5, <2>1, <2>2, FanStepKeeps, Zenon
<1> SUFFICES Local
  BY <1>7
<1> HIDE DEF DeliveryInv, Structure, StateTyped
<1>8. \A p \in LoopPC : LoopGoes(p) => LoopTyped' /\ loop'.pc = p /\ loop'.msg = loop.msg
  BY <1>1, LoopMoves, Zenon
<1>9. ASSUME NEW k \in LoopKeys
      PROVE  /\ k \in Keys /\ task[k] \in Expected(loop.pc)
             /\ loop.pc \in {"busy", "reserve", "enter"} => runs[k] = "absent"
             /\ task[k] \in Rowless => runs[k] = "absent"
             /\ task[k] \in Rowed => runs[k] # "absent"
  BY <1>3, <1>6
<1>10. loop'.pc \notin {"prepare", "abort"} => PrepareOK'
  BY DEF PrepareOK
<1>11. task' = task => TaskTyped'
  BY <1>1 DEF TaskTyped
<1>12. CASE shouldRetryForBusy
  <2>1. loop.pc = "busy" /\ task' = task /\ LoopTyped' /\ loop'.msg = loop.msg
        /\ loop'.pc \in {"retry", "reserve"}
    BY <1>8, <1>12 DEF shouldRetryForBusy, LoopPC
  <2> QED
    BY <1>9, <1>10, <1>11, <2>1 DEF Expected, Fanning
<1>13. CASE reserveQueueSlots
  <2>1. CASE task' = Set(task, LoopKeys, "reserved") /\ LoopGoes("enter")
    <3>1. TaskTyped' /\ \A k \in Keys : task'[k] = IF k \in LoopKeys THEN "reserved" ELSE task[k]
      BY <1>1, <2>1, TasksSet DEF TaskPC
    <3>2. LoopTyped' /\ loop'.msg = loop.msg /\ loop'.pc = "enter" /\ loop.pc = "reserve"
      BY <1>8, <1>13, <2>1 DEF LoopPC, reserveQueueSlots
    <3> QED
      BY <1>9, <1>10, <3>1, <3>2 DEF Expected, Fanning, Rowless, Rowed, Acked
  <2>2. CASE task' = task /\ LoopGoes("retry")
    <3>1. LoopTyped' /\ loop'.msg = loop.msg /\ loop'.pc = "retry" /\ loop.pc = "reserve"
      BY <1>8, <1>13, <2>2 DEF LoopPC, reserveQueueSlots
    <3> QED
      BY <1>9, <1>10, <1>11, <2>2, <3>1 DEF Expected, Fanning
  <2> QED
    BY <1>13, <2>1, <2>2, Zenon DEF reserveQueueSlots
<1>14. CASE dispatchEnter
  <2>1. PICK k \in LoopKeys : task[k] = "reserved" /\
          \/ /\ task' = [task EXCEPT ![k] = "entered"]
             /\ LoopGoes(IF \E j \in LoopKeys \ {k} : task[j] = "reserved"
                         THEN "enter" ELSE "prepare")
          \/ task' = Set(task, LoopKeys, "none") /\ LoopGoes("retry")
    BY <1>14, Zenon DEF dispatchEnter
  <2>2. CASE /\ task' = [task EXCEPT ![k] = "entered"]
             /\ LoopGoes(IF \E j \in LoopKeys \ {k} : task[j] = "reserved"
                         THEN "enter" ELSE "prepare")
    <3>1. TaskTyped' /\ task'[k] = "entered" /\ \A j \in Keys : j # k => task'[j] = task[j]
      BY <1>1, <1>9, <2>2, TaskMoves DEF TaskPC
    <3>2. LoopTyped' /\ loop'.msg = loop.msg /\ loop.pc = "enter"
          /\ loop'.pc \in {"enter", "prepare"}
          /\ (loop'.pc = "prepare" => \A j \in LoopKeys : j # k => task[j] # "reserved")
      BY <1>8, <1>14, <2>2 DEF LoopPC, dispatchEnter
    <3>3. ASSUME NEW j \in LoopKeys
          PROVE  task'[j] \in Expected(loop'.pc) /\ task'[j] \in {"reserved", "entered"}
      BY <1>9, <3>1, <3>2 DEF Expected
    <3>4. PrepareOK'
      <4>1. ASSUME NEW j \in Keys PROVE ~Preparing(j)'
        <5>1. CASE j \in LoopKeys
          BY <3>3, <5>1 DEF Preparing
        <5>2. CASE j \notin LoopKeys
          BY <1>3, <1>6, <2>1, <3>1, <3>2, <5>2 DEF Preparing, Message
        <5> QED
          BY <5>1, <5>2
      <4> QED
        BY <3>2, <4>1 DEF PrepareOK
    <3> QED
      BY <1>9, <2>1, <3>1, <3>2, <3>3, <3>4 DEF Fanning, Rowless, Rowed, Acked
  <2>3. CASE task' = Set(task, LoopKeys, "none") /\ LoopGoes("retry")
    <3>1. TaskTyped' /\ \A j \in Keys : task'[j] = IF j \in LoopKeys THEN "none" ELSE task[j]
      BY SMT, <1>1, <2>3, TasksSet DEF TaskPC
    <3>2. LoopTyped' /\ loop'.msg = loop.msg /\ loop'.pc = "retry" /\ loop.pc = "enter"
      BY <1>8, <1>14, <2>3 DEF LoopPC, dispatchEnter
    <3> QED
      BY <1>9, <1>10, <3>1, <3>2 DEF Expected, Fanning, Rowless, Rowed, Acked
  <2> QED
    BY <2>1, <2>2, <2>3
<1>15. CASE dispatchPrepare
  <2>1. loop.pc = "prepare" /\ \A j \in LoopKeys : task[j] \in {"entered", "prepared"}
    BY <1>15 DEF dispatchPrepare
  <2>2. CASE \E k \in LoopKeys : task[k] = "entered" /\ task' = [task EXCEPT ![k] = "create"] /\ loop' = loop
    <3>1. PICK k \in LoopKeys : task[k] = "entered" /\ task' = [task EXCEPT ![k] = "create"] /\ loop' = loop
      BY <2>2
    <3>2. TaskTyped' /\ task'[k] = "create" /\ \A j \in Keys : j # k => task'[j] = task[j]
      BY <1>1, <1>9, <3>1, TaskMoves DEF TaskPC
    <3>3. LoopTyped' /\ loop'.msg = loop.msg /\ loop'.pc = "prepare"
      BY <1>1, <2>1, <3>1 DEF LoopTyped
    <3>4. PrepareOK'
      <4>1. ASSUME NEW j \in Keys, j # k PROVE ~Preparing(j)'
        <5>1. CASE j \in LoopKeys
          BY <2>1, <3>2, <4>1, <5>1 DEF Preparing
        <5>2. CASE j \notin LoopKeys
          BY <1>3, <1>6, <3>1, <3>2, <4>1, <5>2 DEF Preparing, Message
        <5> QED
          BY <5>1, <5>2
      <4> QED
        BY <3>3, <4>1 DEF PrepareOK
    <3> QED
      BY SMT, <1>9, <2>1, <3>1, <3>2, <3>3, <3>4 DEF Expected, Fanning, Rowless, Rowed, Acked
  <2>3. CASE (\A k \in LoopKeys : task[k] = "prepared") /\ LoopGoes("ack") /\ task' = task
    <3>1. LoopTyped' /\ loop'.msg = loop.msg /\ loop'.pc = "ack"
      BY <1>8, <2>3 DEF LoopPC
    <3> QED
      BY <1>9, <1>10, <1>11, <2>3, <3>1 DEF Expected, Fanning
  <2> QED
    BY <1>15, <2>2, <2>3, Zenon DEF dispatchPrepare
<1>16. CASE AbortRest
  <2>1. TaskTyped' /\ \A j \in Keys : task'[j] = IF j \in LoopKeys THEN "none" ELSE task[j]
    BY <1>1, <1>16, TasksSet DEF TaskPC, AbortRest
  <2>2. LoopTyped' /\ loop'.msg = loop.msg /\ loop'.pc = "retry" /\ loop.pc = "abort"
    BY <1>8, <1>16 DEF LoopPC, AbortRest
  <2>3. faults' # 0
    BY SMT, <1>1, <1>4, <2>2 DEF PrepareOK, CountTyped
  <2> QED
    BY <1>9, <1>10, <2>1, <2>2, <2>3 DEF Expected, Fanning, Rowless, Rowed, Acked
<1> QED
  BY <1>12, <1>13, <1>14, <1>15, <1>16

(* The webhook runs that a failed Prepare, Abort and its delivery update   *)
(* move.                                                                   *)
LEMMA AbortKeeps ==
    ASSUME DeliveryInv, AbortPrepared \/ AbortDeliver
    PROVE  DeliveryInv'
<1>1. EventTyped /\ CountTyped /\ RunsTyped /\ TaskTyped /\ LoopTyped /\ LoopOK
  BY DEF DeliveryInv, Structure, StateTyped
<1>2. loop.pc = "abort" /\ loop.msg \in Messages /\ loop.msg[1] \in Webhook
  BY <1>1, LoopHasMessage DEF AbortPrepared, AbortDeliver, LoopOK, Fanning
<1>3. PICK k \in Keys :
        /\ loop.msg = Message(k)
        /\ \/ /\ task[k] = "prepared" /\ task' = [task EXCEPT ![k] = "aborted"]
              /\ runs' = [runs EXCEPT ![k] = "failed"] \/ runs' = runs
           \/ task[k] = "aborted" /\ task' = [task EXCEPT ![k] = "reserved"] /\ runs' = runs
  <2>1. LoopKeys \subseteq Keys /\ \A k \in Keys : k \in LoopKeys => loop.msg = Message(k)
    BY <1>1, <1>2, LoopKeysAre
  <2> QED
    BY <2>1 DEF AbortPrepared, AbortDeliver
<1>4. event' = event /\ loop' = loop /\ inFlight' = inFlight /\ UNCHANGED <<batch, offer, bus, crashes>>
      /\ (Succeeds \/ Fails)
  BY DEF AbortPrepared, AbortDeliver, updateTriggerEventDelivery
<1>5. Later
  BY <1>1, <1>4, EventUntouched, StoreCalled
<1>6. TaskOK(k) /\ k[1] \in Webhook
  BY <1>2, <1>3, KeyParts DEF DeliveryInv, Structure
<1>7. runs[k] \notin {"absent", "skipped"}
  BY <1>3, <1>6 DEF TaskOK, Rowed
<1>8. /\ TaskTyped' /\ \A j \in Keys : j # k => task'[j] = task[j]
      /\ \/ task[k] = "prepared" /\ task'[k] = "aborted"
         \/ task[k] = "aborted" /\ task'[k] = "reserved"
  BY <1>1, <1>3, TaskMoves DEF TaskPC
<1>9. RunsTyped' /\ runs'[k] \notin {"absent", "skipped"} /\ \A j \in Keys : j # k => runs'[j] = runs[j]
  <2>1. CASE runs' = runs
    BY <1>1, <1>7, <2>1 DEF RunsTyped
  <2>2. CASE runs' = [runs EXCEPT ![k] = "failed"]
    BY <1>1, <2>2, RunWritten DEF RunStatus
  <2> QED
    BY <1>3, <2>1, <2>2
<1>10. TaskOK(k)'
  BY <1>2, <1>3, <1>4, <1>5, <1>6, <1>8, <1>9, FannedTaskOK DEF Expected, Rowless
<1>11. TaskStep(k)
  BY <1>4, <1>7, <1>8, <1>9 DEF TaskStep, Unacked, Starting
<1> QED
  BY <1>2, <1>5, <1>8, <1>9, <1>10, <1>11, TaskStepKeeps

(* CreateSchedulerRun fails and the fan-out is rolled back.                *)
LEMMA CreateFailsKeeps ==
    ASSUME DeliveryInv, NEW k \in Keys, PrepareCreate(k), loop' # loop
    PROVE  DeliveryInv'
<1>1. EventTyped /\ CountTyped /\ TaskTyped /\ LoopTyped /\ LoopOK /\ PrepareOK /\ TaskOK(k)
  BY DEF DeliveryInv, Structure, StateTyped
<1>2. /\ task[k] = "create" /\ k[1] \in Webhook /\ Fails
      /\ TaskGoes(k, "reserved") /\ LoopGoes("abort")
      /\ UNCHANGED <<event, runs, batch, offer, bus, inFlight, crashes>>
  BY DEF PrepareCreate, Errs
<1>3. Later /\ faults' # 0
  BY <1>1, <1>2, EventUntouched, StoreCalled
<1>4. loop.msg = Message(k) /\ loop.pc = "prepare" /\ loop.msg \in Messages
  BY <1>1, <1>2, WebhookTask, KeyParts
<1>5. TaskTyped' /\ task'[k] = "reserved" /\ \A j \in Keys : j # k => task'[j] = task[j]
  BY <1>1, <1>2, TaskMoves DEF TaskGoes, TaskPC
<1>6. LoopTyped' /\ loop'.msg = loop.msg /\ loop'.pc = "abort"
  BY <1>1, <1>2, LoopMoves DEF LoopPC
<1>7. FanStep
  BY <1>2, <1>4, <1>5, <1>6 DEF FanStep, Fanning
<1>8. PrepareOK'
  BY SMT, <1>3, <1>6 DEF PrepareOK, Later, CountTyped
<1>9. ASSUME NEW j \in Keys, loop.msg = Message(j) PROVE TaskOK(j)' /\ task'[j] \notin Starting
  <2>1. TaskOK(j) /\ j[1] \in Webhook /\ runs'[j] = runs[j]
    <3>1. Message(j)[1] = j[1] /\ Message(k)[1] = k[1]
      BY KeyParts
    <3>2. j[1] = k[1]
      BY <1>4, <1>9, <3>1
    <3> QED
      BY <1>2, <3>2 DEF DeliveryInv, Structure
  <2>2. j # k => task[j] \notin {"create", "stamp"}
    BY <1>1, <1>2, <1>4, <1>9 DEF PrepareOK, Preparing
  <2>3. /\ IF j[2] \in Matched(j[1]) THEN task[j] \in Expected(loop.pc) ELSE Idle(j)
        /\ task[j] \in Rowless => runs[j] = "absent"
        /\ task[j] \in Rowed => runs[j] # "absent"
    BY <1>9, <2>1 DEF TaskOK
  <2>4. IF j[2] \in Matched(j[1]) THEN task'[j] \in Expected(loop'.pc) ELSE task'[j] = "none"
    BY <1>2, <1>4, <1>5, <1>6, <2>2, <2>3 DEF Expected, Idle
  <2>5. (task'[j] \in Rowless => runs[j] = "absent") /\ (task'[j] \in Rowed => runs[j] # "absent")
    BY <1>5, <2>3 DEF Rowless, Rowed, Acked
  <2> QED
    BY <1>3, <1>6, <1>9, <2>1, <2>4, <2>5, FanTaskOK
<1> QED
  BY <1>3, <1>5, <1>6, <1>7, <1>8, <1>9, FanStepKeeps

-----------------------------------------------------------------------------
(* The loop is done with a message.                                        *)
LEMMA FinishKeeps ==
    ASSUME DeliveryInv, NEW status \in EventStatus, NEW wait \in BOOLEAN,
           NEW m \in Messages, loop.msg = m, Callback(m, status, wait), LoopEnds,
           TaskTyped', UNCHANGED <<runs, batch, offer, bus, crashes>>,
           \A k \in Keys : m # Message(k) => task'[k] = task[k],
           \A k \in Keys : m = Message(k) =>
               /\ task'[k] \in {"none", "register"}
               /\ k[2] \notin Matched(k[1]) => task'[k] = "none"
               /\ task'[k] = "register" => runs[k] \notin {"absent", "skipped"} /\ Whole(m[1], m[2]),
           status = "published" => m[1] \in Webhook /\ Whole(m[1], m[2]),
           status # "published" /\ faults' = 0 => ~HasRun(m[1], m[2])
    PROVE  DeliveryInv'
<1> USE DEF DeliveryInv, Structure
<1>1. m[1] \in Events /\ m[2] \in Claims /\ m = <<m[1], m[2]>> /\ m # None
  BY MessageParts
<1>2. /\ EventTyped' /\ Later
      /\ \A e \in Events : e # m[1] => event'[e] = event[e] /\ (e \in inFlight' <=> e \in inFlight)
      /\ event' = event \/ event'[m[1]].status = status
      /\ faults' = 0 /\ event[m[1]].claim = m[2] => event'[m[1]].status = status
  BY SMT, CallbackChanges DEF StateTyped
<1>3. LoopTyped' /\ loop'.pc = "receive" /\ loop'.msg = None
  BY LoopStops
<1>4. StateTyped' /\ LoopOK' /\ PrepareOK'
  BY <1>2, <1>3 DEF StateTyped, RunsTyped, BusTyped, Later, LoopOK, PrepareOK, Fanning
<1>5. MessagesApart'
  <2>1. \A i \in 1..Len(bus) : bus[i] \in Messages /\ bus[i] # None
    BY SMT, MessageParts DEF StateTyped, BusTyped
  <2> QED
    BY <1>3, <2>1 DEF MessagesApart
<1>6. IdleStays /\ MessagesFresh'
  <2>1. IdleStays
    BY DEF IdleStays, Idle
  <2> QED
    BY <2>1, FreshKept
<1>7. ASSUME NEW k \in Keys PROVE TaskOK(k)'
  <2>1. TaskOK(k) /\ loop'.msg # Message(k) /\ runs'[k] = runs[k]
    BY <1>3, KeyParts, MessageParts
  <2>2. CASE m # Message(k)
    BY <1>2, <2>1, <2>2, TaskKept
  <2>3. CASE m = Message(k)
    <3>1. Matched(k[1])' = Matched(k[1])
      BY <1>2, MatchedKept, KeyParts DEF Later
    <3> QED
      BY <1>3, <2>1, <2>3, <3>1 DEF TaskOK, Idle, Rowless, Rowed, Acked, Message
  <2> QED
    BY <2>2, <2>3
<1>8. FanOutWhole'
  <2>1. \A e \in Webhook : event'[e].status = "published" =>
          event[e].status = "published" \/ \E c \in Claims : Whole(e, c)
    BY <1>1, <1>2, TargetsKnown, Zenon
  <2>2. ASSUME NEW k \in Keys, k[1] \in Webhook, task'[k] \in Starting
        PROVE  task[k] \in Starting \/ Whole(k[1], k[3])
    BY <2>2, KeyParts DEF Starting
  <2>3. RowsStay
    BY DEF RowsStay
  <2> QED
    BY <1>2, <2>1, <2>2, <2>3, WholeStep, Zenon
<1>9. ASSUME NEW e \in Events, NEW c \in Claims
      PROVE  /\ UnderWay(e, c)' => UnderWay(e, c) /\ <<e, c>> # m
             /\ <<e, c>> # m /\ UnderWay(e, c) => UnderWay(e, c)'
             /\ HasRun(e, c)' <=> HasRun(e, c)
  <2>1. <<e, c>> \in Messages /\ <<e, c>> # None
        /\ \A t \in Targets : <<e, t, c>> \in Keys /\ Message(<<e, t, c>>) = <<e, c>>
    BY SMT, KeyOf, NoneDistinct DEF Messages, Claims
  <2>2. offer' = offer /\ (InBus(<<e, c>>)' <=> InBus(<<e, c>>)) /\ runs' = runs
    BY DEF InBus
  <2>3. <<e, c>> # m /\ UnderWay(e, c) => UnderWay(e, c)'
    BY <2>1, <2>2, Zenon DEF UnderWay
  <2>4. ASSUME UnderWay(e, c)' PROVE UnderWay(e, c) /\ <<e, c>> # m
    <3>1. CASE offer = <<e, c>> \/ InBus(<<e, c>>)
      BY <2>1, <3>1 DEF UnderWay, MessagesApart, InBus
    <3>2. CASE \E t \in Targets : task'[<<e, t, c>>] \in Unacked
      <4>1. PICK t \in Targets : task'[<<e, t, c>>] \in Unacked
        BY <3>2
      <4>2. <<e, c>> # m
        BY <2>1, <4>1 DEF Unacked
      <4> QED
        BY <2>1, <4>1, <4>2, Zenon DEF UnderWay
    <3> QED
      BY <1>3, <2>1, <2>2, <2>4, <3>1, <3>2, Zenon DEF UnderWay
  <2> QED
    BY <2>2, <2>3, <2>4, Zenon DEF HasRun
<1>10. UnderWay(m[1], m[2])
  BY <1>1 DEF UnderWay
<1>11. faults' = 0 => faults = 0
  BY SMT, <1>2 DEF Later, CountTyped
<1>12. ClaimOwned'
  <2>1. ASSUME NEW e \in Events, NEW c \in Claims, e \in Webhook \/ faults' = 0, UnderWay(e, c)'
        PROVE  UnderWay(e, c) /\ (Owned(e, c) => Owned(e, c)')
    <3>1. UnderWay(e, c) /\ <<e, c>> # m
      BY <1>9, <2>1
    <3>2. e # m[1]
      BY SMT, <1>1, <1>10, <1>11, <2>1, <3>1 DEF ClaimOwned
    <3>3. event'[e] = event[e] /\ (e \in inFlight' <=> e \in inFlight) /\ offer' = offer
      BY <1>2, <3>2
    <3> QED
      BY <3>1, <3>3, Zenon DEF Owned
  <2> QED
    BY <1>2, <2>1, ClaimOwnedStep, Zenon
<1>13. RunsOfOneClaim'
  <2>1. ASSUME crashes' = 0, faults' = 0, NEW e \in Events, NEW c \in Claims
        PROVE  /\ UnderWay(e, c)' => UnderWay(e, c)
               /\ HasRun(e, c)' => HasRun(e, c) \/ UnderWay(e, c)
               /\ HasRun(e, c)' /\ event[e].status = "published" => event'[e].status = "published"
               /\ HasRun(e, c)' /\ UnderWay(e, c) => UnderWay(e, c)' \/ event'[e].status = "published"
    <3>1. (UnderWay(e, c)' => UnderWay(e, c)) /\ (HasRun(e, c)' <=> HasRun(e, c))
      BY <1>9
    <3>2. CASE e # m[1]
      <4>1. event'[e] = event[e] /\ <<e, c>> # m
        BY SMT, <1>1, <1>2, <3>2
      <4> QED
        BY <1>9, <3>1, <4>1
    <3>3. CASE e = m[1] /\ HasRun(e, c)
      <4>1. c = m[2] /\ HasRun(m[1], m[2])
        BY SMT, <1>1, <1>10, <1>11, <2>1, <3>3 DEF RunsOfOneClaim
      <4>2. status = "published"
        BY <2>1, <4>1
      <4>3. Owned(m[1], m[2])
        BY <1>1, <1>10, <1>11, <2>1 DEF ClaimOwned
      <4>4. event'[e].status = "published"
        BY <1>1, <1>2, <2>1, <3>3, <4>2, <4>3 DEF Owned
      <4> QED
        BY <3>1, <3>3, <4>4
    <3> QED
      BY <3>1, <3>2, <3>3
  <2> QED
    BY <1>2, <2>1, OneClaimStep, Zenon
<1> QED
  BY <1>4, <1>5, <1>6, <1>7, <1>8, <1>12, <1>13

(* NoSubscriberAck, Retry and Ack end the work on a message.               *)
LEMMA LoopFinishKeeps ==
    ASSUME DeliveryInv, ackNoSubscriber \/ retry \/ dispatchAck
    PROVE  DeliveryInv'
<1>1. EventTyped /\ CountTyped /\ TaskTyped /\ LoopTyped /\ LoopOK
  BY DEF DeliveryInv, Structure, StateTyped
<1>2. PICK m \in Messages : loop.msg = m
  BY <1>1, LoopHasMessage DEF ackNoSubscriber, retry, dispatchAck
<1>3. /\ m[1] \in Events /\ m[2] \in Claims
      /\ \A t \in Targets : <<m[1], t, m[2]>> \in Keys /\ Message(<<m[1], t, m[2]>>) = m
      /\ \A k \in Keys : Message(k) = m => k[1] = m[1] /\ k[3] = m[2] /\ k[2] \in Targets
  BY SMT, KeyParts, MessageParts
<1>4. \A k \in Keys : TaskOK(k)
  BY DEF DeliveryInv, Structure
<1>5. LoopEnds /\ UNCHANGED <<runs, batch, offer, bus, crashes>>
  BY DEF ackNoSubscriber, retry, dispatchAck
<1>6. CASE ackNoSubscriber
  <2>1. Callback(m, "noSubscriber", FALSE) /\ task' = task
    BY <1>2, <1>6 DEF ackNoSubscriber
  <2>2. ASSUME NEW k \in Keys, Message(k) = m PROVE Idle(k)
    <3>1. k[2] \notin Matched(k[1])
      <4>1. Matched(m[1]) = {}
        BY <1>1, <1>2, <1>6, Zenon DEF ackNoSubscriber, LoopOK
      <4>2. k[1] = m[1]
        BY <1>3, <2>2, Zenon
      <4> QED
        BY <4>1, <4>2, Zenon
    <3> QED
      BY <1>4, <3>1, Zenon DEF TaskOK
  <2>3. ~HasRun(m[1], m[2])
    BY <1>3, <2>2 DEF HasRun, Idle
  <2>4. TaskTyped' /\ "noSubscriber" \in EventStatus
    BY <1>1, <2>1 DEF TaskTyped, EventStatus
  <2>5. \A k \in Keys : task'[k] = task[k] /\ (Message(k) = m => task'[k] = "none")
    BY <2>1, <2>2 DEF Idle
  <2> QED
    BY <1>2, <1>5, <2>1, <2>3, <2>4, <2>5, FinishKeeps
<1>7. CASE retry
  <2>1. Callback(m, "retrying", TRUE) /\ task' = task /\ loop.pc = "retry" /\ m[1] \in Webhook
    BY <1>1, <1>2, <1>7 DEF retry, LoopOK, Fanning
  <2>2. ASSUME NEW k \in Keys, Message(k) = m
        PROVE  task[k] = "none" /\ (faults = 0 => runs[k] = "absent")
    <3>1. TaskOK(k) /\ k[1] \in Webhook /\ loop.msg = Message(k)
      BY <1>2, <1>3, <1>4, <2>1, <2>2, Zenon
    <3> QED
      BY <2>1, <3>1 DEF TaskOK, Expected, Idle
  <2>3. faults' = 0 => faults = 0
    <3>1. Succeeds \/ Fails
      BY <2>1, Zenon DEF Callback
    <3> QED
      BY SMT, <1>1, <3>1 DEF CountTyped, Succeeds, Fails
  <2>4. faults' = 0 => ~HasRun(m[1], m[2])
    BY <1>3, <2>2, <2>3 DEF HasRun
  <2>5. TaskTyped' /\ "retrying" \in EventStatus
    BY <1>1, <2>1 DEF TaskTyped, EventStatus
  <2>6. \A k \in Keys : task'[k] = task[k] /\ (Message(k) = m => task'[k] = "none")
    BY <2>1, <2>2
  <2> QED
    BY <1>2, <1>5, <2>1, <2>4, <2>5, <2>6, FinishKeeps
<1>8. CASE dispatchAck
  <2>1. Callback(m, "published", FALSE) /\ task' = Set(task, LoopKeys, "register") /\ loop.pc = "ack"
        /\ m[1] \in Webhook /\ "published" \in EventStatus
    BY <1>1, <1>2, <1>8 DEF dispatchAck, LoopOK, Fanning, EventStatus
  <2>2. TaskTyped' /\ \A k \in Keys : task'[k] = IF k \in LoopKeys THEN "register" ELSE task[k]
    BY <1>1, <2>1, TasksSet DEF TaskPC
  <2>3. \A k \in Keys : k \in LoopKeys <=> m = Message(k) /\ k[2] \in Matched(k[1])
    BY <1>1, <1>2, LoopKeysAre
  <2>4. ASSUME NEW k \in Keys, m = Message(k)
        PROVE  /\ k[2] \in Matched(k[1]) => runs[k] \notin {"absent", "skipped"}
               /\ k[2] \notin Matched(k[1]) => task[k] = "none"
    <3>1. TaskOK(k) /\ k[1] \in Webhook /\ loop.msg = Message(k)
      BY <1>2, <1>3, <1>4, <2>1, <2>4, Zenon
    <3> QED
      BY <2>1, <3>1 DEF TaskOK, Idle, Expected, Rowed
  <2>5. Whole(m[1], m[2])
    <3>1. Matched(m[1]) \subseteq Targets
      BY <1>1, <1>3, MatchedAreTargets
    <3>2. ASSUME NEW t \in Matched(m[1]) PROVE runs[<<m[1], t, m[2]>>] # "absent"
      BY <1>3, <2>4, <3>1
    <3> QED
      BY <3>2 DEF Whole
  <2>6. ASSUME NEW k \in Keys
        PROVE  /\ m # Message(k) => task'[k] = task[k]
               /\ m = Message(k) =>
                    /\ task'[k] \in {"none", "register"}
                    /\ k[2] \notin Matched(k[1]) => task'[k] = "none"
                    /\ task'[k] = "register" => runs[k] \notin {"absent", "skipped"}
    BY <2>2, <2>3, <2>4
  <2> QED
    BY <1>2, <1>5, <2>1, <2>2, <2>5, <2>6, FinishKeeps, Zenon
<1> QED
  BY <1>6, <1>7, <1>8

-----------------------------------------------------------------------------
(* A goroutine of dispatchTargets acknowledges the event.                  *)
LEMMA TriggerAckKeeps ==
    ASSUME DeliveryInv, NEW k \in Keys, runTriggerAck(k)
    PROVE  DeliveryInv'
<1> USE DEF DeliveryInv, Structure
<1>1. EventTyped /\ CountTyped /\ TaskTyped /\ LoopTyped /\ LoopOK /\ TaskOK(k)
  BY DEF StateTyped
<1>2. /\ task[k] = "ack" /\ k[1] \notin Webhook /\ runs[k] # "absent"
      /\ k[1] \in Events /\ k[3] \in Claims /\ Message(k) \in Messages
      /\ k = <<k[1], k[2], k[3]>> /\ k[2] \in Targets
      /\ Message(k)[1] = k[1] /\ Message(k)[2] = k[3]
  BY <1>1, WebhookTask, KeyParts DEF runTriggerAck, TaskOK, Rowed
<1>3. UNCHANGED <<runs, batch, offer, bus, loop, crashes>> /\ Callback(Message(k), "published", FALSE)
  BY DEF runTriggerAck
<1>4. /\ EventTyped' /\ Later
      /\ \A e \in Events : e # k[1] => event'[e] = event[e] /\ (e \in inFlight' <=> e \in inFlight)
      /\ event' = event \/ event'[k[1]].status = "published"
      /\ faults' = 0 /\ event[k[1]].claim = k[3] => event'[k[1]].status = "published"
  <2>1. "published" \in EventStatus
    BY DEF EventStatus
  <2> QED
    BY <1>1, <1>2, <1>3, <2>1, CallbackChanges
<1>5. /\ TaskTyped' /\ \A j \in Keys : j # k => task'[j] = task[j]
      /\ task'[k] = IF runs[k] = "skipped" THEN "none" ELSE "register"
  <2>1. (IF runs[k] = "skipped" THEN "none" ELSE "register") \in TaskPC
    BY DEF TaskPC
  <2> QED
    BY <1>1, <2>1, TaskMoves, Zenon DEF runTriggerAck, TaskGoes
<1>6. TaskOK(k)'
  BY <1>1, <1>2, <1>3, <1>4, <1>5, SpawnedTaskOK DEF Rowed, Acked
<1>7. ASSUME NEW j \in Keys, j # k PROVE TaskOK(j)'
  <2>1. TaskOK(j) /\ task'[j] = task[j] /\ runs'[j] = runs[j] /\ loop' = loop
    BY <1>3, <1>5, <1>7
  <2> QED
    BY <1>4, <2>1, TaskKept
<1>8. StateTyped' /\ LoopOK'
  BY <1>1, <1>3, <1>4, <1>5, LoopKept DEF StateTyped, RunsTyped, BusTyped, LoopTyped, Later
<1>9. MessagesApart' /\ MessagesFresh'
  <2>1. IdleStays
    BY <1>2, <1>3, <1>5, Zenon DEF IdleStays, Idle
  <2> QED
    BY <1>3, <2>1, FreshKept, Zenon DEF MessagesApart
<1>10. PrepareOK'
  <2>1. task'[k] \notin {"create", "stamp"}
    BY <1>5
  <2>2. loop.pc = "abort" => faults' > 0
    BY SMT, <1>4 DEF PrepareOK, Later, CountTyped
  <2> QED
    BY <1>3, <1>5, <2>1, <2>2, Zenon DEF PrepareOK, Preparing
<1>11. FanOutWhole'
  <2>1. \A e \in Webhook : event'[e] = event[e]
    BY <1>2, <1>4, TargetsKnown
  <2>2. \A j \in Keys : j[1] \in Webhook => task'[j] = task[j]
    BY <1>2, <1>5, Zenon
  <2> QED
    BY <1>3, <1>4, <2>1, <2>2, WholeStep, Zenon DEF RowsStay
<1>12. faults' = 0 => faults = 0
  BY SMT, <1>4 DEF Later, CountTyped
<1>13. ASSUME NEW e \in Events, NEW c \in Claims
       PROVE  /\ UnderWay(e, c)' => UnderWay(e, c)
              /\ e # k[1] /\ UnderWay(e, c) => UnderWay(e, c)'
              /\ HasRun(e, c)' <=> HasRun(e, c)
  <2>1. NoNewMessage /\ (InBus(<<e, c>>)' <=> InBus(<<e, c>>))
    BY <1>3, Zenon DEF NoNewMessage, InBus
  <2>2. \A j \in Keys : task'[j] \in Unacked => task[j] \in Unacked
    BY <1>2, <1>5 DEF Unacked
  <2>3. ASSUME NEW t \in Targets
        PROVE  <<e, t, c>> \in Keys /\ (e # k[1] => <<e, t, c>> # k)
    <3>1. <<e, t, c>> \in Keys /\ <<e, t, c>>[1] = e
      BY KeyOf
    <3> QED
      BY <3>1, Zenon
  <2> QED
    BY <1>3, <1>5, <2>1, <2>2, <2>3, WayKept, Zenon DEF UnderWay, HasRun
<1>14. UnderWay(k[1], k[3])
  BY <1>2, Zenon DEF UnderWay, Unacked
<1>15. faults' = 0 => event'[k[1]].status = "published"
  BY <1>2, <1>4, <1>12, <1>14 DEF ClaimOwned, Owned
<1>16. ClaimOwned'
  <2>1. ASSUME NEW e \in Events, NEW c \in Claims, e \in Webhook \/ faults' = 0, UnderWay(e, c)'
        PROVE  UnderWay(e, c) /\ (Owned(e, c) => Owned(e, c)')
    <3>1. CASE e = k[1]
      BY <1>2, <1>13, <1>15, <2>1, <3>1, Zenon DEF Owned
    <3>2. CASE e # k[1]
      <4>1. event'[e] = event[e] /\ (e \in inFlight' <=> e \in inFlight) /\ offer' = offer
        BY <1>3, <1>4, <3>2
      <4> QED
        BY <1>13, <2>1, <4>1, Zenon DEF Owned
    <3> QED
      BY <3>1, <3>2
  <2> QED
    BY <1>4, <2>1, ClaimOwnedStep, Zenon
<1>17. RunsOfOneClaim'
  <2>1. ASSUME faults' = 0, NEW e \in Events, NEW c \in Claims
        PROVE  /\ event[e].status = "published" => event'[e].status = "published"
               /\ UnderWay(e, c) => UnderWay(e, c)' \/ event'[e].status = "published"
    BY <1>4, <1>13, <1>15, <2>1, Zenon
  <2> QED
    BY <1>4, <1>13, <2>1, OneClaimStep, Zenon
<1> QED
  BY <1>6, <1>7, <1>8, <1>9, <1>10, <1>11, <1>16, <1>17, Zenon

(* A crash ends all that is under way.                                     *)
LEMMA CrashKeeps ==
    ASSUME DeliveryInv, Crash
    PROVE  DeliveryInv'
<1> USE DEF DeliveryInv, Structure
<1>1. EventTyped /\ CountTyped /\ RunsTyped
  BY DEF StateTyped
<1>2. /\ event' = event /\ batch' = {} /\ offer' = None /\ bus' = <<>> /\ LoopEnds
      /\ task' = [k \in Keys |-> "none"] /\ crashes' = crashes + 1 /\ (Succeeds \/ Fails)
  BY DEF Crash
<1>3. EventTyped' /\ Later /\ crashes' # 0
  <2>1. EventTyped' /\ TriggersKept
    BY <1>1, <1>2, EventUntouched
  <2> QED
    BY SMT, <1>1, <1>2, <2>1 DEF Later, CountTyped, Succeeds, Fails
<1>4. /\ RunsTyped'
      /\ \A k \in Keys : runs'[k] = runs[k] \/ (runs[k] = "running" /\ runs'[k] = "failed")
  <2>1. PICK left \in SUBSET Keys :
          runs' = [k \in Keys |-> IF runs[k] = "running" /\ k \notin left THEN "failed" ELSE runs[k]]
    BY DEF Crash
  <2>2. ASSUME NEW k \in Keys
        PROVE  /\ runs'[k] = runs[k] \/ (runs[k] = "running" /\ runs'[k] = "failed")
               /\ runs'[k] \in RunStatus
    BY <1>1, <2>1 DEF RunsTyped, RunStatus
  <2> QED
    BY <2>1, <2>2 DEF RunsTyped
<1>5. LoopTyped' /\ loop'.pc = "receive" /\ loop'.msg = None
  BY <1>2, LoopStops
<1>6. TaskTyped' /\ BusTyped' /\ \A k \in Keys : task'[k] = "none"
  BY SMT, <1>2 DEF TaskTyped, BusTyped, TaskPC
<1>7. StateTyped' /\ LoopOK' /\ PrepareOK'
  BY <1>3, <1>4, <1>5, <1>6 DEF StateTyped, Later, LoopOK, PrepareOK, Fanning
<1>8. \A m \in Messages : ~InBus(m)' /\ m # None
  BY SMT, <1>2, MessageParts DEF InBus
<1>9. MessagesApart' /\ MessagesFresh'
  <2>1. MessagesApart'
    BY SMT, <1>2 DEF MessagesApart
  <2> QED
    BY <1>2, <1>8, <2>1, KeyParts DEF MessagesFresh
<1>10. ASSUME NEW k \in Keys PROVE TaskOK(k)'
  <2>1. Matched(k[1])' = Matched(k[1]) /\ TaskOK(k) /\ loop'.msg # Message(k) /\ task'[k] = "none"
    BY <1>3, <1>5, <1>6, <1>8, MatchedKept, KeyParts DEF Later
  <2> QED
    BY <1>4, <1>5, <2>1 DEF TaskOK, Idle, Rowless, Rowed, Acked, Message
<1>11. FanOutWhole'
  BY <1>2, <1>3, <1>4, <1>6, WholeStep DEF RowsStay, Starting
<1>12. \A e \in Events, c \in Claims : ~UnderWay(e, c)'
  <2>1. "none" \notin Unacked
    BY DEF Unacked
  <2> QED
    BY <1>2, <1>5, <1>6, <1>8, <2>1, KeyOf DEF UnderWay, Messages
<1>13. ClaimOwned' /\ RunsOfOneClaim'
  BY <1>3, <1>12, Zenon DEF ClaimOwned, RunsOfOneClaim
<1> QED
  BY <1>7, <1>9, <1>10, <1>11, <1>13

(* The event loop takes a message from the bus.                            *)
LEMMA EventLoopTakes ==
    ASSUME StateTyped, EventLoop
    PROVE  /\ Len(bus) \in Nat \ {0} /\ 1 \in 1..Len(bus) /\ Len(bus') = Len(bus) - 1
           /\ \A i \in 1..Len(bus') : i + 1 \in 1..Len(bus) /\ bus'[i] = bus[i + 1]
           /\ bus[1] \in Messages /\ loop'.msg = bus[1] /\ loop'.left = Matched(bus[1][1])
           /\ loop'.pc = IF Matched(bus[1][1]) = {} THEN "noSubscriber"
                         ELSE IF bus[1][1] \in Webhook THEN "busy" ELSE "spawn"
           /\ LoopTyped' /\ BusTyped'
<1>1. BusTyped /\ EventTyped
  BY DEF StateTyped
<1>2. /\ bus \in Seq(Messages) /\ Len(bus) \in Nat \ {0} /\ Len(bus') = Len(bus) - 1
      /\ bus' \in Seq(Messages) /\ bus[1] \in Messages /\ Head(bus) = bus[1]
  BY SMT, <1>1 DEF BusTyped, EventLoop
<1>3. \A i \in 1..Len(bus') : i + 1 \in 1..Len(bus) /\ bus'[i] = bus[i + 1]
  BY SMT, <1>1, <1>2 DEF BusTyped, EventLoop
<1>4. BusTyped' /\ 1 \in 1..Len(bus)
  BY SMT, <1>1, <1>2 DEF BusTyped, EventLoop
<1>5. Matched(bus[1][1]) \subseteq Targets
  BY <1>1, <1>2, MessageParts, MatchedAreTargets
<1>6. /\ loop'.msg = bus[1] /\ loop'.left = Matched(bus[1][1])
      /\ loop'.pc = IF Matched(bus[1][1]) = {} THEN "noSubscriber"
                    ELSE IF bus[1][1] \in Webhook THEN "busy" ELSE "spawn"
      /\ loop' = [msg |-> loop'.msg, left |-> loop'.left, pc |-> loop'.pc]
  BY <1>2 DEF EventLoop
<1>7. LoopTyped'
  BY <1>2, <1>5, <1>6 DEF LoopTyped, LoopPC
<1> QED
  BY <1>2, <1>3, <1>4, <1>6, <1>7

(* The message the loop takes was untouched.                               *)
LEMMA EventLoopKeeps ==
    ASSUME DeliveryInv, EventLoop
    PROVE  DeliveryInv'
<1> USE DEF DeliveryInv, Structure
<1>1. /\ Len(bus) \in Nat \ {0} /\ 1 \in 1..Len(bus) /\ Len(bus') = Len(bus) - 1
      /\ \A i \in 1..Len(bus') : i + 1 \in 1..Len(bus) /\ bus'[i] = bus[i + 1]
      /\ bus[1] \in Messages /\ loop'.msg = bus[1] /\ loop'.left = Matched(bus[1][1])
      /\ loop'.pc = IF Matched(bus[1][1]) = {} THEN "noSubscriber"
                    ELSE IF bus[1][1] \in Webhook THEN "busy" ELSE "spawn"
      /\ LoopTyped' /\ BusTyped'
  BY EventLoopTakes
<1>2. UNCHANGED <<event, runs, task, offer, inFlight, crashes, faults>> /\ loop.pc = "receive"
  BY DEF EventLoop
<1>3. EventTyped' /\ Later /\ loop.msg = None /\ bus[1][1] \in Events /\ bus[1] # None
  BY <1>1, <1>2, EventUntouched, StoreCalled, MessageParts DEF StateTyped, LoopOK
<1>4. PICK h \in Events : h = bus[1][1] /\ Matched(h)' = Matched(h)
  BY <1>3, MatchedKept DEF Later
<1>5. StateTyped' /\ LoopOK' /\ PrepareOK'
  <2>1. StateTyped'
    BY <1>1, <1>2, <1>3 DEF StateTyped, RunsTyped, TaskTyped, Later
  <2>2. LoopOK'
    BY <1>1, <1>3, <1>4 DEF LoopOK, Fanning
  <2> QED
    BY <1>1, <2>1, <2>2 DEF PrepareOK
<1>6. ASSUME NEW m \in Messages
      PROVE  /\ InBus(m)' => InBus(m) /\ m # bus[1]
             /\ InBus(m) => InBus(m)' \/ m = bus[1]
  <2>1. ASSUME InBus(m)' PROVE InBus(m) /\ m # bus[1]
    <3>1. PICK i \in 1..Len(bus') : bus'[i] = m
      BY <2>1 DEF InBus
    <3>2. i + 1 \in 1..Len(bus) /\ bus[i + 1] = m /\ i + 1 # 1
      BY SMT, <1>1, <3>1
    <3> QED
      BY <1>1, <3>2 DEF InBus, MessagesApart
  <2>2. ASSUME InBus(m), m # bus[1] PROVE InBus(m)'
    <3>1. PICK i \in 1..Len(bus) : bus[i] = m
      BY <2>2 DEF InBus
    <3>2. i - 1 \in 1..Len(bus') /\ (i - 1) + 1 = i
      BY SMT, <1>1, <2>2, <3>1
    <3>3. bus'[i - 1] = m
      BY <1>1, <3>1, <3>2
    <3> QED
      BY <3>2, <3>3 DEF InBus
  <2> QED
    BY <2>1, <2>2
<1>7. MessagesApart'
  <2>1. ASSUME NEW i \in 1..Len(bus'), NEW j \in 1..Len(bus'), bus'[i] = bus'[j] PROVE i = j
    <3>1. i + 1 \in 1..Len(bus) /\ j + 1 \in 1..Len(bus) /\ bus[i + 1] = bus[j + 1]
      BY <1>1, <2>1
    <3>2. i + 1 = j + 1
      BY <3>1 DEF MessagesApart
    <3> QED
      BY SMT, <1>1, <3>2
  <2>2. ASSUME NEW i \in 1..Len(bus') PROVE bus'[i] # offer /\ bus'[i] # bus[1]
    <3>1. i + 1 \in 1..Len(bus) /\ bus'[i] = bus[i + 1] /\ i + 1 # 1
      BY SMT, <1>1
    <3> QED
      BY <1>1, <3>1 DEF MessagesApart
  <2>3. bus[1] # offer
    BY <1>1 DEF MessagesApart
  <2> QED
    BY <1>1, <1>2, <2>1, <2>2, <2>3 DEF MessagesApart
<1>8. MessagesFresh'
  <2>1. ASSUME NEW k \in Keys, (offer = Message(k) \/ InBus(Message(k)))' PROVE Idle(k)'
    <3>1. offer = Message(k) \/ InBus(Message(k))
      BY <1>2, <1>6, <2>1, KeyParts DEF Message
    <3> QED
      BY <1>2, <3>1, Zenon DEF MessagesFresh, Idle
  <2> QED
    BY <2>1 DEF MessagesFresh
<1>9. ASSUME NEW k \in Keys PROVE TaskOK(k)'
  <2>1. TaskOK(k) /\ task'[k] = task[k] /\ runs'[k] = runs[k] /\ loop.msg # Message(k)
    BY <1>2, <1>3, KeyParts, MessageParts
  <2>2. CASE bus[1] # Message(k)
    BY <1>1, <1>3, <2>1, <2>2, TaskKept
  <2>3. CASE bus[1] = Message(k)
    <3>1. Idle(k) /\ bus[1][1] = k[1] /\ k[2] \in Targets
      BY SMT, <1>1, <2>3, KeyParts DEF MessagesFresh, InBus
    <3>2. Idle(k)' /\ loop'.pc \in {"noSubscriber", "busy", "spawn"}
      BY <1>1, <1>2, <3>1, Zenon DEF Idle
    <3>3. k[1] \in Webhook => loop'.pc \in {"noSubscriber", "busy"}
      BY <1>1, <3>1
    <3> QED
      BY <3>2, <3>3 DEF TaskOK, Idle, Expected, Rowed, Rowless, Acked
  <2> QED
    BY <2>2, <2>3
<1>10. FanOutWhole'
  BY <1>2, <1>3, WholeStep, Zenon DEF RowsStay
<1>11. ASSUME NEW e \in Events, NEW c \in Claims
       PROVE  /\ UnderWay(e, c)' <=> UnderWay(e, c)
              /\ HasRun(e, c)' <=> HasRun(e, c)
              /\ Owned(e, c)' <=> Owned(e, c)
  <2>1. <<e, c>> \in Messages /\ <<e, c>> # None
    BY MessageParts DEF Messages
  <2>2. bus[1] = <<e, c>> => InBus(<<e, c>>)
    BY <1>1 DEF InBus
  <2>3. InBus(<<e, c>>)' \/ loop'.msg = <<e, c>> <=> InBus(<<e, c>>)
    BY <1>1, <1>6, <2>1, <2>2, Zenon
  <2>4. loop.msg # <<e, c>>
    BY <1>3, <2>1
  <2> QED
    BY <1>2, <2>3, <2>4, Zenon DEF UnderWay, HasRun, Owned
<1>12. ClaimOwned' /\ RunsOfOneClaim'
  <2>1. ClaimOwned'
    BY <1>3, <1>11, ClaimOwnedStep, Zenon
  <2>2. event' = event
    BY <1>2
  <2> QED
    BY <1>3, <1>11, <2>1, <2>2, OneClaimStep, Zenon
<1> QED
  BY <1>5, <1>7, <1>8, <1>9, <1>10, <1>12

(* dispatchTargets starts the goroutine of a target.                       *)
MinExists == \A S \in SUBSET Nat : S # {} => Min(S) \in S

(* The goroutine it starts takes over the claim.                           *)
LEMMA SpawnKeeps ==
    ASSUME DeliveryInv, MinExists, dispatchTargets
    PROVE  DeliveryInv'
<1> USE DEF DeliveryInv, Structure
<1>1. EventTyped /\ CountTyped /\ TaskTyped /\ LoopTyped /\ LoopOK
  BY DEF StateTyped
<1>2. PICK m \in Messages : loop.msg = m
  BY <1>1, LoopHasMessage DEF dispatchTargets
<1> DEFINE t == Min(loop.left)
           k == <<m[1], t, m[2]>>
<1>3. /\ loop.pc = "spawn" /\ m[1] \notin Webhook /\ loop.left # {}
      /\ loop.left \subseteq Matched(m[1]) /\ m[1] \in Events /\ m[2] \in Claims /\ m = <<m[1], m[2]>>
  BY <1>1, <1>2, MessageParts DEF dispatchTargets, LoopOK
<1>4. t \in loop.left
  <2>1. loop.left \in SUBSET Nat
    BY <1>1, EventsNumbered DEF LoopTyped
  <2> QED
    BY <1>3, <2>1 DEF MinExists
<1>5. /\ UNCHANGED <<event, runs, batch, offer, bus, inFlight, crashes>> /\ (Succeeds \/ Fails)
      /\ task' = [task EXCEPT ![k] = "start"]
      /\ LoopEnds \/ loop' = [loop EXCEPT !.left = @ \ {t}]
      /\ loop.left # {t} => loop' = [loop EXCEPT !.left = @ \ {t}]
      /\ loop.left = {t} => LoopEnds
  BY <1>2, Zenon DEF dispatchTargets
<1> HIDE DEF t
<1>6. t \in Targets /\ k \in Keys /\ Message(k) = m /\ k[1] = m[1] /\ k[2] = t
  <2>1. t \in Targets
    BY <1>1, <1>4 DEF LoopTyped
  <2> QED
    BY SMT, <1>3, <2>1, KeyOf
<1> HIDE DEF k
<1>7. /\ TaskTyped' /\ task'[k] = "start" /\ \A j \in Keys : j # k => task'[j] = task[j]
  BY <1>1, <1>5, <1>6, TaskMoves DEF TaskPC
<1>8. EventTyped' /\ Later
  BY <1>1, <1>5, EventUntouched, StoreCalled
<1>9. /\ LoopTyped' /\ loop'.left \subseteq loop.left /\ t \notin loop'.left
      /\ \/ loop'.pc = "receive" /\ loop'.msg = None
         \/ loop'.pc = "spawn" /\ loop'.msg = m /\ loop'.left # {}
  <2>1. CASE loop.left = {t}
    BY SMT, <1>5, <2>1 DEF LoopEnds, LoopTyped, LoopPC
  <2>2. CASE loop.left # {t}
    BY SMT, <1>1, <1>2, <1>3, <1>4, <1>5, <2>2 DEF LoopTyped
  <2> QED
    BY <2>1, <2>2
<1>10. StateTyped' /\ LoopOK' /\ PrepareOK'
  <2>1. Matched(m[1])' = Matched(m[1])
    BY <1>3, <1>8, MatchedKept DEF Later
  <2>2. StateTyped'
    BY <1>5, <1>7, <1>8, <1>9 DEF StateTyped, RunsTyped, BusTyped, Later
  <2>3. LoopOK'
    BY <1>3, <1>9, <2>1, MessageParts DEF LoopOK, Fanning
  <2> QED
    BY <1>9, <2>2, <2>3 DEF PrepareOK
<1>11. MessagesApart' /\ MessagesFresh'
  <2>1. \A i \in 1..Len(bus) : bus[i] \in Messages /\ bus[i] # None
    BY SMT, MessageParts DEF StateTyped, BusTyped
  <2>2. MessagesApart'
    BY <1>2, <1>5, <1>9, <2>1 DEF MessagesApart
  <2>3. IdleStays
    BY <1>2, <1>5, <1>6, <1>7, Zenon DEF IdleStays, Idle
  <2> QED
    BY <1>5, <2>2, <2>3, FreshKept
<1>12. ASSUME NEW j \in Keys PROVE TaskOK(j)'
  <2>1. TaskOK(j) /\ runs'[j] = runs[j] /\ Message(j) # None
    BY <1>5, KeyParts, MessageParts
  <2>2. CASE Message(j) # m
    BY <1>2, <1>6, <1>7, <1>8, <1>9, <2>1, <2>2, TaskKept
  <2>3. CASE Message(j) = m
    <3>1. Matched(j[1])' = Matched(j[1]) /\ j[1] = m[1] /\ j = <<m[1], j[2], m[2]>>
      BY <1>8, <2>3, MatchedKept, KeyParts DEF Later
    <3>2. CASE j = k
      <4>1. Idle(j) /\ j[2] \in Matched(j[1])
        BY <1>2, <1>3, <1>4, <1>6, <2>1, <2>3, <3>1, <3>2 DEF TaskOK
      <4> QED
        BY <1>3, <1>6, <1>7, <1>9, <2>1, <3>1, <3>2, <4>1 DEF TaskOK, Idle, Rowless, Rowed, Acked
    <3>3. CASE j # k
      <4>1. task'[j] = task[j]
        BY <1>7, <3>3
      <4> QED
        BY <1>2, <1>3, <1>9, <2>1, <2>3, <3>1, <4>1 DEF TaskOK, Idle, Message
    <3> QED
      BY <3>2, <3>3
  <2> QED
    BY <2>2, <2>3
<1>13. FanOutWhole'
  <2>1. \A j \in Keys : j[1] \in Webhook => task'[j] = task[j]
    BY <1>3, <1>6, <1>7, Zenon
  <2> QED
    BY <1>5, <1>8, <2>1, WholeStep, Zenon DEF RowsStay
<1>14. ASSUME NEW e \in Events, NEW c \in Claims
       PROVE  /\ UnderWay(e, c)' <=> UnderWay(e, c)
              /\ HasRun(e, c)' <=> HasRun(e, c)
              /\ Owned(e, c)' <=> Owned(e, c)
  <2>1. <<e, c>> \in Messages /\ <<e, c>> # None
    BY MessageParts DEF Messages
  <2>2. NoNewMessage
    BY <1>2, <1>5, <1>9, MessageParts DEF NoNewMessage, InBus
  <2>3. "start" \in Unacked
    BY DEF Unacked
  <2>4. UnderWay(e, c)' => UnderWay(e, c)
    BY <1>2, <1>6, <1>7, <2>2, WayKept, Zenon
  <2>5. ASSUME NEW u \in Targets, task[<<e, u, c>>] \in Unacked PROVE task'[<<e, u, c>>] \in Unacked
    BY <1>7, <2>3, <2>5, KeyOf
  <2>6. ASSUME UnderWay(e, c) PROVE UnderWay(e, c)'
    <3>1. CASE loop.msg = <<e, c>>
      <4>1. k = <<e, t, c>>
        BY SMT, <1>2, <1>3, <3>1 DEF k
      <4> QED
        BY <1>6, <1>7, <2>3, <4>1, Zenon DEF UnderWay
    <3>2. CASE loop.msg # <<e, c>>
      BY <1>5, <2>5, <2>6, <3>2, Zenon DEF UnderWay, InBus
    <3> QED
      BY <3>1, <3>2
  <2> QED
    BY <1>5, <2>4, <2>6, Zenon DEF HasRun, Owned
<1>15. ClaimOwned' /\ RunsOfOneClaim'
  <2>1. ClaimOwned'
    BY <1>8, <1>14, ClaimOwnedStep, Zenon
  <2>2. event' = event
    BY <1>5
  <2> QED
    BY <1>8, <1>14, <2>1, <2>2, OneClaimStep, Zenon
<1> QED
  BY <1>10, <1>11, <1>12, <1>13, <1>15

-----------------------------------------------------------------------------
(* The dispatcher claims an event: nothing names the claim yet.            *)
Claimed(e, c) ==
    /\ e \notin inFlight /\ offer = None /\ c \in FreshClaims(e)
    /\ event[e].status \in {"pending", "retrying", "publishing"}
    /\ event' = [event EXCEPT ![e] = [@ EXCEPT !.status = "publishing", !.claim = c,
                                               !.leased = TRUE, !.waiting = FALSE]]
    /\ offer' = <<e, c>>

(* What ClaimEvent writes.                                                 *)
LEMMA ClaimedRow ==
    ASSUME EventTyped, NEW e \in Events, NEW c \in Claims, Claimed(e, c)
    PROVE  /\ EventTyped' /\ TriggersKept
           /\ event'[e].status = "publishing" /\ event'[e].claim = c
           /\ \A d \in Events : d # e => event'[d] = event[d]
<1>1. event[e] \in RowType
  BY DEF EventTyped
<1>2. c \in 0..MaxClaims
  BY SMT, BoundsNatural DEF Claims
<1> DEFINE r == [event[e] EXCEPT !.status = "publishing", !.claim = c, !.leased = TRUE,
                                 !.waiting = FALSE]
<1>3. r \in RowType /\ r.targets = event[e].targets /\ r.status = "publishing" /\ r.claim = c
  BY <1>1, <1>2 DEF RowType, EventStatus
<1>4. event' = [event EXCEPT ![e] = r]
  BY DEF Claimed
<1> HIDE DEF r
<1> QED
  BY <1>1, <1>3, <1>4 DEF EventTyped, TriggersKept

(* An event that is neither in flight nor published has no claim under     *)
(* way, so the new one is alone.                                           *)
LEMMA ClaimedKeeps ==
    ASSUME DeliveryInv, NEW e \in Events, NEW c \in Claims, Claimed(e, c), batch' \subseteq Events,
           UNCHANGED <<runs, inFlight, bus, loop, task, crashes, faults>>
    PROVE  DeliveryInv'
<1> USE DEF DeliveryInv, Structure
<1>1. /\ EventTyped' /\ Later /\ offer = None /\ offer' = <<e, c>> /\ <<e, c>> \in Messages
      /\ event'[e].status = "publishing" /\ event'[e].claim = c
      /\ \A d \in Events : d # e => event'[d] = event[d]
  BY ClaimedRow, StoreCalled DEF StateTyped, Claimed, Messages
<1>2. /\ e \notin inFlight /\ loop.msg # <<e, c>> /\ ~InBus(<<e, c>>)
      /\ event[e].status # "published"
      /\ \A t \in Targets : runs[<<e, t, c>>] = "absent" /\ task[<<e, t, c>>] = "none"
  <2>1. DOMAIN bus = 1..Len(bus)
    BY SMT DEF StateTyped, BusTyped
  <2> QED
    BY <2>1 DEF Claimed, FreshClaims, InBus
<1>3. StateTyped' /\ LoopOK' /\ PrepareOK'
  <2>1. StateTyped'
    BY <1>1 DEF StateTyped, RunsTyped, TaskTyped, LoopTyped, BusTyped, Later
  <2>2. LoopOK'
    BY <1>1, LoopKept DEF StateTyped
  <2> QED
    BY <2>1, <2>2, Zenon DEF PrepareOK, Preparing
<1>4. MessagesApart'
  BY <1>1, <1>2 DEF MessagesApart, InBus
<1>5. MessagesFresh'
  <2>1. ASSUME NEW k \in Keys, (offer = Message(k) \/ InBus(Message(k)))' PROVE Idle(k)
    <3>1. CASE Message(k) = <<e, c>>
      <4>1. k = <<e, k[2], c>> /\ k[2] \in Targets
        BY SMT, <3>1, KeyParts
      <4> QED
        BY <1>2, <4>1, Zenon DEF Idle
    <3>2. CASE Message(k) # <<e, c>>
      BY <1>1, <2>1, <3>2, Zenon DEF MessagesFresh, InBus, Message
    <3> QED
      BY <3>1, <3>2
  <2> QED
    BY <2>1, Zenon DEF MessagesFresh, Idle
<1>6. \A k \in Keys : TaskOK(k)'
  <2>1. ASSUME NEW k \in Keys PROVE TaskOK(k)'
    <3>1. TaskOK(k) /\ task'[k] = task[k] /\ runs'[k] = runs[k]
      OBVIOUS
    <3> QED
      BY <1>1, <3>1, TaskKept
  <2> QED
    BY <2>1
<1>7. FanOutWhole'
  <2>1. \A d \in Webhook : event'[d].status = "published" => event[d].status = "published"
    BY <1>1, TargetsKnown
  <2> QED
    BY <1>1, <2>1, WholeStep, Zenon DEF RowsStay
<1>8. ASSUME NEW a \in Events, NEW b \in Claims
      PROVE  /\ UnderWay(a, b)' <=> UnderWay(a, b) \/ (a = e /\ b = c)
             /\ HasRun(a, b)' <=> HasRun(a, b)
             /\ a # e /\ Owned(a, b) => Owned(a, b)'
  <2>1. <<a, b>> \in Messages /\ <<a, b>> # None /\ (<<a, b>> = <<e, c>> <=> a = e /\ b = c)
    BY KeyOf, MessageParts DEF Messages
  <2>2. UnderWay(a, b)' <=> UnderWay(a, b) \/ (a = e /\ b = c)
    BY <1>1, <2>1, Zenon DEF UnderWay, InBus
  <2>3. a # e => event'[a] = event[a]
    BY <1>1
  <2> QED
    BY <1>1, <2>1, <2>2, <2>3, Zenon DEF HasRun, Owned
<1>9. ASSUME NEW b \in Claims, e \in Webhook \/ faults = 0 PROVE ~UnderWay(e, b)
  <2>1. <<e, b>> # None
    BY MessageParts DEF Messages
  <2> QED
    BY <1>1, <1>2, <1>9, <2>1, Zenon DEF ClaimOwned, Owned
<1>10. ClaimOwned'
  <2>1. ASSUME NEW a \in Events, a \in Webhook \/ faults' = 0, NEW b \in Claims, UnderWay(a, b)'
        PROVE  Owned(a, b)' /\ \A d \in Claims : UnderWay(a, d)' => d = b
    <3>1. CASE a = e
      <4>1. b = c /\ \A d \in Claims : UnderWay(a, d)' => d = c
        BY <1>8, <1>9, <2>1, <3>1, Zenon
      <4> QED
        BY <1>1, <3>1, <4>1, Zenon DEF Owned
    <3>2. CASE a # e
      BY <1>8, <2>1, <3>2, Zenon DEF ClaimOwned
    <3> QED
      BY <3>1, <3>2
  <2> QED
    BY <2>1, Zenon DEF ClaimOwned
<1>11. RunsOfOneClaim'
  <2>1. ASSUME crashes = 0, faults = 0, NEW a \in Events, NEW b \in Claims, HasRun(a, b)
        PROVE  /\ event'[a].status = "published" \/ UnderWay(a, b)'
               /\ \A d \in Claims : HasRun(a, d)' \/ UnderWay(a, d)' => d = b
    <3>1. a # e
      BY <1>2, <1>9, <2>1, Zenon DEF RunsOfOneClaim
    <3>2. event'[a] = event[a]
      BY <1>1, <3>1
    <3> QED
      BY <1>8, <2>1, <3>1, <3>2, Zenon DEF RunsOfOneClaim
  <2> QED
    BY <1>8, <2>1, Zenon DEF RunsOfOneClaim
<1> QED
  BY <1>3, <1>4, <1>5, <1>6, <1>7, <1>10, <1>11

(* DispatchOnce lists and claims.                                          *)
LEMMA DispatcherKeeps ==
    ASSUME DeliveryInv, MinExists, DispatchList \/ DispatchClaim
    PROVE  DeliveryInv'
<1>1. CASE DispatchList
  <2>1. batch' \subseteq Events
    BY <1>1 DEF DispatchList
  <2>2. /\ crashes' = crashes /\ faults' = faults
        /\ UNCHANGED <<event, runs, task, loop, offer, bus, inFlight>>
    BY <1>1, Zenon DEF DispatchList
  <2> QED
    BY <2>1, <2>2, NothingMoves
<1>2. CASE DispatchClaim
  <2> DEFINE e == Min(batch)
             c == Min(FreshClaims(e))
  <2>1. batch \subseteq Events /\ batch # {} /\ batch \in SUBSET Nat
    BY <1>2, EventsNumbered DEF DispatchClaim, DeliveryInv, Structure, StateTyped, BusTyped
  <2>2. e \in Events
    BY <2>1 DEF MinExists
  <2>3. FreshClaims(e) \in SUBSET Nat /\ FreshClaims(e) \subseteq Claims
    BY SMT, BoundsNatural DEF FreshClaims, Claims
  <2>4. FreshClaims(e) # {} => c \in FreshClaims(e)
    BY <2>3, Zenon DEF MinExists
  <2>5. /\ UNCHANGED <<runs, inFlight, bus, loop, task, crashes>> /\ batch' = batch \ {e}
        /\ \/ (Succeeds \/ Fails) /\ UNCHANGED <<event, offer>>
           \/ Claimed(e, c) /\ c \in FreshClaims(e) /\ Succeeds
    BY <1>2, <2>4, Zenon DEF DispatchClaim, Claimed, Dispatchable, isInFlight
  <2> HIDE DEF c, e
  <2>6. batch' \subseteq Events
    BY <2>1, <2>5
  <2>7. CASE (Succeeds \/ Fails) /\ UNCHANGED <<event, offer>>
    BY <2>5, <2>6, <2>7, NothingMoves, Zenon
  <2>8. CASE Claimed(e, c) /\ c \in FreshClaims(e) /\ Succeeds
    <3>1. c \in Claims /\ faults' = faults
      BY <2>3, <2>8 DEF Succeeds
    <3> QED
      BY <2>2, <2>5, <2>6, <2>8, <3>1, ClaimedKeeps, Zenon
  <2> QED
    BY <2>5, <2>7, <2>8
<1> QED
  BY <1>1, <1>2

(* The claim is given back, or the event is dead.                          *)
LEMMA OfferEndsKeeps ==
    ASSUME DeliveryInv, NEW m \in Messages, offer = m, offer' = None, EventTyped', Later,
           \A e \in Events : e # m[1] => event'[e] = event[e] /\ (e \in inFlight' <=> e \in inFlight),
           \A e \in Events : event'[e].status = "published" => event[e].status = "published",
           batch' \subseteq Events, UNCHANGED <<runs, bus, loop, task, crashes>>
    PROVE  DeliveryInv'
<1> USE DEF DeliveryInv, Structure
<1>1. m[1] \in Events /\ m[2] \in Claims /\ m = <<m[1], m[2]>> /\ m # None
  BY MessageParts
<1>2. StateTyped' /\ LoopOK' /\ PrepareOK'
  <2>1. StateTyped'
    BY DEF StateTyped, RunsTyped, TaskTyped, LoopTyped, BusTyped, Later
  <2>2. LoopOK'
    BY LoopKept DEF StateTyped
  <2>3. loop.pc = "abort" => faults' > 0
    BY SMT DEF PrepareOK, Later, CountTyped
  <2> QED
    BY <2>1, <2>2, <2>3, Zenon DEF PrepareOK, Preparing
<1>3. MessagesApart' /\ MessagesFresh'
  <2>1. \A i \in 1..Len(bus) : bus[i] \in Messages /\ bus[i] # None
    BY SMT, MessageParts DEF StateTyped, BusTyped
  <2>2. \A k \in Keys : Message(k) # None
    BY KeyParts, MessageParts
  <2>3. MessagesApart'
    BY <2>1 DEF MessagesApart
  <2> QED
    BY <2>2, <2>3, Zenon DEF MessagesFresh, Idle, InBus, Message
<1>4. \A k \in Keys : TaskOK(k)'
  <2>1. ASSUME NEW k \in Keys PROVE TaskOK(k)'
    <3>1. TaskOK(k) /\ task'[k] = task[k] /\ runs'[k] = runs[k]
      OBVIOUS
    <3> QED
      BY <3>1, TaskKept
  <2> QED
    BY <2>1
<1>5. FanOutWhole'
  <2>1. \A d \in Webhook : event'[d].status = "published" => event[d].status = "published"
    BY TargetsKnown
  <2> QED
    BY <2>1, WholeStep, Zenon DEF RowsStay
<1>6. ASSUME NEW e \in Events, NEW c \in Claims
      PROVE  /\ UnderWay(e, c)' <=> UnderWay(e, c) /\ <<e, c>> # m
             /\ HasRun(e, c)' <=> HasRun(e, c)
             /\ <<e, c>> = m => ~HasRun(e, c)
  <2>1. /\ <<e, c>> \in Messages /\ <<e, c>> # None
        /\ \A t \in Targets : <<e, t, c>> \in Keys /\ Message(<<e, t, c>>) = <<e, c>>
    BY SMT, KeyOf, NoneDistinct DEF Messages, Claims
  <2>2. <<e, c>> = m => \A t \in Targets : Idle(<<e, t, c>>)
    BY <2>1, Zenon DEF MessagesFresh
  <2>3. <<e, c>> = m => loop.msg # <<e, c>> /\ ~InBus(<<e, c>>)
    BY <1>1 DEF MessagesApart, InBus
  <2>4. "none" \notin Unacked
    BY DEF Unacked
  <2> QED
    BY <1>1, <2>1, <2>2, <2>3, <2>4, Zenon DEF UnderWay, HasRun, Idle, InBus
<1>7. UnderWay(m[1], m[2])
  BY <1>1, Zenon DEF UnderWay
<1>8. faults' = 0 => faults = 0
  BY SMT DEF Later, CountTyped
<1>9. ClaimOwned'
  <2>1. ASSUME NEW e \in Events, NEW c \in Claims, e \in Webhook \/ faults' = 0, UnderWay(e, c)'
        PROVE  UnderWay(e, c) /\ (Owned(e, c) => Owned(e, c)')
    <3>1. UnderWay(e, c) /\ <<e, c>> # m
      BY <1>6, <2>1
    <3>2. e # m[1]
      BY <1>1, <1>7, <1>8, <2>1, <3>1 DEF ClaimOwned
    <3> QED
      BY <3>1, <3>2, Zenon DEF Owned
  <2> QED
    BY <2>1, ClaimOwnedStep, Zenon
<1>10. RunsOfOneClaim'
  <2>1. ASSUME crashes' = 0, faults' = 0, NEW e \in Events, NEW c \in Claims, HasRun(e, c)'
        PROVE  /\ event'[e].status = "published" \/ UnderWay(e, c)'
               /\ \A d \in Claims : HasRun(e, d)' \/ UnderWay(e, d)' => d = c
    <3>1. crashes = 0 /\ faults = 0 /\ HasRun(e, c) /\ <<e, c>> # m
      BY <1>6, <1>8, <2>1, Zenon
    <3>2. e # m[1]
      BY <1>1, <1>7, <3>1, Zenon DEF RunsOfOneClaim
    <3> QED
      BY <1>6, <3>1, <3>2, Zenon DEF RunsOfOneClaim
  <2> QED
    BY <2>1, Zenon DEF RunsOfOneClaim
<1> QED
  BY <1>2, <1>3, <1>4, <1>5, <1>9, <1>10

(* The bus takes the claimed event.                                        *)
LEMMA BusTakesKeeps ==
    ASSUME DeliveryInv, NEW m \in Messages, offer = m, offer' = None, bus' = Append(bus, m),
           inFlight' = inFlight \cup {m[1]},
           UNCHANGED <<event, batch, runs, loop, task, crashes, faults>>
    PROVE  DeliveryInv'
<1> USE DEF DeliveryInv, Structure
<1>1. m[1] \in Events /\ m[2] \in Claims /\ m = <<m[1], m[2]>> /\ m # None
  BY MessageParts
<1>2. EventTyped' /\ Later /\ bus \in Seq(Messages)
  BY EventUntouched, StoreCalled DEF StateTyped, BusTyped
<1>3. /\ Len(bus) \in Nat /\ Len(bus') = Len(bus) + 1 /\ bus' \in Seq(Messages)
      /\ bus'[Len(bus) + 1] = m /\ \A i \in 1..Len(bus) : bus'[i] = bus[i]
  BY SMT, <1>2
<1>4. StateTyped' /\ LoopOK' /\ PrepareOK'
  <2>1. StateTyped'
    BY <1>2, <1>3 DEF StateTyped, RunsTyped, TaskTyped, LoopTyped, BusTyped, Later
  <2>2. LoopOK'
    BY <1>2, LoopKept DEF StateTyped
  <2> QED
    BY <2>1, <2>2, Zenon DEF PrepareOK, Preparing
<1>5. \A i \in 1..Len(bus') : i = Len(bus) + 1 \/ i \in 1..Len(bus)
  BY SMT, <1>3
<1>6. \A a \in Messages : InBus(a)' <=> InBus(a) \/ a = m
  <2>1. Len(bus) + 1 \in 1..Len(bus') /\ 1..Len(bus) \subseteq 1..Len(bus')
    BY SMT, <1>3
  <2> QED
    BY <1>3, <1>5, <2>1, Zenon DEF InBus
<1>7. MessagesApart' /\ MessagesFresh'
  <2>1. MessagesApart'
    <3>1. \A i \in 1..Len(bus) : bus[i] # m /\ bus[i] \in Messages /\ bus[i] # None
      BY SMT, <1>2, MessageParts DEF MessagesApart
    <3>2. \A i \in 1..Len(bus') : bus'[i] # None /\ bus'[i] # loop.msg
      BY <1>1, <1>3, <1>5, <3>1, Zenon DEF MessagesApart
    <3>3. ASSUME NEW i \in 1..Len(bus'), NEW j \in 1..Len(bus'), bus'[i] = bus'[j] PROVE i = j
      BY <1>3, <1>5, <3>1, <3>3, Zenon DEF MessagesApart
    <3> QED
      BY <3>2, <3>3, Zenon DEF MessagesApart
  <2>2. \A k \in Keys : Message(k) \in Messages /\ Message(k) # None
    BY KeyParts, MessageParts
  <2> QED
    BY <1>6, <2>1, <2>2, Zenon DEF MessagesFresh, Idle, Message
<1>8. \A k \in Keys : TaskOK(k)'
  <2>1. ASSUME NEW k \in Keys PROVE TaskOK(k)'
    <3>1. TaskOK(k) /\ task'[k] = task[k] /\ runs'[k] = runs[k]
      OBVIOUS
    <3> QED
      BY <1>2, <3>1, TaskKept
  <2> QED
    BY <2>1
<1>9. FanOutWhole'
  BY <1>2, WholeStep, Zenon DEF RowsStay
<1>10. ASSUME NEW e \in Events, NEW c \in Claims
       PROVE  /\ UnderWay(e, c)' <=> UnderWay(e, c)
              /\ HasRun(e, c)' <=> HasRun(e, c)
              /\ Owned(e, c) => Owned(e, c)'
  <2>1. <<e, c>> \in Messages /\ <<e, c>> # None /\ (<<e, c>> = m => e = m[1])
    BY SMT, <1>1, KeyOf, NoneDistinct DEF Messages, Claims
  <2>2. UnderWay(e, c)' <=> UnderWay(e, c)
    BY <1>6, <2>1, Zenon DEF UnderWay
  <2>3. Owned(e, c) => Owned(e, c)'
    BY <2>1, Zenon DEF Owned
  <2> QED
    BY <2>2, <2>3, Zenon DEF HasRun
<1>11. ClaimOwned' /\ RunsOfOneClaim'
  <2>1. ClaimOwned'
    BY <1>2, <1>10, ClaimOwnedStep, Zenon
  <2>2. event' = event
    OBVIOUS
  <2> QED
    BY <1>2, <1>10, <2>1, <2>2, OneClaimStep, Zenon
<1> QED
  BY <1>4, <1>7, <1>8, <1>9, <1>11

(* publishOne ends the offer one way or the other.                         *)
LEMMA PublishKeeps ==
    ASSUME DeliveryInv, publishOne
    PROVE  DeliveryInv'
<1>1. EventTyped /\ CountTyped /\ BusTyped
  BY DEF DeliveryInv, Structure, StateTyped
<1>2. PICK m \in Messages : offer = m
  BY <1>1 DEF publishOne, BusTyped
<1>3. offer' = None /\ UNCHANGED <<runs, loop, task, crashes>> /\ m[1] \in Events
  BY MessageParts DEF publishOne
<1>4. CASE /\ bus' = Append(bus, offer) /\ inFlight' = inFlight \cup {offer[1]}
           /\ UNCHANGED <<event, batch, faults>>
  BY <1>2, <1>3, <1>4, BusTakesKeeps, Zenon
<1>5. ASSUME NEW status \in {"deadLetter", "retrying"}, NEW wait \in BOOLEAN,
             (event' = Resolve(offer, status, wait) /\ Succeeds) \/ (event' = event /\ Fails),
             inFlight' = inFlight \/ inFlight' = inFlight \ {offer[1]},
             bus' = bus, batch' = batch \/ batch' = {}
      PROVE  DeliveryInv'
  <2>1. EventTyped' /\ Later /\ (event' = event \/ event'[m[1]].status = status)
        /\ \A e \in Events : e # m[1] => event'[e] = event[e]
    <3>1. CASE event' = Resolve(m, status, wait) /\ Succeeds
      <4>1. status \in EventStatus
        BY DEF EventStatus
      <4> QED
        BY <1>1, <1>3, <3>1, <4>1, ResolveChanges, StoreCalled
    <3>2. CASE event' = event /\ Fails
      BY <1>1, <1>3, <3>2, EventUntouched, StoreCalled
    <3> QED
      BY <1>2, <1>5, <3>1, <3>2
  <2>2. \A e \in Events : event'[e].status = "published" => event[e].status = "published"
    BY <2>1
  <2>3. batch' \subseteq Events /\ \A e \in Events : e # m[1] => (e \in inFlight' <=> e \in inFlight)
    BY <1>1, <1>2, <1>5 DEF BusTyped
  <2> QED
    BY <1>2, <1>3, <1>5, <2>1, <2>2, <2>3, OfferEndsKeeps, Zenon
<1>6. \/ /\ bus' = Append(bus, offer) /\ inFlight' = inFlight \cup {offer[1]}
         /\ UNCHANGED <<event, batch, faults>>
      \/ /\ \/ (event' = Resolve(offer, "deadLetter", FALSE) /\ Succeeds) \/ (event' = event /\ Fails)
            \/ (event' = Resolve(offer, "retrying", TRUE) /\ Succeeds)
         /\ inFlight' = inFlight \/ inFlight' = inFlight \ {offer[1]}
         /\ bus' = bus /\ (batch' = batch \/ batch' = {})
  BY DEF publishOne, Succeeds
<1> QED
  BY <1>4, <1>5, <1>6

-----------------------------------------------------------------------------
(* Nothing is under way at first.                                          *)
LEMMA DeliveryInit ==
    ASSUME Init
    PROVE  DeliveryInv
<1>1. PICK targets \in Subscribers :
        event = [e \in Events |-> [status |-> "absent", claim |-> 0, leased |-> FALSE,
                                   waiting |-> FALSE, garbled |-> FALSE, targets |-> targets[e]]]
  BY DEF Init
<1>2. EventTyped
  <2>1. targets \in [Events -> SUBSET Targets] /\ 0 \in 0..MaxClaims
    BY SMT, TargetsKnown, BoundsNatural
  <2> QED
    BY <1>1, <2>1 DEF EventTyped, RowType, EventStatus
<1>3. /\ runs = [k \in Keys |-> "absent"] /\ task = [k \in Keys |-> "none"]
      /\ batch = {} /\ offer = None /\ bus = <<>> /\ crashes = 0 /\ faults = 0
      /\ loop = [pc |-> "receive", msg |-> None, left |-> {}]
  BY DEF Init
<1>4. \A e \in Events : event[e].status = "absent"
  BY <1>1
<1>5. StateTyped /\ LoopOK /\ PrepareOK /\ MessagesApart
  <2>1. StateTyped
    BY SMT, <1>2, <1>3 DEF StateTyped, RunsTyped, TaskTyped, BusTyped, LoopTyped, CountTyped,
                      RunStatus, TaskPC, LoopPC
  <2> QED
    BY SMT, <1>3, <2>1 DEF LoopOK, PrepareOK, MessagesApart, Fanning
<1>6. \A m \in Messages : m # None /\ ~InBus(m)
  BY SMT, <1>3, MessageParts DEF InBus
<1>7. \A k \in Keys : Idle(k) /\ loop.msg # Message(k)
  BY <1>3, <1>6, KeyParts DEF Idle
<1>8. \A k \in Keys : TaskOK(k)
  BY <1>3, <1>7 DEF TaskOK, Idle, Rowless, Rowed, Acked
<1>9. \A e \in Events, c \in Claims : ~UnderWay(e, c) /\ ~HasRun(e, c)
  <2>1. ASSUME NEW e \in Events, NEW c \in Claims PROVE ~UnderWay(e, c) /\ ~HasRun(e, c)
    <3>1. <<e, c>> \in Messages /\ \A t \in Targets : Idle(<<e, t, c>>)
      BY <1>7, KeyOf DEF Messages
    <3> QED
      BY <1>3, <1>6, <3>1 DEF UnderWay, HasRun, Idle, Unacked
  <2> QED
    BY <2>1
<1>10. FanOutWhole
  BY <1>3, <1>4, KeyOf, TargetsKnown DEF FanOutWhole
<1> QED
  BY <1>5, <1>7, <1>8, <1>9, <1>10, Zenon DEF DeliveryInv, Structure, MessagesFresh,
                                                 ClaimOwned, RunsOfOneClaim

(* Every step keeps the invariant.                                         *)
LEMMA DeliveryStep ==
    ASSUME DeliveryInv, MinExists, [Next]_vars
    PROVE  DeliveryInv'
<1>1. CASE UNCHANGED vars
  <2>1. batch \subseteq Events
    BY DEF DeliveryInv, Structure, StateTyped, BusTyped
  <2>2. UNCHANGED <<event, runs, task, loop, offer, bus, inFlight, batch, crashes, faults>>
    BY <1>1, Zenon DEF vars
  <2> QED
    BY <2>1, <2>2, NothingMoves
<1>2. CASE \E e \in Events : CreateEvent(e) \/ ClaimExpires(e) \/ RetryFallsDue(e)
  BY <1>2, EventRowKeeps
<1>3. CASE Dispatcher
  BY <1>3, DispatcherKeeps, PublishKeeps DEF Dispatcher
<1>4. CASE Loop
  BY <1>4, EventLoopKeeps, LoopFinishKeeps, FanKeeps, AbortKeeps, SpawnKeeps, Zenon DEF Loop
<1>5. CASE \E k \in Keys : RunTask(k)
  <2>1. PICK k \in Keys : RunTask(k)
    BY <1>5
  <2>2. CASE runTriggerAck(k)
    BY <2>2, TriggerAckKeeps
  <2>3. CASE PrepareCreate(k) /\ loop' # loop
    BY <2>3, CreateFailsKeeps
  <2> QED
    BY <2>1, <2>2, <2>3, RunTaskKeeps, Zenon DEF RunTask
<1>6. CASE StopEvent
  BY <1>6, StopEventKeeps
<1>7. CASE Crash
  BY <1>7, CrashKeeps
<1> QED
  BY <1>1, <1>2, <1>3, <1>4, <1>5, <1>6, <1>7, Zenon DEF Next

-----------------------------------------------------------------------------
(* How a step may change the slots and who holds them: not at all, one run *)
(* enters its scheduler, some leave theirs, or the daemon starts again.    *)
SameFor(S) == \A j \in Keys \ S : (IsInside(j)' <=> IsInside(j)) /\ (IsQueued(j)' <=> IsQueued(j))
Enters(k) ==
    /\ running' = EnterRun(Scheduler(k)) /\ ~IsInside(k) /\ IsInside(k)'
    /\ \A j \in Keys \ {k} : IsInside(j)' <=> IsInside(j)
Leaves(S) ==
    /\ running' = LeaveRun(S) /\ \A j \in S : IsInside(j) /\ ~IsInside(j)'
    /\ \A j \in Keys \ S : IsInside(j)' <=> IsInside(j)
RunningStep ==
    \/ running' = running /\ \A j \in Keys : IsInside(j)' <=> IsInside(j)
    \/ \E k \in Keys : Enters(k)
    \/ \E S \in SUBSET Keys : Leaves(S)
    \/ running' = [s \in Schedulers |-> 0] /\ \A j \in Keys : ~IsInside(j)'

(* The same for the queue: the loop reserves slots for its runs or gives   *)
(* them back, or a run that is done releases its slot.                     *)
Reserves ==
    /\ loop.msg \in Messages /\ Workers # 0
    /\ reserved' = reserved + Cardinality(LoopKeys) /\ reserved + Cardinality(LoopKeys) <= Workers
    /\ \A j \in LoopKeys : ~IsQueued(j) /\ IsQueued(j)'
    /\ \A j \in Keys \ LoopKeys : IsQueued(j)' <=> IsQueued(j)
GivesBack ==
    /\ loop.msg \in Messages /\ reserved' = Release(Cardinality(LoopKeys))
    /\ \A j \in LoopKeys : IsQueued(j) /\ ~IsQueued(j)'
    /\ \A j \in Keys \ LoopKeys : IsQueued(j)' <=> IsQueued(j)
ReleasesOne(k) ==
    /\ reserved' = Release(1) /\ IsQueued(k) /\ ~IsQueued(k)'
    /\ \A j \in Keys \ {k} : IsQueued(j)' <=> IsQueued(j)
ReservedStep ==
    \/ reserved' = reserved /\ Workers = 0
    \/ reserved' = reserved /\ \A j \in Keys : IsQueued(j)' <=> IsQueued(j)
    \/ Reserves
    \/ GivesBack
    \/ \E k \in Keys : ReleasesOne(k)
    \/ reserved' = 0 /\ \A j \in Keys : ~IsQueued(j)'

(* Steps that touch no run and no counter.                                 *)
LEMMA NobodyMoves ==
    ASSUME UNCHANGED <<runs, task, running, reserved>>
    PROVE  RunningStep /\ ReservedStep
  BY DEF RunningStep, ReservedStep, IsInside, IsQueued

(* Only the runs that move change their slots.                             *)
LEMMA SameOutside ==
    ASSUME NEW S, \A j \in Keys \ S : task'[j] = task[j] /\ runs'[j] = runs[j]
    PROVE  SameFor(S)
  BY DEF SameFor, IsInside, IsQueued

(* One run stays inside and keeps its queue slot.                          *)
LEMMA OneStays ==
    ASSUME NEW k \in Keys, SameFor({k}), UNCHANGED <<running, reserved>>,
           IsInside(k)' <=> IsInside(k), IsQueued(k)' <=> IsQueued(k)
    PROVE  RunningStep /\ ReservedStep
  BY DEF RunningStep, ReservedStep, SameFor

(* One run enters its scheduler.                                           *)
LEMMA OneEnters ==
    ASSUME NEW k \in Keys, SameFor({k}), reserved' = reserved, running' = EnterRun(Scheduler(k)),
           ~IsInside(k), IsInside(k)', IsQueued(k)' <=> IsQueued(k)
    PROVE  RunningStep /\ ReservedStep
  BY DEF RunningStep, ReservedStep, SameFor, Enters

(* One run leaves it.                                                      *)
LEMMA OneLeaves ==
    ASSUME NEW k \in Keys, SameFor({k}), reserved' = reserved, running' = LeaveRun({k}),
           IsInside(k), ~IsInside(k)', IsQueued(k)' <=> IsQueued(k)
    PROVE  RunningStep /\ ReservedStep
<1>1. {k} \in SUBSET Keys /\ Leaves({k})
  BY DEF SameFor, Leaves
<1> QED
  BY <1>1, Zenon DEF RunningStep, ReservedStep, SameFor

(* The steps of a run goroutine.                                           *)
LEMMA RunTaskSlots ==
    ASSUME DeliveryInv, NEW k \in Keys, RunTask(k)
    PROVE  RunningStep /\ ReservedStep
<1>1. TaskTyped /\ RunsTyped /\ TaskOK(k)
  BY DEF DeliveryInv, Structure, StateTyped
<1>2. /\ k[1] \in Webhook => task[k] \notin {"start", "ack"}
      /\ task[k] \in Rowless => runs[k] = "absent"
      /\ task[k] \in Rowed /\ task[k] \notin {"stamp", "ack"} => runs[k] # "skipped"
  BY <1>1, WebhookTask DEF TaskOK, Rowed, Acked
<1>3. ASSUME NEW p \in TaskPC, TaskGoes(k, p), NEW s \in RunStatus,
             runs' = [runs EXCEPT ![k] = s] \/ (runs' = runs /\ s = runs[k])
      PROVE  /\ SameFor({k}) /\ task'[k] = p /\ runs'[k] = s
             /\ IsInside(k)' <=> s # "skipped" /\ p \notin {"none", "reserved", "start", "release"}
             /\ IsQueued(k)' <=> k[1] \in Webhook /\ p # "none"
  <2>1. task'[k] = p /\ \A j \in Keys : j # k => task'[j] = task[j]
    BY <1>1, <1>3, TaskMoves DEF TaskGoes
  <2>2. runs'[k] = s /\ \A j \in Keys : j # k => runs'[j] = runs[j]
    BY <1>1, <1>3, RunWritten
  <2>3. SameFor({k})
    BY <2>1, <2>2, SameOutside
  <2> QED
    BY <2>1, <2>2, <2>3, Zenon DEF IsInside, IsQueued
<1>4. runs[k] \in RunStatus
  BY <1>1 DEF RunsTyped
<1>5. CASE PrepareEnter(k)
  <2>1. task[k] = "start" /\ runs[k] = "absent" /\ k[1] \notin Webhook /\ ~IsInside(k) /\ ~IsQueued(k)
    BY <1>2, <1>5 DEF PrepareEnter, Rowless, IsInside, IsQueued
  <2>2. CASE running' = EnterRun(Scheduler(k)) /\ TaskGoes(k, "create") /\ runs' = runs
    <3>1. "create" \in TaskPC /\ "absent" \in RunStatus
      BY DEF TaskPC, RunStatus
    <3>2. SameFor({k}) /\ IsInside(k)' /\ ~IsQueued(k)'
      BY <1>3, <2>1, <2>2, <3>1
    <3> QED
      BY <1>5, <2>1, <2>2, <3>2, OneEnters DEF PrepareEnter
  <2>3. CASE running' = running /\ TaskGoes(k, "stamp") /\ runs' = [runs EXCEPT ![k] = "skipped"]
    <3>1. "stamp" \in TaskPC /\ "skipped" \in RunStatus
      BY DEF TaskPC, RunStatus
    <3>2. SameFor({k}) /\ ~IsInside(k)' /\ ~IsQueued(k)'
      BY <1>3, <2>1, <2>3, <3>1
    <3> QED
      BY <1>5, <2>1, <2>3, <3>2, OneStays DEF PrepareEnter
  <2>4. CASE running' = running /\ TaskGoes(k, "none") /\ runs' = runs
    <3>1. "none" \in TaskPC /\ "absent" \in RunStatus
      BY DEF TaskPC, RunStatus
    <3>2. SameFor({k}) /\ ~IsInside(k)' /\ ~IsQueued(k)'
      BY <1>3, <2>1, <2>4, <3>1
    <3> QED
      BY <1>5, <2>1, <2>4, <3>2, OneStays DEF PrepareEnter
  <2> QED
    BY <1>5, <2>2, <2>3, <2>4, Zenon DEF PrepareEnter
<1>6. CASE PrepareCreate(k)
  <2>1. task[k] = "create" /\ runs[k] = "absent" /\ IsInside(k) /\ (IsQueued(k) <=> k[1] \in Webhook)
    BY <1>2, <1>6 DEF PrepareCreate, Rowless, IsInside, IsQueued
  <2>2. CASE runs' = [runs EXCEPT ![k] = "running"] /\ TaskGoes(k, "stamp") /\ running' = running
    <3>1. "stamp" \in TaskPC /\ "running" \in RunStatus
      BY DEF TaskPC, RunStatus
    <3>2. SameFor({k}) /\ IsInside(k)' /\ (IsQueued(k)' <=> k[1] \in Webhook)
      BY <1>3, <2>1, <2>2, <3>1
    <3> QED
      BY <1>6, <2>1, <2>2, <3>2, OneStays DEF PrepareCreate
  <2>3. CASE runs' = runs /\ running' = LeaveRun({k})
             /\ TaskGoes(k, IF k[1] \in Webhook THEN "reserved" ELSE "none")
    <3>1. {"none", "reserved"} \subseteq TaskPC /\ "absent" \in RunStatus
      BY DEF TaskPC, RunStatus
    <3>2. SameFor({k}) /\ ~IsInside(k)' /\ (IsQueued(k)' <=> k[1] \in Webhook)
      BY <1>3, <2>1, <2>3, <3>1
    <3> QED
      BY <1>6, <2>1, <2>3, <3>2, OneLeaves DEF PrepareCreate
  <2> QED
    BY <1>6, <2>2, <2>3, Zenon DEF PrepareCreate
<1>7. CASE PrepareStamp(k) \/ runTriggerAck(k) \/ register(k) \/ ExecuteDeliver(k)
  <2>1. UNCHANGED <<runs, running, reserved>> /\ task[k] \in {"stamp", "ack", "register", "deliver"}
    BY <1>7, Zenon DEF PrepareStamp, runTriggerAck, register, ExecuteDeliver
  <2>2. PICK p \in {"prepared", "ack", "none", "register", "execute", "leave"} :
          /\ TaskGoes(k, p)
          /\ p = "none" => runs[k] = "skipped" /\ k[1] \notin Webhook
    <3>1. CASE PrepareStamp(k)
      BY <3>1 DEF PrepareStamp
    <3>2. CASE runTriggerAck(k)
      <4>1. task[k] = "ack" /\ TaskGoes(k, IF runs[k] = "skipped" THEN "none" ELSE "register")
        BY <3>2, Zenon DEF runTriggerAck
      <4>2. k[1] \notin Webhook
        BY <1>2, <4>1
      <4> QED
        BY <4>1, <4>2
    <3>3. CASE register(k) \/ ExecuteDeliver(k)
      BY <3>3 DEF register, ExecuteDeliver
    <3> QED
      BY <1>7, <3>1, <3>2, <3>3
  <2>3. p \in TaskPC
    BY DEF TaskPC
  <2>4. SameFor({k}) /\ (IsInside(k)' <=> IsInside(k)) /\ (IsQueued(k)' <=> IsQueued(k))
    BY <1>3, <1>4, <2>1, <2>2, <2>3 DEF IsInside, IsQueued
  <2> QED
    BY <2>1, <2>4, OneStays
<1>8. CASE Execute(k)
  <2>1. task[k] = "execute" /\ runs[k] # "skipped" /\ UNCHANGED <<running, reserved>>
    BY <1>2, <1>8 DEF Execute, Rowed, Acked
  <2>2. PICK p \in {"deliver", "leave"}, s \in RunStatus \ {"skipped"} :
          TaskGoes(k, p) /\ (runs' = [runs EXCEPT ![k] = s] \/ (runs' = runs /\ s = runs[k]))
    <3>1. CASE Fails /\ TaskGoes(k, "leave") /\ runs' = runs
      BY <1>4, <2>1, <3>1
    <3>2. CASE /\ \E s \in Outcomes \cup (IF k \in stopped THEN {"canceled"} ELSE {}) :
                      runs' = [runs EXCEPT ![k] = s]
               /\ TaskGoes(k, "deliver")
      <4>1. PICK s \in Outcomes \cup {"canceled"} : runs' = [runs EXCEPT ![k] = s]
        BY <3>2
      <4>2. s \in RunStatus \ {"skipped"}
        BY OutcomesKnown DEF RunStatus
      <4> QED
        BY <3>2, <4>1, <4>2
    <3> QED
      BY <1>8, <3>1, <3>2, Zenon DEF Execute
  <2>3. p \in TaskPC
    BY DEF TaskPC
  <2>4. SameFor({k}) /\ (IsInside(k)' <=> IsInside(k)) /\ (IsQueued(k)' <=> IsQueued(k))
    BY <1>3, <2>1, <2>2, <2>3 DEF IsInside, IsQueued
  <2> QED
    BY <2>1, <2>4, OneStays
<1>9. CASE ExecuteLeave(k)
  <2>1. /\ task[k] = "leave" /\ runs[k] # "skipped" /\ TaskGoes(k, "release")
        /\ runs' = runs /\ running' = LeaveRun({k}) /\ reserved' = reserved /\ "release" \in TaskPC
    BY <1>2, <1>9 DEF ExecuteLeave, Rowed, Acked, TaskPC
  <2>2. SameFor({k}) /\ IsInside(k) /\ ~IsInside(k)' /\ (IsQueued(k)' <=> IsQueued(k))
    BY <1>3, <1>4, <2>1 DEF IsInside, IsQueued
  <2> QED
    BY <2>1, <2>2, OneLeaves
<1>10. CASE unregister(k)
  <2>1. /\ task[k] = "release" /\ TaskGoes(k, "none") /\ runs' = runs /\ running' = running
        /\ reserved' = (IF k[1] \in Webhook /\ Workers # 0 THEN Release(1) ELSE reserved)
        /\ "none" \in TaskPC
    BY <1>10 DEF unregister, TaskPC
  <2>2. SameFor({k}) /\ ~IsInside(k) /\ ~IsInside(k)' /\ ~IsQueued(k)' /\ (IsQueued(k) <=> k[1] \in Webhook)
    BY <1>3, <1>4, <2>1 DEF IsInside, IsQueued
  <2>3. RunningStep
    BY <2>1, <2>2, Zenon DEF RunningStep, SameFor
  <2>4. CASE k[1] \in Webhook /\ Workers # 0
    BY <2>1, <2>2, <2>3, <2>4, Zenon DEF ReservedStep, ReleasesOne, SameFor
  <2>5. CASE k[1] \notin Webhook \/ Workers = 0
    BY <2>1, <2>2, <2>3, <2>5, Zenon DEF ReservedStep, SameFor
  <2> QED
    BY <2>4, <2>5, Zenon
<1> QED
  BY <1>5, <1>6, <1>7, <1>8, <1>9, <1>10, Zenon DEF RunTask

(* The runs of a fan-out, and what the loop does with their slots.         *)
LEMMA FanRuns ==
    ASSUME DeliveryInv, loop.pc \in Fanning
    PROVE  /\ loop.msg \in Messages /\ LoopKeys \subseteq Keys
           /\ \A j \in LoopKeys : /\ j[1] \in Webhook /\ task[j] \in Expected(loop.pc)
                                  /\ runs[j] # "skipped"
<1>1. EventTyped /\ LoopTyped /\ LoopOK /\ \A j \in Keys : TaskOK(j)
  BY DEF DeliveryInv, Structure, StateTyped
<1>2. loop.msg \in Messages /\ loop.msg[1] \in Webhook
  BY <1>1, LoopHasMessage DEF LoopOK, Fanning
<1>3. /\ LoopKeys \subseteq Keys
      /\ \A j \in Keys : j \in LoopKeys <=> loop.msg = Message(j) /\ j[2] \in Matched(j[1])
  BY <1>1, <1>2, LoopKeysAre
<1>4. ASSUME NEW j \in LoopKeys
      PROVE  j[1] \in Webhook /\ task[j] \in Expected(loop.pc) /\ runs[j] # "skipped"
  <2>1. j \in Keys /\ TaskOK(j) /\ loop.msg = Message(j) /\ j[2] \in Matched(j[1]) /\ j[1] \in Webhook
    BY SMT, <1>1, <1>2, <1>3, KeyParts
  <2> QED
    BY <2>1, Zenon DEF TaskOK
<1> QED
  BY <1>2, <1>3, <1>4

(* All slots of a fan-out are given back.                                  *)
LEMMA AllLeave ==
    ASSUME DeliveryInv, loop.pc \in Fanning, runs' = runs, task' = Set(task, LoopKeys, "none"),
           \A j \in LoopKeys : task[j] \in {"reserved", "entered"},
           running' = LeaveRun({j \in LoopKeys : task[j] = "entered"}),
           reserved' = Release(Cardinality(LoopKeys))
    PROVE  RunningStep /\ ReservedStep
<1>1. /\ loop.msg \in Messages /\ LoopKeys \subseteq Keys
      /\ \A j \in LoopKeys : j[1] \in Webhook /\ runs[j] # "skipped"
  BY FanRuns
<1>2. \A j \in Keys : task'[j] = IF j \in LoopKeys THEN "none" ELSE task[j]
  BY TasksSet DEF DeliveryInv, Structure, StateTyped, TaskPC
<1>3. SameFor(LoopKeys)
  BY <1>2, SameOutside
<1>4. \A j \in LoopKeys : /\ ~IsInside(j)' /\ ~IsQueued(j)' /\ IsQueued(j)
                          /\ IsInside(j) <=> task[j] = "entered"
  BY <1>1, <1>2 DEF IsInside, IsQueued
<1> DEFINE S == {j \in LoopKeys : task[j] = "entered"}
<1>5. S \in SUBSET Keys /\ Leaves(S)
  <2>1. \A j \in Keys \ S : IsInside(j)' <=> IsInside(j)
    BY <1>3, <1>4 DEF SameFor
  <2> QED
    BY <1>1, <1>4, <2>1 DEF Leaves
<1>6. GivesBack
  BY <1>1, <1>3, <1>4, Zenon DEF GivesBack, SameFor
<1> QED
  BY <1>5, <1>6, Zenon DEF RunningStep, ReservedStep

(* The steps of the loop.                                                  *)
LEMMA LoopSlots ==
    ASSUME DeliveryInv, MinExists, Loop
    PROVE  RunningStep /\ ReservedStep
<1>1. EventTyped /\ TaskTyped /\ RunsTyped /\ LoopTyped /\ LoopOK /\ \A j \in Keys : TaskOK(j)
  BY DEF DeliveryInv, Structure, StateTyped
<1>2. ASSUME loop.pc \in Fanning
      PROVE  /\ loop.msg \in Messages /\ LoopKeys \subseteq Keys
             /\ \A j \in LoopKeys : /\ j[1] \in Webhook /\ task[j] \in Expected(loop.pc)
                                    /\ runs[j] # "skipped"
  BY <1>2, FanRuns
<1>3. ASSUME NEW k \in Keys, NEW p \in TaskPC, task' = [task EXCEPT ![k] = p], runs' = runs
      PROVE  /\ SameFor({k})
             /\ IsInside(k)' <=> runs[k] # "skipped" /\ p \notin {"none", "reserved", "start", "release"}
             /\ IsQueued(k)' <=> k[1] \in Webhook /\ p # "none"
  <2>1. task'[k] = p /\ \A j \in Keys : j # k => task'[j] = task[j]
    BY <1>1, <1>3, TaskMoves
  <2>2. SameFor({k})
    BY <1>3, <2>1, SameOutside
  <2> QED
    BY <1>3, <2>1, <2>2, Zenon DEF IsInside, IsQueued
<1>4. CASE EventLoop \/ ackNoSubscriber \/ shouldRetryForBusy \/ retry
  BY <1>4, NobodyMoves, Zenon DEF EventLoop, ackNoSubscriber, shouldRetryForBusy, retry
<1>5. CASE reserveQueueSlots
  <2>1. loop.pc = "reserve" /\ runs' = runs /\ running' = running
    BY <1>5, Zenon DEF reserveQueueSlots
  <2>2. loop.msg \in Messages /\ \A j \in LoopKeys : j \in Keys /\ j[1] \in Webhook /\ task[j] = "none"
    BY <1>2, <2>1 DEF Fanning, Expected
  <2>3. CASE UNCHANGED <<reserved, task>>
    BY <2>1, <2>3, NobodyMoves
  <2>4. CASE /\ Workers = 0 \/ reserved + Cardinality(LoopKeys) <= Workers
             /\ reserved' = (IF Workers = 0 THEN reserved ELSE reserved + Cardinality(LoopKeys))
             /\ task' = Set(task, LoopKeys, "reserved")
    <3>1. \A j \in Keys : task'[j] = IF j \in LoopKeys THEN "reserved" ELSE task[j]
      BY <1>1, <2>4, TasksSet DEF TaskPC
    <3>2. SameFor(LoopKeys)
      BY <2>1, <3>1, SameOutside
    <3>3. \A j \in LoopKeys : ~IsInside(j)' /\ ~IsInside(j) /\ ~IsQueued(j) /\ IsQueued(j)'
      BY <2>2, <3>1 DEF IsInside, IsQueued
    <3>4. RunningStep
      BY <2>1, <3>2, <3>3, Zenon DEF RunningStep, SameFor
    <3>5. CASE Workers = 0
      BY <2>4, <3>4, <3>5, Zenon DEF ReservedStep
    <3>6. CASE Workers # 0
      <4>1. Reserves
        BY <2>2, <2>4, <3>2, <3>3, <3>6, Zenon DEF Reserves, SameFor
      <4> QED
        BY <3>4, <4>1, Zenon DEF ReservedStep
    <3> QED
      BY <3>5, <3>6
  <2> QED
    BY <1>5, <2>3, <2>4, Zenon DEF reserveQueueSlots
<1>6. CASE dispatchEnter
  <2>1. loop.pc = "enter" /\ runs' = runs
    BY <1>6, Zenon DEF dispatchEnter
  <2>2. loop.pc \in Fanning /\ \A j \in LoopKeys : task[j] \in {"reserved", "entered"}
    BY <1>2, <2>1 DEF Fanning, Expected
  <2>3. PICK k \in LoopKeys :
          /\ task[k] = "reserved"
          /\ \/ /\ running' = EnterRun(Scheduler(k)) /\ reserved' = reserved
                /\ task' = [task EXCEPT ![k] = "entered"]
             \/ /\ running' = LeaveRun({j \in LoopKeys : task[j] = "entered"})
                /\ reserved' = Release(Cardinality(LoopKeys)) /\ task' = Set(task, LoopKeys, "none")
    BY <1>6, Zenon DEF dispatchEnter
  <2>4. CASE /\ running' = EnterRun(Scheduler(k)) /\ reserved' = reserved
             /\ task' = [task EXCEPT ![k] = "entered"]
    <3>1. k \in Keys /\ k[1] \in Webhook /\ runs[k] # "skipped" /\ "entered" \in TaskPC
      BY <1>2, <2>2 DEF TaskPC
    <3>2. SameFor({k}) /\ ~IsInside(k) /\ IsInside(k)' /\ (IsQueued(k)' <=> IsQueued(k))
      BY <1>3, <2>1, <2>3, <2>4, <3>1 DEF IsInside, IsQueued
    <3> QED
      BY <2>4, <3>1, <3>2, OneEnters
  <2> QED
    BY <2>1, <2>2, <2>3, <2>4, AllLeave, Zenon
<1>7. CASE dispatchPrepare
  <2>1. loop.pc = "prepare" /\ UNCHANGED <<runs, running, reserved>>
    BY <1>7, Zenon DEF dispatchPrepare
  <2>2. CASE task' = task
    BY <2>1, <2>2, NobodyMoves
  <2>3. CASE \E k \in LoopKeys : task[k] = "entered" /\ task' = [task EXCEPT ![k] = "create"]
    <3>1. PICK k \in LoopKeys : task[k] = "entered" /\ task' = [task EXCEPT ![k] = "create"]
      BY <2>3
    <3>2. k \in Keys /\ k[1] \in Webhook /\ runs[k] # "skipped" /\ "create" \in TaskPC
      BY <1>2, <2>1 DEF TaskPC, Fanning
    <3>3. SameFor({k}) /\ (IsInside(k)' <=> IsInside(k)) /\ (IsQueued(k)' <=> IsQueued(k))
      BY <1>3, <2>1, <3>1, <3>2 DEF IsInside, IsQueued
    <3> QED
      BY <2>1, <3>2, <3>3, OneStays
  <2> QED
    BY <1>7, <2>2, <2>3, Zenon DEF dispatchPrepare
<1>8. CASE AbortPrepared
  <2>1. /\ loop.pc = "abort" /\ UNCHANGED <<running, reserved>>
        /\ \E k \in LoopKeys : /\ task[k] = "prepared" /\ task' = [task EXCEPT ![k] = "aborted"]
                               /\ runs' = [runs EXCEPT ![k] = "failed"] \/ runs' = runs
    BY <1>8, Zenon DEF AbortPrepared
  <2>2. PICK k \in LoopKeys : /\ task[k] = "prepared" /\ task' = [task EXCEPT ![k] = "aborted"]
                              /\ runs' = [runs EXCEPT ![k] = "failed"] \/ runs' = runs
    BY <2>1
  <2>3. k \in Keys /\ k[1] \in Webhook /\ runs[k] # "skipped" /\ "aborted" \in TaskPC
    BY <1>2, <2>1 DEF TaskPC, Fanning
  <2>4. task'[k] = "aborted" /\ \A j \in Keys : j # k => task'[j] = task[j]
    BY <1>1, <2>2, <2>3, TaskMoves
  <2>5. runs'[k] # "skipped" /\ \A j \in Keys : j # k => runs'[j] = runs[j]
    BY <1>1, <2>2, <2>3 DEF RunsTyped
  <2>6. SameFor({k}) /\ (IsInside(k)' <=> IsInside(k)) /\ (IsQueued(k)' <=> IsQueued(k))
    <3>1. SameFor({k})
      BY <2>4, <2>5, SameOutside
    <3> QED
      BY <2>2, <2>3, <2>4, <2>5, <3>1 DEF IsInside, IsQueued
  <2> QED
    BY <2>1, <2>3, <2>6, OneStays
<1>9. CASE AbortDeliver
  <2>1. /\ loop.pc = "abort" /\ runs' = runs /\ reserved' = reserved
        /\ \E k \in LoopKeys : /\ task[k] = "aborted" /\ task' = [task EXCEPT ![k] = "reserved"]
                               /\ running' = LeaveRun({k})
    BY <1>9, Zenon DEF AbortDeliver
  <2>2. PICK k \in LoopKeys : /\ task[k] = "aborted" /\ task' = [task EXCEPT ![k] = "reserved"]
                              /\ running' = LeaveRun({k})
    BY <2>1
  <2>3. k \in Keys /\ k[1] \in Webhook /\ runs[k] # "skipped" /\ "reserved" \in TaskPC
    BY <1>2, <2>1 DEF TaskPC, Fanning
  <2>4. SameFor({k}) /\ IsInside(k) /\ ~IsInside(k)' /\ (IsQueued(k)' <=> IsQueued(k))
    BY <1>3, <2>1, <2>2, <2>3 DEF IsInside, IsQueued
  <2> QED
    BY <2>1, <2>2, <2>3, <2>4, OneLeaves
<1>10. CASE AbortRest
  <2>1. /\ loop.pc = "abort" /\ runs' = runs /\ task' = Set(task, LoopKeys, "none")
        /\ \A k \in LoopKeys : task[k] \notin {"prepared", "aborted"}
        /\ running' = LeaveRun({j \in LoopKeys : task[j] = "entered"})
        /\ reserved' = Release(Cardinality(LoopKeys))
    BY <1>10, Zenon DEF AbortRest
  <2>2. loop.pc \in Fanning /\ \A j \in LoopKeys : task[j] \in {"reserved", "entered"}
    BY <1>2, <2>1 DEF Fanning, Expected
  <2> QED
    BY <2>1, <2>2, AllLeave
<1>11. CASE dispatchAck
  <2>1. /\ loop.pc = "ack" /\ UNCHANGED <<runs, running, reserved>>
        /\ task' = Set(task, LoopKeys, "register")
    BY <1>11, Zenon DEF dispatchAck
  <2>2. \A j \in LoopKeys : task[j] = "prepared"
    BY <1>2, <2>1 DEF Fanning, Expected
  <2>3. \A j \in Keys : task'[j] = IF j \in LoopKeys THEN "register" ELSE task[j]
    BY <1>1, <2>1, TasksSet DEF TaskPC
  <2>4. \A j \in Keys : (IsInside(j)' <=> IsInside(j)) /\ (IsQueued(j)' <=> IsQueued(j))
    BY <2>1, <2>2, <2>3 DEF IsInside, IsQueued
  <2> QED
    BY <2>1, <2>4, Zenon DEF RunningStep, ReservedStep
<1>12. CASE dispatchTargets
  <2> DEFINE t == Min(loop.left)
  <2>1. /\ loop.pc = "spawn" /\ UNCHANGED <<runs, running, reserved>>
        /\ task' = [task EXCEPT ![<<loop.msg[1], t, loop.msg[2]>>] = "start"]
    BY <1>12, Zenon DEF dispatchTargets
  <2>2. loop.msg \in Messages /\ loop.msg[1] \notin Webhook /\ loop.left # {}
    BY <1>1, <2>1, LoopHasMessage DEF LoopOK
  <2>3. t \in loop.left /\ t \in Targets
    <3>1. loop.left \in SUBSET Nat /\ loop.left \subseteq Targets
      BY <1>1, EventsNumbered DEF LoopTyped
    <3> QED
      BY <2>2, <3>1 DEF MinExists
  <2> HIDE DEF t
  <2>4. PICK k \in Keys : /\ Message(k) = loop.msg /\ k[1] \notin Webhook /\ k[2] \in loop.left
                          /\ task' = [task EXCEPT ![k] = "start"]
    BY <2>1, <2>2, <2>3, MessageParts, KeyOf
  <2>5. Idle(k)
    BY <1>1, <2>1, <2>4, Zenon DEF TaskOK
  <2>6. "start" \in TaskPC
    BY DEF TaskPC
  <2>7. SameFor({k}) /\ (IsInside(k)' <=> IsInside(k)) /\ (IsQueued(k)' <=> IsQueued(k))
    BY <1>3, <2>1, <2>4, <2>5, <2>6 DEF IsInside, IsQueued, Idle
  <2> QED
    BY <2>1, <2>4, <2>7, OneStays
<1> QED
  BY <1>4, <1>5, <1>6, <1>7, <1>8, <1>9, <1>10, <1>11, <1>12, Zenon DEF Loop

(* Every step changes the slots in one of these ways.                      *)
LEMMA SlotsMove ==
    ASSUME DeliveryInv, MinExists, [Next]_vars
    PROVE  RunningStep /\ ReservedStep
<1>1. CASE UNCHANGED vars
  BY <1>1, NobodyMoves, Zenon DEF vars
<1>2. CASE \E e \in Events : CreateEvent(e) \/ ClaimExpires(e) \/ RetryFallsDue(e)
  BY <1>2, NobodyMoves, Zenon DEF CreateEvent, ClaimExpires, RetryFallsDue
<1>3. CASE Dispatcher
  BY <1>3, NobodyMoves, Zenon DEF Dispatcher, DispatchList, DispatchClaim, publishOne
<1>4. CASE Loop
  BY <1>4, LoopSlots
<1>5. CASE \E k \in Keys : RunTask(k)
  BY <1>5, RunTaskSlots
<1>6. CASE StopEvent
  BY <1>6, NobodyMoves, Zenon DEF StopEvent, CancelWaiting, CountPublishing, ListEventDeliveries,
                                  requestSchedulerRunStop, StopReply
<1>7. CASE Crash
  <2>1. /\ running' = [s \in Schedulers |-> 0] /\ reserved' = 0
        /\ \A j \in Keys : task'[j] = "none"
    BY <1>7 DEF Crash
  <2>2. \A j \in Keys : ~IsInside(j)' /\ ~IsQueued(j)'
    BY <2>1 DEF IsInside, IsQueued
  <2> QED
    BY <2>1, <2>2, Zenon DEF RunningStep, ReservedStep
<1> QED
  BY <1>1, <1>2, <1>3, <1>4, <1>5, <1>6, <1>7, Zenon DEF Next

-----------------------------------------------------------------------------
(* A run starts when CreateSchedulerRun writes its row, and at no other    *)
(* step.                                                                   *)
LEMMA RunStarts ==
    ASSUME DeliveryInv, [Next]_vars, NEW k \in Keys, runs[k] = "absent", runs'[k] = "running"
    PROVE  task[k] = "create"
<1>1. RunsTyped
  BY DEF DeliveryInv, Structure, StateTyped
<1>2. ASSUME NEW j \in Keys, NEW s, s # "running", runs' = [runs EXCEPT ![j] = s] PROVE FALSE
  BY <1>1, <1>2 DEF RunsTyped
<1>3. CASE runs' = runs
  BY <1>3
<1>4. CASE AbortPrepared
  <2>1. LoopKeys \subseteq Keys
    BY <1>4, FanRuns DEF AbortPrepared, Fanning
  <2> QED
    BY SMT, <1>2, <1>3, <1>4, <2>1 DEF AbortPrepared
<1>5. CASE \E j \in Keys : PrepareEnter(j) \/ Execute(j)
  <2>1. PICK j \in Keys : PrepareEnter(j) \/ Execute(j)
    BY <1>5
  <2>2. runs' = runs \/ \E s \in Outcomes \cup {"canceled", "skipped"} : runs' = [runs EXCEPT ![j] = s]
    BY <2>1 DEF PrepareEnter, Execute
  <2> QED
    BY <1>2, <1>3, <2>2, OutcomesKnown
<1>6. CASE \E j \in Keys : PrepareCreate(j)
  <2>1. PICK j \in Keys : PrepareCreate(j)
    BY <1>6
  <2>2. runs' = runs \/ runs' = [runs EXCEPT ![j] = "running"]
    BY <2>1 DEF PrepareCreate
  <2>3. j = k
    BY <1>1, <1>3, <2>2 DEF RunsTyped
  <2> QED
    BY <2>1, <2>3 DEF PrepareCreate
<1>7. CASE Crash
  BY <1>7 DEF Crash
<1>8. CASE UNCHANGED vars \/ Dispatcher \/ StopEvent
           \/ \E e \in Events : CreateEvent(e) \/ ClaimExpires(e) \/ RetryFallsDue(e)
  <2>1. runs' = runs
    BY <1>8, Zenon DEF vars, Dispatcher, DispatchList, DispatchClaim, publishOne, StopEvent,
         CancelWaiting, CountPublishing, ListEventDeliveries, requestSchedulerRunStop, StopReply,
         CreateEvent, ClaimExpires, RetryFallsDue
  <2> QED
    BY <1>3, <2>1
<1>9. CASE Loop /\ ~AbortPrepared
  <2>1. runs' = runs
    BY <1>9, Zenon DEF Loop, EventLoop, ackNoSubscriber, shouldRetryForBusy, reserveQueueSlots,
         dispatchEnter, dispatchPrepare, AbortDeliver, AbortRest, dispatchAck, retry, dispatchTargets
  <2> QED
    BY <1>3, <2>1
<1>10. CASE \E j \in Keys : PrepareStamp(j) \/ runTriggerAck(j) \/ register(j)
                            \/ ExecuteDeliver(j) \/ ExecuteLeave(j) \/ unregister(j)
  <2>1. runs' = runs
    BY <1>10, Zenon DEF PrepareStamp, runTriggerAck, register, ExecuteDeliver, ExecuteLeave, unregister
  <2> QED
    BY <1>3, <2>1
<1> QED
  BY <1>4, <1>5, <1>6, <1>7, <1>8, <1>9, <1>10, Zenon DEF Next, RunTask

(* The claim of a run about to start holds its event, so that the event is *)
(* not withdrawn.                                                          *)
LEMMA CanceledStep ==
    ASSUME DeliveryInv, [Next]_vars
    PROVE  \A k \in Keys :
             /\ runs[k] = "absent" /\ runs'[k] = "running"
             /\ faults = 0 \/ k[1] \in Webhook
             => event[k[1]].status # "canceled"
<1> SUFFICES ASSUME NEW k \in Keys, runs[k] = "absent", runs'[k] = "running",
                    faults = 0 \/ k[1] \in Webhook
             PROVE  event[k[1]].status # "canceled"
  OBVIOUS
<1>1. task[k] = "create" /\ k = <<k[1], k[2], k[3]>> /\ k[1] \in Events /\ k[2] \in Targets /\ k[3] \in Claims
  BY RunStarts, KeyParts
<1>2. UnderWay(k[1], k[3])
  BY <1>1, Zenon DEF UnderWay, Unacked
<1> QED
  BY <1>1, <1>2 DEF DeliveryInv, ClaimOwned, Owned

(* An executed run has a row.                                              *)
LEMMA ExecutedHasRun ==
    ASSUME DeliveryInv, NEW e \in Events, NEW t \in Targets, NEW c \in Claims,
           Executed(<<e, t, c>>)
    PROVE  HasRun(e, c)
<1>1. <<e, t, c>> \in Keys
  BY KeyOf
<1>2. TaskOK(<<e, t, c>>)
  BY <1>1, Zenon DEF DeliveryInv, Structure
<1>3. runs[<<e, t, c>>] # "absent"
  BY <1>2 DEF TaskOK, Executed, Rowed, Acked
<1> QED
  BY <1>3, Zenon DEF HasRun

-----------------------------------------------------------------------------
(* Counting, with the library's facts about finite sets.                   *)
INSTANCE FiniteSetTheorems

(* A fan-out has finitely many runs.                                       *)
LEMMA LoopKeysFinite ==
    ASSUME EventTyped, loop.msg \in Messages
    PROVE  IsFiniteSet(LoopKeys) /\ Cardinality(LoopKeys) \in Nat
<1> DEFINE T == Matched(loop.msg[1])
           f == [t \in T |-> <<loop.msg[1], t, loop.msg[2]>>]
<1>1. T \subseteq Targets /\ IsFiniteSet(T)
  BY MatchedAreTargets, MessageParts, TargetsFinite, FS_Subset
<1>2. f \in Surjection(T, LoopKeys)
  BY DEF Surjection, LoopKeys, KeysOf
<1> QED
  BY SMT, <1>1, <1>2, FS_Surjection, FS_CardinalityType

(* The scheduler counters follow the runs inside.                          *)
LEMMA InsideIs ==
    ASSUME NEW s
    PROVE  /\ Inside(s) = {k \in Keys : Scheduler(k) = s /\ IsInside(k)}
           /\ Inside(s)' = {k \in Keys : Scheduler(k) = s /\ IsInside(k)'}
  BY DEF Inside, IsInside, Scheduler

(* Every way to change Controller.running keeps it exact.                  *)
LEMMA RunningKept ==
    ASSUME running \in [Schedulers -> Nat], RunningOK, RunningStep
    PROVE  running' \in [Schedulers -> Nat] /\ RunningOK'
<1>1. CASE running' = running /\ \A j \in Keys : IsInside(j)' <=> IsInside(j)
  <2>1. \A s \in Schedulers : Inside(s)' = Inside(s)
    BY <1>1, InsideIs
  <2> QED
    BY <1>1, <2>1 DEF RunningOK
<1>2. CASE \E k \in Keys : Enters(k)
  <2>1. PICK k \in Keys : Enters(k)
    BY <1>2
  <2>2. Scheduler(k) \in Schedulers
    BY KeyParts, TargetsKnown DEF Scheduler
  <2>3. running' \in [Schedulers -> Nat]
    BY SMT, <2>1, <2>2 DEF Enters, EnterRun
  <2>4. ASSUME NEW s \in Schedulers
        PROVE  IsFiniteSet(Inside(s)') /\ running'[s] = Cardinality(Inside(s)')
    <3>1. IsFiniteSet(Inside(s)) /\ running[s] = Cardinality(Inside(s)) /\ Cardinality(Inside(s)) \in Nat
      BY FS_CardinalityType DEF RunningOK
    <3>2. CASE s = Scheduler(k)
      <4>1. Inside(s)' = Inside(s) \cup {k} /\ k \notin Inside(s)
        BY <2>1, <3>2, InsideIs DEF Enters
      <4>2. running'[s] = running[s] + 1
        BY <2>1, <3>2 DEF Enters, EnterRun
      <4> QED
        BY SMT, <3>1, <4>1, <4>2, FS_AddElement
    <3>3. CASE s # Scheduler(k)
      <4>1. Inside(s)' = Inside(s)
        BY <2>1, <3>3, InsideIs DEF Enters
      <4>2. running'[s] = running[s]
        BY <2>1, <3>3 DEF Enters, EnterRun
      <4> QED
        BY <3>1, <4>1, <4>2
    <3> QED
      BY <3>2, <3>3
  <2> QED
    BY <2>3, <2>4 DEF RunningOK
<1>3. CASE \E S \in SUBSET Keys : Leaves(S)
  <2>1. PICK S \in SUBSET Keys : Leaves(S)
    BY <1>3
  <2>2. ASSUME NEW s \in Schedulers
        PROVE  IsFiniteSet(Inside(s)') /\ running'[s] = Cardinality(Inside(s)') /\ running'[s] \in Nat
    <3> DEFINE T == {k \in S : Scheduler(k) = s}
    <3>1. IsFiniteSet(Inside(s)) /\ running[s] = Cardinality(Inside(s)) /\ Cardinality(Inside(s)) \in Nat
      BY FS_CardinalityType DEF RunningOK
    <3>2. T \subseteq Inside(s) /\ Inside(s)' = Inside(s) \ T
      BY <2>1, InsideIs DEF Leaves
    <3>3. IsFiniteSet(T) /\ Cardinality(T) \in Nat /\ Cardinality(T) <= Cardinality(Inside(s))
      BY <3>1, <3>2, FS_Subset, FS_CardinalityType
    <3>4. running'[s] = IF running[s] <= Cardinality(T) THEN 0 ELSE running[s] - Cardinality(T)
      BY <2>1 DEF Leaves, LeaveRun
    <3>5. Inside(s) \cap T = T
      BY <3>2
    <3>6. IsFiniteSet(Inside(s)') /\ Cardinality(Inside(s)') = Cardinality(Inside(s)) - Cardinality(T)
      <4>1. /\ IsFiniteSet(Inside(s) \ T)
            /\ Cardinality(Inside(s) \ T) = Cardinality(Inside(s)) - Cardinality(Inside(s) \cap T)
        BY <3>1, FS_Difference, Zenon
      <4> QED
        BY <3>2, <3>5, <4>1, Zenon
    <3> QED
      BY SMT, <3>1, <3>3, <3>4, <3>6
  <2>3. running' = [s \in Schedulers |-> running'[s]]
    BY <2>1 DEF Leaves, LeaveRun
  <2> QED
    BY <2>2, <2>3 DEF RunningOK
<1>4. CASE running' = [s \in Schedulers |-> 0] /\ \A j \in Keys : ~IsInside(j)'
  <2>1. \A s \in Schedulers : Inside(s)' = {}
    BY <1>4, InsideIs
  <2> QED
    BY <1>4, <2>1, FS_EmptySet DEF RunningOK
<1> QED
  BY <1>1, <1>2, <1>3, <1>4 DEF RunningStep

(* The queue's counter follows the webhook runs.                           *)
LEMMA ReservedKept ==
    ASSUME EventTyped, reserved \in Nat, ReservedOK, ReservedStep
    PROVE  reserved' \in Nat /\ ReservedOK'
<1>1. Queued = {k \in Keys : IsQueued(k)} /\ Queued' = {k \in Keys : IsQueued(k)'}
  BY DEF Queued
<1>2. CASE reserved' = reserved /\ Workers = 0
  BY <1>2 DEF ReservedOK
<1>3. CASE reserved' = reserved /\ \A j \in Keys : IsQueued(j)' <=> IsQueued(j)
  <2>1. Queued' = Queued
    BY <1>1, <1>3
  <2> QED
    BY <1>3, <2>1 DEF ReservedOK
<1>4. CASE Reserves
  <2>1. /\ IsFiniteSet(LoopKeys) /\ Cardinality(LoopKeys) \in Nat /\ LoopKeys \subseteq Keys
    BY <1>4, LoopKeysFinite, LoopKeysAre DEF Reserves
  <2>2. IsFiniteSet(Queued) /\ reserved = Cardinality(Queued)
    BY <1>4 DEF ReservedOK, Reserves
  <2>3. Queued' = Queued \cup LoopKeys /\ Queued \cap LoopKeys = {}
    BY <1>1, <1>4, <2>1 DEF Reserves
  <2>4. IsFiniteSet(Queued') /\ Cardinality(Queued') = Cardinality(Queued) + Cardinality(LoopKeys)
    <3>1. /\ IsFiniteSet(Queued \cup LoopKeys)
          /\ Cardinality(Queued \cup LoopKeys) =
               Cardinality(Queued) + Cardinality(LoopKeys) - Cardinality(Queued \cap LoopKeys)
      BY <2>1, <2>2, FS_Union, Zenon
    <3>2. Cardinality(Queued \cap LoopKeys) = 0 /\ Cardinality(Queued) \in Nat
      BY <2>2, <2>3, FS_EmptySet
    <3>3. /\ IsFiniteSet(Queued')
          /\ Cardinality(Queued') = Cardinality(Queued) + Cardinality(LoopKeys) - 0
      BY <2>3, <3>1, <3>2, Zenon
    <3> QED
      BY <2>1, <3>2, <3>3, SMT
  <2> QED
    BY SMT, <1>4, <2>1, <2>2, <2>4 DEF Reserves, ReservedOK
<1>5. ASSUME NEW S \in SUBSET Keys, NEW n \in Nat, n = Cardinality(S), reserved' = Release(n),
             \A j \in S : IsQueued(j) /\ ~IsQueued(j)',
             \A j \in Keys \ S : IsQueued(j)' <=> IsQueued(j)
      PROVE  reserved' \in Nat /\ ReservedOK'
  <2>1. reserved' \in Nat
    BY SMT, <1>5 DEF Release
  <2>2. ASSUME Workers # 0
        PROVE  IsFiniteSet(Queued') /\ reserved' = Cardinality(Queued') /\ reserved' <= Workers
    <3>1. IsFiniteSet(Queued) /\ reserved = Cardinality(Queued) /\ reserved <= Workers
      BY <2>2 DEF ReservedOK
    <3>2. S \subseteq Queued /\ Queued' = Queued \ S /\ Queued \cap S = S
      BY <1>1, <1>5
    <3>3. n <= Cardinality(Queued) /\ IsFiniteSet(Queued') /\ Cardinality(Queued') = Cardinality(Queued) - n
      BY <1>5, <3>1, <3>2, FS_Subset, FS_Difference
    <3> QED
      BY SMT, <1>5, <3>1, <3>3, BoundsNatural DEF Release
  <2> QED
    BY <2>1, <2>2 DEF ReservedOK
<1>6. CASE GivesBack
  <2>1. Cardinality(LoopKeys) \in Nat /\ LoopKeys \subseteq Keys
    BY <1>6, LoopKeysFinite, LoopKeysAre DEF GivesBack
  <2> QED
    BY <1>5, <1>6, <2>1, Zenon DEF GivesBack
<1>7. CASE \E k \in Keys : ReleasesOne(k)
  <2>1. PICK k \in Keys : ReleasesOne(k)
    BY <1>7
  <2>2. {k} \in SUBSET Keys /\ Cardinality({k}) = 1 /\ 1 \in Nat
    BY FS_Singleton
  <2>3. /\ reserved' = Release(1) /\ \A j \in {k} : IsQueued(j) /\ ~IsQueued(j)'
        /\ \A j \in Keys \ {k} : IsQueued(j)' <=> IsQueued(j)
    BY <2>1 DEF ReleasesOne
  <2> QED
    BY <1>5, <2>2, <2>3, Zenon
<1>8. CASE reserved' = 0 /\ \A j \in Keys : ~IsQueued(j)'
  <2>1. Queued' = {}
    BY <1>1, <1>8
  <2> QED
    BY SMT, <1>8, <2>1, FS_EmptySet, BoundsNatural DEF ReservedOK
<1> QED
  BY <1>2, <1>3, <1>4, <1>6, <1>7, <1>8 DEF ReservedStep

(* The slots are counted right at the start and after every step.          *)
LEMMA SlotsInit ==
    ASSUME Init
    PROVE  SlotsOK
<1>1. running = [s \in Schedulers |-> 0] /\ reserved = 0 /\ task = [k \in Keys |-> "none"]
  BY DEF Init
<1>2. \A k \in Keys : ~IsInside(k) /\ ~IsQueued(k)
  BY <1>1 DEF IsInside, IsQueued
<1>3. Queued = {} /\ \A s \in Schedulers : Inside(s) = {}
  BY <1>2, InsideIs DEF Queued
<1> QED
  BY SMT, <1>1, <1>3, FS_EmptySet, BoundsNatural DEF SlotsOK, RunningOK, ReservedOK

(* Hence every step keeps both counters exact.                             *)
LEMMA SlotsStep ==
    ASSUME DeliveryInv, SlotsOK, MinExists, [Next]_vars
    PROVE  SlotsOK'
<1>1. RunningStep /\ ReservedStep /\ EventTyped
  BY SlotsMove DEF DeliveryInv, Structure, StateTyped
<1> QED
  BY <1>1, RunningKept, ReservedKept DEF SlotsOK

INSTANCE WellFoundedInduction

(* A nonempty set of numbers has a least one.                              *)
LEMMA MinIsIn == MinExists
<1> SUFFICES ASSUME NEW S \in SUBSET Nat, S # {}
             PROVE  Min(S) \in S
  BY DEF MinExists
<1> DEFINE R == OpToRel(<,Nat)
<1>1. IsWellFoundedOn(R, Nat)
  BY NatLessThanWellFounded, Zenon
<1>2. R = {ss \in Nat \X Nat : ss[1] < ss[2]}
  BY DEF OpToRel
<1> HIDE DEF R
<1>3. \A T : T \subseteq Nat /\ T # {} => \E x \in T : \A y \in T : ~ (<<y, x>> \in R)
  BY <1>1, WFMin, Zenon
<1>4. PICK x \in S : \A y \in S : ~ (<<y, x>> \in R)
  BY <1>3
<1>5. ASSUME NEW y \in S PROVE x <= y
  <2>1. x \in Nat /\ y \in Nat /\ <<y, x>> \in Nat \X Nat
    OBVIOUS
  <2>2. ~(y < x)
    BY <1>2, <1>4, <2>1, Zenon
  <2> QED
    BY <2>1, <2>2, SMT
<1> QED
  BY <1>5, Zenon DEF Min

(* The inductive invariants hold.                                          *)
LEMMA DeliveryInvariant == Spec => []DeliveryInv
<1>1. Init => DeliveryInv
  BY DeliveryInit
<1>2. DeliveryInv /\ [Next]_vars => DeliveryInv'
  BY DeliveryStep, MinIsIn
<1> QED
  BY <1>1, <1>2, PTL DEF Spec

(* So are the counters.                                                    *)
LEMMA SlotsInvariant == Spec => []SlotsOK
<1>1. Init => SlotsOK
  BY SlotsInit
<1>2. DeliveryInv /\ SlotsOK /\ [Next]_vars => SlotsOK'
  BY SlotsStep, MinIsIn
<1> QED
  BY <1>1, <1>2, DeliveryInvariant, PTL DEF Spec

-----------------------------------------------------------------------------
(* Controller.running and RunQueue.running are exactly the runs that hold  *)
(* a slot, on every path through dispatchWebhookTargets, Prepare, Abort    *)
(* and Execute, whatever store calls fail and whenever the daemon crashes; *)
(* the webhook queue never runs more than its workers.                     *)
THEOREM SlotsAreCounted == Spec => []SlotsBalanced
<1>1. SlotsOK => SlotsBalanced
  <2>1. Queued = {k \in Keys : k[1] \in Webhook /\ task[k] # "none"}
    BY DEF Queued, IsQueued
  <2> QED
    BY <2>1, Zenon DEF SlotsOK, RunningOK, ReservedOK, SlotsBalanced
<1> QED
  BY <1>1, SlotsInvariant, PTL

(* A webhook event is acknowledged, and any of its runs starts, only when  *)
(* one claim has a run row for every target.                               *)
THEOREM FanOutIsWhole == Spec => []FanOutWhole
<1>1. DeliveryInv => FanOutWhole
  BY DEF DeliveryInv
<1> QED
  BY <1>1, DeliveryInvariant, PTL

(* As long as nothing fails an event is executed at most once per target,  *)
(* however late its claim is acknowledged.                                 *)
THEOREM DeliveredOnce == Spec => []ExecutedOnce
<1>1. DeliveryInv => ExecutedOnce
  <2> SUFFICES ASSUME DeliveryInv, crashes = 0, faults = 0, NEW e \in Events, NEW t \in Targets
               PROVE  Cardinality({c \in Claims : Executed(<<e, t, c>>)}) <= 1
    BY DEF ExecutedOnce
  <2> DEFINE S == {c \in Claims : Executed(<<e, t, c>>)}
  <2>1. CASE S = {}
    <3>1. Cardinality(S) = 0
      BY <2>1, FS_EmptySet, Zenon
    <3> QED
      BY SMT, <3>1
  <2>2. CASE S # {}
    <3>1. PICK c \in Claims : Executed(<<e, t, c>>)
      BY <2>2
    <3>2. \A d \in S : d = c
      BY <3>1, ExecutedHasRun, Zenon DEF DeliveryInv, RunsOfOneClaim
    <3>3. S = {c}
      BY <3>1, <3>2
    <3>4. Cardinality(S) = 1
      BY <3>3, FS_Singleton, Zenon
    <3> QED
      BY SMT, <3>4
  <2> QED
    BY <2>1, <2>2
<1> QED
  BY <1>1, DeliveryInvariant, PTL

(* CancelEventDispatch is final: no step starts a run of a withdrawn       *)
(* event, but for a goroutine that outlived its claim after a store error. *)
THEOREM WithdrawnNeverStarts == Spec => CanceledNeverStarts
<1>1. DeliveryInv /\ [Next]_vars =>
        [\A k \in Keys :
           /\ runs[k] = "absent" /\ runs'[k] = "running"
           /\ faults = 0 \/ k[1] \in Webhook
           => event[k[1]].status # "canceled"]_vars
  BY CanceledStep, Zenon
<1> QED
  BY <1>1, DeliveryInvariant, PTL DEF Spec, CanceledNeverStarts
=============================================================================
