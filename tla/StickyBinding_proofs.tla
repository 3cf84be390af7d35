----------------------- MODULE StickyBinding_proofs -----------------------
(***************************************************************************)
(* What the sticky binding guarantees for any number of requests, hashes,  *)
(* faults and crashes: no sandbox serves two configurations, a retired     *)
(* sandbox stays stopped, and no runtime is left without an owner.         *)
(*                                                                         *)
(* The argument is about the rows that are still known: the binding and    *)
(* the rows requests have read.  A row that wears a configuration and is   *)
(* not retiring is the reason a request may resume its sandbox; a retiring *)
(* row is the promise that the binding never returns to that sandbox.      *)
(***************************************************************************)
EXTENDS StickyBinding, TLAPS

Resolving == {"resolve", "adopt", "claim", "stop", "reuse", "held", "create", "start",
              "bind", "unclaimed", "lost", "winner", "blind"}
Pcs == Resolving \cup {"idle", "executing", "completing"}
RequestType == [pc : Pcs, conf : Configs \cup {None}, seen : RowType \cup {None},
                tries : Nat, mine : Boxes \cup {None}, at : Boxes \cup {None}]

TypeOK ==
    /\ binding \in RowType \cup {None}
    /\ box \in [Boxes -> {"none", "starting", "running", "stopped", "gone"}]
    /\ made \in [Boxes -> Configs \cup {Legacy}]
    /\ q \in [Requests -> RequestType]
    /\ begun \in 0..MaxRequests /\ faults \in Nat /\ crashes \in Nat
    /\ retired \subseteq Boxes /\ blind \subseteq Boxes
    /\ served \in [Boxes -> SUBSET Configs]
    /\ dirty \in BOOLEAN

(* The rows a step may still act on.                                       *)
Known(row) == row # None /\ (row = binding \/ \E r \in Requests : row = q[r].seen)

(* The row binds this sandbox and offers it for reuse.                     *)
Current(b) == binding # None /\ binding.box = b /\ ~binding.retiring

(* No row names the sandbox and no work was given to it.                   *)
Untouched(b) ==
    /\ \A row \in RowType : Known(row) => row.box # b
    /\ served[b] = {} /\ b \notin retired

(* The sandbox belongs to this configuration.                              *)
Wears(b, c) ==
    \/ c \in served[b]
    \/ \E row \in RowType : Known(row) /\ row.box = b /\ row.conf = c /\ ~row.retiring

(* The retirement of the sandbox was claimed or done.                      *)
Retires(b) ==
    \/ b \in retired
    \/ \E row \in RowType : Known(row) /\ row.box = b /\ row.retiring

(* Someone answers for the runtime of the sandbox: the row, the request    *)
(* that will stop it, or the one that created it and has not bound it yet. *)
Cared(b) ==
    \/ Current(b)
    \/ b \in blind
    \/ crashes > 0 /\ (made[b] \in RunConfigs \/ b \in Retained \/ b = 0)
    \/ \E r \in Requests : At(r, "stop") /\ q[r].seen.box = b
    \/ \E r \in Requests : q[r].pc \in {"bind", "unclaimed"} /\ q[r].mine = b

(* What a request at each point expects of the row it has read.            *)
Expecting(x) ==
    /\ x.pc = "adopt" => x.seen # None /\ x.seen.conf = Legacy
    /\ x.pc = "claim" => x.seen # None /\ x.seen.conf # Legacy
    /\ x.pc = "stop" => x.seen # None /\ x.seen.retiring
    /\ x.pc \in {"create", "start", "bind"} => x.seen = None \/ x.seen.retiring
    /\ x.pc \in {"reuse", "held", "winner", "blind"} =>
        x.seen # None /\ ~x.seen.retiring /\ x.seen.conf = x.conf

InFlight ==
    \A r \in Requests :
        /\ q[r].pc = "idle" => q[r].at = None
        /\ q[r].pc # "idle" => q[r].mine \in 1..begun /\ q[r].conf \in Configs
MineDiffers ==
    \A r, p \in Requests :
        r # p /\ q[r].pc # "idle" /\ q[p].pc # "idle" => q[r].mine # q[p].mine
FreshBoxes ==
    /\ \A b \in Boxes : b > begun => Untouched(b)
    /\ \A r \in Requests : q[r].pc \in Resolving => Untouched(q[r].mine)
Expects == \A r \in Requests : Expecting(q[r])

(* The row without a hash comes before every other row.                    *)
LegacyFirst ==
    /\ \A row \in RowType : Known(row) /\ row.conf = Legacy => row = Row(0, Legacy)
    /\ binding = Row(0, Legacy) =>
        /\ served[0] = {}
        /\ \A row \in RowType : Known(row) => row = Row(0, Legacy)
Agree == \A b \in Boxes : \A c, d \in Configs : Wears(b, c) /\ Wears(b, d) => c = d
RetiredForGood == \A b \in Boxes : Retires(b) => ~Current(b)
OneHolder ==
    \A r, p \in Requests :
        At(r, "held") /\ At(p, "held") /\ q[r].seen.box = q[p].seen.box => r = p
HeldNotRetired == \A r \in Requests : At(r, "held") => q[r].seen.box \notin retired
CaredFor == ~dirty => \A b \in Boxes : box[b] = "running" \/ Locked(b) => Cared(b)

RowsInv == LegacyFirst /\ Agree /\ RetiredForGood /\ FreshBoxes /\ InFlight /\ MineDiffers
IndInv ==
    /\ TypeOK /\ RowsInv
    /\ Expects /\ OneHolder /\ HeldNotRetired
    /\ RetiredStaysStopped /\ CaredFor

(* Leaves are first-order unless they name SMT.                            *)
USE RequestsBounded, HashIsNotEmpty, NoneIsNoRow, Zenon

----------------------------------------------------------------------------
(* Kinds of steps.                                                         *)

(* One request goes on: it keeps its own sandbox and its hash, and the row *)
(* it knows afterwards is one that was known already.                      *)
Goesto(r, x) ==
    /\ begun' = begun
    /\ x \in RequestType /\ q' = [q EXCEPT ![r] = x]
    /\ \/ x = Idle
       \/ /\ q[r].pc # "idle" /\ x.pc # "idle" /\ x.mine = q[r].mine /\ x.conf = q[r].conf
          /\ x.pc \in Resolving => q[r].pc \in Resolving

Looks(r, x) == binding' = binding /\ Goesto(r, x) /\ x.seen \in {None, q[r].seen, binding}

(* Work is given only to sandboxes of its configuration, and only retiring *)
(* sandboxes are retired.                                                  *)
KeepsFaith ==
    /\ \A b \in Boxes : \A c \in served'[b] : Wears(b, c)
    /\ \A b \in retired' : Retires(b)

(* What is known after a request looked was known before.                  *)
LEMMA LooksKnown ==
    ASSUME TypeOK, NEW r \in Requests, NEW x, Looks(r, x), NEW row \in RowType, Known(row)'
    PROVE  Known(row)
BY DEF TypeOK, Looks, Goesto, Known

(* A step that adds no row changes nothing about the known rows.           *)
LEMMA RowsKept ==
    ASSUME TypeOK, TypeOK', RowsInv, binding' = binding, KeepsFaith,
           \A row \in RowType : Known(row)' => Known(row)
    PROVE  /\ LegacyFirst' /\ Agree' /\ RetiredForGood'
           /\ \A b \in Boxes : Untouched(b) => Untouched(b)'
<1>1. ASSUME NEW b \in Boxes, NEW c, Wears(b, c)' PROVE Wears(b, c)
  BY <1>1 DEF Wears, KeepsFaith
<1>2. ASSUME NEW b \in Boxes, Retires(b)' PROVE Retires(b)
  BY <1>2 DEF Retires, KeepsFaith
<1>3. Agree'
  BY <1>1 DEF RowsInv, Agree
<1>4. RetiredForGood'
  BY <1>2 DEF RowsInv, RetiredForGood, Current
<1>5. ASSUME NEW b \in Boxes, Untouched(b) PROVE Untouched(b)'
  <2>1. \A c : ~Wears(b, c)
    BY <1>5 DEF Untouched, Wears
  <2>2. ~Retires(b)
    BY <1>5 DEF Untouched, Retires
  <2>3. served'[b] = {} /\ b \notin retired'
    BY <2>1, <2>2 DEF KeepsFaith
  <2> QED
    BY <1>5, <2>3 DEF Untouched
<1>6. LegacyFirst'
  <2>1. ASSUME binding = Row(0, Legacy) PROVE served'[0] = {}
    <3>1. \A c \in Configs : ~Wears(0, c)
      BY SMT, <2>1 DEF Wears, RowsInv, LegacyFirst, Row
    <3>2. 0 \in Boxes /\ served'[0] \subseteq Configs
      BY SMT DEF Boxes, TypeOK
    <3> QED
      BY <3>1, <3>2 DEF KeepsFaith
  <2> QED
    BY <2>1 DEF RowsInv, LegacyFirst
<1> QED
  BY <1>3, <1>4, <1>5, <1>6

(* A request that goes on keeps its own sandbox apart from the others'.    *)
LEMMA MineKept ==
    ASSUME TypeOK, RowsInv, NEW r \in Requests, NEW x, Goesto(r, x),
           \A b \in Boxes :
               (b > begun \/ \E p \in Requests : q'[p].pc \in Resolving /\ q[p].mine = b) =>
                   (Untouched(b) => Untouched(b)')
    PROVE  FreshBoxes' /\ InFlight' /\ MineDiffers'
<1>1. \A p \in Requests : q'[p] = IF p = r THEN x ELSE q[p]
  BY DEF TypeOK, Goesto
<1>2. \A p \in Requests : q'[p].pc # "idle" =>
          /\ q[p].pc # "idle" /\ q'[p].mine = q[p].mine /\ q'[p].conf = q[p].conf
          /\ q'[p].pc \in Resolving => q[p].pc \in Resolving
  BY SMT, <1>1 DEF Goesto, Idle
<1>3. InFlight' /\ MineDiffers'
  <2>1. \A p \in Requests : q'[p].pc = "idle" => q'[p].at = None
    BY SMT, <1>1 DEF Goesto, Idle, RowsInv, InFlight
  <2> QED
    BY SMT, <1>2, <2>1 DEF Goesto, RowsInv, InFlight, MineDiffers
<1>4. ASSUME NEW p \in Requests, q'[p].pc \in Resolving, NEW b, b = q'[p].mine
      PROVE  Untouched(b)'
  <2>1. q'[p].pc # "idle" /\ q[p].mine = b /\ q[p].pc \in Resolving
    BY <1>2, <1>4 DEF Resolving
  <2>2. b \in Boxes /\ Untouched(b)
    BY SMT, <2>1 DEF RowsInv, FreshBoxes, InFlight, Boxes, TypeOK, Resolving
  <2> QED
    BY <1>4, <2>1, <2>2
<1>5. \A p \in Requests : q'[p].pc \in Resolving => Untouched(q[p].mine)'
  BY <1>4
<1>6. \A b \in Boxes : b > begun' => Untouched(b)'
  BY DEF Goesto, RowsInv, FreshBoxes
<1> QED
  BY <1>3, <1>5, <1>6 DEF FreshBoxes

(* A look keeps the invariant of the rows.                                 *)
LEMMA LooksRows ==
    ASSUME TypeOK, TypeOK', RowsInv, NEW r \in Requests, NEW x, Looks(r, x), KeepsFaith
    PROVE  RowsInv'
<1>1. \A row \in RowType : Known(row)' => Known(row)
  BY LooksKnown
<1>2. /\ LegacyFirst' /\ Agree' /\ RetiredForGood'
      /\ \A b \in Boxes : Untouched(b) => Untouched(b)'
  BY <1>1, RowsKept DEF Looks
<1>3. FreshBoxes' /\ InFlight' /\ MineDiffers'
  BY <1>2, MineKept DEF Looks
<1> QED
  BY <1>2, <1>3 DEF RowsInv

(* The claim of a retirement adds one retiring row, for a sandbox that was *)
(* bound.                                                                  *)
LEMMA RetireRows ==
    ASSUME TypeOK, TypeOK', RowsInv, NEW r \in Requests, NEW x, Goesto(r, x),
           binding # None, binding.conf # Legacy, q[r].conf \in Configs,
           binding' = Retiring(binding, q[r].conf), x.seen = binding',
           served' = served, retired' = retired
    PROVE  RowsInv'
<1>1. /\ binding \in RowType /\ Known(binding)
      /\ binding' \in RowType /\ binding'.box = binding.box /\ binding'.retiring
      /\ binding'.conf = q[r].conf
  BY DEF TypeOK, RowType, Retiring, Known
<1>2. \A row \in RowType : Known(row)' => Known(row) \/ row = binding'
  BY DEF TypeOK, Goesto, Known
<1>3. ASSUME NEW b \in Boxes, NEW c, Wears(b, c)' PROVE Wears(b, c)
  BY <1>1, <1>2, <1>3 DEF Wears
<1>4. Agree'
  BY <1>3 DEF RowsInv, Agree
<1>5. RetiredForGood'
  BY <1>1 DEF RetiredForGood, Current
<1>6. ASSUME NEW b \in Boxes, Untouched(b) PROVE Untouched(b)'
  BY <1>1, <1>2, <1>6 DEF Untouched
<1>7. LegacyFirst'
  BY SMT, <1>1, <1>2 DEF RowsInv, LegacyFirst, Row
<1>8. FreshBoxes' /\ InFlight' /\ MineDiffers'
  BY <1>6, MineKept
<1> QED
  BY <1>4, <1>5, <1>7, <1>8 DEF RowsInv

(* The first hash of a row without one: no other row is known yet.         *)
LEMMA AdoptRows ==
    ASSUME TypeOK, TypeOK', RowsInv, NEW r \in Requests, NEW x, Goesto(r, x),
           binding # None, binding.conf = Legacy, q[r].conf \in Configs,
           binding' = Row(binding.box, q[r].conf), x.seen = binding',
           served' = served, retired' = retired
    PROVE  RowsInv'
<1>1. /\ 0 \in Boxes /\ binding \in RowType /\ Known(binding)
      /\ binding = Row(0, Legacy) /\ binding' = Row(0, q[r].conf)
  <2>1. 0 \in Boxes /\ binding \in RowType /\ Known(binding)
    BY SMT DEF TypeOK, Known, Boxes
  <2>2. binding = Row(0, Legacy)
    BY <2>1 DEF RowsInv, LegacyFirst
  <2> QED
    BY SMT, <2>1, <2>2 DEF Row
<1>2. /\ binding'.box = 0 /\ binding'.conf = q[r].conf /\ ~binding'.retiring
      /\ binding.box = 0 /\ ~binding.retiring /\ binding'.conf # Legacy
  BY SMT, <1>1 DEF Row
<1>3. \A row \in RowType : Known(row)' => row = Row(0, Legacy) \/ row = binding'
  BY ZenonT(30), <1>1 DEF TypeOK, Goesto, Known, RowsInv, LegacyFirst
<1>4. served[0] = {} /\ 0 \notin retired
  BY <1>1, <1>2 DEF RowsInv, LegacyFirst, RetiredForGood, Retires, Current
<1>5. ASSUME NEW b \in Boxes, NEW c \in Configs, Wears(b, c)'
      PROVE  IF b = 0 THEN c = q[r].conf ELSE Wears(b, c)
  BY SMT, <1>2, <1>3, <1>4, <1>5 DEF Wears, Row
<1>6. Agree'
  BY <1>5 DEF RowsInv, Agree
<1>7. RetiredForGood'
  BY SMT, <1>2, <1>3, <1>4 DEF RetiredForGood, Current, Retires, Row
<1>8. ASSUME NEW b \in Boxes, Untouched(b) PROVE Untouched(b)'
  BY <1>1, <1>2, <1>3, <1>8 DEF Untouched, Row
<1>9. LegacyFirst'
  BY <1>1, <1>2, <1>3 DEF LegacyFirst, Row
<1>10. FreshBoxes' /\ InFlight' /\ MineDiffers'
  BY <1>8, MineKept
<1> QED
  BY <1>6, <1>7, <1>9, <1>10 DEF RowsInv

(* A new sandbox takes the row: nothing was known of it.                   *)
LEMMA BindRows ==
    ASSUME TypeOK, TypeOK', RowsInv, NEW r \in Requests, NEW x, Goesto(r, x),
           q[r].pc = "bind", x.pc = "executing", x.seen = q[r].seen,
           binding = None \/ binding.retiring,
           binding' = Row(q[r].mine, q[r].conf),
           served' = [served EXCEPT ![q[r].mine] = @ \cup {q[r].conf}], retired' = retired
    PROVE  RowsInv'
<1> DEFINE m == q[r].mine
<1>1. m \in Boxes /\ q[r].conf \in Configs /\ Untouched(m) /\ m \in 1..begun
  BY SMT DEF TypeOK, RowsInv, FreshBoxes, InFlight, Resolving, Boxes
<1>2. /\ binding'.box = m /\ binding'.conf = q[r].conf /\ ~binding'.retiring
      /\ binding'.conf # Legacy /\ binding' \in RowType
  BY <1>1 DEF Row, RowType
<1>3. \A row \in RowType : Known(row)' => Known(row) \/ row = binding'
  BY DEF TypeOK, Goesto, Known
<1>4. \A b \in Boxes : served'[b] = IF b = m THEN {q[r].conf} ELSE served[b]
  BY ZenonT(30), <1>1 DEF TypeOK, Untouched
<1>5. ASSUME NEW b \in Boxes, NEW c \in Configs, Wears(b, c)'
      PROVE  IF b = m THEN c = q[r].conf ELSE Wears(b, c)
  BY SMT, <1>1, <1>2, <1>3, <1>4, <1>5 DEF Wears, Untouched
<1>6. Agree'
  BY ZenonT(30), <1>5 DEF RowsInv, Agree
<1>7. RetiredForGood'
  BY <1>1, <1>2, <1>3 DEF RetiredForGood, Current, Retires, Untouched
<1>8. ASSUME NEW b \in Boxes, b # m, Untouched(b) PROVE Untouched(b)'
  BY <1>1, <1>2, <1>3, <1>4, <1>8 DEF Untouched
<1>9. LegacyFirst'
  BY <1>2, <1>3 DEF RowsInv, LegacyFirst, Row
<1>10. \A p \in Requests : q'[p].pc \in Resolving => q[p].mine # m
  BY SMT DEF TypeOK, Goesto, RowsInv, MineDiffers, Resolving
<1>11. \A b \in Boxes : b > begun => b # m
  BY SMT, <1>1 DEF TypeOK, Boxes
<1>12. FreshBoxes' /\ InFlight' /\ MineDiffers'
  BY <1>8, <1>10, <1>11, MineKept
<1> QED
  BY <1>6, <1>7, <1>9, <1>12 DEF RowsInv

(* A request that goes on keeps what the others expect and hold.           *)
LEMMA ControlKept ==
    ASSUME TypeOK, Expects, OneHolder, NEW r \in Requests, NEW x, Goesto(r, x), Expecting(x),
           x.pc = "held" => ~Locked(x.seen.box)
    PROVE  Expects' /\ OneHolder'
<1>1. \A p \in Requests : q'[p] = IF p = r THEN x ELSE q[p]
  BY DEF TypeOK, Goesto
<1>2. Expects'
  BY <1>1 DEF Expects
<1>3. OneHolder'
  BY ZenonT(30), <1>1 DEF OneHolder, At, Locked
<1> QED
  BY <1>2, <1>3

(* A request that was not about to stop or bind a sandbox leaves every     *)
(* sandbox in the care it was in.                                          *)
LEMMA CareKept ==
    ASSUME TypeOK, NEW r \in Requests, NEW x, Goesto(r, x), crashes' = crashes,
           blind \subseteq blind', q[r].pc # "stop",
           q[r].pc \in {"bind", "unclaimed"} => x.pc \in {"bind", "unclaimed"},
           NEW b \in Boxes, made'[b] = made[b], Cared(b), Current(b) => Current(b)'
    PROVE  Cared(b)'
<1>1. \A p \in Requests : q'[p] = IF p = r THEN x ELSE q[p]
  BY DEF TypeOK, Goesto
<1>2. \A p \in Requests : At(p, "stop") => p # r /\ At(p, "stop")' /\ q'[p].seen = q[p].seen
  BY <1>1 DEF At
<1>3. \A p \in Requests : q[p].pc \in {"bind", "unclaimed"} =>
          q'[p].pc \in {"bind", "unclaimed"} /\ q'[p].mine = q[p].mine
  BY SMT, <1>1 DEF Goesto, Idle
<1> QED
  BY <1>2, <1>3 DEF Cared

(* A request goes on and nothing else changes.  It comes to hold a lock    *)
(* only after it found the binding as it expected, and gives up a sandbox  *)
(* it answers for only when a step fails.                                  *)
Quiet(r, x) ==
    /\ Looks(r, x) /\ Expecting(x)
    /\ UNCHANGED <<box, made, crashes, retired, served, blind>>
    /\ faults' \in Nat /\ dirty' \in BOOLEAN /\ (dirty => dirty')
    /\ x.pc = "held" => ~Locked(x.seen.box) /\ binding = x.seen
    /\ ~dirty' =>
        /\ q[r].pc # "stop"
        /\ q[r].pc \in {"bind", "unclaimed"} => x.pc \in {"bind", "unclaimed"}

(* A request that goes on stays well typed.                                *)
LEMMA QuietType ==
    ASSUME TypeOK, NEW r \in Requests, NEW x, Goesto(r, x)
    PROVE  q' \in [Requests -> RequestType] /\ begun' \in 0..MaxRequests
BY DEF TypeOK, Goesto

(* A step that gives out no work and retires nothing keeps faith.          *)
LEMMA FaithKept ==
    ASSUME TypeOK, served' = served, retired' = retired
    PROVE  KeepsFaith
BY DEF KeepsFaith, Wears, Retires

(* Quiet steps preserve the invariant.                                     *)
LEMMA QuietStep ==
    ASSUME IndInv, NEW r \in Requests, NEW x, Quiet(r, x)
    PROVE  IndInv'
<1>1. TypeOK'
  BY QuietType DEF IndInv, TypeOK, Quiet, Looks
<1>2. RowsInv'
  BY <1>1, FaithKept, LooksRows DEF IndInv, Quiet
<1>3. Expects' /\ OneHolder'
  BY ControlKept DEF IndInv, Quiet, Looks
<1>4. \A p \in Requests : q'[p] = IF p = r THEN x ELSE q[p]
  BY DEF IndInv, TypeOK, Quiet, Looks, Goesto
<1>5. ASSUME x.pc = "held" PROVE x.seen.box \in Boxes /\ Current(x.seen.box)
  BY <1>5 DEF Quiet, Expecting, Current, IndInv, TypeOK, RowType
<1>6. HeldNotRetired'
  <2>1. x.pc = "held" => x.seen.box \notin retired
    BY <1>5 DEF IndInv, RowsInv, RetiredForGood, Retires
  <2> QED
    BY <1>4, <2>1 DEF IndInv, HeldNotRetired, At, Quiet
<1>7. RetiredStaysStopped'
  BY DEF IndInv, RetiredStaysStopped, Quiet
<1>8. CaredFor'
  <2>1. ASSUME ~dirty', NEW b \in Boxes, box'[b] = "running" \/ Locked(b)'
        PROVE  Cared(b)'
    <3>1. Locked(b)' => Locked(b) \/ (x.pc = "held" /\ x.seen.box = b)
      BY <1>4 DEF Locked, At
    <3>2. Cared(b)
      BY <2>1, <3>1, <1>5 DEF IndInv, CaredFor, Cared, Quiet
    <3>3. Current(b) => Current(b)'
      BY DEF Current, Quiet, Looks
    <3> QED
      BY <2>1, <3>2, <3>3, CareKept DEF IndInv, Quiet, Looks
  <2> QED
    BY <2>1 DEF CaredFor
<1> QED
  BY <1>1, <1>2, <1>3, <1>6, <1>7, <1>8 DEF IndInv

----------------------------------------------------------------------------
(* Where a request goes.                                                   *)

Ended(r) == IF IsRun(r) THEN [q[r] EXCEPT !.pc = "completing"] ELSE Idle

(* The record of a request that has ended.                                 *)
LEMMA IdleOK ==
    /\ Idle \in RequestType /\ Idle.pc = "idle" /\ Idle.seen = None
    /\ Expecting(Idle)
BY DEF Idle, RequestType, Pcs, Expecting

(* A request changes its place and keeps the row it expects.               *)
LEMMA PlaceOK ==
    ASSUME TypeOK, NEW r \in Requests, NEW pc \in Pcs, NEW x, x = [q[r] EXCEPT !.pc = pc]
    PROVE  /\ x \in RequestType /\ x.pc = pc /\ x.seen = q[r].seen /\ x.mine = q[r].mine
           /\ x.conf = q[r].conf
BY DEF TypeOK, RequestType

(* A request that ends expects nothing more of the row.                    *)
LEMMA EndsOK ==
    ASSUME TypeOK, NEW r \in Requests, q[r].pc # "idle", begun' = begun, Ends(r)
    PROVE  /\ Goesto(r, Ended(r)) /\ Expecting(Ended(r))
           /\ Ended(r).pc \in {"idle", "completing"}
           /\ Ended(r).seen \in {None, q[r].seen}
<1>1. q' = [q EXCEPT ![r] = Ended(r)]
  BY DEF Ends, Ended, TypeOK
<1>2. CASE IsRun(r)
  <2>1. Ended(r) = [q[r] EXCEPT !.pc = "completing"] /\ "completing" \in Pcs
    BY <1>2 DEF Ended, Pcs
  <2> QED
    BY SMT, <1>1, <2>1, PlaceOK DEF Goesto, Expecting, Resolving
<1>3. CASE ~IsRun(r)
  BY <1>1, <1>3, IdleOK DEF Goesto, Ended
<1> QED
  BY <1>2, <1>3

(* A request gives up: nothing but its place changes.                      *)
LEMMA EndsStep ==
    ASSUME IndInv, NEW r \in Requests, q[r].pc # "idle", Ends(r),
           UNCHANGED <<binding, box, made, begun, crashes, retired, served, blind>>,
           faults' \in Nat, dirty' \in BOOLEAN, dirty => dirty',
           dirty' \/ q[r].pc \notin {"stop", "bind", "unclaimed"}
    PROVE  IndInv'
<1>1. Quiet(r, Ended(r))
  BY EndsOK DEF IndInv, Quiet, Looks
<1> QED
  BY <1>1, QuietStep

(* A request moves to another place with the row it has.                   *)
LEMMA GoesStep ==
    ASSUME IndInv, NEW r \in Requests, NEW pc \in Pcs \ {"idle"}, q[r].pc \in Resolving, Goes(r, pc),
           UNCHANGED <<binding, box, made, begun, crashes, retired, served, blind>>,
           faults' \in Nat, dirty' \in BOOLEAN, dirty => dirty',
           Expecting([q[r] EXCEPT !.pc = pc]),
           pc = "held" => ~Locked(q[r].seen.box) /\ binding = q[r].seen,
           ~dirty' => /\ q[r].pc # "stop"
                      /\ q[r].pc \in {"bind", "unclaimed"} => pc \in {"bind", "unclaimed"}
    PROVE  IndInv'
<1> DEFINE x == [q[r] EXCEPT !.pc = pc]
<1>1. q' = [q EXCEPT ![r] = x]
  BY DEF Goes, IndInv, TypeOK
<1>2. Goesto(r, x) /\ x.seen = q[r].seen /\ x.pc = pc
  BY SMT, <1>1, PlaceOK DEF IndInv, Goesto, Resolving
<1>3. Quiet(r, x)
  BY <1>2 DEF Quiet, Looks
<1> QED
  BY <1>3, QuietStep

(* A request that reads the row moves with it.                             *)
LEMMA ReadsStep ==
    ASSUME IndInv, NEW r \in Requests, NEW pc \in Pcs, NEW n \in Nat,
           q[r].pc \in Resolving \ {"stop", "bind", "unclaimed"}, pc # "held",
           NEW x, x = [q[r] EXCEPT !.pc = pc, !.seen = binding, !.tries = n],
           q' = [q EXCEPT ![r] = x], Expecting(x), pc # "idle",
           UNCHANGED <<binding, box, made, counters, history>>
    PROVE  IndInv'
<1>1. x \in RequestType /\ x.pc = pc /\ x.seen = binding /\ x.mine = q[r].mine /\ x.conf = q[r].conf
  BY ZenonT(30) DEF IndInv, TypeOK, RequestType
<1>2. Quiet(r, x)
  BY <1>1 DEF IndInv, TypeOK, Quiet, Looks, Goesto, Resolving, counters, history
<1> QED
  BY <1>2, QuietStep

----------------------------------------------------------------------------
(* Resolving the binding.                                                  *)

(* Resolve preserves the invariant.                                        *)
LEMMA ResolveStep ==
    ASSUME IndInv, NEW r \in Requests, Resolve(r)
    PROVE  IndInv'
<1>1. q[r].pc = "resolve" /\ UNCHANGED <<binding, box, made, counters, history>>
  BY DEF Resolve, At
<1>2. CASE q[r].tries = MaxTries /\ Ends(r)
  BY <1>1, <1>2, EndsStep DEF counters, history, IndInv, TypeOK
<1>3. ASSUME NEW pc, pc = Decision(r, binding),
             q' = [q EXCEPT ![r].pc = pc, ![r].seen = binding, ![r].tries = @ + 1]
      PROVE  IndInv'
  <2> DEFINE n == q[r].tries + 1
             x == [q[r] EXCEPT !.pc = pc, !.seen = binding, !.tries = n]
  <2>1. pc \in {"create", "completing", "stop", "adopt", "reuse", "claim"}
    BY <1>3 DEF Decision
  <2>3. q' = [q EXCEPT ![r] = x]
    BY <1>3 DEF IndInv, TypeOK, RequestType
  <2>4. pc \in Pcs /\ pc \notin {"held", "idle"} /\ n \in Nat
    BY SMT, <2>1 DEF Pcs, Resolving, IndInv, TypeOK, RequestType
  <2>5. x.pc = pc /\ x.seen = binding /\ x.conf = q[r].conf
    BY <2>4 DEF IndInv, TypeOK, RequestType
  <2>6. Expecting(x)
    <3>1. pc = "adopt" => binding # None /\ binding.conf = Legacy
      BY <1>3 DEF Decision
    <3>2. pc = "claim" => binding # None /\ binding.conf # Legacy
      BY <1>3 DEF Decision
    <3>3. pc = "stop" => binding # None /\ binding.retiring
      BY <1>3 DEF Decision
    <3>4. pc = "create" => binding = None \/ binding.retiring
      BY <1>3 DEF Decision
    <3>5. pc = "reuse" => binding # None /\ ~binding.retiring /\ binding.conf = q[r].conf
      BY <1>3 DEF Decision
    <3> HIDE DEF x
    <3> QED
      BY <2>1, <2>5, <3>1, <3>2, <3>3, <3>4, <3>5 DEF Expecting
  <2> HIDE DEF n
  <2> QED
    BY <1>1, <2>3, <2>4, <2>6, ReadsStep DEF Resolving
<1> QED
  BY <1>2, <1>3 DEF Resolve

(* Begin preserves the invariant: the sandbox of the new request is new.   *)
LEMMA BeginStep ==
    ASSUME IndInv, NEW r \in Requests, NEW c \in Configs, Begin(r, c)
    PROVE  IndInv'
<1> DEFINE x == [Idle EXCEPT !.pc = "resolve", !.conf = c, !.mine = begun + 1]
<1>1. /\ q[r].pc = "idle" /\ begun' = begun + 1 /\ begun + 1 \in Boxes /\ begun' \in 0..MaxRequests
      /\ UNCHANGED <<binding, box, made, faults, crashes, retired, served, blind, dirty>>
  BY SMT DEF Begin, At, history, IndInv, TypeOK, Boxes
<1>2. /\ x \in RequestType /\ x.pc = "resolve" /\ x.conf = c /\ x.mine = begun + 1
      /\ x.seen = None
  BY <1>1 DEF Idle, RequestType, Pcs, Resolving
<1>3. \A p \in Requests : q'[p] = IF p = r THEN x ELSE q[p]
  BY DEF Begin, IndInv, TypeOK
<1>4. TypeOK'
  BY <1>1, <1>2 DEF IndInv, TypeOK, Begin
<1> HIDE DEF x
<1>5. \A row \in RowType : Known(row)' => Known(row)
  BY <1>1, <1>2, <1>3 DEF Known
<1>6. /\ LegacyFirst' /\ Agree' /\ RetiredForGood'
      /\ \A b \in Boxes : Untouched(b) => Untouched(b)'
  BY <1>1, <1>4, <1>5, FaithKept, RowsKept DEF IndInv
<1>7. InFlight' /\ MineDiffers'
  BY SMT, <1>1, <1>2, <1>3 DEF IndInv, TypeOK, RowsInv, InFlight, MineDiffers
<1>8. FreshBoxes'
  <2>1. \A b \in Boxes : b > begun' => Untouched(b)'
    BY SMT, <1>1, <1>6 DEF IndInv, TypeOK, RowsInv, FreshBoxes, Boxes
  <2>2. ASSUME NEW p \in Requests, q'[p].pc \in Resolving, NEW b, b = q'[p].mine
        PROVE  Untouched(b)'
    <3>1. b \in Boxes /\ Untouched(b)
      BY SMT, <1>1, <1>2, <1>3, <2>2 DEF IndInv, TypeOK, RowsInv, FreshBoxes, InFlight, Boxes, Resolving
    <3> QED
      BY <3>1, <1>6
  <2>3. \A p \in Requests : q'[p].pc \in Resolving => Untouched(q[p].mine)'
    BY <2>2
  <2> QED
    BY <2>1, <2>3 DEF FreshBoxes
<1>9. Expects' /\ OneHolder' /\ HeldNotRetired' /\ RetiredStaysStopped'
  BY SMT, <1>1, <1>2, <1>3 DEF IndInv, Expects, Expecting, OneHolder, HeldNotRetired, At,
     RetiredStaysStopped
<1>10. CaredFor'
  <2>1. \A b \in Boxes : Locked(b)' => Locked(b)
    BY <1>2, <1>3 DEF Locked, At
  <2>2. \A b \in Boxes : Cared(b) => Cared(b)'
    BY <1>1, <1>3 DEF Cared, At, Current
  <2> QED
    BY <1>1, <2>1, <2>2 DEF IndInv, CaredFor
<1> QED
  BY <1>4, <1>6, <1>7, <1>8, <1>9, <1>10 DEF IndInv, RowsInv

(* The binding moves to another row for the same sandbox, and the request  *)
(* that moved it goes on with that row.                                    *)
LEMMA RowMoves ==
    ASSUME IndInv, NEW r \in Requests, NEW x, Goesto(r, x), RowsInv', Expecting(x),
           binding # None, binding' \in RowType, binding'.box = binding.box,
           binding'.retiring => \/ x.pc = "stop" /\ x.seen = binding'
                                \/ box[binding.box] = "gone" /\ At(r, "held") /\ q[r].seen = binding,
           x.pc # "held", q[r].pc \notin {"stop", "bind", "unclaimed"},
           UNCHANGED <<box, made, faults, crashes, history>>
    PROVE  IndInv'
<1>1. TypeOK'
  BY QuietType DEF IndInv, TypeOK, history
<1>2. Expects' /\ OneHolder'
  BY ControlKept DEF IndInv
<1>3. \A p \in Requests : q'[p] = IF p = r THEN x ELSE q[p]
  BY DEF IndInv, TypeOK, Goesto
<1>4. HeldNotRetired' /\ RetiredStaysStopped'
  BY <1>3 DEF IndInv, HeldNotRetired, RetiredStaysStopped, At, history
<1>5. ASSUME ~dirty', NEW b \in Boxes, box'[b] = "running" \/ Locked(b)'
      PROVE  Cared(b)'
  <2>1. Locked(b)' => Locked(b) /\ \E p \in Requests : p # r /\ At(p, "held") /\ q[p].seen.box = b
    BY <1>3 DEF Locked, At
  <2>2. Cared(b)
    BY <1>5, <2>1 DEF IndInv, CaredFor, history
  <2>3. CASE b # binding.box \/ ~binding'.retiring
    <3>1. Current(b) => Current(b)'
      BY <2>3 DEF Current, IndInv, TypeOK
    <3> QED
      BY <2>2, <3>1, CareKept DEF IndInv, history
  <2>4. CASE x.pc = "stop" /\ x.seen = binding' /\ b = binding.box
    BY <1>3, <2>4 DEF Cared, At
  <2>5. CASE b = binding.box /\ box[b] = "gone" /\ At(r, "held") /\ q[r].seen = binding
    BY <1>5, <2>1, <2>5 DEF IndInv, OneHolder
  <2> QED
    BY <2>3, <2>4, <2>5
<1> QED
  BY <1>1, <1>2, <1>4, <1>5 DEF IndInv, CaredFor

(* Adopt preserves the invariant.                                          *)
LEMMA AdoptStep ==
    ASSUME IndInv, NEW r \in Requests, Adopt(r)
    PROVE  IndInv'
<1> DEFINE row == Row(q[r].seen.box, q[r].conf)
           x == [q[r] EXCEPT !.pc = "reuse", !.seen = row]
<1>1. /\ q[r].pc = "adopt" /\ UNCHANGED <<box, made, counters, history>>
      /\ q[r].seen # None /\ q[r].seen.conf = Legacy /\ q[r].conf \in Configs
  BY DEF Adopt, At, IndInv, Expects, Expecting, RowsInv, InFlight
<1>2. CASE Changed(q[r].seen) /\ Goes(r, "resolve")
  <2>1. Expecting([q[r] EXCEPT !.pc = "resolve"])
    BY ZenonT(30) DEF Expecting, IndInv, TypeOK, RequestType
  <2> QED
    BY <1>1, <1>2, <2>1, GoesStep DEF Changed, counters, history, Pcs, Resolving, IndInv, TypeOK
<1>3. CASE CompareAndSwap(q[r].seen, row) /\ q' = [q EXCEPT ![r].pc = "reuse", ![r].seen = row]
  <2>1. binding = q[r].seen /\ binding' = row /\ binding \in RowType
    BY <1>1, <1>3 DEF CompareAndSwap, IndInv, TypeOK
  <2>2. /\ row \in RowType /\ row.box = binding.box /\ ~row.retiring /\ row.conf = q[r].conf
        /\ row # None
    <3>1. row \in RowType /\ row.box = binding.box /\ ~row.retiring /\ row.conf = q[r].conf
      BY <1>1, <2>1 DEF Row, RowType
    <3> QED
      BY <3>1
  <2>3. /\ x \in RequestType /\ x.pc = "reuse" /\ x.seen = row /\ x.mine = q[r].mine
        /\ x.conf = q[r].conf /\ q' = [q EXCEPT ![r] = x]
    BY ZenonT(30), <1>3, <2>2 DEF IndInv, TypeOK, RequestType, Pcs, Resolving
  <2> HIDE DEF x
  <2>4. Goesto(r, x) /\ Expecting(x)
    BY <1>1, <2>2, <2>3 DEF Goesto, Expecting, Resolving, counters
  <2>5. TypeOK'
    BY <1>1, <2>1, <2>2, <2>4, QuietType DEF IndInv, TypeOK, counters, history
  <2>6. RowsInv'
    BY <1>1, <2>1, <2>3, <2>4, <2>5, AdoptRows DEF IndInv, history
  <2> QED
    BY <1>1, <2>1, <2>2, <2>3, <2>4, <2>6, RowMoves DEF counters
<1> QED
  BY <1>2, <1>3 DEF Adopt

(* The claim of a retirement preserves the invariant, whoever claims.      *)
LEMMA RetireStep ==
    ASSUME IndInv, NEW r \in Requests, NEW pc \in {"stop", "create"},
           CompareAndSwap(q[r].seen, Retiring(q[r].seen, q[r].conf)),
           q[r].pc \in {"claim", "held"}, pc = "create" => At(r, "held") /\ box[q[r].seen.box] = "gone",
           q[r].seen # None, q[r].seen.conf # Legacy,
           q' = [q EXCEPT ![r].pc = pc, ![r].seen = Retiring(q[r].seen, q[r].conf)],
           UNCHANGED <<box, made, counters, history>>
    PROVE  IndInv'
<1> DEFINE row == Retiring(q[r].seen, q[r].conf)
           x == [q[r] EXCEPT !.pc = pc, !.seen = row]
<1>1. /\ q[r].conf \in Configs /\ binding = q[r].seen /\ binding' = row /\ binding \in RowType
  BY DEF CompareAndSwap, IndInv, TypeOK, RowsInv, InFlight
<1>2. row \in RowType /\ row.box = binding.box /\ row.retiring /\ row # None
  BY <1>1 DEF Retiring, RowType
<1>3. /\ x \in RequestType /\ x.pc = pc /\ x.seen = row /\ x.mine = q[r].mine
      /\ x.conf = q[r].conf /\ q' = [q EXCEPT ![r] = x]
  BY ZenonT(30), <1>2 DEF IndInv, TypeOK, RequestType, Pcs, Resolving
<1> HIDE DEF x
<1>4. Goesto(r, x) /\ Expecting(x)
  BY <1>2, <1>3 DEF Goesto, Expecting, Resolving, counters
<1>5. TypeOK'
  BY <1>1, <1>2, <1>4, QuietType DEF IndInv, TypeOK, counters, history
<1>6. RowsInv'
  BY <1>1, <1>3, <1>4, <1>5, RetireRows DEF IndInv, history
<1> QED
  BY <1>1, <1>2, <1>3, <1>4, <1>6, RowMoves DEF counters

(* Claim preserves the invariant.                                          *)
LEMMA ClaimStep ==
    ASSUME IndInv, NEW r \in Requests, Claim(r)
    PROVE  IndInv'
<1>1. /\ q[r].pc = "claim" /\ UNCHANGED <<box, made, counters, history>>
      /\ q[r].seen # None /\ q[r].seen.conf # Legacy
  BY DEF Claim, At, IndInv, Expects, Expecting
<1>2. CASE Changed(q[r].seen) /\ Goes(r, "resolve")
  <2>1. Expecting([q[r] EXCEPT !.pc = "resolve"])
    BY DEF Expecting, IndInv, TypeOK, RequestType
  <2> QED
    BY <1>1, <1>2, <2>1, GoesStep DEF Changed, counters, history, Pcs, Resolving, IndInv, TypeOK
<1>3. CASE ~(Changed(q[r].seen) /\ Goes(r, "resolve"))
  BY <1>1, <1>3, RetireStep DEF Claim
<1> QED
  BY <1>2, <1>3

(* A sandbox is stopped that nobody holds, by the request that answers for *)
(* it.                                                                     *)
LEMMA StopsStep ==
    ASSUME IndInv, NEW r \in Requests, NEW x, Looks(r, x), Expecting(x), x.pc # "held",
           NEW b \in Boxes, box' = Stopped(b), ~Locked(b),
           q[r].pc = "stop" => q[r].seen.box = b,
           q[r].pc \in {"bind", "unclaimed"} => q[r].mine = b,
           retired' \in {retired, retired \cup {b}}, b \in retired' => Retires(b),
           UNCHANGED <<made, crashes, served, blind>>,
           faults' \in Nat, dirty' = dirty
    PROVE  IndInv'
<1>1. box' \in [Boxes -> {"none", "starting", "running", "stopped", "gone"}] /\ box'[b] \in {"stopped", "gone"}
      /\ \A a \in Boxes : a # b => box'[a] = box[a]
  BY DEF Stopped, IndInv, TypeOK
<1>2. TypeOK'
  BY <1>1, QuietType DEF IndInv, TypeOK, Looks
<1>3. KeepsFaith
  BY DEF KeepsFaith, Wears, Retires
<1>4. RowsInv'
  BY <1>2, <1>3, LooksRows DEF IndInv
<1>5. Expects' /\ OneHolder'
  BY ControlKept DEF IndInv, Looks
<1>6. \A p \in Requests : q'[p] = IF p = r THEN x ELSE q[p]
  BY DEF IndInv, TypeOK, Looks, Goesto
<1>7. \A a \in Boxes : Locked(a)' => Locked(a)
  BY <1>6 DEF Locked, At
<1>8. HeldNotRetired'
  <2>1. \A p \in Requests : At(p, "held")' => At(p, "held") /\ q'[p] = q[p] /\ q[p].seen.box # b
    BY <1>6 DEF Locked, At
  <2> QED
    BY <2>1 DEF IndInv, HeldNotRetired, At
<1>9. RetiredStaysStopped'
  BY <1>1 DEF IndInv, RetiredStaysStopped, TypeOK
<1>10. ASSUME ~dirty', NEW a \in Boxes, box'[a] = "running" \/ Locked(a)'
       PROVE  Cared(a)'
  <2>1. a # b /\ Cared(a)
    BY <1>1, <1>7, <1>10 DEF IndInv, CaredFor
  <2>2. \A p \in Requests : At(p, "stop") /\ q[p].seen.box = a =>
            At(p, "stop")' /\ q'[p].seen = q[p].seen
    BY <1>6, <2>1 DEF At
  <2>3. \A p \in Requests : q[p].pc \in {"bind", "unclaimed"} /\ q[p].mine = a => q'[p] = q[p]
    BY <1>6, <2>1
  <2> QED
    BY <2>1, <2>2, <2>3 DEF Cared, Current, Looks
<1> QED
  BY <1>2, <1>4, <1>5, <1>8, <1>9, <1>10 DEF IndInv, CaredFor

(* A step of a request that fails starts nothing.                          *)
LEMMA FailsStep ==
    ASSUME IndInv, NEW r \in Requests, NEW x, Looks(r, x), Expecting(x), x.pc # "held",
           box' \in [Boxes -> {"none", "starting", "running", "stopped", "gone"}],
           \A b \in Boxes : box'[b] = "running" => box[b] = "running",
           made' \in [Boxes -> Configs \cup {Legacy}],
           UNCHANGED <<crashes, retired, served, blind>>,
           faults' \in Nat, dirty' = TRUE
    PROVE  IndInv'
<1>2. TypeOK'
  BY QuietType DEF IndInv, TypeOK, Looks
<1>4. RowsInv'
  BY <1>2, FaithKept, LooksRows DEF IndInv
<1>5. Expects' /\ OneHolder'
  BY ControlKept DEF IndInv, Looks
<1>6. \A p \in Requests : q'[p] = IF p = r THEN x ELSE q[p]
  BY DEF IndInv, TypeOK, Looks, Goesto
<1>7. HeldNotRetired'
  BY <1>6 DEF IndInv, HeldNotRetired, At
<1>8. RetiredStaysStopped' /\ CaredFor'
  BY DEF IndInv, RetiredStaysStopped, TypeOK, CaredFor
<1> QED
  BY <1>2, <1>4, <1>5, <1>7, <1>8 DEF IndInv

(* A request's own sandbox is nobody else's: no row names it and nobody    *)
(* holds it.                                                               *)
LEMMA MineIsOurs ==
    ASSUME IndInv, NEW r \in Requests, q[r].pc \in Resolving
    PROVE  /\ q[r].mine \in Boxes /\ Untouched(q[r].mine) /\ ~Locked(q[r].mine)
           /\ q[r].conf \in Configs
<1>1. q[r].mine \in Boxes /\ Untouched(q[r].mine) /\ q[r].conf \in Configs
  BY SMT DEF IndInv, TypeOK, RowsInv, FreshBoxes, InFlight, Boxes, Resolving
<1>2. \A p \in Requests : At(p, "held") => q[p].seen \in RowType /\ Known(q[p].seen)
  BY DEF IndInv, TypeOK, RequestType, Expects, Expecting, Known, At
<1> QED
  BY <1>1, <1>2 DEF Locked, Untouched

(* StopRetired preserves the invariant.                                    *)
LEMMA StopRetiredStep ==
    ASSUME IndInv, NEW r \in Requests, StopRetired(r)
    PROVE  IndInv'
<1> DEFINE b == q[r].seen.box
<1>1. /\ q[r].pc = "stop" /\ ~Locked(b) /\ UNCHANGED <<binding, made, begun, crashes, served, blind>>
      /\ q[r].seen \in RowType /\ q[r].seen # None /\ q[r].seen.retiring
  BY DEF StopRetired, At, IndInv, Expects, Expecting, TypeOK, RequestType
<1>2. b \in Boxes /\ Retires(b)
  BY <1>1 DEF RowType, Retires, Known
<1>3. CASE Fault /\ Ends(r) /\ UNCHANGED <<box, retired>>
  BY SMT, <1>1, <1>3, EndsStep DEF Fault, IndInv, TypeOK
<1>4. CASE /\ box' = Stopped(b) /\ retired' = retired \cup {b} /\ Goes(r, "create") /\ NoFault
  <2> DEFINE x == [q[r] EXCEPT !.pc = "create"]
  <2>1. /\ x \in RequestType /\ x.pc = "create" /\ x.seen = q[r].seen /\ x.mine = q[r].mine
        /\ x.conf = q[r].conf /\ q' = [q EXCEPT ![r] = x]
    BY ZenonT(30), <1>4 DEF IndInv, TypeOK, RequestType, Pcs, Resolving, Goes
  <2> HIDE DEF x
  <2>2. Looks(r, x) /\ Expecting(x)
    BY <1>1, <2>1 DEF Looks, Goesto, Expecting, Resolving
  <2> HIDE DEF b
  <2>3. faults' \in Nat /\ dirty' = dirty
    BY <1>4 DEF NoFault, IndInv, TypeOK
  <2> QED
    BY <1>1, <1>2, <1>4, <2>1, <2>2, <2>3, StopsStep DEF b
<1> QED
  BY <1>3, <1>4 DEF StopRetired

----------------------------------------------------------------------------
(* Reusing the bound sandbox.                                              *)

(* Revalidate preserves the invariant.                                     *)
LEMMA RevalidateStep ==
    ASSUME IndInv, NEW r \in Requests, Revalidate(r)
    PROVE  IndInv'
<1>1. /\ q[r].pc \in {"reuse", "winner"} /\ ~Locked(q[r].seen.box)
      /\ UNCHANGED <<binding, box, made, counters, history>>
  BY DEF Revalidate, At
<1>2. CASE Ends(r)
  BY <1>1, <1>2, EndsStep DEF counters, history, IndInv, TypeOK
<1>3. CASE binding = q[r].seen /\ Goes(r, "held")
  <2>1. Expecting([q[r] EXCEPT !.pc = "held"])
    BY SMT, <1>1 DEF Expecting, IndInv, TypeOK, RequestType, Expects
  <2> QED
    BY <1>1, <1>3, <2>1, GoesStep DEF counters, history, Pcs, Resolving, IndInv, TypeOK
<1>4. CASE Goes(r, "resolve")
  <2>1. Expecting([q[r] EXCEPT !.pc = "resolve"])
    BY DEF Expecting, IndInv, TypeOK, RequestType
  <2> QED
    BY <1>1, <1>4, <2>1, GoesStep DEF counters, history, Pcs, Resolving, IndInv, TypeOK
<1> QED
  BY <1>2, <1>3, <1>4 DEF Revalidate

(* The sandbox of the row a request reads is given to its work.            *)
LEMMA ServesStep ==
    ASSUME IndInv, NEW r \in Requests, q[r].pc \in {"held", "blind"},
           Serves(r, q[r].seen.box), blind \subseteq blind', blind' \subseteq Boxes,
           At(r, "held") \/ q[r].seen.box \in blind',
           UNCHANGED <<binding, made, counters, retired, dirty>>
    PROVE  IndInv'
<1> DEFINE b == q[r].seen.box
           x == [q[r] EXCEPT !.pc = "executing", !.at = b]
<1>1. /\ q[r].seen \in RowType /\ Known(q[r].seen) /\ b \in Boxes /\ q[r].conf \in Configs
      /\ ~q[r].seen.retiring /\ q[r].seen.conf = q[r].conf
  BY DEF IndInv, TypeOK, RequestType, Expects, Expecting, Known, RowType, RowsInv, InFlight
<1>2. /\ x \in RequestType /\ x.pc = "executing" /\ x.seen = q[r].seen /\ x.mine = q[r].mine
      /\ x.conf = q[r].conf /\ q' = [q EXCEPT ![r] = x]
  BY ZenonT(30), <1>1 DEF IndInv, TypeOK, RequestType, Pcs, Resolving, Serves
<1> HIDE DEF x
<1>3. Looks(r, x) /\ Expecting(x)
  BY <1>2 DEF Looks, Goesto, Expecting, Resolving, counters
<1>4. /\ box' \in [Boxes -> {"none", "starting", "running", "stopped", "gone"}]
      /\ served' \in [Boxes -> SUBSET Configs]
      /\ \A a \in Boxes : a # b => box'[a] = box[a] /\ served'[a] = served[a]
      /\ served'[b] = served[b] \cup {q[r].conf}
  BY <1>1 DEF Serves, IndInv, TypeOK
<1>5. TypeOK'
  BY <1>3, <1>4, QuietType DEF IndInv, TypeOK, Looks, counters
<1> HIDE DEF b
<1>6. KeepsFaith
  <2>1. Wears(b, q[r].conf)
    BY <1>1 DEF Wears, b
  <2> QED
    BY <1>4, <2>1 DEF KeepsFaith, Wears, Retires
<1>7. RowsInv'
  BY <1>3, <1>5, <1>6, LooksRows DEF IndInv
<1>8. Expects' /\ OneHolder'
  BY <1>2, <1>3, ControlKept DEF IndInv, Looks
<1>9. \A p \in Requests : q'[p] = IF p = r THEN x ELSE q[p]
  BY <1>2 DEF IndInv, TypeOK
<1>10. HeldNotRetired'
  BY SMT, <1>2, <1>9 DEF IndInv, HeldNotRetired, At
<1>11. RetiredStaysStopped'
  BY <1>4 DEF IndInv, RetiredStaysStopped, HeldNotRetired, TypeOK, b
<1>12. ASSUME ~dirty', NEW a \in Boxes, box'[a] = "running" \/ Locked(a)'
       PROVE  Cared(a)'
  <2>1. Locked(a)' => Locked(a)
    BY <1>2, <1>9 DEF Locked, At
  <2>2. CASE a \in blind'
    BY <2>2 DEF Cared
  <2>3. CASE a \notin blind'
    <3>1. a = b => Locked(a)
      BY <2>3 DEF Locked, b
    <3>2. Cared(a)
      BY <1>4, <1>12, <2>1, <3>1 DEF IndInv, CaredFor
    <3>3. Current(a) => Current(a)'
      BY DEF Current
    <3> QED
      BY <1>3, <3>2, <3>3, CareKept DEF IndInv, Looks, counters
  <2> QED
    BY <2>2, <2>3
<1> QED
  BY <1>5, <1>7, <1>8, <1>10, <1>11, <1>12 DEF IndInv, CaredFor

(* The start of a bound sandbox preserves the invariant, whether it        *)
(* succeeds, is refused or fails.                                          *)
LEMMA ResumeStep ==
    ASSUME IndInv, NEW r \in Requests, Resume(r) \/ ResumeRefused(r) \/ ResumeFails(r)
    PROVE  IndInv'
<1>1. q[r].pc = "held"
  BY DEF Resume, ResumeRefused, ResumeFails, At
<1>2. CASE Resume(r)
  BY <1>1, <1>2, ServesStep DEF Resume, IndInv, TypeOK
<1>3. CASE ResumeRefused(r)
  BY <1>1, <1>3, EndsStep DEF ResumeRefused, counters, history, IndInv, TypeOK
<1>4. CASE ResumeFails(r) /\ Ends(r) /\ UNCHANGED box
  BY SMT, <1>1, <1>4, EndsStep DEF ResumeFails, Fault, IndInv, TypeOK
<1>5. CASE ResumeFails(r) /\ Goes(r, "claim") /\ UNCHANGED box
  <2>1. Expecting([q[r] EXCEPT !.pc = "claim"])
    BY SMT, <1>1 DEF Expecting, IndInv, TypeOK, RequestType, Expects, RowsInv, InFlight
  <2> QED
    BY SMT, <1>1, <1>5, <2>1, GoesStep DEF ResumeFails, Fault, Pcs, Resolving, IndInv, TypeOK
<1>6. CASE /\ ResumeFails(r)
           /\ q' = [q EXCEPT ![r].pc = "completing", ![r].at = q[r].seen.box]
           /\ box' = [box EXCEPT ![q[r].seen.box] = IF @ = "running" THEN @ ELSE "stopped"]
  <2> DEFINE x == [q[r] EXCEPT !.pc = "completing", !.at = q[r].seen.box]
  <2>1. q[r].seen.box \in Boxes
    BY <1>1 DEF IndInv, TypeOK, RequestType, RowType, Expects, Expecting
  <2>2. /\ x \in RequestType /\ x.pc = "completing" /\ x.seen = q[r].seen /\ x.mine = q[r].mine
        /\ x.conf = q[r].conf /\ q' = [q EXCEPT ![r] = x]
    BY ZenonT(30), <1>6, <2>1 DEF IndInv, TypeOK, RequestType, Pcs
  <2> HIDE DEF x
  <2>3. Looks(r, x) /\ Expecting(x) /\ x.pc # "held"
    BY <1>1, <1>6, <2>2 DEF ResumeFails, Looks, Goesto, Expecting, Resolving
  <2>4. /\ box' \in [Boxes -> {"none", "starting", "running", "stopped", "gone"}]
        /\ \A b \in Boxes : box'[b] = "running" => box[b] = "running"
    BY ZenonT(30), <1>6, <2>1 DEF IndInv, TypeOK
  <2>5. /\ made' \in [Boxes -> Configs \cup {Legacy}] /\ faults' \in Nat /\ dirty' = TRUE
        /\ UNCHANGED <<crashes, retired, served, blind>>
    BY SMT, <1>6 DEF ResumeFails, Fault, IndInv, TypeOK
  <2> QED
    BY <2>3, <2>4, <2>5, FailsStep
<1> QED
  BY <1>2, <1>3, <1>4, <1>5, <1>6 DEF ResumeFails

(* Unavailable preserves the invariant.                                    *)
LEMMA UnavailableStep ==
    ASSUME IndInv, NEW r \in Requests, Unavailable(r)
    PROVE  IndInv'
<1>1. /\ q[r].pc = "held" /\ box[q[r].seen.box] = "gone" /\ UNCHANGED <<box, made, counters, history>>
      /\ q[r].seen # None /\ q[r].seen.conf # Legacy
  BY DEF Unavailable, At, IndInv, Expects, Expecting, RowsInv, InFlight
<1>2. CASE UNCHANGED binding /\ Ends(r)
  BY <1>1, <1>2, EndsStep DEF counters, history, IndInv, TypeOK
<1>3. CASE UNCHANGED binding /\ Goes(r, "claim")
  <2>1. Expecting([q[r] EXCEPT !.pc = "claim"])
    BY ZenonT(30), <1>1 DEF Expecting, IndInv, TypeOK, RequestType
  <2> QED
    BY <1>1, <1>3, <2>1, GoesStep DEF counters, history, Pcs, Resolving, IndInv, TypeOK
<1>4. CASE /\ CompareAndSwap(q[r].seen, Retiring(q[r].seen, q[r].conf))
           /\ q' = [q EXCEPT ![r].pc = "create", ![r].seen = Retiring(q[r].seen, q[r].conf)]
  BY <1>1, <1>4, RetireStep DEF At
<1> QED
  BY <1>2, <1>3, <1>4 DEF Unavailable, Changed

----------------------------------------------------------------------------
(* Creating a replacement.                                                 *)

(* Create preserves the invariant.                                         *)
LEMMA CreateStep ==
    ASSUME IndInv, NEW r \in Requests, Create(r)
    PROVE  IndInv'
<1> DEFINE m == q[r].mine
<1>1. /\ q[r].pc = "create" /\ UNCHANGED <<binding, begun, crashes, retired, served, blind>>
      /\ q[r].seen = None \/ q[r].seen.retiring
  BY DEF Create, At, IndInv, Expects, Expecting
<1>2. m \in Boxes /\ Untouched(m) /\ ~Locked(m) /\ q[r].conf \in Configs
  BY <1>1, MineIsOurs DEF Resolving
<1>4. CASE Fault /\ Ends(r) /\ UNCHANGED <<box, made>>
  <2>1. faults' \in Nat /\ dirty' = TRUE
    BY SMT, <1>4 DEF Fault, IndInv, TypeOK
  <2> QED
    BY <1>1, <1>4, <2>1, EndsStep
<1>5. CASE /\ made' = [made EXCEPT ![m] = q[r].conf]
           /\ box' = [box EXCEPT ![m] = "starting"] /\ NoFault
           /\ q' = [q EXCEPT ![r].pc = "start", ![r].at = m]
  <2> DEFINE x == [q[r] EXCEPT !.pc = "start", !.at = m]
  <2>1. /\ x \in RequestType /\ x.pc = "start" /\ x.seen = q[r].seen /\ x.mine = m
        /\ x.conf = q[r].conf /\ q' = [q EXCEPT ![r] = x]
    BY ZenonT(30), <1>2, <1>5 DEF IndInv, TypeOK, RequestType, Pcs, Resolving
  <2> HIDE DEF x
  <2>2. Looks(r, x) /\ Expecting(x)
    BY <1>1, <2>1 DEF Looks, Goesto, Expecting, Resolving
  <2>3. /\ box' \in [Boxes -> {"none", "starting", "running", "stopped", "gone"}]
        /\ \A a \in Boxes : a # m => box'[a] = box[a]
        /\ box'[m] = "starting"
    BY <1>2, <1>5 DEF IndInv, TypeOK
  <2>a. /\ made' \in [Boxes -> Configs \cup {Legacy}]
        /\ \A a \in Boxes : a # m => made'[a] = made[a]
    BY <1>2, <1>5 DEF IndInv, TypeOK
  <2>4. TypeOK'
    BY ZenonT(30), <1>1, <1>5, <2>2, <2>3, <2>a, QuietType DEF IndInv, TypeOK, Looks, NoFault
  <2>5. RowsInv'
    BY <1>1, <2>2, <2>4, FaithKept, LooksRows DEF IndInv
  <2>6. Expects' /\ OneHolder'
    BY <2>1, <2>2, ControlKept DEF IndInv, Looks
  <2>7. \A p \in Requests : q'[p] = IF p = r THEN x ELSE q[p]
    BY <2>1 DEF IndInv, TypeOK
  <2>8. HeldNotRetired' /\ RetiredStaysStopped'
    BY ZenonT(30), <1>1, <1>2, <2>1, <2>3, <2>7 DEF IndInv, HeldNotRetired, RetiredStaysStopped, TypeOK, At,
       Untouched
  <2>9. ASSUME ~dirty', NEW a \in Boxes, box'[a] = "running" \/ Locked(a)'
        PROVE  Cared(a)'
    <3>0. Locked(a)' => Locked(a)
      BY <2>1, <2>7 DEF Locked, At
    <3>1. CASE a = m
      BY <1>2, <2>3, <2>9, <3>0, <3>1
    <3>2. CASE a # m
      <4>2. Cared(a)
        BY <1>5, <2>3, <2>9, <3>0, <3>2 DEF IndInv, CaredFor, NoFault
      <4>3. Current(a) => Current(a)'
        BY <1>1 DEF Current
      <4>4. made'[a] = made[a]
        BY <2>a, <3>2
      <4> QED
        BY ZenonT(30), <1>1, <2>2, <4>2, <4>3, <4>4, CareKept DEF IndInv, Looks
    <3> QED
      BY <3>1, <3>2
  <2> QED
    BY ZenonT(30), <2>4, <2>5, <2>6, <2>8, <2>9 DEF IndInv, CaredFor
<1> QED
  BY <1>4, <1>5 DEF Create

(* Start preserves the invariant.                                          *)
LEMMA StartStep ==
    ASSUME IndInv, NEW r \in Requests, Start(r)
    PROVE  IndInv'
<1> DEFINE m == q[r].mine
<1>1. /\ q[r].pc = "start" /\ UNCHANGED <<binding, made, begun, crashes, retired, served, blind>>
      /\ q[r].seen = None \/ q[r].seen.retiring
  BY DEF Start, At, IndInv, Expects, Expecting
<1>2. m \in Boxes /\ Untouched(m) /\ ~Locked(m) /\ q[r].conf \in Configs
  BY <1>1, MineIsOurs DEF Resolving
<1>4. CASE /\ Fault /\ Ends(r)
           /\ \E end \in {"starting", "stopped"} : box' = [box EXCEPT ![m] = end]
  <2>0. made' \in [Boxes -> Configs \cup {Legacy}]
    BY <1>1 DEF IndInv, TypeOK
  <2>1. /\ box' \in [Boxes -> {"none", "starting", "running", "stopped", "gone"}]
        /\ \A b \in Boxes : box'[b] = "running" => box[b] = "running"
    BY <1>2, <1>4 DEF IndInv, TypeOK
  <2>2. faults' \in Nat /\ dirty' = TRUE
    BY SMT, <1>4 DEF Fault, IndInv, TypeOK
  <2>3. Looks(r, Ended(r)) /\ Expecting(Ended(r)) /\ Ended(r).pc # "held"
    BY <1>1, <1>4, EndsOK DEF IndInv, Looks
  <2> QED
    BY ZenonT(30), <1>1, <2>0, <2>1, <2>2, <2>3, FailsStep
<1>5. CASE /\ box' = [box EXCEPT ![m] = "running"] /\ NoFault
           /\ Goes(r, "bind")
  <2> DEFINE x == [q[r] EXCEPT !.pc = "bind"]
  <2>1. /\ x \in RequestType /\ x.pc = "bind" /\ x.seen = q[r].seen /\ x.mine = m
        /\ x.conf = q[r].conf /\ q' = [q EXCEPT ![r] = x]
    BY ZenonT(30), <1>2, <1>5 DEF Goes, IndInv, TypeOK, RequestType, Pcs, Resolving
  <2> HIDE DEF x
  <2>2. Looks(r, x) /\ Expecting(x)
    BY <1>1, <2>1 DEF Looks, Goesto, Expecting, Resolving
  <2>3. /\ box' \in [Boxes -> {"none", "starting", "running", "stopped", "gone"}]
        /\ \A a \in Boxes : a # m => box'[a] = box[a]
    BY <1>5 DEF IndInv, TypeOK
  <2>4. TypeOK'
    BY ZenonT(30), <1>1, <1>5, <2>2, <2>3, QuietType DEF IndInv, TypeOK, Looks, NoFault
  <2>5. RowsInv'
    BY <1>1, <2>2, <2>4, FaithKept, LooksRows DEF IndInv
  <2>6. Expects' /\ OneHolder'
    BY <2>1, <2>2, ControlKept DEF IndInv, Looks
  <2>7. \A p \in Requests : q'[p] = IF p = r THEN x ELSE q[p]
    BY <2>1 DEF IndInv, TypeOK
  <2>8. HeldNotRetired' /\ RetiredStaysStopped'
    BY ZenonT(30), <1>1, <1>2, <2>1, <2>3, <2>7 DEF IndInv, HeldNotRetired, RetiredStaysStopped, TypeOK, At,
       Untouched
  <2>9. ASSUME ~dirty', NEW a \in Boxes, box'[a] = "running" \/ Locked(a)'
        PROVE  Cared(a)'
    <3>1. CASE a = m
      BY <2>1, <2>7, <3>1 DEF Cared
    <3>2. CASE a # m
      <4>1. Locked(a)' => Locked(a)
        BY <2>1, <2>7 DEF Locked, At
      <4>2. Cared(a)
        BY <1>5, <2>3, <2>9, <3>2, <4>1 DEF IndInv, CaredFor, NoFault
      <4>3. Current(a) => Current(a)'
        BY <1>1 DEF Current
      <4>4. made'[a] = made[a]
        BY <1>1
      <4> QED
        BY ZenonT(30), <1>1, <2>2, <4>2, <4>3, <4>4, CareKept DEF IndInv, Looks
    <3> QED
      BY <3>1, <3>2
  <2> QED
    BY ZenonT(30), <2>4, <2>5, <2>6, <2>8, <2>9 DEF IndInv, CaredFor
<1> QED
  BY <1>4, <1>5 DEF Start

(* Bind preserves the invariant.                                           *)
LEMMA BindStep ==
    ASSUME IndInv, NEW r \in Requests, Bind(r)
    PROVE  IndInv'
<1> DEFINE m == q[r].mine
           x == [q[r] EXCEPT !.pc = "executing", !.at = m]
<1>1. /\ q[r].pc = "bind" /\ UNCHANGED <<made, counters, retired, blind, dirty>>
      /\ q[r].seen = None \/ q[r].seen.retiring
  BY DEF Bind, At, IndInv, Expects, Expecting
<1>2. m \in Boxes /\ Untouched(m) /\ ~Locked(m) /\ q[r].conf \in Configs
  BY <1>1, MineIsOurs DEF Resolving
<1>3. CASE Changed(q[r].seen) /\ Goes(r, "unclaimed") /\ UNCHANGED <<box, served>>
  <2>1. Expecting([q[r] EXCEPT !.pc = "unclaimed"])
    BY ZenonT(30) DEF Expecting, IndInv, TypeOK, RequestType
  <2> QED
    BY <1>1, <1>3, <2>1, GoesStep DEF Changed, counters, Pcs, Resolving, IndInv, TypeOK
<1>4. CASE CompareAndSwap(q[r].seen, Row(m, q[r].conf)) /\ Serves(r, m)
  <2>1. /\ binding' = Row(m, q[r].conf) /\ (binding = None \/ binding.retiring)
        /\ served' = [served EXCEPT ![m] = @ \cup {q[r].conf}]
        /\ box' = [box EXCEPT ![m] = "running"]
    BY <1>1, <1>4 DEF CompareAndSwap, Serves
  <2>2. /\ x \in RequestType /\ x.pc = "executing" /\ x.seen = q[r].seen /\ x.mine = m
        /\ x.conf = q[r].conf /\ q' = [q EXCEPT ![r] = x]
    BY ZenonT(30), <1>2, <1>4 DEF Serves, IndInv, TypeOK, RequestType, Pcs, Resolving
  <2> HIDE DEF x
  <2>3. Goesto(r, x) /\ Expecting(x)
    BY <1>1, <2>2 DEF Goesto, Expecting, Resolving, counters
  <2>4. /\ binding' \in RowType /\ binding'.box = m /\ ~binding'.retiring
    BY <1>2, <2>1 DEF Row, RowType
  <2>5. /\ box' \in [Boxes -> {"none", "starting", "running", "stopped", "gone"}]
        /\ served' \in [Boxes -> SUBSET Configs]
        /\ \A a \in Boxes : a # m => box'[a] = box[a]
    BY <1>2, <2>1 DEF IndInv, TypeOK
  <2>6. TypeOK'
    BY <1>1, <2>3, <2>4, <2>5, QuietType DEF IndInv, TypeOK, counters
  <2>7. RowsInv'
    BY ZenonT(30), <1>1, <2>1, <2>2, <2>3, <2>6, BindRows DEF IndInv
  <2>8. Expects' /\ OneHolder'
    BY <2>2, <2>3, ControlKept DEF IndInv
  <2>9. \A p \in Requests : q'[p] = IF p = r THEN x ELSE q[p]
    BY <2>2 DEF IndInv, TypeOK
  <2>10. HeldNotRetired' /\ RetiredStaysStopped'
    BY ZenonT(30), <1>1, <1>2, <2>2, <2>5, <2>9 DEF IndInv, HeldNotRetired, RetiredStaysStopped, TypeOK, At,
       Untouched
  <2>11. ASSUME ~dirty', NEW a \in Boxes, box'[a] = "running" \/ Locked(a)'
         PROVE  Cared(a)'
    <3>1. CASE a = m
      <4>1. binding' # None
        BY <2>4
      <4> QED
        BY <2>4, <3>1, <4>1 DEF Cared, Current
    <3>2. CASE a # m
      <4>1. Locked(a)' => Locked(a)
        BY <2>2, <2>9 DEF Locked, At
      <4>2. Cared(a) /\ ~Current(a)
        BY ZenonT(30), <1>1, <2>1, <2>5, <2>11, <3>2, <4>1 DEF IndInv, CaredFor, Current
      <4>3. \A p \in Requests : At(p, "stop") => At(p, "stop")' /\ q'[p].seen = q[p].seen
        BY <1>1, <2>9 DEF At
      <4>4. \A p \in Requests : q[p].pc \in {"bind", "unclaimed"} /\ q[p].mine = a => q'[p] = q[p]
        BY <2>9, <3>2
      <4> QED
        BY <1>1, <4>2, <4>3, <4>4 DEF Cared, counters
    <3> QED
      BY <3>1, <3>2
  <2> QED
    BY <2>6, <2>7, <2>8, <2>10, <2>11 DEF IndInv, CaredFor
<1> QED
  BY <1>3, <1>4 DEF Bind

(* The stop of a sandbox whose claim was lost preserves the invariant.     *)
LEMMA StopUnclaimedStep ==
    ASSUME IndInv, NEW r \in Requests, StopUnclaimed(r)
    PROVE  IndInv'
<1> DEFINE x == [q[r] EXCEPT !.pc = "lost"]
<1>1. q[r].pc = "unclaimed" /\ UNCHANGED <<binding, made, begun, crashes, retired, served, blind>>
  BY DEF StopUnclaimed, At
<1>2. q[r].mine \in Boxes /\ Untouched(q[r].mine) /\ ~Locked(q[r].mine)
  BY <1>1, MineIsOurs DEF Resolving
<1>3. CASE Fault /\ Ends(r) /\ UNCHANGED box
  BY SMT, <1>1, <1>3, EndsStep DEF Fault, IndInv, TypeOK
<1>4. CASE box' = Stopped(q[r].mine) /\ Goes(r, "lost") /\ NoFault
  <2>1. /\ x \in RequestType /\ x.pc = "lost" /\ x.seen = q[r].seen /\ x.mine = q[r].mine
        /\ x.conf = q[r].conf /\ q' = [q EXCEPT ![r] = x]
    BY ZenonT(30), <1>4 DEF Goes, IndInv, TypeOK, RequestType, Pcs, Resolving
  <2> HIDE DEF x
  <2>2. Looks(r, x) /\ Expecting(x) /\ x.pc # "held"
    BY <1>1, <2>1 DEF Looks, Goesto, Expecting, Resolving
  <2>3. faults' \in Nat /\ dirty' = dirty /\ q[r].mine \notin retired'
    BY <1>1, <1>2, <1>4 DEF NoFault, IndInv, TypeOK, Untouched
  <2> QED
    BY ZenonT(30), <1>1, <1>2, <1>4, <2>2, <2>3, StopsStep
<1> QED
  BY <1>3, <1>4 DEF StopUnclaimed

(* LoadWinner preserves the invariant.                                     *)
LEMMA LoadWinnerStep ==
    ASSUME IndInv, NEW r \in Requests, LoadWinner(r)
    PROVE  IndInv'
<1>1. q[r].pc = "lost" /\ UNCHANGED <<binding, box, made, counters, history>>
  BY DEF LoadWinner, At
<1>2. CASE Ends(r)
  BY <1>1, <1>2, EndsStep DEF counters, history, IndInv, TypeOK
<1>3. ASSUME Compatible(r), NEW pc \in {"blind", "winner"},
             q' = [q EXCEPT ![r].pc = pc, ![r].seen = binding]
      PROVE  IndInv'
  <2> DEFINE n == q[r].tries
             x == [q[r] EXCEPT !.pc = pc, !.seen = binding, !.tries = n]
  <2>1. /\ q' = [q EXCEPT ![r] = x] /\ x.pc = pc /\ x.seen = binding /\ x.conf = q[r].conf
        /\ n \in Nat /\ pc \in Pcs /\ pc \notin {"held", "idle"}
    BY ZenonT(30), <1>3 DEF IndInv, TypeOK, RequestType, Pcs, Resolving
  <2>2. Expecting(x)
    BY <1>3, <2>1 DEF Compatible, Expecting
  <2> HIDE DEF n
  <2> QED
    BY <1>1, <2>1, <2>2, ReadsStep DEF Resolving
<1> QED
  BY <1>2, <1>3 DEF LoadWinner

(* ReuseByName preserves the invariant.                                    *)
LEMMA ReuseByNameStep ==
    ASSUME IndInv, NEW r \in Requests, ReuseByName(r)
    PROVE  IndInv'
<1>1. q[r].pc = "blind" /\ UNCHANGED <<binding, made, counters, retired, dirty>>
  BY DEF ReuseByName, At
<1>2. CASE Ends(r) /\ UNCHANGED <<box, served, blind>>
  BY <1>1, <1>2, EndsStep DEF counters, IndInv, TypeOK
<1>3. CASE Serves(r, q[r].seen.box) /\ blind' = blind \cup {q[r].seen.box}
  <2>1. q[r].seen.box \in Boxes
    BY <1>1 DEF IndInv, TypeOK, RequestType, RowType, Expects, Expecting
  <2>2. blind \subseteq blind' /\ blind' \subseteq Boxes /\ q[r].seen.box \in blind'
    BY <1>3, <2>1 DEF IndInv, TypeOK
  <2> QED
    BY <1>1, <1>3, <2>2, ServesStep
<1> QED
  BY <1>2, <1>3 DEF ReuseByName

(* A statement that fails preserves the invariant.                         *)
LEMMA StoreFailsStep ==
    ASSUME IndInv, NEW r \in Requests, StoreFails(r)
    PROVE  IndInv'
<1>1. /\ faults' \in Nat /\ Ends(r) /\ UNCHANGED <<binding, made, begun, crashes, history>>
  BY SMT DEF StoreFails, IndInv, TypeOK
<1>2. CASE q[r].pc \in {"resolve", "adopt", "claim", "lost"} /\ UNCHANGED box
  BY <1>1, <1>2, EndsStep DEF history, IndInv, TypeOK
<1>3. CASE At(r, "bind") /\ box' = Stopped(q[r].mine)
  <2>1. q[r].mine \in Boxes /\ Untouched(q[r].mine) /\ ~Locked(q[r].mine)
    BY <1>3, MineIsOurs DEF At, Resolving
  <2>2. Looks(r, Ended(r)) /\ Expecting(Ended(r)) /\ Ended(r).pc # "held"
    BY <1>1, <1>3, EndsOK DEF IndInv, Looks, At
  <2>3. /\ UNCHANGED <<made, crashes, served, blind>> /\ retired' = retired /\ dirty' = dirty
        /\ q[r].mine \notin retired'
    BY <1>1, <2>1 DEF history, Untouched
  <2>4. q[r].pc = "bind"
    BY <1>3 DEF At
  <2> QED
    BY ZenonT(30), <1>1, <1>3, <2>1, <2>2, <2>3, <2>4, StopsStep
<1> QED
  BY <1>2, <1>3 DEF StoreFails

----------------------------------------------------------------------------
(* The work, and what happens around it.                                   *)

(* The end of the work and of its completion preserve the invariant.       *)
LEMMA WorkStep ==
    ASSUME IndInv, NEW r \in Requests, WorkEnds(r) \/ Completed(r)
    PROVE  IndInv'
<1>1. CASE WorkEnds(r)
  BY <1>1, EndsStep DEF WorkEnds, At, counters, history, IndInv, TypeOK
<1>2. CASE Completed(r)
  <2>1. Idle \in RequestType /\ Idle.pc = "idle" /\ Idle.seen = None
    BY IdleOK
  <2>2. Goesto(r, Idle) /\ Expecting(Idle)
    BY <1>2, <2>1 DEF Completed, Goesto, Expecting, counters
  <2>3. Quiet(r, Idle)
    BY <1>2, <2>1, <2>2 DEF Completed, At, Quiet, Looks, counters, history, IndInv, TypeOK
  <2> QED
    BY <2>3, QuietStep
<1> QED
  BY <1>1, <1>2

(* A step that leaves the requests and the row alone and stops sandboxes   *)
(* behind the daemon's back preserves the invariant.                       *)
LEMMA UserEndsStep ==
    ASSUME IndInv, NEW b \in Boxes, UserEnds(b)
    PROVE  IndInv'
<1>1. /\ UNCHANGED <<binding, made, q, begun, crashes, retired, served, blind>>
      /\ faults' \in Nat /\ dirty' = TRUE
      /\ box' \in [Boxes -> {"none", "starting", "running", "stopped", "gone"}]
      /\ \A a \in Boxes : box'[a] = "running" => box[a] = "running"
  BY SMT DEF UserEnds, Fault, IndInv, TypeOK
<1>2. TypeOK'
  BY ZenonT(30), <1>1 DEF IndInv, TypeOK
<1>3. RowsInv' /\ Expects' /\ OneHolder' /\ HeldNotRetired'
  BY SMT, <1>1 DEF IndInv, RowsInv, LegacyFirst, Agree, RetiredForGood, FreshBoxes, InFlight,
     MineDiffers, Expects, OneHolder, HeldNotRetired, Known, Current, Untouched, Wears, Retires, At
<1>4. RetiredStaysStopped' /\ CaredFor'
  BY <1>1 DEF IndInv, TypeOK, RetiredStaysStopped, CaredFor
<1> QED
  BY <1>2, <1>3, <1>4 DEF IndInv

(* Restart preserves the invariant: what the sweep leaves running is bound *)
(* or one of the sandboxes it passes over.                                 *)
LEMMA RestartStep ==
    ASSUME IndInv, Restart
    PROVE  IndInv'
<1> DEFINE Journaled(r) == IsRun(r) /\ q[r].at # None
<1>1. /\ UNCHANGED <<binding, made, begun, retired, served, blind>>
      /\ crashes' \in Nat /\ crashes' > 0
  BY SMT DEF Restart, IndInv, TypeOK
<1>2. \A r \in Requests :
          \/ /\ q[r].pc # "idle" /\ q'[r] \in RequestType /\ q'[r].pc = "completing"
             /\ q'[r].seen = q[r].seen /\ q'[r].mine = q[r].mine /\ q'[r].conf = q[r].conf
          \/ q'[r] = Idle
  <2> SUFFICES ASSUME NEW r \in Requests, Journaled(r)
               PROVE  /\ q[r].pc # "idle" /\ q'[r] \in RequestType /\ q'[r].pc = "completing"
                      /\ q'[r].seen = q[r].seen /\ q'[r].mine = q[r].mine
                      /\ q'[r].conf = q[r].conf
    BY DEF Restart
  <2>1. q[r].pc # "idle"
    BY DEF IndInv, RowsInv, InFlight
  <2>2. "completing" \in Pcs /\ q'[r] = [q[r] EXCEPT !.pc = "completing"]
    BY DEF Pcs, Restart
  <2> QED
    BY SMT, <2>1, <2>2, PlaceOK DEF IndInv
<1>3. Idle \in RequestType /\ Idle.pc = "idle" /\ Idle.seen = None /\ Idle.at = None
  BY IdleOK DEF Idle
<1>4. q' \in [Requests -> RequestType]
  <2>1. q' = [r \in Requests |-> q'[r]]
    BY DEF Restart
  <2> QED
    BY <1>2, <1>3, <2>1
<1>5. PICK current \in BOOLEAN, traced \in BOOLEAN :
          \E spared \in SUBSET {b \in Boxes : Orphaned(b, current, traced)} :
             /\ box' = [b \in Boxes |->
                          IF b \in {a \in Boxes : Orphaned(a, current, traced)} \ spared
                          THEN "stopped" ELSE box[b]]
             /\ IF spared = {} THEN dirty' = FALSE /\ UNCHANGED faults ELSE Fault
  BY DEF Restart
<1>6. /\ faults' \in Nat /\ dirty' \in BOOLEAN
      /\ box' \in [Boxes -> {"none", "starting", "running", "stopped", "gone"}]
      /\ \A b \in Boxes : box'[b] = "running" =>
            box[b] = "running" /\ (dirty' \/ ~Orphaned(b, current, traced))
  <2>1. /\ box \in [Boxes -> {"none", "starting", "running", "stopped", "gone"}]
        /\ faults \in Nat
    BY DEF IndInv, TypeOK
  <2>2. PICK spared \in SUBSET {b \in Boxes : Orphaned(b, current, traced)} :
             /\ box' = [b \in Boxes |->
                          IF b \in {a \in Boxes : Orphaned(a, current, traced)} \ spared
                          THEN "stopped" ELSE box[b]]
             /\ IF spared = {} THEN dirty' = FALSE /\ UNCHANGED faults ELSE Fault
    BY <1>5
  <2>3. /\ box' \in [Boxes -> {"none", "starting", "running", "stopped", "gone"}]
        /\ \A b \in Boxes : box'[b] = "running" =>
              box[b] = "running" /\ (b \in spared \/ ~Orphaned(b, current, traced))
    BY <2>1, <2>2
  <2>4. CASE spared = {}
    BY <2>1, <2>2, <2>3, <2>4
  <2>5. CASE spared # {}
    <3>1. Fault
      BY <2>2, <2>5
    <3>2. faults' \in Nat /\ dirty' = TRUE
      BY SMT, <2>1, <3>1 DEF Fault
    <3> QED
      BY <2>3, <3>2
  <2> QED
    BY <2>4, <2>5
<1>7. TypeOK'
  BY ZenonT(30), <1>1, <1>4, <1>6 DEF IndInv, TypeOK
<1>8. \A row \in RowType : Known(row)' => Known(row)
  BY <1>1, <1>2, <1>3 DEF Known
<1>9. LegacyFirst' /\ Agree' /\ RetiredForGood' /\ \A b \in Boxes : Untouched(b) => Untouched(b)'
  BY <1>1, <1>7, <1>8, FaithKept, RowsKept DEF IndInv
<1>10. \A r \in Requests : q'[r].pc \notin Resolving
  BY <1>2, <1>3 DEF Resolving
<1>11. FreshBoxes'
  BY <1>1, <1>9, <1>10 DEF IndInv, RowsInv, FreshBoxes
<1>12. InFlight' /\ MineDiffers'
  BY <1>1, <1>2, <1>3 DEF IndInv, RowsInv, InFlight, MineDiffers
<1>13. Expects' /\ OneHolder' /\ HeldNotRetired'
  BY <1>10 DEF Expects, Expecting, OneHolder, HeldNotRetired, At, Resolving
<1>14. RetiredStaysStopped'
  BY <1>1, <1>6 DEF IndInv, TypeOK, RetiredStaysStopped
<1>15. ASSUME ~dirty', NEW b \in Boxes, box'[b] = "running" \/ Locked(b)' PROVE Cared(b)'
  <2>1. ~Locked(b)'
    BY <1>10 DEF Locked, At, Resolving
  <2>2. box[b] = "running" /\ ~Orphaned(b, current, traced)
    BY <1>6, <1>15, <2>1
  <2> QED
    BY <1>1, <2>2 DEF Orphaned, StillValid, Cared, Current
<1> QED
  BY ZenonT(30), <1>7, <1>9, <1>11, <1>12, <1>13, <1>14, <1>15 DEF IndInv, RowsInv, CaredFor

----------------------------------------------------------------------------
(* The invariant and what follows from it.                                 *)

(* The daemon starts without a row, or with one an older version wrote.    *)
LEMMA InitInv == Init => IndInv
<1> SUFFICES ASSUME Init PROVE IndInv
  OBVIOUS
<1>1. Idle \in RequestType /\ Idle.pc = "idle" /\ Idle.seen = None /\ Idle.at = None
  BY IdleOK DEF Idle
<1>2. /\ binding \in {None, Row(0, Legacy)} /\ retired = {} /\ blind = {} /\ dirty = FALSE
      /\ begun = 0 /\ \A b \in Boxes : served[b] = {}
      /\ \A b \in Boxes : box[b] = "running" => binding = Row(0, Legacy) /\ b = 0
      /\ \A r \in Requests : q[r] = Idle
  BY DEF Init
<1>3. Row(0, Legacy) \in RowType /\ Row(0, Legacy).box = 0 /\ Row(0, Legacy).conf = Legacy
      /\ ~Row(0, Legacy).retiring /\ Row(0, Legacy) # None
  <2>1. Row(0, Legacy) \in RowType /\ Row(0, Legacy).box = 0 /\ Row(0, Legacy).conf = Legacy
        /\ ~Row(0, Legacy).retiring
    BY SMT DEF Row, RowType, Boxes
  <2> QED
    BY <2>1
<1>4. TypeOK
  <2>1. /\ box \in [Boxes -> {"none", "starting", "running", "stopped", "gone"}]
        /\ made \in [Boxes -> Configs \cup {Legacy}] /\ served \in [Boxes -> SUBSET Configs]
    BY DEF Init
  <2>2. q \in [Requests -> RequestType] /\ begun \in 0..MaxRequests /\ faults \in Nat /\ crashes \in Nat
    BY SMT, <1>1 DEF Init
  <2> QED
    BY <1>2, <1>3, <2>1, <2>2 DEF TypeOK
<1>5. \A row \in RowType : Known(row) => row = Row(0, Legacy)
  BY <1>1, <1>2 DEF Known
<1>6. RowsInv
  <2>1. LegacyFirst /\ Agree
    BY SMT, <1>2, <1>3, <1>5 DEF LegacyFirst, Agree, Wears, Boxes
  <2>2. RetiredForGood
    BY <1>2, <1>3, <1>5 DEF RetiredForGood, Retires
  <2>3. FreshBoxes
    BY SMT, <1>1, <1>2, <1>3, <1>5 DEF FreshBoxes, Untouched, Resolving, Boxes
  <2> QED
    BY ZenonT(30), <1>1, <1>2, <2>1, <2>2, <2>3 DEF RowsInv, InFlight, MineDiffers
<1>7. Expects /\ OneHolder /\ HeldNotRetired /\ RetiredStaysStopped
  BY <1>1, <1>2 DEF Expects, Expecting, OneHolder, HeldNotRetired, RetiredStaysStopped, At
<1>8. CaredFor
  <2>1. \A b \in Boxes : ~Locked(b)
    BY <1>1, <1>2 DEF Locked, At
  <2> QED
    BY <1>2, <1>3, <2>1 DEF CaredFor, Cared, Current
<1> QED
  BY <1>4, <1>6, <1>7, <1>8 DEF IndInv

(* Every step preserves the invariant.                                     *)
LEMMA NextInv == IndInv /\ [Next]_vars => IndInv'
<1> SUFFICES ASSUME IndInv, [Next]_vars PROVE IndInv'
  OBVIOUS
<1>1. ASSUME NEW r \in Requests, Step(r) PROVE IndInv'
  <2>1. CASE \E c \in Configs : Begin(r, c)
    BY <2>1, BeginStep
  <2>2. CASE Resolve(r) \/ Adopt(r) \/ Claim(r) \/ StopRetired(r)
    BY <2>2, ResolveStep, AdoptStep, ClaimStep, StopRetiredStep
  <2>3. CASE Revalidate(r) \/ Resume(r) \/ ResumeRefused(r) \/ ResumeFails(r) \/ Unavailable(r)
    BY <2>3, RevalidateStep, ResumeStep, UnavailableStep
  <2>4. CASE Create(r) \/ Start(r) \/ Bind(r) \/ StopUnclaimed(r) \/ LoadWinner(r) \/ ReuseByName(r)
    BY <2>4, CreateStep, StartStep, BindStep, StopUnclaimedStep, LoadWinnerStep, ReuseByNameStep
  <2>5. CASE StoreFails(r) \/ WorkEnds(r) \/ Completed(r)
    BY <2>5, StoreFailsStep, WorkStep
  <2> QED
    BY <1>1, <2>1, <2>2, <2>3, <2>4, <2>5 DEF Step
<1>2. CASE \E b \in Boxes : UserEnds(b)
  BY <1>2, UserEndsStep
<1>3. CASE Restart
  BY ZenonT(30), <1>3, RestartStep
<1>4. CASE UNCHANGED vars
  BY SMT, <1>4 DEF vars, counters, history, IndInv, TypeOK, RowsInv, LegacyFirst, Agree, RetiredForGood,
     FreshBoxes, InFlight, MineDiffers, Expects, OneHolder, HeldNotRetired, RetiredStaysStopped,
     CaredFor, Known, Current, Untouched, Wears, Retires, Cared, Locked, At
<1> QED
  BY <1>1, <1>2, <1>3, <1>4 DEF Next

(* In every reachable state the rows, the requests and the runtimes agree. *)
LEMMA BindingInv == Spec => []IndInv
BY InitInv, NextInv, PTL DEF Spec

INSTANCE FiniteSetTheorems

(* However many requests race to adopt, retire, replace or reuse the       *)
(* sticky sandbox, and whatever fails, no sandbox is given the work of two *)
(* configurations.                                                         *)
THEOREM OneConfiguration == Spec => []OneConfigurationPerSandbox
<1>1. IndInv => OneConfigurationPerSandbox
  <2> SUFFICES ASSUME IndInv, NEW b \in Boxes PROVE Cardinality(served[b]) <= 1
    BY DEF OneConfigurationPerSandbox
  <2>1. \A c, d \in served[b] : c = d
    BY DEF IndInv, TypeOK, RowsInv, Agree, Wears
  <2>2. CASE served[b] = {}
    BY SMT, <2>2, FS_EmptySet
  <2>3. CASE served[b] # {}
    <3>1. PICK c : served[b] = {c}
      BY <2>1, <2>3
    <3> QED
      BY SMT, <3>1, FS_Singleton
  <2> QED
    BY <2>2, <2>3
<1> QED
  BY <1>1, BindingInv, PTL

(* A sandbox a retirement has stopped is never started again by a request  *)
(* that resolved it before, at any interleaving of the requests.           *)
THEOREM RetirementIsFinal == Spec => []RetiredStaysStopped
<1>1. IndInv => RetiredStaysStopped
  BY DEF IndInv
<1> QED
  BY <1>1, BindingInv, PTL

(* When nobody is resolving, every running sandbox is bound, was reused by *)
(* name, or is of an earlier life of the daemon and one that               *)
(* reconcileOrphanedSchedulerSandboxes passes over by design.              *)
THEOREM NoRuntimeIsLost == Spec => []NoStrayRuntime
<1>1. IndInv => NoStrayRuntime
  BY DEF IndInv, CaredFor, Cared, Current, NoStrayRuntime, At
<1> QED
  BY <1>1, BindingInv, PTL
=============================================================================
