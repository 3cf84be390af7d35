--------------------------- MODULE ScheduleClock_proofs ---------------------------
(***************************************************************************)
(* What the schedule clock guarantees for any number of schedulers,        *)
(* requests, ticks, failing store calls and crashes.  One invariant,       *)
(* ClockInv, says which copies of a trigger may exist while goroutines     *)
(* overlap or do not.  Most steps are steps of one call that leave the     *)
(* loop and the cache alone (Moves).                                       *)
(***************************************************************************)
EXTENDS ScheduleClock, TLAPS

(* Leaves are first-order unless they name SMT.                            *)
USE Zenon

----------------------------------------------------------------------------
(* The invariant.                                                          *)

(* A trigger as the store, the cache, a list or a job holds it.            *)
Entry == [kind : Kinds, on : BOOLEAN, tOn : BOOLEAN, next : Nat]

(* The call of an actor is at a step of its operation, and has read what   *)
(* the step needs.                                                         *)
CallOK(a) ==
    LET x == call[a] IN
    /\ DOMAIN x = {"pc", "op", "arg", "items"}
    /\ x.pc \in {"idle", "write", "arm", "replaceRead", "replaceWrite", "switchOn",
                 "list", "triggers", "init"}
    /\ x.arg \in Schedulers \cup {None}
    /\ x.pc # "idle" /\ x.op \in Disabling => x.arg \in Schedulers
    /\ x.pc = "write" => x.op # "runEnd" /\ x.op # "boot" /\ x.arg \in Schedulers
    /\ x.pc = "arm" => x.op = "enable" /\ x.arg \in Schedulers
    /\ x.pc \in {"replaceRead", "replaceWrite", "switchOn"} =>
          x.op = "apply" /\ x.arg \in Schedulers
    /\ x.pc = "replaceWrite" => x.items[x.arg] \in Entry
    /\ x.pc = "triggers" => x.items \in [Schedulers -> BOOLEAN]
    /\ x.pc = "init" => x.items \in [Schedulers -> Entry]

(* The loop's jobs are triggers that were due, each with the fire time it  *)
(* was due at.                                                             *)
LoopOK ==
    /\ DOMAIN loop = {"pc", "jobs", "due", "at"}
    /\ DOMAIN loop.jobs \subseteq Schedulers /\ DOMAIN loop.due = DOMAIN loop.jobs
    /\ \A s \in DOMAIN loop.jobs :
          loop.jobs[s] \in Entry /\ loop.due[s] \in Nat \ {0} /\ loop.due[s] <= clock
    /\ ~Collecting => DOMAIN loop.jobs = {}

Types ==
    /\ row \in [Schedulers -> Entry]
    /\ DOMAIN cache \subseteq Schedulers /\ \A s \in DOMAIN cache : cache[s] \in Entry
    /\ clock \in Nat
    /\ fired \in [Schedulers -> SUBSET Nat]
    /\ quiet \subseteq Schedulers
    /\ DOMAIN call = Actors /\ \A a \in Actors : CallOK(a)

(* The loop runs once startup has refreshed, and nothing outlives a crash. *)
LifeOK ==
    /\ daemon # "up" => loop.pc = "sleep"
    /\ daemon = "down" => InFlight = {}
    /\ call[Boot].pc # "idle" => daemon = "starting"

(* What raced and alone say of the goroutines under way.                   *)
Overlap ==
    /\ ~raced => /\ \A a, b \in InFlight : a = b
                 /\ Collecting => InFlight = {}
    /\ alone \in InFlight => InFlight = {alone} /\ ~Collecting

(* n is no fire time, or one after all that trigger s was dispatched for.  *)
Fresh(s, n) == n = 0 \/ \A f \in fired[s] : f < n
Later(n, d) == n = 0 \/ d < n

(* Without overlap no copy of a trigger holds a fire time that has been    *)
(* dispatched, and from the mark on the copies that outlive the dispatch   *)
(* are past the one that is about to be.                                   *)
FireTimes ==
    ~raced => \A s \in Schedulers :
        /\ \A f \in fired[s] : f <= clock
        /\ Fresh(s, row[s].next)
        /\ s \in DOMAIN cache => Fresh(s, cache[s].next)
        /\ \A a \in Actors :
              call[a].pc = "init" \/ (call[a].pc = "replaceWrite" /\ call[a].arg = s)
              => Fresh(s, call[a].items[s].next)
        /\ s \in DOMAIN loop.jobs =>
              /\ Fresh(s, loop.due[s]) /\ Fresh(s, loop.jobs[s].next)
              /\ Later(loop.jobs[s].next, loop.due[s])
              /\ loop.pc \in {"mark", "dispatch"} /\ s \in DOMAIN cache =>
                    Later(cache[s].next, loop.due[s])
              /\ loop.pc = "dispatch" => Later(row[s].next, loop.due[s])

(* Trigger e does not fire.                                                *)
Off(e) == ~(e.on /\ e.tOn)

(* What actor a has read, and will write, leaves scheduler s off.          *)
LeavesOff(a, s) ==
    /\ call[a].pc = "triggers" => ~(call[a].items[s] /\ row[s].tOn)
    /\ call[a].pc = "init" => Off(call[a].items[s])
    /\ call[a].pc # "idle" /\ call[a].op \notin Disabling => call[a].arg # s

(* A scheduler that was switched off alone is off everywhere; and the      *)
(* request that switches one off, while it is alone, has it off so far.    *)
QuietOff ==
    /\ \A s \in quiet :
          /\ Off(row[s]) /\ (s \in DOMAIN cache => Off(cache[s]))
          /\ \A a \in Actors : LeavesOff(a, s)
    /\ \A a \in Actors :
          /\ alone = a /\ call[a].op \in Disabling
          /\ call[a].pc \in {"list", "triggers", "init"}
          => Off(row[call[a].arg]) /\ LeavesOff(a, call[a].arg)

ClockInv ==
    /\ Types /\ LoopOK /\ LifeOK /\ Overlap
    /\ FireTimes /\ OneRunPerFireTime
    /\ QuietOff /\ SwitchedOffStaysOff

----------------------------------------------------------------------------
(* Fire times.                                                             *)

(* The grid point after n.                                                 *)
LEMMA GridIsLater ==
    ASSUME NEW n \in Nat, NEW p \in Nat \ {0}
    PROVE  (n \div p + 1) * p \in Nat /\ n < (n \div p + 1) * p
<1>1. n \div p \in Nat /\ n % p \in 0 .. (p - 1)
    BY SMT
<1>2. n = p * (n \div p) + (n % p)
    BY SMT
<1>3. \A q \in Nat : (q + 1) * p = p * q + p /\ (q + 1) * p \in Nat
    BY SMT
<1> QED
    BY SMT, <1>1, <1>2, <1>3

(* The next fire time is in the future, or there is none.                  *)
LEMMA NextIsLater ==
    ASSUME Types, NEW s \in Schedulers, NEW isFired
    PROVE  /\ SchedulerTriggerNextFireAt(clock, s, isFired) \in Nat
           /\ Later(SchedulerTriggerNextFireAt(clock, s, isFired), clock)
<1>1. clock \in Nat /\ Period \in Nat \ {0}
    BY ConstantAssumption DEF Types
<1>2. row[s].kind \in {"interval", "timeout", "cron"}
    BY ConstantAssumption DEF Types, Entry
<1>3. clock + Period \in Nat /\ clock < clock + Period
    BY SMT, <1>1
<1>4. (clock \div Period + 1) * Period \in Nat /\ clock < (clock \div Period + 1) * Period
    BY <1>1, GridIsLater
<1>5. CASE row[s].kind = "interval"
    BY <1>3, <1>5 DEF SchedulerTriggerNextFireAt, Later
<1>6. CASE row[s].kind = "timeout"
  <2>1. 0 \in Nat
      BY SMT
  <2> QED
      BY <1>3, <1>6, <2>1 DEF SchedulerTriggerNextFireAt, Later
<1>7. CASE row[s].kind = "cron"
    BY <1>4, <1>7 DEF SchedulerTriggerNextFireAt, Later
<1> QED
    BY <1>2, <1>5, <1>6, <1>7

(* So no run was dispatched for it.                                        *)
LEMMA FutureIsFresh ==
    ASSUME Types, FireTimes, ~raced, NEW s \in Schedulers, NEW n \in Nat, Later(n, clock)
    PROVE  Fresh(s, n)
<1>1. \A f \in fired[s] : f \in Nat /\ f <= clock
    BY DEF Types, FireTimes
<1>2. clock \in Nat
    BY DEF Types
<1> QED
    BY SMT, <1>1, <1>2 DEF Later, Fresh

----------------------------------------------------------------------------
(* A step of one call.                                                     *)

(* Actor a takes its call one step further; the loop, the cache and the    *)
(* clock stay.                                                             *)
Moves(a) ==
    /\ DOMAIN call' = Actors /\ \A b \in Actors : b # a => call'[b] = call[b]
    /\ call[a].pc # "idle" /\ call'[a].pc # "idle"
    /\ DOMAIN call'[a] = DOMAIN call[a]
    /\ call'[a].op = call[a].op /\ call'[a].arg = call[a].arg
    /\ UNCHANGED <<cache, clock, daemon, loop, fired, twice, quiet, alone, raced>>

(* What the updates of a call make of it.                                  *)
LEMMA CallUpdates ==
    ASSUME Types, NEW a \in Actors, call[a].pc # "idle", NEW pc, pc # "idle",
           UNCHANGED <<cache, clock, daemon, loop, fired, twice, quiet, alone, raced>>
    PROVE  /\ Goto(a, pc) => Moves(a) /\ call'[a].pc = pc
           /\ \A items : Reads(a, pc, items) =>
                 Moves(a) /\ call'[a].pc = pc /\ call'[a].items = items
<1>1. DOMAIN call = Actors /\ DOMAIN call[a] = {"pc", "op", "arg", "items"}
    BY DEF Types, CallOK
<1>2. ASSUME NEW items, Reads(a, pc, items)
      PROVE  Moves(a) /\ call'[a].pc = pc /\ call'[a].items = items
  <2>1. call' = [call EXCEPT ![a].pc = pc, ![a].items = items]
      BY <1>2 DEF Reads
  <2>2. DOMAIN call' = Actors /\ \A b \in Actors : b # a => call'[b] = call[b]
      BY <1>1, <2>1
  <2>3. /\ DOMAIN call'[a] = DOMAIN call[a] /\ call'[a].pc = pc /\ call'[a].items = items
        /\ call'[a].op = call[a].op /\ call'[a].arg = call[a].arg
      BY <1>1, <2>1
  <2> QED
      BY <2>2, <2>3 DEF Moves
<1>3. Goto(a, pc) => Reads(a, pc, <<>>)
    BY DEF Goto, Reads
<1> QED
    BY <1>2, <1>3

(* The goroutines under way stay the same, and so does what is said of     *)
(* them and of the loop.                                                   *)
LEMMA MovesKeeps ==
    ASSUME ClockInv, NEW a \in Actors, Moves(a)
    PROVE  /\ InFlight' = InFlight /\ a \in InFlight
           /\ LoopOK' /\ LifeOK' /\ Overlap' /\ OneRunPerFireTime' /\ SwitchedOffStaysOff'
<1>1. InFlight' = InFlight /\ a \in InFlight
    BY DEF Moves, InFlight, Actors
<1>2. Boot \in Actors
    BY DEF Actors
<1>3. Collecting' = Collecting
    BY DEF Moves, Collecting
<1>4. LoopOK'
    BY DEF ClockInv, Moves, LoopOK, Collecting
<1>5. LifeOK'
    BY <1>1, <1>2 DEF ClockInv, Moves, LifeOK
<1>6. Overlap'
    BY <1>1, <1>3 DEF ClockInv, Moves, Overlap
<1>7. OneRunPerFireTime' /\ SwitchedOffStaysOff'
    BY DEF ClockInv, Moves, OneRunPerFireTime, SwitchedOffStaysOff
<1> QED
    BY <1>1, <1>4, <1>5, <1>6, <1>7

(* The types, when the row of one scheduler and the call change.           *)
LEMMA MovesTypes ==
    ASSUME Types, NEW a \in Actors, Moves(a), CallOK(a)', row' \in [Schedulers -> Entry]
    PROVE  Types'
<1>1. ASSUME NEW b \in Actors, b # a PROVE CallOK(b)'
    BY <1>1 DEF Types, CallOK, Moves, Entry
<1> QED
    BY <1>1 DEF Types, Moves, Entry

(* Without overlap the loop is not collecting, and no one else has read    *)
(* anything.                                                               *)
LEMMA MovesFire ==
    ASSUME ClockInv, NEW a \in Actors, Moves(a),
           ~raced => \A s \in Schedulers :
                        /\ Fresh(s, row'[s].next)
                        /\ \/ call'[a].pc = "init"
                           \/ call'[a].pc = "replaceWrite" /\ call'[a].arg = s
                           => Fresh(s, call'[a].items[s].next)
    PROVE  FireTimes'
<1> SUFFICES ASSUME ~raced', NEW s \in Schedulers
             PROVE  /\ \A f \in fired'[s] : f <= clock'
                    /\ Fresh(s, row[s].next)'
                    /\ s \in DOMAIN cache' => Fresh(s, cache[s].next)'
                    /\ \A b \in Actors :
                          call'[b].pc = "init" \/ (call'[b].pc = "replaceWrite" /\ call'[b].arg = s)
                          => Fresh(s, call[b].items[s].next)'
                    /\ s \notin DOMAIN loop'.jobs
    BY DEF FireTimes
<1>1. ~raced /\ fired' = fired /\ cache' = cache /\ clock' = clock /\ loop' = loop
    BY DEF Moves
<1>2. \A n : Fresh(s, n)' <=> Fresh(s, n)
    BY <1>1 DEF Fresh
<1>3. s \notin DOMAIN loop'.jobs
    BY <1>1, MovesKeeps DEF ClockInv, Overlap, LoopOK
<1>4. /\ \A f \in fired'[s] : f <= clock'
      /\ s \in DOMAIN cache' => Fresh(s, cache[s].next)'
    BY <1>1 DEF ClockInv, FireTimes, Fresh
<1>5. Fresh(s, row[s].next)'
    BY <1>1 DEF Fresh
<1>6. ASSUME NEW b \in Actors,
             call'[b].pc = "init" \/ (call'[b].pc = "replaceWrite" /\ call'[b].arg = s)
      PROVE  Fresh(s, call[b].items[s].next)'
  <2>1. CASE b = a
      BY <1>1, <1>6, <2>1 DEF Fresh
  <2>2. CASE b # a
    <3>1. call'[b] = call[b]
        BY <2>2 DEF Moves
    <3> QED
        BY <1>1, <1>6, <3>1 DEF ClockInv, FireTimes, Fresh
  <2> QED
      BY <2>1, <2>2
<1> QED
    BY <1>3, <1>4, <1>5, <1>6

(* What is off stays off.                                                  *)
LEMMA MovesQuiet ==
    ASSUME ClockInv, NEW a \in Actors, Moves(a),
           \A s \in quiet : Off(row'[s]) /\ (row'[s].tOn => row[s].tOn) /\ LeavesOff(a, s)',
           /\ alone = a /\ call[a].op \in Disabling
           /\ call'[a].pc \in {"list", "triggers", "init"}
           => Off(row'[call[a].arg]) /\ LeavesOff(a, call[a].arg)'
    PROVE  QuietOff'
<1>1. ASSUME NEW s \in quiet, NEW b \in Actors PROVE LeavesOff(b, s)'
  <2>1. CASE b # a
    <3>1. call'[b] = call[b]
        BY <2>1 DEF Moves
    <3>2. LeavesOff(b, s) /\ (row'[s].tOn => row[s].tOn)
        BY DEF ClockInv, QuietOff
    <3> QED
        BY <3>1, <3>2 DEF LeavesOff, Off
  <2> QED
      BY <2>1
<1>2. ASSUME NEW b \in Actors, alone' = b, call'[b].op \in Disabling,
             call'[b].pc \in {"list", "triggers", "init"}
      PROVE  Off(row'[call'[b].arg]) /\ LeavesOff(b, call[b].arg)'
  <2>1. b \in InFlight' /\ alone = b
      BY <1>2 DEF InFlight, Moves
  <2>2. b = a
      BY <2>1, MovesKeeps DEF ClockInv, Overlap
  <2>3. call'[a].arg = call[a].arg /\ call'[a].op = call[a].op
      BY DEF Moves
  <2>4. LeavesOff(a, call[a].arg)' /\ Off(row'[call[a].arg])
      BY <1>2, <2>1, <2>2, <2>3
  <2> QED
      BY <2>2, <2>3, <2>4 DEF LeavesOff
<1>3. \A s \in quiet' : Off(row'[s]) /\ (s \in DOMAIN cache' => Off(cache'[s]))
    BY DEF ClockInv, QuietOff, Moves, Off
<1>4. quiet' = quiet
    BY DEF Moves
<1> QED
    BY <1>1, <1>2, <1>3, <1>4 DEF QuietOff, Off

(* Actor a writes the row of the scheduler it is about, and goes on to a   *)
(* step for which it has read nothing.                                     *)
LEMMA Writes ==
    ASSUME ClockInv, NEW a \in Actors, NEW s, s = call[a].arg, s \in Schedulers,
           call[a].pc # "idle", NEW pc, pc \in {"list", "replaceRead", "switchOn"}, Goto(a, pc),
           pc # "list" => call[a].op = "apply",
           NEW e \in Entry, row' = [row EXCEPT ![s] = e],
           ~raced => Fresh(s, e.next),
           call[a].op \in Disabling => Off(e) /\ (e.tOn => row[s].tOn),
           UNCHANGED <<cache, clock, daemon, loop, fired, twice, quiet, alone, raced>>
    PROVE  ClockInv'
<1>0. Types
    BY DEF ClockInv
<1>1. Moves(a) /\ call'[a].pc = pc
    BY <1>0, CallUpdates
<1>2. row' \in [Schedulers -> Entry] /\ row'[s] = e /\ \A t \in Schedulers : t # s => row'[t] = row[t]
    BY <1>0 DEF Types
<1>3. call'[a].op = call[a].op /\ call'[a].arg = s /\ DOMAIN call'[a] = DOMAIN call[a]
    BY <1>1 DEF Moves
<1>4. CallOK(a)'
    BY <1>0, <1>1, <1>3 DEF Types, CallOK, Disabling
<1>5. Types'
    BY <1>0, <1>1, <1>2, <1>4, MovesTypes
<1>6. FireTimes'
  <2>1. ~raced => \A t \in Schedulers : Fresh(t, row'[t].next)
      BY <1>2 DEF ClockInv, FireTimes
  <2> QED
      BY <1>1, <2>1, MovesFire
<1>7. QuietOff'
  <2>1. ASSUME NEW t \in Schedulers, call[a].op \in Disabling \/ t # s PROVE LeavesOff(a, t)'
      BY <1>1, <1>3, <2>1 DEF LeavesOff
  <2>2. ASSUME NEW t \in quiet
        PROVE  Off(row'[t]) /\ (row'[t].tOn => row[t].tOn) /\ LeavesOff(a, t)'
    <3>1. t \in Schedulers /\ Off(row[t]) /\ (call[a].op \in Disabling \/ t # s)
        BY <1>0 DEF ClockInv, QuietOff, LeavesOff, Types
    <3> QED
        BY <1>2, <2>1, <3>1
  <2>3. ASSUME call[a].op \in Disabling
        PROVE  Off(row'[call[a].arg]) /\ LeavesOff(a, call[a].arg)'
    <3>1. Off(row'[s]) /\ LeavesOff(a, s)'
        BY <1>2, <2>1, <2>3
    <3> QED
        BY <1>3, <3>1 DEF LeavesOff
  <2> QED
      BY <1>1, <2>2, <2>3, MovesQuiet
<1> QED
    BY <1>1, <1>5, <1>6, <1>7, MovesKeeps DEF ClockInv

(* Actor a reads, and writes nothing.                                      *)
LEMMA ReadsOnly ==
    ASSUME ClockInv, NEW a \in Actors, Moves(a), CallOK(a)', UNCHANGED row,
           ~raced => \A s \in Schedulers :
                        \/ call'[a].pc = "init"
                        \/ call'[a].pc = "replaceWrite" /\ call'[a].arg = s
                        => Fresh(s, call'[a].items[s].next),
           \A s \in Schedulers : Off(row[s]) /\ LeavesOff(a, s) => LeavesOff(a, s)',
           call'[a].pc \in {"list", "triggers", "init"} =>
               call[a].pc \in {"list", "triggers", "init"}
    PROVE  ClockInv'
<1>0. Types
    BY DEF ClockInv
<1>1. Types'
    BY <1>0, MovesTypes DEF Types
<1>2. FireTimes'
  <2>1. ~raced => \A t \in Schedulers : Fresh(t, row'[t].next)
      BY DEF ClockInv, FireTimes
  <2> QED
      BY <2>1, MovesFire
<1>3. QuietOff'
  <2>1. ASSUME NEW t \in quiet
        PROVE  Off(row'[t]) /\ (row'[t].tOn => row[t].tOn) /\ LeavesOff(a, t)'
      BY <1>0 DEF ClockInv, QuietOff, Types
  <2>2. ASSUME alone = a, call[a].op \in Disabling, call'[a].pc \in {"list", "triggers", "init"}
        PROVE  Off(row'[call[a].arg]) /\ LeavesOff(a, call[a].arg)'
    <3>1. PICK s : s = call[a].arg
        OBVIOUS
    <3>2. s \in Schedulers
        BY <1>0, <2>2, <3>1 DEF Types, CallOK, Moves
    <3>3. Off(row[s]) /\ LeavesOff(a, s)
        BY <2>2, <3>1 DEF ClockInv, QuietOff
    <3>4. LeavesOff(a, s)'
        BY <3>2, <3>3
    <3> QED
        BY <3>1, <3>3, <3>4 DEF LeavesOff, Moves
  <2> QED
      BY <2>1, <2>2, MovesQuiet
<1> QED
    BY <1>1, <1>2, <1>3, MovesKeeps DEF ClockInv

----------------------------------------------------------------------------
(* The steps of a call.                                                    *)

(* What a step of a call finds.                                            *)
LEMMA AtStep ==
    ASSUME ClockInv, NEW a \in Actors
    PROVE  /\ Types /\ CallOK(a)
           /\ call[a].pc \in {"write", "arm", "replaceRead", "replaceWrite", "switchOn"} =>
                 /\ call[a].arg \in Schedulers /\ row[call[a].arg] \in Entry
                 /\ ~raced => Fresh(call[a].arg, row[call[a].arg].next)
BY DEF ClockInv, Types, CallOK, FireTimes

(* No fire time is fresh.                                                  *)
LEMMA ZeroIsFresh == 0 \in Nat /\ \A s : Fresh(s, 0)
BY SMT DEF Fresh

(* Nothing that has been dispatched is in the future.                      *)
LEMMA NextIsFresh ==
    ASSUME ClockInv, NEW s \in Schedulers, NEW isFired
    PROVE  /\ SchedulerTriggerNextFireAt(clock, s, isFired) \in Nat
           /\ ~raced => Fresh(s, SchedulerTriggerNextFireAt(clock, s, isFired))
BY NextIsLater, FutureIsFresh DEF ClockInv

(* disable clears the fire time; enable reads the triggers.                *)
LEMMA SetSchedulerEnabledStep ==
    ASSUME ClockInv, NEW a \in Actors, SetSchedulerEnabled(a)
    PROVE  ClockInv'
<1>1. /\ call[a].pc = "write"
      /\ UNCHANGED <<cache, clock, daemon, loop, fired, twice, quiet, alone, raced>>
    BY DEF SetSchedulerEnabled, Works, history
<1>2. PICK s \in Schedulers : s = call[a].arg
    BY <1>1, AtStep
<1>3. Types /\ CallOK(a) /\ row[s] \in Entry /\ row \in [Schedulers -> Entry]
    BY <1>1, <1>2, AtStep DEF Types
<1>4. CASE call[a].op = "enable"
  <2>1. Reads(a, "arm", [t \in {s} |-> row[t].tOn]) /\ UNCHANGED row
      BY <1>2, <1>4 DEF SetSchedulerEnabled
  <2>2. Moves(a) /\ call'[a].pc = "arm"
      BY <1>1, <1>3, <2>1, CallUpdates
  <2>3. call'[a].op = "enable" /\ call'[a].arg = s /\ DOMAIN call'[a] = DOMAIN call[a]
      BY <1>2, <1>4, <2>2 DEF Moves
  <2>4. CallOK(a)'
      BY <1>3, <2>2, <2>3 DEF CallOK, Disabling
  <2>5. \A t \in Schedulers : Off(row[t]) /\ LeavesOff(a, t) => LeavesOff(a, t)'
      BY <1>1, <1>2, <1>4, <2>2, <2>3 DEF LeavesOff
  <2> QED
      BY <2>1, <2>2, <2>4, <2>5, ReadsOnly
<1>5. CASE call[a].op = "disable"
  <2>1. row' = [row EXCEPT ![s].on = FALSE, ![s].next = 0] /\ Goto(a, "list")
      BY <1>2, <1>5 DEF SetSchedulerEnabled
  <2>2. PICK e : e = [row[s] EXCEPT !.on = FALSE, !.next = 0]
      OBVIOUS
  <2>3. e \in Entry /\ e.on = FALSE /\ e.next = 0 /\ e.tOn = row[s].tOn
      BY <1>3, <2>2, ZeroIsFresh DEF Entry
  <2>4. row' = [row EXCEPT ![s] = e]
      BY <1>3, <2>1, <2>2
  <2>5. Off(e) /\ Fresh(s, e.next) /\ e \in Entry /\ (e.tOn => row[s].tOn)
      BY <2>3, ZeroIsFresh DEF Off
  <2>6. Goto(a, "list")
      BY <2>1
  <2> QED
      BY <1>1, <1>2, <2>4, <2>5, <2>6, Writes
<1> QED
    BY <1>4, <1>5 DEF SetSchedulerEnabled

(* enable arms the trigger if it was on when it was read.                  *)
LEMMA EnableSchedulerTriggersStep ==
    ASSUME ClockInv, NEW a \in Actors, EnableSchedulerTriggers(a)
    PROVE  ClockInv'
<1>1. /\ call[a].pc = "arm" /\ Goto(a, "list")
      /\ UNCHANGED <<cache, clock, daemon, loop, fired, twice, quiet, alone, raced>>
    BY DEF EnableSchedulerTriggers, Works, history
<1>2. PICK s \in Schedulers : s = call[a].arg
    BY <1>1, AtStep
<1>3. row[s] \in Entry /\ row \in [Schedulers -> Entry] /\ call[a].op = "enable"
    BY <1>1, <1>2, AtStep DEF Types, CallOK
<1>4. PICK n : n = IF call[a].items[s] THEN SchedulerTriggerNextFireAt(clock, s, FALSE)
                   ELSE row[s].next
    OBVIOUS
<1>5. n \in Nat /\ (~raced => Fresh(s, n))
    BY <1>1, <1>2, <1>3, <1>4, AtStep, NextIsFresh DEF Entry
<1>6. row' = [row EXCEPT ![s].on = TRUE, ![s].next = n]
    BY <1>2, <1>4 DEF EnableSchedulerTriggers
<1>7. PICK e : e = [row[s] EXCEPT !.on = TRUE, !.next = n]
    OBVIOUS
<1>8. e \in Entry /\ e.next = n
    BY <1>3, <1>5, <1>7 DEF Entry
<1>9. row' = [row EXCEPT ![s] = e]
    BY <1>3, <1>6, <1>7
<1> QED
    BY <1>1, <1>2, <1>3, <1>5, <1>8, <1>9, Writes DEF Disabling

(* A trigger switched on is armed; one switched off has no fire time.      *)
LEMMA SetSchedulerTriggerEnabledStep ==
    ASSUME ClockInv, NEW a \in Actors, SetSchedulerTriggerEnabled(a)
    PROVE  ClockInv'
<1>1. /\ call[a].pc = "write" /\ call[a].op \in {"triggerOn", "triggerOff"} /\ Goto(a, "list")
      /\ UNCHANGED <<cache, clock, daemon, loop, fired, twice, quiet, alone, raced>>
    BY DEF SetSchedulerTriggerEnabled, Works, history
<1>2. PICK s \in Schedulers : s = call[a].arg
    BY <1>1, AtStep
<1>3. row[s] \in Entry /\ row \in [Schedulers -> Entry]
    BY <1>1, <1>2, AtStep DEF Types
<1>4. CASE call[a].op = "triggerOn"
  <2>1. PICK n : n = SchedulerTriggerNextFireAt(clock, s, FALSE)
      OBVIOUS
  <2>2. n \in Nat /\ (~raced => Fresh(s, n))
      BY <2>1, NextIsFresh
  <2>3. row' = [row EXCEPT ![s].tOn = TRUE, ![s].next = n]
    <3>1. (call[a].op = "triggerOn") = TRUE
        BY SMT, <1>4
    <3> QED
        BY <1>2, <2>1, <3>1 DEF SetSchedulerTriggerEnabled
  <2>4. PICK e : e = [row[s] EXCEPT !.tOn = TRUE, !.next = n]
      OBVIOUS
  <2>5. e \in Entry /\ e.next = n
      BY <1>3, <2>2, <2>4 DEF Entry
  <2>6. row' = [row EXCEPT ![s] = e]
      BY <1>3, <2>3, <2>4
  <2> QED
      BY <1>1, <1>2, <1>4, <2>2, <2>5, <2>6, Writes DEF Disabling
<1>5. CASE call[a].op = "triggerOff"
  <2>1. row' = [row EXCEPT ![s].tOn = FALSE, ![s].next = 0]
    <3>1. (call[a].op = "triggerOn") = FALSE
        BY SMT, <1>5
    <3> QED
        BY <1>2, <3>1 DEF SetSchedulerTriggerEnabled
  <2>2. PICK e : e = [row[s] EXCEPT !.tOn = FALSE, !.next = 0]
      OBVIOUS
  <2>3. e \in Entry /\ e.tOn = FALSE /\ e.next = 0
      BY <1>3, <2>2, ZeroIsFresh DEF Entry
  <2>4. row' = [row EXCEPT ![s] = e]
      BY <1>3, <2>1, <2>2
  <2>5. Off(e) /\ Fresh(s, e.next) /\ ~e.tOn
      BY <2>3, ZeroIsFresh DEF Off
  <2> QED
      BY <1>1, <1>2, <2>3, <2>4, <2>5, Writes
<1> QED
    BY <1>1, <1>4, <1>5

(* Project down and apply switch the scheduler off and on, and leave its   *)
(* fire time.                                                              *)
LEMMA SetProjectSchedulerEnabledStep ==
    ASSUME ClockInv, NEW a \in Actors, SetProjectSchedulerEnabled(a)
    PROVE  ClockInv'
<1>1. /\ call[a].pc \in {"write", "switchOn"}
      /\ UNCHANGED <<cache, clock, daemon, loop, fired, twice, quiet, alone, raced>>
    BY DEF SetProjectSchedulerEnabled, Works, history
<1>2. PICK s \in Schedulers : s = call[a].arg
    BY <1>1, AtStep
<1>3. /\ row[s] \in Entry /\ row \in [Schedulers -> Entry] /\ (~raced => Fresh(s, row[s].next))
      /\ call[a].pc = "switchOn" => call[a].op = "apply"
    BY <1>1, <1>2, AtStep DEF Types, CallOK
<1>4. PICK off, on : off = [row[s] EXCEPT !.on = FALSE] /\ on = [row[s] EXCEPT !.on = TRUE]
    OBVIOUS
<1>5. /\ off \in Entry /\ off.on = FALSE /\ off.next = row[s].next /\ off.tOn = row[s].tOn
      /\ on \in Entry /\ on.next = row[s].next
    BY <1>3, <1>4 DEF Entry
<1>6. Off(off)
    BY <1>5 DEF Off
<1>7. \/ call[a].op = "down" /\ row' = [row EXCEPT ![s] = off] /\ Goto(a, "list")
      \/ call[a].op = "apply" /\ row' = [row EXCEPT ![s] = off] /\ Goto(a, "replaceRead")
      \/ call[a].op = "apply" /\ row' = [row EXCEPT ![s] = on] /\ Goto(a, "list")
    BY <1>2, <1>3, <1>4 DEF SetProjectSchedulerEnabled
<1>8. CASE call[a].op = "down" /\ row' = [row EXCEPT ![s] = off] /\ Goto(a, "list")
    BY <1>1, <1>2, <1>3, <1>5, <1>6, <1>8, Writes
<1>9. CASE call[a].op = "apply" /\ row' = [row EXCEPT ![s] = off] /\ Goto(a, "replaceRead")
    BY <1>1, <1>2, <1>3, <1>5, <1>6, <1>9, Writes
<1>10. CASE call[a].op = "apply" /\ row' = [row EXCEPT ![s] = on] /\ Goto(a, "list")
    BY <1>1, <1>2, <1>3, <1>5, <1>10, Writes DEF Disabling
<1> QED
    BY <1>7, <1>8, <1>9, <1>10

(* The listed trigger is the stored one.                                   *)
LEMMA ListStoredTriggersStep ==
    ASSUME ClockInv, NEW a \in Actors, ListStoredTriggers(a)
    PROVE  ClockInv'
<1>1. /\ call[a].pc = "replaceRead" /\ UNCHANGED row
      /\ UNCHANGED <<cache, clock, daemon, loop, fired, twice, quiet, alone, raced>>
    BY DEF ListStoredTriggers, Works, history
<1>2. PICK s \in Schedulers : s = call[a].arg
    BY <1>1, AtStep
<1>3. /\ Types /\ CallOK(a) /\ row[s] \in Entry /\ call[a].op = "apply"
      /\ ~raced => Fresh(s, row[s].next)
    BY <1>1, <1>2, AtStep DEF CallOK
<1>4. PICK items : items = [t \in {s} |-> [row[t] EXCEPT !.on = FALSE]]
    OBVIOUS
<1>5. Reads(a, "replaceWrite", items)
    BY <1>2, <1>4 DEF ListStoredTriggers
<1>6. Moves(a) /\ call'[a].pc = "replaceWrite" /\ call'[a].items = items
    BY <1>1, <1>3, <1>5, CallUpdates
<1>7. call'[a].op = "apply" /\ call'[a].arg = s /\ DOMAIN call'[a] = DOMAIN call[a]
    BY <1>2, <1>3, <1>6 DEF Moves
<1>8. items[s] \in Entry /\ items[s].next = row[s].next
    BY <1>3, <1>4 DEF Entry
<1>9. CallOK(a)'
    BY <1>3, <1>6, <1>7, <1>8 DEF CallOK, Disabling, Entry
<1>10. \A t \in Schedulers : Off(row[t]) /\ LeavesOff(a, t) => LeavesOff(a, t)'
    BY <1>1, <1>2, <1>3, <1>6, <1>7 DEF LeavesOff
<1> QED
    BY <1>1, <1>3, <1>6, <1>7, <1>8, <1>9, <1>10, ReadsOnly

(* The replaced trigger keeps the fire time that was listed, or gets a     *)
(* future one.                                                             *)
LEMMA ReplaceSchedulerTriggersStep ==
    ASSUME ClockInv, NEW a \in Actors, ReplaceSchedulerTriggers(a)
    PROVE  ClockInv'
<1>1. /\ call[a].pc = "replaceWrite" /\ Goto(a, "switchOn")
      /\ UNCHANGED <<cache, clock, daemon, loop, fired, twice, quiet, alone, raced>>
    BY DEF ReplaceSchedulerTriggers, Works, history
<1>2. PICK s \in Schedulers : s = call[a].arg
    BY <1>1, AtStep
<1>3. row[s] \in Entry /\ row \in [Schedulers -> Entry] /\ call[a].op = "apply"
    BY <1>1, <1>2, AtStep DEF Types, CallOK
<1>4. PICK previous : previous = call[a].items[s]
    OBVIOUS
<1>5. previous \in Entry /\ (~raced => Fresh(s, previous.next))
    BY <1>1, <1>2, <1>4 DEF ClockInv, Types, CallOK, FireTimes
<1>6. PICK sameSchedule \in BOOLEAN :
         row' = [row EXCEPT ![s].tOn = previous.tOn,
                            ![s].next = ReplacedNextFireAt(s, previous, sameSchedule)]
    BY <1>2, <1>4 DEF ReplaceSchedulerTriggers
<1>7. PICK n : n = ReplacedNextFireAt(s, previous, sameSchedule)
    OBVIOUS
<1>8. n \in {0, previous.next, SchedulerTriggerNextFireAt(clock, s, FALSE)}
  <2>1. CASE ~previous.tOn
      BY <1>7, <2>1 DEF ReplacedNextFireAt
  <2>2. CASE previous.tOn /\ row[s].kind = "timeout"
      BY <1>7, <2>2 DEF ReplacedNextFireAt
  <2>3. CASE previous.tOn /\ row[s].kind # "timeout"
      BY <1>7, <2>3 DEF ReplacedNextFireAt
  <2> QED
      BY <2>1, <2>2, <2>3
<1>9. n \in Nat /\ (~raced => Fresh(s, n))
    BY <1>5, <1>8, ZeroIsFresh, NextIsFresh DEF Entry
<1>10. PICK e : e = [row[s] EXCEPT !.tOn = previous.tOn, !.next = n]
    OBVIOUS
<1>11. e \in Entry /\ e.next = n
    BY <1>3, <1>5, <1>9, <1>10 DEF Entry
<1>12. row' = [row EXCEPT ![s] = e]
    BY <1>3, <1>6, <1>7, <1>10
<1> QED
    BY <1>1, <1>2, <1>3, <1>9, <1>11, <1>12, Writes DEF Disabling

(* The two queries of a list: what is off when the first runs, and is not  *)
(* switched on, is off in the list.                                        *)
LEMMA ListSchedulersStep ==
    ASSUME ClockInv, NEW a \in Actors, ListSchedulers(a)
    PROVE  ClockInv'
<1>1. /\ call[a].pc \in {"list", "triggers"} /\ UNCHANGED row
      /\ UNCHANGED <<cache, clock, daemon, loop, fired, twice, quiet, alone, raced>>
    BY DEF ListSchedulers, Works, history
<1>2. /\ Types /\ CallOK(a) /\ row \in [Schedulers -> Entry]
      /\ ~raced => \A s \in Schedulers : Fresh(s, row[s].next)
    BY DEF ClockInv, Types, FireTimes
<1>3. CASE call[a].pc = "list"
  <2>1. PICK items : items = [s \in Schedulers |-> row[s].on]
      OBVIOUS
  <2>2. Reads(a, "triggers", items)
      BY <1>3, <2>1 DEF ListSchedulers
  <2>3. Moves(a) /\ call'[a].pc = "triggers" /\ call'[a].items = items
      BY <1>1, <1>2, <2>2, CallUpdates
  <2>4. call'[a].op = call[a].op /\ call'[a].arg = call[a].arg /\ DOMAIN call'[a] = DOMAIN call[a]
      BY <2>3 DEF Moves
  <2>5. items \in [Schedulers -> BOOLEAN]
      BY <1>2, <2>1 DEF Entry
  <2>6. CallOK(a)'
      BY <1>2, <1>3, <2>3, <2>4, <2>5 DEF CallOK
  <2>7. ASSUME NEW t \in Schedulers, Off(row[t]), LeavesOff(a, t) PROVE LeavesOff(a, t)'
    <3>1. items[t] = row[t].on
        BY <2>1
    <3>2. ~(call'[a].items[t] /\ row'[t].tOn)
        BY <1>1, <2>3, <2>7, <3>1 DEF Off
    <3>3. call[a].op \notin Disabling => call'[a].arg # t
        BY <1>3, <2>4, <2>7 DEF LeavesOff
    <3> QED
        BY <2>3, <2>4, <3>2, <3>3 DEF LeavesOff
  <2> QED
      BY <1>1, <1>3, <2>3, <2>6, <2>7, ReadsOnly
<1>4. CASE call[a].pc = "triggers"
  <2>1. PICK items : items = [s \in Schedulers |-> [row[s] EXCEPT !.on = call[a].items[s]]]
      OBVIOUS
  <2>2. Reads(a, "init", items)
      BY <1>4, <2>1 DEF ListSchedulers
  <2>3. Moves(a) /\ call'[a].pc = "init" /\ call'[a].items = items
      BY <1>1, <1>2, <2>2, CallUpdates
  <2>4. call'[a].op = call[a].op /\ call'[a].arg = call[a].arg /\ DOMAIN call'[a] = DOMAIN call[a]
      BY <2>3 DEF Moves
  <2>5. ASSUME NEW t \in Schedulers
        PROVE  /\ items[t] \in Entry /\ items[t].on = call[a].items[t]
               /\ items[t].tOn = row[t].tOn /\ items[t].next = row[t].next
    <3>1. call[a].items[t] \in BOOLEAN /\ row[t] \in Entry
        BY <1>2, <1>4 DEF CallOK
    <3> QED
        BY <2>1, <3>1 DEF Entry
  <2>6. CallOK(a)'
    <3>1. call'[a].items \in [Schedulers -> Entry]
        BY <2>1, <2>3, <2>5
    <3> QED
        BY <1>2, <1>4, <2>3, <2>4, <3>1 DEF CallOK, Entry
  <2>7. ASSUME NEW t \in Schedulers, Off(row[t]), LeavesOff(a, t) PROVE LeavesOff(a, t)'
    <3>1. ~(call[a].items[t] /\ row[t].tOn)
        BY <1>4, <2>7 DEF LeavesOff
    <3>2. Off(call'[a].items[t])
        BY <2>3, <2>5, <3>1 DEF Off
    <3>3. call[a].op \notin Disabling => call'[a].arg # t
        BY <1>4, <2>4, <2>7 DEF LeavesOff
    <3> QED
        BY <2>3, <2>4, <3>2, <3>3 DEF LeavesOff, Off
  <2>8. ~raced => \A t \in Schedulers : Fresh(t, call'[a].items[t].next)
      BY <1>2, <2>3, <2>5
  <2> QED
      BY <1>1, <1>4, <2>3, <2>6, <2>7, <2>8, ReadsOnly
<1> QED
    BY <1>1, <1>3, <1>4

(* A cron trigger gets its first fire time, in the store and in the list.  *)
LEMMA InitializeCronSchedulesStep ==
    ASSUME ClockInv, NEW a \in Actors, InitializeCronSchedules(a)
    PROVE  ClockInv'
<1>1. /\ call[a].pc = "init"
      /\ UNCHANGED <<cache, clock, daemon, loop, fired, twice, quiet, alone, raced>>
    BY DEF InitializeCronSchedules, Works, history
<1>2. /\ Types /\ CallOK(a) /\ row \in [Schedulers -> Entry]
      /\ call[a].items \in [Schedulers -> Entry] /\ DOMAIN call = Actors
      /\ DOMAIN call[a] = {"pc", "op", "arg", "items"}
    BY <1>1 DEF ClockInv, Types, CallOK
<1>3. PICK s \in Schedulers :
         /\ row' = [row EXCEPT ![s].next = SchedulerTriggerNextFireAt(clock, s, FALSE)]
         /\ call' = [call EXCEPT ![a].items[s].next = SchedulerTriggerNextFireAt(clock, s, FALSE)]
    BY DEF InitializeCronSchedules, Uninitialized
<1>4. PICK n : n = SchedulerTriggerNextFireAt(clock, s, FALSE)
    OBVIOUS
<1>5. n \in Nat /\ (~raced => Fresh(s, n))
    BY <1>4, NextIsFresh
<1>6. row' = [row EXCEPT ![s].next = n] /\ call' = [call EXCEPT ![a].items[s].next = n]
    BY <1>3, <1>4
<1>7. /\ \A t \in Schedulers : t # s => row'[t] = row[t]
      /\ row'[s] \in Entry /\ row'[s].on = row[s].on /\ row'[s].tOn = row[s].tOn
      /\ row'[s].next = n
    BY <1>2, <1>5, <1>6 DEF Entry
<1>8. row' \in [Schedulers -> Entry]
  <2>1. DOMAIN row' = Schedulers /\ row' = [t \in DOMAIN row' |-> row'[t]]
      BY <1>2, <1>6
  <2>2. \A t \in Schedulers : row'[t] \in Entry
      BY <1>2, <1>7
  <2> QED
      BY <2>1, <2>2
<1>9. /\ DOMAIN call' = Actors /\ \A b \in Actors : b # a => call'[b] = call[b]
      /\ call'[a] = [call[a] EXCEPT !.items = [call[a].items EXCEPT ![s].next = n]]
    BY <1>2, <1>6
<1>10. /\ DOMAIN call'[a] = DOMAIN call[a] /\ call'[a].pc = "init"
       /\ call'[a].op = call[a].op /\ call'[a].arg = call[a].arg
       /\ call'[a].items = [call[a].items EXCEPT ![s].next = n]
    BY <1>1, <1>2, <1>9
<1>11. /\ \A t \in Schedulers : t # s => call'[a].items[t] = call[a].items[t]
       /\ call'[a].items[s] \in Entry /\ call'[a].items[s].on = call[a].items[s].on
       /\ call'[a].items[s].tOn = call[a].items[s].tOn /\ call'[a].items[s].next = n
  <2>1. PICK I \in [Schedulers -> Entry] : I = call[a].items
      BY <1>2
  <2>2. PICK J : J = [I EXCEPT ![s].next = n]
      OBVIOUS
  <2>3. /\ \A t \in Schedulers : t # s => J[t] = I[t]
        /\ J[s] \in Entry /\ J[s].on = I[s].on /\ J[s].tOn = I[s].tOn /\ J[s].next = n
      BY <1>5, <2>2 DEF Entry
  <2>4. call'[a].items = J
      BY <1>10, <2>1, <2>2
  <2> QED
      BY <2>1, <2>3, <2>4
<1>12. call'[a].items \in [Schedulers -> Entry]
  <2>1. /\ DOMAIN call'[a].items = Schedulers
        /\ call'[a].items = [t \in DOMAIN call'[a].items |-> call'[a].items[t]]
      BY <1>2, <1>10
  <2>2. \A t \in Schedulers : call'[a].items[t] \in Entry
      BY <1>2, <1>11
  <2> QED
      BY <2>1, <2>2
<1>13. Moves(a)
    BY <1>1, <1>9, <1>10 DEF Moves
<1>14. CallOK(a)'
    BY <1>1, <1>2, <1>10, <1>12 DEF CallOK, Entry
<1>15. Types'
    BY <1>2, <1>8, <1>13, <1>14, MovesTypes
<1>16. FireTimes'
  <2>1. ~raced => \A t \in Schedulers :
                    Fresh(t, row'[t].next) /\ Fresh(t, call'[a].items[t].next)
    <3>1. ~raced => \A t \in Schedulers : Fresh(t, row[t].next) /\ Fresh(t, call[a].items[t].next)
        BY <1>1 DEF ClockInv, FireTimes
    <3> QED
        BY <1>5, <1>7, <1>11, <3>1
  <2> QED
      BY <1>13, <2>1, MovesFire
<1>17. ASSUME NEW t \in Schedulers, Off(row[t]), LeavesOff(a, t)
       PROVE  Off(row'[t]) /\ (row'[t].tOn => row[t].tOn) /\ LeavesOff(a, t)'
  <2>1. row'[t].on = row[t].on /\ row'[t].tOn = row[t].tOn
      BY <1>7
  <2>2. call'[a].items[t].on = call[a].items[t].on /\ call'[a].items[t].tOn = call[a].items[t].tOn
      BY <1>11
  <2>3. Off(call'[a].items[t])
      BY <1>1, <1>17, <2>2 DEF LeavesOff, Off
  <2>4. LeavesOff(a, t)'
      BY <1>1, <1>10, <1>17, <2>3 DEF LeavesOff, Off
  <2> QED
      BY <1>17, <2>1, <2>4 DEF Off
<1>18. QuietOff'
  <2>1. \A t \in quiet : Off(row'[t]) /\ (row'[t].tOn => row[t].tOn) /\ LeavesOff(a, t)'
      BY <1>2, <1>17 DEF ClockInv, QuietOff, Types
  <2>2. ASSUME alone = a, call[a].op \in Disabling
        PROVE  Off(row'[call[a].arg]) /\ LeavesOff(a, call[a].arg)'
    <3>1. PICK t : t = call[a].arg
        OBVIOUS
    <3>2. t \in Schedulers /\ Off(row[t]) /\ LeavesOff(a, t)
        BY <1>1, <1>2, <2>2, <3>1 DEF CallOK, ClockInv, QuietOff
    <3>3. Off(row'[t]) /\ LeavesOff(a, t)'
        BY <1>17, <3>2
    <3> QED
        BY <1>10, <3>1, <3>3 DEF LeavesOff
  <2> QED
      BY <1>13, <2>1, <2>2, MovesQuiet
<1> QED
    BY <1>13, <1>15, <1>16, <1>18, MovesKeeps DEF ClockInv

----------------------------------------------------------------------------
(* A call ends.                                                            *)

(* Actor a returns; startup lets the loop begin.                           *)
Ends(a) ==
    /\ call[a].pc # "idle" /\ Return(a)
    /\ daemon' = IF a = Boot THEN "up" ELSE daemon
    /\ loop' = IF a = Boot THEN [loop EXCEPT !.pc = "top"] ELSE loop
    /\ raced => raced'
    /\ UNCHANGED <<row, clock, fired, twice, alone>>

(* The goroutines that are left.                                           *)
LEMMA EndsKeeps ==
    ASSUME ClockInv, NEW a \in Actors, Ends(a)
    PROVE  /\ DOMAIN call' = Actors /\ call'[a] = Idle /\ call'[a].pc = "idle"
           /\ \A b \in Actors : b # a => call'[b] = call[b]
           /\ InFlight' = InFlight \ {a} /\ a \in InFlight
           /\ (Collecting' <=> Collecting) /\ loop'.jobs = loop.jobs /\ loop'.due = loop.due
           /\ Collecting => loop' = loop
           /\ LoopOK' /\ LifeOK' /\ Overlap' /\ OneRunPerFireTime'
<1>1. Types /\ DOMAIN call = Actors /\ Boot \in Actors
    BY DEF ClockInv, Types, Actors
<1>2. /\ DOMAIN call' = Actors /\ call'[a] = Idle
      /\ \A b \in Actors : b # a => call'[b] = call[b]
    BY <1>1 DEF Ends, Return
<1>3. call'[a].pc = "idle"
    BY SMT, <1>2 DEF Idle
<1>4. InFlight' = InFlight \ {a} /\ a \in InFlight
    BY <1>2, <1>3 DEF InFlight, Actors, Ends
<1>5. DOMAIN loop = {"pc", "jobs", "due", "at"}
    BY DEF ClockInv, LoopOK
<1>6. ASSUME a = Boot
      PROVE  /\ (Collecting' <=> Collecting) /\ loop'.jobs = loop.jobs /\ loop'.due = loop.due
             /\ (Collecting => loop' = loop) /\ LoopOK' /\ LifeOK'
  <2>1. daemon = "starting" /\ loop.pc = "sleep" /\ daemon' = "up"
      BY <1>6 DEF ClockInv, LifeOK, Ends
  <2>2. ~Collecting
      BY <2>1 DEF Collecting
  <2>3. /\ loop'.pc = "top" /\ loop'.jobs = loop.jobs /\ loop'.due = loop.due
        /\ DOMAIN loop' = DOMAIN loop
      BY <1>5, <1>6 DEF Ends
  <2>4. ~Collecting'
      BY <2>3 DEF Collecting
  <2>5. LoopOK'
      BY <2>2, <2>3, <2>4 DEF ClockInv, LoopOK, Ends, Entry
  <2>6. LifeOK'
      BY <1>3, <1>6, <2>1 DEF LifeOK
  <2> QED
      BY <2>2, <2>3, <2>4, <2>5, <2>6
<1>7. ASSUME a # Boot
      PROVE  /\ (Collecting' <=> Collecting) /\ loop'.jobs = loop.jobs /\ loop'.due = loop.due
             /\ (Collecting => loop' = loop) /\ LoopOK' /\ LifeOK'
  <2>1. loop' = loop /\ daemon' = daemon
      BY <1>7 DEF Ends
  <2>2. (Collecting' <=> Collecting)
      BY <2>1 DEF Collecting
  <2>3. LoopOK'
      BY <2>1, <2>2 DEF ClockInv, LoopOK, Ends, Entry
  <2>4. LifeOK'
    <3>1. call'[Boot] = call[Boot]
        BY <1>1, <1>2, <1>7
    <3>2. daemon # "down"
        BY <1>4 DEF ClockInv, LifeOK
    <3> QED
        BY <2>1, <3>1, <3>2 DEF ClockInv, LifeOK
  <2> QED
      BY <2>1, <2>2, <2>3, <2>4
<1>8. /\ (Collecting' <=> Collecting) /\ loop'.jobs = loop.jobs /\ loop'.due = loop.due
      /\ Collecting => loop' = loop
    BY <1>6, <1>7
<1>9. Overlap'
    BY <1>4, <1>8 DEF ClockInv, Overlap, Ends
<1>10. OneRunPerFireTime'
    BY DEF ClockInv, OneRunPerFireTime, Ends
<1> QED
    BY <1>2, <1>3, <1>4, <1>6, <1>7, <1>8, <1>9, <1>10

(* An idle call is in order.                                               *)
LEMMA IdleOK == ASSUME NEW a, call'[a] = Idle PROVE CallOK(a)'
<1>1. /\ DOMAIN Idle = {"pc", "op", "arg", "items"} /\ Idle.pc = "idle" /\ Idle.arg = None
    BY DEF Idle
<1> QED
    BY <1>1 DEF CallOK

(* So are the others when a call ends.                                     *)
LEMMA EndsTypes ==
    ASSUME ClockInv, NEW a \in Actors, Ends(a), quiet' \subseteq Schedulers,
           DOMAIN cache' \subseteq Schedulers, \A s \in DOMAIN cache' : cache'[s] \in Entry
    PROVE  Types'
<1>1. ASSUME NEW b \in Actors PROVE CallOK(b)'
  <2>1. CASE b = a
      BY <2>1, EndsKeeps, IdleOK
  <2>2. CASE b # a
    <3>1. call'[b] = call[b]
        BY <2>2, EndsKeeps
    <3> QED
        BY <3>1 DEF ClockInv, Types, CallOK, Entry
  <2> QED
      BY <2>1, <2>2
<1> QED
    BY <1>1, EndsKeeps DEF ClockInv, Types, Ends, Entry

(* Refresh ends: what it read becomes the cache.                           *)
LEMMA InstallCacheStep ==
    ASSUME ClockInv, NEW a \in Actors, InstallCache(a)
    PROVE  ClockInv'
<1>1. /\ call[a].pc = "init" /\ Ends(a) /\ raced' = raced
    BY DEF InstallCache, Ends, Works
<1>2. PICK I : I = call[a].items
    OBVIOUS
<1>3. I \in [Schedulers -> Entry] /\ cache' = I
    BY <1>1, <1>2 DEF ClockInv, Types, CallOK, InstallCache
<1>4. quiet' = quiet \/ /\ alone = a /\ call[a].op \in Disabling
                        /\ quiet' = quiet \cup {call[a].arg}
    BY DEF InstallCache
<1>5. Types'
  <2>1. call[a].op \in Disabling => call[a].arg \in Schedulers
      BY <1>1 DEF ClockInv, Types, CallOK
  <2>2. quiet' \subseteq Schedulers
      BY <1>4, <2>1 DEF ClockInv, Types
  <2> QED
      BY <1>1, <1>3, <2>2, EndsTypes
<1>6. FireTimes'
  <2> SUFFICES ASSUME ~raced', NEW s \in Schedulers
               PROVE  /\ \A f \in fired'[s] : f <= clock'
                      /\ Fresh(s, row[s].next)'
                      /\ Fresh(s, cache[s].next)'
                      /\ \A b \in Actors :
                            call'[b].pc = "init" \/ (call'[b].pc = "replaceWrite" /\ call'[b].arg = s)
                            => Fresh(s, call[b].items[s].next)'
                      /\ s \notin DOMAIN loop'.jobs
      BY DEF FireTimes
  <2>1. ~raced /\ fired' = fired /\ clock' = clock /\ row' = row
      BY <1>1 DEF Ends
  <2>2. s \notin DOMAIN loop'.jobs
      BY <1>1, <2>1, EndsKeeps DEF ClockInv, Overlap, LoopOK
  <2>3. (\A f \in fired'[s] : f <= clock') /\ Fresh(s, row[s].next)'
      BY <2>1 DEF ClockInv, FireTimes, Fresh
  <2>4. Fresh(s, cache[s].next)'
    <3>1. Fresh(s, I[s].next)
        BY <1>1, <1>2, <2>1 DEF ClockInv, FireTimes
    <3> QED
        BY <1>3, <2>1, <3>1 DEF Fresh
  <2>5. ASSUME NEW b \in Actors,
               call'[b].pc = "init" \/ (call'[b].pc = "replaceWrite" /\ call'[b].arg = s)
        PROVE  Fresh(s, call[b].items[s].next)'
    <3>1. b # a
        BY <1>1, <2>5, EndsKeeps
    <3>2. call'[b] = call[b]
        BY <1>1, <3>1, EndsKeeps
    <3> QED
        BY <2>1, <2>5, <3>2 DEF ClockInv, FireTimes, Fresh
  <2> QED
      BY <2>2, <2>3, <2>4, <2>5
<1>7. SwitchedOffStaysOff'
  <2>1. loop'.jobs = loop.jobs
      BY <1>1, EndsKeeps
  <2>2. alone = a => DOMAIN loop.jobs = {}
      BY <1>1, EndsKeeps DEF ClockInv, Overlap, LoopOK
  <2> QED
      BY <1>4, <2>1, <2>2 DEF ClockInv, SwitchedOffStaysOff
<1>8. ASSUME NEW s \in Schedulers, Off(row[s]), \A b \in Actors : LeavesOff(b, s)
      PROVE  Off(row'[s]) /\ Off(cache'[s]) /\ \A b \in Actors : LeavesOff(b, s)'
  <2>1. row' = row
      BY <1>1 DEF Ends
  <2>2. Off(cache'[s])
      BY <1>1, <1>2, <1>3, <1>8 DEF LeavesOff
  <2>3. ASSUME NEW b \in Actors PROVE LeavesOff(b, s)'
    <3>1. CASE b = a
        BY <1>1, <3>1, EndsKeeps DEF LeavesOff
    <3>2. CASE b # a
      <4>1. call'[b] = call[b] /\ LeavesOff(b, s)
          BY <1>1, <1>8, <3>2, EndsKeeps
      <4> QED
          BY <2>1, <4>1 DEF LeavesOff, Off
    <3> QED
        BY <3>1, <3>2
  <2> QED
      BY <1>8, <2>1, <2>2, <2>3
<1>9. QuietOff'
  <2>1. ASSUME NEW s \in quiet' PROVE s \in Schedulers /\ Off(row[s]) /\ \A b \in Actors : LeavesOff(b, s)
    <3>1. CASE s \in quiet
        BY <3>1 DEF ClockInv, QuietOff, Types
    <3>2. CASE s \notin quiet
      <4>1. alone = a /\ call[a].op \in Disabling /\ s = call[a].arg
          BY <1>4, <3>2
      <4>2. s \in Schedulers /\ Off(row[s]) /\ LeavesOff(a, s)
          BY <1>1, <4>1 DEF ClockInv, Types, CallOK, QuietOff
      <4>3. ASSUME NEW b \in Actors, b # a PROVE call[b].pc = "idle"
        <5>1. InFlight = {a}
            BY <1>1, <4>1, EndsKeeps DEF ClockInv, Overlap
        <5> QED
            BY <4>3, <5>1 DEF InFlight
      <4> QED
          BY <4>2, <4>3 DEF LeavesOff
    <3> QED
        BY <3>1, <3>2
  <2>2. ASSUME NEW b \in Actors, alone' = b, call'[b].pc \in {"list", "triggers", "init"}
        PROVE  FALSE
    <3>1. b \in InFlight' /\ alone = b
        BY <1>1, <2>2 DEF InFlight, Ends
    <3> QED
        BY <1>1, <3>1, EndsKeeps DEF ClockInv, Overlap
  <2> QED
      BY <1>8, <2>1, <2>2 DEF QuietOff, Off
<1> QED
    BY <1>1, <1>5, <1>6, <1>7, <1>9, EndsKeeps DEF ClockInv

(* A failing store call: the operation returns its error.                  *)
LEMMA StoreFailsStep ==
    ASSUME ClockInv, NEW a \in Actors, StoreFails(a)
    PROVE  ClockInv'
<1>1. Ends(a) /\ raced' /\ UNCHANGED <<row, cache, quiet>>
    BY DEF StoreFails, Ends, Fault, history
<1>2. Types'
    BY <1>1, EndsTypes DEF ClockInv, Types
<1>3. FireTimes'
    BY <1>1 DEF FireTimes
<1>4. SwitchedOffStaysOff'
    BY <1>1, EndsKeeps DEF ClockInv, SwitchedOffStaysOff
<1>5. QuietOff'
  <2>1. ASSUME NEW s \in quiet, NEW b \in Actors PROVE LeavesOff(b, s)'
    <3>1. CASE b = a
        BY <1>1, <3>1, EndsKeeps DEF LeavesOff
    <3>2. CASE b # a
      <4>1. call'[b] = call[b] /\ LeavesOff(b, s)
          BY <1>1, <3>2, EndsKeeps DEF ClockInv, QuietOff
      <4> QED
          BY <1>1, <4>1 DEF LeavesOff, Off
    <3> QED
        BY <3>1, <3>2
  <2>2. ASSUME NEW b \in Actors, alone' = b, call'[b].pc \in {"list", "triggers", "init"}
        PROVE  FALSE
    <3>1. b \in InFlight' /\ alone = b
        BY <1>1, <2>2 DEF InFlight, Ends
    <3> QED
        BY <1>1, <3>1, EndsKeeps DEF ClockInv, Overlap
  <2> QED
      BY <1>1, <2>1, <2>2 DEF ClockInv, QuietOff, Off
<1> QED
    BY <1>1, <1>2, <1>3, <1>4, <1>5, EndsKeeps DEF ClockInv

----------------------------------------------------------------------------
(* A call begins.                                                          *)

(* Actor a begins operation o on s at step pc, and is counted as           *)
(* overlapping with whatever is under way.                                 *)
LEMMA Begins ==
    ASSUME ClockInv, NEW a \in Actors, NEW o, NEW s, NEW pc, call[a].pc = "idle",
           Begin(a, o, s, pc),
           \/ pc = "write" /\ s \in Schedulers /\ o # "runEnd" /\ o # "boot"
           \/ pc = "list" /\ s = None /\ o \in {"runEnd", "boot"},
           quiet' \subseteq quiet, o \notin Disabling => s \notin quiet',
           \/ daemon = "up" /\ daemon' = "up" /\ a # Boot
           \/ daemon = "down" /\ daemon' = "starting" /\ a = Boot,
           UNCHANGED <<row, cache, clock, loop, fired, twice>>
    PROVE  ClockInv'
<1>1. Types /\ DOMAIN call = Actors /\ Boot \in Actors /\ None \notin Actors /\ None \notin Schedulers
    BY ConstantAssumption DEF ClockInv, Types, Actors
<1>2. /\ DOMAIN call' = Actors /\ \A b \in Actors : b # a => call'[b] = call[b]
      /\ call'[a] = [pc |-> pc, op |-> o, arg |-> s, items |-> <<>>]
    BY <1>1 DEF Begin
<1>3. /\ call'[a].pc = pc /\ call'[a].op = o /\ call'[a].arg = s
      /\ DOMAIN call'[a] = {"pc", "op", "arg", "items"}
    BY SMT, <1>2
<1>4. pc # "idle" /\ pc \in {"write", "list"}
    OBVIOUS
<1>5. InFlight' = InFlight \cup {a}
    BY <1>2, <1>3, <1>4 DEF InFlight, Actors
<1>6. Collecting' <=> Collecting
    BY DEF Collecting
<1>7. Types'
  <2>1. CallOK(a)'
      BY <1>3, <1>4 DEF CallOK, Disabling
  <2>2. ASSUME NEW b \in Actors, b # a PROVE CallOK(b)'
      BY <1>1, <1>2, <2>2 DEF Types, CallOK, Entry
  <2> QED
      BY <1>1, <1>2, <2>1, <2>2 DEF Types, Entry
<1>8. LoopOK'
    BY <1>6 DEF ClockInv, LoopOK, Entry
<1>9. LifeOK'
  <2>1. CASE a = Boot
      BY <2>1 DEF ClockInv, LifeOK
  <2>2. CASE a # Boot
      BY <1>1, <1>2, <2>2 DEF ClockInv, LifeOK
  <2> QED
      BY <2>1, <2>2
<1>10. Overlap'
  <2>1. CASE InFlight = {} /\ ~Collecting
    <3>1. alone' = a /\ InFlight' = {a} /\ ~Collecting'
        BY <1>5, <1>6, <2>1 DEF Begin
    <3> QED
        BY <3>1 DEF Overlap
  <2>2. CASE ~(InFlight = {} /\ ~Collecting)
    <3>1. alone' = None /\ raced'
        BY <2>2 DEF Begin
    <3>2. alone' \notin InFlight'
        BY <1>1, <3>1 DEF InFlight, Actors
    <3> QED
        BY <3>1, <3>2 DEF Overlap
  <2> QED
      BY <2>1, <2>2
<1>11. raced => raced'
    BY DEF Begin
<1>12. FireTimes'
  <2> SUFFICES ASSUME ~raced', NEW t \in Schedulers
               PROVE  /\ \A f \in fired'[t] : f <= clock'
                      /\ Fresh(t, row[t].next)'
                      /\ t \in DOMAIN cache' => Fresh(t, cache[t].next)'
                      /\ \A b \in Actors :
                            call'[b].pc = "init" \/ (call'[b].pc = "replaceWrite" /\ call'[b].arg = t)
                            => Fresh(t, call[b].items[t].next)'
                      /\ t \notin DOMAIN loop'.jobs
      BY DEF FireTimes
  <2>1. ~raced /\ ~Collecting
      BY DEF Begin
  <2>2. t \notin DOMAIN loop'.jobs
      BY <2>1 DEF ClockInv, LoopOK
  <2>3. /\ \A f \in fired'[t] : f <= clock'
        /\ Fresh(t, row[t].next)'
        /\ t \in DOMAIN cache' => Fresh(t, cache[t].next)'
      BY <2>1 DEF ClockInv, FireTimes, Fresh
  <2>4. ASSUME NEW b \in Actors,
               call'[b].pc = "init" \/ (call'[b].pc = "replaceWrite" /\ call'[b].arg = t)
        PROVE  Fresh(t, call[b].items[t].next)'
    <3>1. b # a
        BY <1>3, <1>4, <2>4
    <3>2. call'[b] = call[b]
        BY <1>2, <3>1
    <3> QED
        BY <2>1, <2>4, <3>2 DEF ClockInv, FireTimes, Fresh
  <2> QED
      BY <2>2, <2>3, <2>4
<1>13. OneRunPerFireTime' /\ SwitchedOffStaysOff'
    BY <1>11 DEF ClockInv, OneRunPerFireTime, SwitchedOffStaysOff
<1>14. QuietOff'
  <2>1. ASSUME NEW t \in quiet', NEW b \in Actors PROVE LeavesOff(b, t)'
    <3>1. CASE b = a
      <4>1. o \notin Disabling => s # t
          BY <2>1
      <4> QED
          BY <1>3, <1>4, <3>1, <4>1 DEF LeavesOff
    <3>2. CASE b # a
      <4>1. call'[b] = call[b] /\ LeavesOff(b, t)
          BY <1>2, <2>1, <3>2 DEF ClockInv, QuietOff
      <4> QED
          BY <4>1 DEF LeavesOff, Off
    <3> QED
        BY <3>1, <3>2
  <2>2. ASSUME NEW b \in Actors, alone' = b, call'[b].op \in Disabling,
               call'[b].pc \in {"list", "triggers", "init"}
        PROVE  FALSE
    <3>1. b = a
        BY <1>1, <2>2 DEF Begin
    <3> QED
        BY <1>3, <1>4, <2>2, <3>1 DEF Disabling
  <2>3. \A t \in quiet' : Off(row'[t]) /\ (t \in DOMAIN cache' => Off(cache'[t]))
      BY DEF ClockInv, QuietOff
  <2> QED
      BY <2>1, <2>2, <2>3 DEF QuietOff, Off
<1> QED
    BY <1>7, <1>8, <1>9, <1>10, <1>12, <1>13, <1>14 DEF ClockInv

(* An API request.                                                         *)
LEMMA RequestStep ==
    ASSUME ClockInv, NEW a \in Callers, Request(a)
    PROVE  ClockInv'
<1>1. PICK r \in Requests : /\ Begin(a, r[1], r[2], "write")
                            /\ quiet' = IF r[1] \in Disabling THEN quiet ELSE quiet \ {r[2]}
    BY DEF Request
<1>2. PICK o, s : o = r[1] /\ s = r[2]
    OBVIOUS
<1>3. s \in Schedulers /\ o # "runEnd" /\ o # "boot"
    BY <1>2, RequestsKnown
<1>4. a \in Actors /\ a # Boot
    BY ConstantAssumption DEF Actors
<1>5. quiet' \subseteq quiet /\ (o \notin Disabling => s \notin quiet')
    BY <1>1, <1>2
<1>6. Begin(a, o, s, "write")
    BY <1>1, <1>2
<1>7. /\ daemon = "up" /\ daemon' = "up" /\ call[a].pc = "idle"
      /\ UNCHANGED <<row, cache, clock, loop, fired, twice>>
    BY DEF Request
<1> QED
    BY <1>3, <1>4, <1>5, <1>6, <1>7, Begins

(* A run that ended refreshes.                                             *)
LEMMA RunEndsStep ==
    ASSUME ClockInv, NEW a \in Callers, RunEnds(a)
    PROVE  ClockInv'
<1>1. a \in Actors /\ a # Boot
    BY ConstantAssumption DEF Actors
<1>2. None \notin quiet
    BY ConstantAssumption DEF ClockInv, Types
<1>3. /\ daemon = "up" /\ daemon' = "up" /\ call[a].pc = "idle" /\ Begin(a, "runEnd", None, "list")
      /\ UNCHANGED <<row, cache, clock, loop, fired, twice, quiet>>
    BY DEF RunEnds, history
<1> QED
    BY <1>1, <1>2, <1>3, Begins

(* Startup refreshes.                                                      *)
LEMMA StartStep ==
    ASSUME ClockInv, Start
    PROVE  ClockInv'
<1>1. Boot \in Actors
    BY DEF Actors
<1>2. None \notin quiet
    BY ConstantAssumption DEF ClockInv, Types
<1>3. /\ daemon = "down" /\ daemon' = "starting" /\ Begin(Boot, "boot", None, "list")
      /\ UNCHANGED <<row, cache, clock, loop, fired, twice, quiet>>
    BY DEF Start, history
<1>4. call[Boot].pc = "idle"
    BY <1>3 DEF ClockInv, LifeOK
<1> QED
    BY <1>1, <1>2, <1>3, <1>4, Begins

----------------------------------------------------------------------------
(* Time, and the loss of the process.                                      *)

(* The empty list has no positions.                                        *)
LEMMA EmptyDomain == DOMAIN <<>> = {}
BY SMT

(* Time passes.                                                            *)
LEMMA TickStep ==
    ASSUME ClockInv, Tick
    PROVE  ClockInv'
<1>1. /\ UNCHANGED <<row, cache, daemon, call, loop, fired, twice, quiet, alone, raced>>
      /\ clock' = clock + 1
    BY DEF Tick, history
<1>2. clock \in Nat /\ clock' \in Nat /\ \A n \in Nat : n <= clock => n <= clock'
    BY SMT, <1>1 DEF ClockInv, Types
<1>3. (Collecting' <=> Collecting) /\ InFlight' = InFlight
    BY <1>1 DEF Collecting, InFlight, Actors
<1>4. Types'
    BY <1>1, <1>2 DEF ClockInv, Types, CallOK, Entry
<1>5. LoopOK'
    BY <1>1, <1>2, <1>3 DEF ClockInv, LoopOK, Entry
<1>6. LifeOK' /\ Overlap'
    BY <1>1, <1>3 DEF ClockInv, LifeOK, Overlap
<1>7. FireTimes'
  <2>1. ~raced => \A s \in Schedulers : \A f \in fired[s] : f <= clock'
      BY <1>2 DEF ClockInv, FireTimes, Types
  <2> QED
      BY <1>1, <2>1 DEF ClockInv, FireTimes, Fresh, Later
<1>8. OneRunPerFireTime' /\ SwitchedOffStaysOff'
    BY <1>1 DEF ClockInv, OneRunPerFireTime, SwitchedOffStaysOff
<1>9. QuietOff'
    BY <1>1 DEF ClockInv, QuietOff, LeavesOff, Off
<1> QED
    BY <1>4, <1>5, <1>6, <1>7, <1>8, <1>9 DEF ClockInv

(* The idle loop.                                                          *)
LEMMA AsleepOK ==
    /\ DOMAIN Asleep = {"pc", "jobs", "due", "at"} /\ Asleep.pc = "sleep"
    /\ DOMAIN Asleep.jobs = {} /\ DOMAIN Asleep.due = {}
BY EmptyDomain DEF Asleep

(* The daemon crashes.                                                     *)
LEMMA CrashStep ==
    ASSUME ClockInv, Crash
    PROVE  ClockInv'
<1>1. /\ UNCHANGED <<row, clock, fired, twice, quiet, alone, raced>>
      /\ daemon' = "down" /\ cache' = <<>> /\ loop' = Asleep
      /\ call' = [a \in Actors |-> Idle]
    BY DEF Crash, history
<1>2. DOMAIN call' = Actors /\ \A a \in Actors : call'[a] = Idle
    BY <1>1
<1>3. \A a \in Actors : call'[a].pc = "idle"
    BY SMT, <1>2 DEF Idle
<1>4. InFlight' = {} /\ ~Collecting' /\ Boot \in Actors
    BY <1>1, <1>3, AsleepOK DEF InFlight, Collecting, Actors
<1>5. Types'
  <2>1. \A a \in Actors : CallOK(a)'
      BY <1>2, IdleOK
  <2> QED
      BY <1>1, <1>2, <2>1, EmptyDomain DEF ClockInv, Types, Entry
<1>6. LoopOK'
    BY <1>1, AsleepOK DEF LoopOK
<1>7. LifeOK' /\ Overlap'
    BY <1>1, <1>3, <1>4, AsleepOK DEF LifeOK, Overlap
<1>8. FireTimes'
    BY <1>1, <1>3, AsleepOK, EmptyDomain DEF ClockInv, FireTimes, Fresh
<1>9. OneRunPerFireTime' /\ SwitchedOffStaysOff'
    BY <1>1, AsleepOK DEF ClockInv, OneRunPerFireTime, SwitchedOffStaysOff
<1>10. QuietOff'
    BY <1>1, <1>3, EmptyDomain DEF ClockInv, QuietOff, LeavesOff, Off
<1> QED
    BY <1>5, <1>6, <1>7, <1>8, <1>9, <1>10 DEF ClockInv

----------------------------------------------------------------------------
(* The steps of the loop.                                                  *)

(* The loop runs in a daemon that is up.                                   *)
LEMMA LoopRuns ==
    ASSUME ClockInv, loop.pc # "sleep"
    PROVE  daemon = "up"
BY DEF ClockInv, LifeOK

(* What only concerns the calls is kept by every step of the loop.         *)
LEMMA LoopSteps ==
    ASSUME ClockInv, daemon = "up", UNCHANGED <<clock, daemon, call, quiet>>,
           row' \in [Schedulers -> Entry], fired' \in [Schedulers -> SUBSET Nat],
           DOMAIN cache' \subseteq Schedulers, \A s \in DOMAIN cache' : cache'[s] \in Entry
    PROVE  Types' /\ LifeOK' /\ InFlight' = InFlight
<1>1. \A a \in Actors : CallOK(a)'
    BY DEF ClockInv, Types, CallOK, Entry
<1>2. Types'
    BY <1>1 DEF ClockInv, Types, Entry
<1>3. LifeOK'
    BY DEF ClockInv, LifeOK
<1>4. InFlight' = InFlight
    BY DEF InFlight, Actors
<1> QED
    BY <1>2, <1>3, <1>4

(* What is off stays off when no trigger is switched on and no cached one  *)
(* that is off is.                                                         *)
LEMMA LoopQuiet ==
    ASSUME ClockInv, UNCHANGED <<call, quiet>>,
           alone' = alone \/ alone' \notin Actors,
           \A s \in Schedulers : row'[s].on = row[s].on /\ row'[s].tOn = row[s].tOn,
           \A s \in DOMAIN cache' \cap quiet : Off(cache'[s])
    PROVE  QuietOff'
<1>1. \A s \in Schedulers : Off(row[s]) => Off(row'[s])
    BY DEF Off
<1>2. ASSUME NEW s \in Schedulers, NEW a \in Actors, LeavesOff(a, s) PROVE LeavesOff(a, s)'
  <2>1. row'[s].tOn = row[s].tOn
      OBVIOUS
  <2> QED
      BY <1>2, <2>1 DEF LeavesOff, Off
<1>3. ASSUME NEW s \in quiet
      PROVE  /\ Off(row'[s]) /\ (s \in DOMAIN cache' => Off(cache'[s]))
             /\ \A a \in Actors : LeavesOff(a, s)'
    BY <1>1, <1>2 DEF ClockInv, QuietOff, Types
<1>4. ASSUME NEW a \in Actors, alone' = a, call[a].op \in Disabling,
             call[a].pc \in {"list", "triggers", "init"}
      PROVE  Off(row'[call[a].arg]) /\ LeavesOff(a, call[a].arg)'
  <2>1. PICK s : s = call[a].arg
      OBVIOUS
  <2>2. s \in Schedulers /\ Off(row[s]) /\ LeavesOff(a, s)
      BY <1>4, <2>1 DEF ClockInv, QuietOff, Types, CallOK
  <2>3. Off(row'[s]) /\ LeavesOff(a, s)'
      BY <1>1, <1>2, <2>2
  <2> QED
      BY <2>1, <2>3 DEF LeavesOff
<1> QED
    BY <1>3, <1>4 DEF QuietOff, Off

(* A step after which the loop has nothing collected, and that changes     *)
(* nothing else.                                                           *)
LEMMA LoopIdles ==
    ASSUME ClockInv, daemon = "up",
           UNCHANGED <<row, cache, clock, daemon, call, fired, twice, quiet, alone, raced>>,
           DOMAIN loop' = {"pc", "jobs", "due", "at"}, ~Collecting', ~Collecting,
           DOMAIN loop'.jobs = {}, DOMAIN loop'.due = {}
    PROVE  ClockInv'
<1>1. Types' /\ LifeOK' /\ InFlight' = InFlight
    BY LoopSteps DEF ClockInv, Types
<1>2. LoopOK'
    BY DEF LoopOK
<1>3. Overlap'
    BY <1>1 DEF ClockInv, Overlap
<1>4. FireTimes'
    BY DEF ClockInv, FireTimes, Fresh
<1>5. OneRunPerFireTime' /\ SwitchedOffStaysOff'
    BY DEF ClockInv, OneRunPerFireTime, SwitchedOffStaysOff
<1>6. QuietOff'
    BY LoopQuiet DEF ClockInv, QuietOff
<1> QED
    BY <1>1, <1>2, <1>3, <1>4, <1>5, <1>6 DEF ClockInv

(* The loop finds the next fire time, or wakes up.                         *)
LEMMA SleepStep ==
    ASSUME ClockInv, NextFireAt \/ Wakes
    PROVE  ClockInv'
<1>1. /\ UNCHANGED <<row, cache, clock, daemon, call, fired, twice, quiet, alone, raced>>
      /\ loop.pc \in {"next", "sleep"} /\ daemon = "up"
    BY LoopRuns DEF NextFireAt, Wakes, LoopKeeps
<1>2. \/ \E at : loop' = [Asleep EXCEPT !.at = at]
      \/ loop' = [Asleep EXCEPT !.pc = "top"]
    BY DEF NextFireAt, Wakes
<1>3. /\ DOMAIN loop' = {"pc", "jobs", "due", "at"} /\ loop'.pc \in {"sleep", "top"}
      /\ DOMAIN loop'.jobs = {} /\ DOMAIN loop'.due = {}
  <2>1. CASE loop' = [Asleep EXCEPT !.pc = "top"]
      BY <2>1, AsleepOK
  <2>2. ASSUME NEW at, loop' = [Asleep EXCEPT !.at = at]
        PROVE  /\ DOMAIN loop' = {"pc", "jobs", "due", "at"} /\ loop'.pc = "sleep"
               /\ DOMAIN loop'.jobs = {} /\ DOMAIN loop'.due = {}
      BY <2>2, AsleepOK
  <2> QED
      BY <1>2, <2>1, <2>2
<1>4. ~Collecting /\ ~Collecting'
    BY <1>1, <1>3 DEF Collecting
<1> QED
    BY <1>1, <1>3, <1>4, LoopIdles

(* Due triggers become jobs.                                               *)
LEMMA CollectStep ==
    ASSUME ClockInv, CollectDueScheduledRuns
    PROVE  ClockInv'
<1>1. /\ UNCHANGED <<row, cache, clock, daemon, call, fired, twice, quiet>>
      /\ loop.pc = "top" /\ daemon = "up" /\ ~Collecting
    BY LoopRuns DEF CollectDueScheduledRuns, LoopKeeps, Collecting
<1>2. DOMAIN loop = {"pc", "jobs", "due", "at"} /\ DOMAIN loop.jobs = {} /\ DOMAIN loop.due = {}
    BY <1>1 DEF ClockInv, LoopOK
<1>3. PICK due : due = {s \in DOMAIN cache : Due(cache[s])}
    OBVIOUS
<1>4. CASE due = {}
  <2>1. loop' = [loop EXCEPT !.pc = "next"] /\ UNCHANGED <<alone, raced>>
      BY <1>3, <1>4 DEF CollectDueScheduledRuns
  <2>2. /\ DOMAIN loop' = {"pc", "jobs", "due", "at"} /\ loop'.pc = "next"
        /\ loop'.jobs = loop.jobs /\ loop'.due = loop.due
      BY <1>2, <2>1
  <2>3. ~Collecting'
      BY <2>2 DEF Collecting
  <2> QED
      BY <1>1, <1>2, <2>1, <2>2, <2>3, LoopIdles
<1>5. CASE due # {}
  <2>1. /\ loop' = [pc |-> "replace", at |-> Never,
                    jobs |-> [s \in due |->
                               [cache[s] EXCEPT !.next = SchedulerTriggerNextFireAt(clock, s, TRUE)]],
                    due |-> [s \in due |-> cache[s].next]]
        /\ alone' = None /\ raced' = (raced \/ InFlight # {})
      BY <1>3, <1>5 DEF CollectDueScheduledRuns
  <2>2. /\ DOMAIN loop' = {"pc", "jobs", "due", "at"} /\ loop'.pc = "replace"
        /\ loop'.jobs = [s \in due |->
                               [cache[s] EXCEPT !.next = SchedulerTriggerNextFireAt(clock, s, TRUE)]]
        /\ loop'.due = [s \in due |-> cache[s].next]
      BY SMT, <2>1
  <2>3. DOMAIN loop'.jobs = due /\ DOMAIN loop'.due = due /\ due \subseteq DOMAIN cache
      BY <1>3, <2>2
  <2>4. ASSUME NEW s \in due
        PROVE  /\ s \in Schedulers /\ s \notin quiet
               /\ loop'.jobs[s] \in Entry /\ loop'.due[s] = cache[s].next
               /\ loop'.due[s] \in Nat \ {0} /\ loop'.due[s] <= clock
               /\ Later(loop'.jobs[s].next, clock)
    <3>1. s \in Schedulers /\ cache[s] \in Entry /\ Due(cache[s])
        BY <1>3 DEF ClockInv, Types
    <3>2. /\ SchedulerTriggerNextFireAt(clock, s, TRUE) \in Nat
          /\ Later(SchedulerTriggerNextFireAt(clock, s, TRUE), clock)
        BY <3>1, NextIsLater DEF ClockInv
    <3>3. loop'.jobs[s] = [cache[s] EXCEPT !.next = SchedulerTriggerNextFireAt(clock, s, TRUE)]
          /\ loop'.due[s] = cache[s].next
        BY <2>2
    <3>4. PICK n \in Nat : n = SchedulerTriggerNextFireAt(clock, s, TRUE)
        BY <3>2
    <3>5. loop'.jobs[s] \in Entry /\ loop'.jobs[s].next = n
        BY <3>1, <3>3, <3>4 DEF Entry
    <3>6. s \notin quiet
        BY <1>3, <3>1 DEF Due, Armed, ClockInv, QuietOff, Off
    <3>7. cache[s].next \in Nat \ {0} /\ cache[s].next <= clock
        BY <3>1 DEF Due, Armed, Entry
    <3> QED
        BY <3>1, <3>2, <3>3, <3>4, <3>5, <3>6, <3>7
  <2>5. Types' /\ LifeOK' /\ InFlight' = InFlight
      BY <1>1, LoopSteps DEF ClockInv, Types
  <2>6. Collecting'
      BY <2>2 DEF Collecting
  <2>7. LoopOK'
      BY <1>1, <2>2, <2>3, <2>4, <2>6 DEF LoopOK, Entry
  <2>8. None \notin Actors
      BY ConstantAssumption DEF Actors
  <2>9. Overlap'
    <3>1. alone' \notin InFlight'
        BY <2>1, <2>8 DEF InFlight, Actors
    <3>2. ~raced' => ~raced /\ InFlight' = {}
        BY <2>1, <2>5
    <3> QED
        BY <3>1, <3>2 DEF Overlap
  <2>10. FireTimes'
    <3> SUFFICES ASSUME ~raced', NEW s \in Schedulers
                 PROVE  /\ \A f \in fired'[s] : f <= clock'
                        /\ Fresh(s, row[s].next)'
                        /\ s \in DOMAIN cache' => Fresh(s, cache[s].next)'
                        /\ \A a \in Actors : call'[a].pc = "idle"
                        /\ s \in DOMAIN loop'.jobs =>
                              /\ Fresh(s, loop.due[s])' /\ Fresh(s, loop.jobs[s].next)'
                              /\ Later(loop'.jobs[s].next, loop'.due[s])
        BY <2>2 DEF FireTimes, Later
    <3>1. ~raced /\ InFlight = {}
        BY <2>1
    <3>2. \A a \in Actors : call'[a].pc = "idle"
        BY <1>1, <3>1 DEF InFlight
    <3>3. /\ \A f \in fired'[s] : f <= clock'
          /\ Fresh(s, row[s].next)'
          /\ s \in DOMAIN cache' => Fresh(s, cache[s].next)'
        BY <1>1, <3>1 DEF ClockInv, FireTimes, Fresh
    <3>4. ASSUME s \in DOMAIN loop'.jobs
          PROVE  /\ Fresh(s, loop.due[s])' /\ Fresh(s, loop.jobs[s].next)'
                 /\ Later(loop'.jobs[s].next, loop'.due[s])
      <4>1. s \in due
          BY <2>3, <3>4
      <4>2. PICK n \in Nat, d \in Nat : n = loop'.jobs[s].next /\ d = loop'.due[s]
          BY <2>4, <4>1 DEF Entry
      <4>3. Later(n, clock) /\ d <= clock /\ d = cache[s].next
          BY <2>4, <4>1, <4>2
      <4>4. clock \in Nat
          BY DEF ClockInv, Types
      <4>5. Later(n, d)
          BY SMT, <4>3, <4>4 DEF Later
      <4>6. Fresh(s, n)
          BY <3>1, <4>3, FutureIsFresh DEF ClockInv
      <4>7. Fresh(s, d)
          BY <2>3, <3>1, <4>1, <4>3 DEF ClockInv, FireTimes
      <4> QED
          BY <1>1, <4>2, <4>5, <4>6, <4>7 DEF Fresh
    <3> QED
        BY <3>2, <3>3, <3>4
  <2>11. OneRunPerFireTime'
      BY <1>1, <2>1 DEF ClockInv, OneRunPerFireTime
  <2>12. SwitchedOffStaysOff'
      BY <1>1, <2>3, <2>4 DEF SwitchedOffStaysOff
  <2>13. QuietOff'
      BY <1>1, <2>1, <2>8, LoopQuiet DEF ClockInv, QuietOff
  <2> QED
      BY <2>5, <2>7, <2>9, <2>10, <2>11, <2>12, <2>13 DEF ClockInv
<1> QED
    BY <1>4, <1>5

(* A step of the loop while it has jobs, which it keeps.  Without overlap  *)
(* no call is under way, and the copies that are left are the store's and  *)
(* the cache's.                                                            *)
LEMMA JobsStep ==
    ASSUME ClockInv, Collecting, NEW pc \in {"mark", "dispatch"},
           loop' = [loop EXCEPT !.pc = pc],
           UNCHANGED <<clock, daemon, call, fired, twice, quiet, alone>>, raced => raced',
           row' \in [Schedulers -> Entry],
           \A s \in Schedulers : row'[s].on = row[s].on /\ row'[s].tOn = row[s].tOn,
           DOMAIN cache' \subseteq Schedulers, \A s \in DOMAIN cache' : cache'[s] \in Entry,
           \A s \in DOMAIN cache' \cap quiet : Off(cache'[s]),
           ~raced' => \A s \in Schedulers :
              /\ Fresh(s, row'[s].next)
              /\ s \in DOMAIN cache' => Fresh(s, cache'[s].next)
              /\ s \in DOMAIN loop.jobs =>
                    /\ s \in DOMAIN cache' => Later(cache'[s].next, loop.due[s])
                    /\ pc = "dispatch" => Later(row'[s].next, loop.due[s])
    PROVE  ClockInv'
<1>1. daemon = "up"
    BY LoopRuns DEF Collecting
<1>2. /\ DOMAIN loop' = {"pc", "jobs", "due", "at"} /\ loop'.pc = pc
      /\ loop'.jobs = loop.jobs /\ loop'.due = loop.due
    BY DEF ClockInv, LoopOK
<1>3. Collecting'
    BY <1>2 DEF Collecting
<1>4. Types' /\ LifeOK' /\ InFlight' = InFlight
    BY <1>1, LoopSteps DEF ClockInv, Types
<1>5. LoopOK'
    BY <1>2, <1>3 DEF ClockInv, LoopOK, Entry
<1>6. Overlap'
    BY <1>3, <1>4 DEF ClockInv, Overlap
<1>7. FireTimes'
  <2> SUFFICES ASSUME ~raced', NEW s \in Schedulers
               PROVE  /\ \A f \in fired'[s] : f <= clock'
                      /\ Fresh(s, row[s].next)'
                      /\ s \in DOMAIN cache' => Fresh(s, cache[s].next)'
                      /\ \A a \in Actors : call'[a].pc = "idle"
                      /\ s \in DOMAIN loop'.jobs =>
                            /\ Fresh(s, loop.due[s])' /\ Fresh(s, loop.jobs[s].next)'
                            /\ Later(loop'.jobs[s].next, loop'.due[s])
                            /\ s \in DOMAIN cache' => Later(cache'[s].next, loop'.due[s])
                            /\ loop'.pc = "dispatch" => Later(row'[s].next, loop'.due[s])
      BY DEF FireTimes, Later
  <2>1. ~raced /\ InFlight = {}
      BY DEF ClockInv, Overlap
  <2>2. \A a \in Actors : call'[a].pc = "idle"
      BY <2>1 DEF InFlight
  <2>3. \A f \in fired'[s] : f <= clock'
      BY <2>1 DEF ClockInv, FireTimes
  <2>4. Fresh(s, row[s].next)' /\ (s \in DOMAIN cache' => Fresh(s, cache[s].next)')
      BY DEF Fresh
  <2>5. ASSUME s \in DOMAIN loop'.jobs
        PROVE  /\ Fresh(s, loop.due[s])' /\ Fresh(s, loop.jobs[s].next)'
               /\ Later(loop'.jobs[s].next, loop'.due[s])
    <3>1. /\ Fresh(s, loop.due[s]) /\ Fresh(s, loop.jobs[s].next)
          /\ Later(loop.jobs[s].next, loop.due[s])
        BY <1>2, <2>1, <2>5 DEF ClockInv, FireTimes
    <3> QED
        BY <1>2, <3>1 DEF Fresh
  <2> QED
      BY <1>2, <2>2, <2>3, <2>4, <2>5
<1>8. OneRunPerFireTime' /\ SwitchedOffStaysOff'
    BY <1>2 DEF ClockInv, OneRunPerFireTime, SwitchedOffStaysOff
<1>9. QuietOff'
    BY LoopQuiet
<1> QED
    BY <1>4, <1>5, <1>6, <1>7, <1>8, <1>9 DEF ClockInv

(* What is known of the jobs while nothing has overlapped.                 *)
LEMMA JobsAt ==
    ASSUME ClockInv
    PROVE  /\ DOMAIN loop.jobs \subseteq Schedulers
           /\ \A s \in DOMAIN loop.jobs : loop.jobs[s] \in Entry /\ s \notin quiet
           /\ ~raced => \A s \in DOMAIN loop.jobs :
                 Fresh(s, loop.jobs[s].next) /\ Later(loop.jobs[s].next, loop.due[s])
           /\ ~raced => \A s \in Schedulers :
                 Fresh(s, row[s].next) /\ (s \in DOMAIN cache => Fresh(s, cache[s].next))
<1>1. DOMAIN loop.jobs \subseteq Schedulers /\ \A s \in DOMAIN loop.jobs : loop.jobs[s] \in Entry
    BY DEF ClockInv, LoopOK
<1>2. \A s \in DOMAIN loop.jobs : s \notin quiet
    BY DEF ClockInv, SwitchedOffStaysOff
<1>3. ASSUME ~raced, NEW s \in Schedulers
      PROVE  /\ Fresh(s, row[s].next) /\ (s \in DOMAIN cache => Fresh(s, cache[s].next))
             /\ s \in DOMAIN loop.jobs =>
                   Fresh(s, loop.jobs[s].next) /\ Later(loop.jobs[s].next, loop.due[s])
    BY <1>3 DEF ClockInv, FireTimes
<1> QED
    BY <1>1, <1>2, <1>3

(* The jobs replace what is cached of their schedulers.                    *)
LEMMA ReplaceStep ==
    ASSUME ClockInv, ReplaceCachedSchedulers
    PROVE  ClockInv'
<1>1. /\ UNCHANGED <<row, clock, daemon, call, fired, twice, quiet, alone, raced>>
      /\ loop.pc = "replace" /\ loop' = [loop EXCEPT !.pc = "mark"]
    BY DEF ReplaceCachedSchedulers, LoopKeeps
<1>2. PICK J : J = loop.jobs
    OBVIOUS
<1>3. cache' = [s \in DOMAIN cache \cup DOMAIN J |-> IF s \in DOMAIN J THEN J[s] ELSE cache[s]]
    BY <1>2 DEF ReplaceCachedSchedulers
<1>4. /\ DOMAIN cache' = DOMAIN cache \cup DOMAIN J
      /\ \A s \in DOMAIN J : cache'[s] = J[s]
      /\ \A s \in DOMAIN cache \ DOMAIN J : cache'[s] = cache[s]
    BY <1>3
<1>5. DOMAIN cache \subseteq Schedulers /\ \A s \in DOMAIN cache : cache[s] \in Entry
    BY DEF ClockInv, Types
<1>6. DOMAIN cache' \subseteq Schedulers /\ \A s \in DOMAIN cache' : cache'[s] \in Entry
    BY <1>2, <1>4, <1>5, JobsAt
<1>7. \A s \in DOMAIN cache' \cap quiet : Off(cache'[s])
    BY <1>2, <1>4, JobsAt DEF ClockInv, QuietOff
<1>8. ASSUME ~raced', NEW s \in Schedulers
      PROVE  /\ Fresh(s, row'[s].next)
             /\ s \in DOMAIN cache' => Fresh(s, cache'[s].next)
             /\ s \in DOMAIN loop.jobs => Later(cache'[s].next, loop.due[s])
    BY <1>1, <1>2, <1>4, <1>8, JobsAt
<1>9. Collecting /\ row' \in [Schedulers -> Entry]
    BY <1>1 DEF Collecting, ClockInv, Types
<1> QED
    BY <1>1, <1>6, <1>7, <1>8, <1>9, JobsStep

(* The new fire times are persisted, all of them unless a write fails.     *)
LEMMA MarkStep ==
    ASSUME ClockInv, MarkSchedulerTriggerFired
    PROVE  ClockInv'
<1>1. /\ UNCHANGED <<cache, clock, daemon, call, fired, twice, quiet, alone>>
      /\ loop.pc = "mark" /\ loop' = [loop EXCEPT !.pc = "dispatch"] /\ (raced => raced')
    BY DEF MarkSchedulerTriggerFired, Works, Fault
<1>2. PICK marked \in SUBSET DOMAIN loop.jobs :
         /\ row' = [s \in Schedulers |->
                      IF s \in marked THEN [row[s] EXCEPT !.next = loop.jobs[s].next] ELSE row[s]]
         /\ IF marked = DOMAIN loop.jobs THEN Works ELSE Fault
    BY DEF MarkSchedulerTriggerFired
<1>3. ~raced' => ~raced /\ marked = DOMAIN loop.jobs
    BY <1>2 DEF Works, Fault
<1>4. ASSUME NEW s \in Schedulers
      PROVE  /\ row'[s] \in Entry /\ row'[s].on = row[s].on /\ row'[s].tOn = row[s].tOn
             /\ s \in marked => row'[s].next = loop.jobs[s].next
             /\ s \notin marked => row'[s] = row[s]
  <2>1. row[s] \in Entry
      BY DEF ClockInv, Types
  <2>2. CASE s \in marked
    <3>1. PICK n \in Nat : n = loop.jobs[s].next
        BY <2>2, JobsAt DEF Entry
    <3>2. row'[s] = [row[s] EXCEPT !.next = n]
        BY <1>2, <2>2, <3>1
    <3> QED
        BY <2>1, <2>2, <3>1, <3>2 DEF Entry
  <2>3. CASE s \notin marked
      BY <1>2, <2>1, <2>3
  <2> QED
      BY <2>2, <2>3
<1>5. row' \in [Schedulers -> Entry]
    BY <1>2, <1>4
<1>6. ASSUME ~raced', NEW s \in Schedulers
      PROVE  /\ Fresh(s, row'[s].next)
             /\ s \in DOMAIN cache' => Fresh(s, cache'[s].next)
             /\ s \in DOMAIN loop.jobs =>
                   /\ s \in DOMAIN cache' => Later(cache'[s].next, loop.due[s])
                   /\ Later(row'[s].next, loop.due[s])
  <2>1. ~raced /\ marked = DOMAIN loop.jobs
      BY <1>3, <1>6
  <2>2. s \in DOMAIN loop.jobs /\ s \in DOMAIN cache => Later(cache[s].next, loop.due[s])
      BY <1>1, <2>1 DEF ClockInv, FireTimes
  <2> QED
      BY <1>1, <1>4, <2>1, <2>2, JobsAt
<1>7. /\ Collecting /\ DOMAIN cache' \subseteq Schedulers
      /\ \A s \in DOMAIN cache' : cache'[s] \in Entry
      /\ \A s \in DOMAIN cache' \cap quiet : Off(cache'[s])
    BY <1>1 DEF Collecting, ClockInv, Types, QuietOff
<1>8. \A s \in Schedulers : row'[s].on = row[s].on /\ row'[s].tOn = row[s].tOn
    BY <1>4
<1> QED
    BY <1>1, <1>5, <1>6, <1>7, <1>8, JobsStep

(* The runs are dispatched: without overlap none for a fire time that was  *)
(* dispatched before.                                                      *)
LEMMA DispatchStep ==
    ASSUME ClockInv, Dispatch
    PROVE  ClockInv'
<1>1. /\ UNCHANGED <<row, cache, clock, daemon, call, quiet, alone, raced>>
      /\ loop.pc = "dispatch" /\ loop' = [Asleep EXCEPT !.pc = "top"]
    BY DEF Dispatch, LoopKeeps
<1>2. PICK J : J = DOMAIN loop.jobs
    OBVIOUS
<1>3. /\ twice' = twice \cup {s \in J : loop.due[s] \in fired[s]}
      /\ fired' = [s \in Schedulers |-> IF s \in J THEN fired[s] \cup {loop.due[s]} ELSE fired[s]]
    BY <1>2 DEF Dispatch
<1>4. /\ DOMAIN loop' = {"pc", "jobs", "due", "at"} /\ loop'.pc = "top"
      /\ DOMAIN loop'.jobs = {} /\ DOMAIN loop'.due = {}
    BY <1>1, AsleepOK
<1>5. ~Collecting' /\ Collecting /\ daemon = "up"
    BY <1>1, <1>4, LoopRuns DEF Collecting
<1>6. J \subseteq Schedulers /\ \A s \in J : loop.due[s] \in Nat \ {0} /\ loop.due[s] <= clock
    BY <1>2 DEF ClockInv, LoopOK
<1>7. /\ \A s \in J : fired'[s] = fired[s] \cup {loop.due[s]}
      /\ \A s \in Schedulers \ J : fired'[s] = fired[s]
    BY <1>3, <1>6
<1>8. fired' \in [Schedulers -> SUBSET Nat]
  <2>1. fired \in [Schedulers -> SUBSET Nat]
      BY DEF ClockInv, Types
  <2>2. ASSUME NEW s \in Schedulers PROVE fired'[s] \in SUBSET Nat
    <3>1. fired[s] \in SUBSET Nat /\ (s \in J => loop.due[s] \in Nat)
        BY <1>6, <2>1
    <3> QED
        BY <1>7, <3>1
  <2> QED
      BY <1>3, <2>2
<1>9. Types' /\ LifeOK' /\ InFlight' = InFlight
    BY <1>1, <1>5, <1>8, LoopSteps DEF ClockInv, Types
<1>10. LoopOK'
    BY <1>4, <1>5 DEF LoopOK
<1>11. Overlap'
    BY <1>1, <1>5, <1>9 DEF ClockInv, Overlap
<1>12. FireTimes'
  <2> SUFFICES ASSUME ~raced', NEW s \in Schedulers
               PROVE  /\ \A f \in fired'[s] : f <= clock'
                      /\ Fresh(s, row[s].next)'
                      /\ s \in DOMAIN cache' => Fresh(s, cache[s].next)'
                      /\ \A a \in Actors : call'[a].pc = "idle"
      BY <1>4 DEF FireTimes
  <2>1. ~raced /\ InFlight = {}
      BY <1>1, <1>5 DEF ClockInv, Overlap
  <2>2. \A a \in Actors : call'[a].pc = "idle"
      BY <1>1, <2>1 DEF InFlight
  <2>3. /\ \A f \in fired[s] : f <= clock
        /\ Fresh(s, row[s].next) /\ (s \in DOMAIN cache => Fresh(s, cache[s].next))
        /\ s \in J => /\ s \in DOMAIN cache => Later(cache[s].next, loop.due[s])
                      /\ Later(row[s].next, loop.due[s])
      BY <1>1, <1>2, <2>1 DEF ClockInv, FireTimes
  <2>4. \A f \in fired'[s] : f <= clock'
      BY <1>1, <1>6, <1>7, <2>3
  <2>5. ASSUME NEW n, Fresh(s, n), s \in J => Later(n, loop.due[s])
        PROVE  n = 0 \/ \A f \in fired'[s] : f < n
      BY <1>7, <2>5 DEF Fresh, Later
  <2>6. Fresh(s, row[s].next)' /\ (s \in DOMAIN cache' => Fresh(s, cache[s].next)')
      BY <1>1, <2>3, <2>5 DEF Fresh
  <2> QED
      BY <2>2, <2>4, <2>6
<1>13. OneRunPerFireTime'
  <2> SUFFICES ASSUME ~raced PROVE twice' = {}
      BY <1>1 DEF OneRunPerFireTime
  <2>1. twice = {}
      BY DEF ClockInv, OneRunPerFireTime
  <2>2. ASSUME NEW s \in J PROVE loop.due[s] \notin fired[s]
    <3>1. Fresh(s, loop.due[s]) /\ s \in Schedulers
        BY <1>2, <1>6 DEF ClockInv, FireTimes
    <3>2. PICK d \in Nat \ {0} : d = loop.due[s]
        BY <1>6
    <3>3. ~(d < d)
        BY SMT
    <3> QED
        BY <3>1, <3>2, <3>3 DEF Fresh
  <2> QED
      BY <1>3, <2>1, <2>2
<1>14. SwitchedOffStaysOff'
    BY <1>4 DEF SwitchedOffStaysOff
<1>15. QuietOff'
    BY <1>1, LoopQuiet DEF ClockInv, QuietOff
<1> QED
    BY <1>9, <1>10, <1>11, <1>12, <1>13, <1>14, <1>15 DEF ClockInv

----------------------------------------------------------------------------
(* The theorems.                                                           *)

(* Before the first start nothing is under way.                            *)
LEMMA InitClock == Init => ClockInv
<1> SUFFICES ASSUME Init PROVE ClockInv
    OBVIOUS
<1>1. 0 \in Nat /\ Period \in Nat
    BY SMT, ConstantAssumption
<1>2. row \in [Schedulers -> Entry]
  <2>1. row \in [Schedulers -> [kind : Kinds, on : BOOLEAN, tOn : {TRUE}, next : {0, Period}]]
      BY DEF Init
  <2>2. \A e \in [kind : Kinds, on : BOOLEAN, tOn : {TRUE}, next : {0, Period}] : e \in Entry
      BY <1>1 DEF Entry
  <2> QED
      BY <2>1, <2>2
<1>3. DOMAIN call = Actors /\ \A a \in Actors : call[a] = Idle
    BY DEF Init
<1>4. \A a \in Actors : call[a].pc = "idle"
    BY SMT, <1>3 DEF Idle
<1>5. \A a \in Actors : CallOK(a)
  <2>1. /\ DOMAIN Idle = {"pc", "op", "arg", "items"} /\ Idle.pc = "idle" /\ Idle.arg = None
      BY DEF Idle
  <2> QED
      BY <1>3, <2>1 DEF CallOK
<1>6. Types
    BY <1>1, <1>2, <1>3, <1>5, EmptyDomain DEF Init, Types
<1>7. LoopOK
    BY AsleepOK DEF Init, LoopOK
<1>8. InFlight = {} /\ ~Collecting /\ Boot \in Actors
    BY <1>4, AsleepOK DEF Init, InFlight, Collecting, Actors
<1>9. LifeOK /\ Overlap
    BY <1>4, <1>8, AsleepOK DEF Init, LifeOK, Overlap
<1>10. FireTimes
    BY <1>4, AsleepOK, EmptyDomain DEF Init, FireTimes, Fresh
<1>11. OneRunPerFireTime /\ SwitchedOffStaysOff
    BY DEF Init, OneRunPerFireTime, SwitchedOffStaysOff
<1>12. QuietOff
    BY <1>4 DEF Init, QuietOff
<1> QED
    BY <1>6, <1>7, <1>9, <1>10, <1>11, <1>12 DEF ClockInv

(* A step that changes nothing keeps the invariant.                        *)
LEMMA StutterStep ==
    ASSUME ClockInv, UNCHANGED vars
    PROVE  ClockInv'
<1>1. UNCHANGED <<row, cache, clock, daemon, call, loop, fired, twice, quiet, alone, raced>>
    BY DEF vars, history
<1>2. (Collecting' <=> Collecting) /\ InFlight' = InFlight
    BY <1>1 DEF Collecting, InFlight, Actors
<1>3. Types'
    BY <1>1 DEF ClockInv, Types, CallOK, Entry
<1>4. LoopOK' /\ LifeOK' /\ Overlap'
    BY <1>1, <1>2 DEF ClockInv, LoopOK, LifeOK, Overlap, Entry
<1>5. FireTimes'
    BY <1>1 DEF ClockInv, FireTimes, Fresh, Later
<1>6. OneRunPerFireTime' /\ SwitchedOffStaysOff'
    BY <1>1 DEF ClockInv, OneRunPerFireTime, SwitchedOffStaysOff
<1>7. QuietOff'
    BY <1>1 DEF ClockInv, QuietOff, LeavesOff, Off
<1> QED
    BY <1>3, <1>4, <1>5, <1>6, <1>7 DEF ClockInv

(* The invariant of the schedule clock.                                    *)
THEOREM ClockInvariant == Spec => []ClockInv
<1>1. ASSUME ClockInv, [Next]_vars PROVE ClockInv'
  <2>1. ASSUME NEW a \in Actors, CallStep(a) PROVE ClockInv'
      BY <1>1, <2>1, SetSchedulerEnabledStep, EnableSchedulerTriggersStep,
         SetSchedulerTriggerEnabledStep, SetProjectSchedulerEnabledStep,
         ListStoredTriggersStep, ReplaceSchedulerTriggersStep, ListSchedulersStep,
         InitializeCronSchedulesStep, InstallCacheStep DEF CallStep
  <2>2. ASSUME LoopStep PROVE ClockInv'
      BY <1>1, <2>2, CollectStep, ReplaceStep, MarkStep, DispatchStep, SleepStep DEF LoopStep
  <2>3. ASSUME NEW a \in Actors, StoreFails(a) PROVE ClockInv'
      BY <1>1, <2>3, StoreFailsStep
  <2>4. ASSUME NEW a \in Callers, Request(a) \/ RunEnds(a) PROVE ClockInv'
      BY <1>1, <2>4, RequestStep, RunEndsStep
  <2> QED
      BY <1>1, <2>1, <2>2, <2>3, <2>4, TickStep, StartStep, CrashStep, StutterStep DEF Next
<1> QED
    BY <1>1, InitClock, PTL DEF Spec

(* CollectDue replaces the cached fire time and persists it before the     *)
(* dispatch, so for any number of schedulers, requests and crashes a       *)
(* trigger is dispatched twice for one fire time only if goroutines        *)
(* overlapped or a store call failed.                                      *)
THEOREM FiredOnce == Spec => []OneRunPerFireTime
<1>1. ClockInv => OneRunPerFireTime
    BY DEF ClockInv
<1> QED
    BY <1>1, ClockInvariant, PTL

(* SetSchedulerEnabled, SetSchedulerTriggerEnabled and project down: after *)
(* a request that nothing overlapped switched a scheduler off, no run is   *)
(* collected for it until a request switches it on, whatever refreshes,    *)
(* faults and restarts follow.                                             *)
THEOREM OffIsOff == Spec => []SwitchedOffStaysOff
<1>1. ClockInv => SwitchedOffStaysOff
    BY DEF ClockInv
<1> QED
    BY <1>1, ClockInvariant, PTL
=============================================================================
