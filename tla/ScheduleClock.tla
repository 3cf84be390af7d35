--------------------------- MODULE ScheduleClock ---------------------------
(***************************************************************************)
(* When scheduled triggers fire: the trigger rows of the config store, the *)
(* scheduler controller's cache of them, and the loop that collects what   *)
(* is due in the cache and dispatches a run for it.                        *)
(*                                                                         *)
(* Three kinds of goroutine write these.  Callers change the rows (enable, *)
(* disable, trigger on or off, project apply and down) and then call       *)
(* Refresh, which lists the rows and replaces the whole cache.  A run that *)
(* ends calls Refresh too.  The loop reads the cache, writes the fired     *)
(* schedulers back into it, persists each new fire time, and only then     *)
(* dispatches.  No lock spans more than one of these steps.                *)
(*                                                                         *)
(* Each scheduler has one trigger.  A fire time of 0 is Go's zero time:    *)
(* the trigger is not armed.                                               *)
(***************************************************************************)
EXTENDS Naturals, FiniteSets

CONSTANTS
    Schedulers,
    Kinds,       \* trigger kinds the schedulers may have
    Callers,     \* API requests and ending runs
    Boot,        \* the startup goroutine
    None,        \* no scheduler
    Requests,    \* pairs of an operation and the scheduler it is about
    Period,      \* interval, timeout delay and cron grid
    MaxTime,     \* bound on the clock
    MaxCalls,    \* bound on API requests
    MaxCrashes,  \* bound on daemon crashes
    MaxFaults    \* bound on store calls that fail

ASSUME ConstantAssumption ==
    /\ Kinds \subseteq {"interval", "timeout", "cron"}
    /\ Boot \notin Callers
    /\ None \notin Schedulers \cup Callers \cup {Boot}
    /\ Period \in Nat \ {0}
    /\ {MaxTime, MaxCalls, MaxCrashes, MaxFaults} \subseteq Nat

ASSUME RequestsKnown ==
    Requests \subseteq {"enable", "disable", "triggerOn", "triggerOff", "down", "apply"} \X Schedulers

VARIABLES
    row,      \* project_scheduler joined with scheduler_trigger
    cache,    \* Controller.schedulers
    wake,     \* the one-slot wake channel holds a token
    clock,
    daemon,   \* "down", "starting" (Start's own Refresh) or "up"
    call,     \* what each caller is doing, and what it has read
    loop,     \* the schedule loop, and what it has collected
    running,  \* dispatched runs that have not ended
    fired,    \* history: the fire times each trigger was dispatched for
    twice,    \* history: triggers dispatched twice for one fire time
    quiet,    \* history: schedulers switched off with no overlap
    alone,    \* history: the caller that nothing has overlapped, or None
    raced,    \* history: a fault, or two goroutines overlapped
    calls, crashes, faults

history == <<fired, twice, quiet>>
bounds == <<calls, crashes>>
vars == <<row, cache, wake, clock, daemon, call, loop, running, history, alone, raced, bounds, faults>>

Never == MaxTime + Period + 1
MaxRunning == 1

Entries == [kind : Kinds, on : BOOLEAN, tOn : BOOLEAN, next : 0 .. MaxTime + Period]
Actors == Callers \cup {Boot}

Disabling == {"disable", "triggerOff", "down"}

\* Idle caller; idle loop.
Idle == [pc |-> "idle", op |-> "none", arg |-> None, items |-> <<>>]
Asleep == [pc |-> "sleep", jobs |-> <<>>, due |-> <<>>, at |-> Never]

-----------------------------------------------------------------------------

(* When trigger s is due next, seen from now.                              *)
SchedulerTriggerNextFireAt(now, s, isFired) ==
    CASE row[s].kind = "interval" -> now + Period
      [] row[s].kind = "timeout" -> IF isFired THEN 0 ELSE now + Period
      [] row[s].kind = "cron" -> (now \div Period + 1) * Period

(* A cached trigger the loop must act on.                                  *)
Armed(e) == e.on /\ e.tOn /\ e.next # 0
Due(e) == Armed(e) /\ e.next <= clock

Collecting == loop.pc \in {"replace", "mark", "dispatch"}
InFlight == {a \in Actors : call[a].pc # "idle"}

(* A store call that fails.                                                *)
Fault == faults < MaxFaults /\ faults' = faults + 1 /\ raced' = TRUE /\ UNCHANGED alone
Works == UNCHANGED <<faults, raced, alone>>

Init ==
    /\ row \in [Schedulers -> [kind : Kinds, on : BOOLEAN, tOn : {TRUE}, next : {0, Period}]]
    /\ \A s \in Schedulers : row[s].next = 0 => row[s].kind = "cron"
    /\ cache = <<>>
    /\ wake = FALSE
    /\ clock = 0
    /\ daemon = "down"
    /\ call = [a \in Actors |-> Idle]
    /\ loop = Asleep
    /\ running = 0
    /\ fired = [s \in Schedulers |-> {}]
    /\ twice = {}
    /\ quiet = {}
    /\ alone = None
    /\ raced = FALSE
    /\ calls = 0
    /\ crashes = 0
    /\ faults = 0

Tick ==
    /\ clock < MaxTime
    /\ clock' = clock + 1
    /\ UNCHANGED <<row, cache, wake, daemon, call, loop, running, history, alone, raced, bounds, faults>>

-----------------------------------------------------------------------------
(* Store writes.  Each is one statement or one transaction.                *)

Goto(a, pc) == call' = [call EXCEPT ![a].pc = pc, ![a].items = <<>>]
Reads(a, pc, items) == call' = [call EXCEPT ![a].pc = pc, ![a].items = items]
Return(a) == call' = [call EXCEPT ![a] = Idle]

(* An operation whose store call fails returns its error, and refreshes    *)
(* nothing.                                                                *)
StoreFails(a) ==
    /\ call[a].pc \in {"write", "arm", "replaceRead", "replaceWrite", "switchOn", "list", "triggers", "init"}
    /\ Fault
    /\ Return(a)
    /\ daemon' = IF a = Boot THEN "up" ELSE daemon
    /\ loop' = IF a = Boot THEN [loop EXCEPT !.pc = "top"] ELSE loop
    /\ UNCHANGED <<row, cache, wake, clock, running, history, bounds>>

(* SetSchedulerEnabled on the store: enabling reads the triggers first and *)
(* arms in the transaction those that were on when read; disabling clears  *)
(* every fire time.                                                        *)
SetSchedulerEnabled(a) ==
    LET s == call[a].arg IN
    /\ call[a].pc = "write"
    /\ \/ /\ call[a].op = "enable"
          /\ Reads(a, "arm", [t \in {s} |-> row[t].tOn])
          /\ UNCHANGED row
       \/ /\ call[a].op = "disable"
          /\ row' = [row EXCEPT ![s].on = FALSE, ![s].next = 0]
          /\ Goto(a, "list")
    /\ Works
    /\ UNCHANGED <<cache, wake, clock, daemon, loop, running, history, bounds>>

EnableSchedulerTriggers(a) ==
    LET s == call[a].arg IN
    /\ call[a].pc = "arm"
    /\ row' = [row EXCEPT ![s].on = TRUE,
                          ![s].next = IF call[a].items[s]
                                      THEN SchedulerTriggerNextFireAt(clock, s, FALSE)
                                      ELSE @]
    /\ Goto(a, "list")
    /\ Works
    /\ UNCHANGED <<cache, wake, clock, daemon, loop, running, history, bounds>>

SetSchedulerTriggerEnabled(a) ==
    LET s == call[a].arg
        on == call[a].op = "triggerOn" IN
    /\ call[a].pc = "write"
    /\ call[a].op \in {"triggerOn", "triggerOff"}
    /\ row' = [row EXCEPT ![s].tOn = on,
                          ![s].next = IF on THEN SchedulerTriggerNextFireAt(clock, s, FALSE) ELSE 0]
    /\ Goto(a, "list")
    /\ Works
    /\ UNCHANGED <<cache, wake, clock, daemon, loop, running, history, bounds>>

(* SetProjectSchedulerEnabled: project down disables, and leaves the fire  *)
(* times; a project apply stages the scheduler disabled, and enables it as *)
(* its last write.                                                         *)
SetProjectSchedulerEnabled(a) ==
    LET s == call[a].arg IN
    /\ \/ /\ call[a].pc = "write" /\ call[a].op = "down"
          /\ row' = [row EXCEPT ![s].on = FALSE]
          /\ Goto(a, "list")
       \/ /\ call[a].pc = "write" /\ call[a].op = "apply"
          /\ row' = [row EXCEPT ![s].on = FALSE]
          /\ Goto(a, "replaceRead")
       \/ /\ call[a].pc = "switchOn"
          /\ row' = [row EXCEPT ![s].on = TRUE]
          /\ Goto(a, "list")
    /\ Works
    /\ UNCHANGED <<cache, wake, clock, daemon, loop, running, history, bounds>>

(* ReplaceSchedulerTriggers lists the stored triggers, then deletes and    *)
(* inserts them in a transaction.  A trigger whose schedule is unchanged   *)
(* keeps the fire time it was listed with.                                 *)
ListStoredTriggers(a) ==
    /\ call[a].pc = "replaceRead"
    /\ Reads(a, "replaceWrite", [s \in {call[a].arg} |-> [row[s] EXCEPT !.on = FALSE]])
    /\ Works
    /\ UNCHANGED <<row, cache, wake, clock, daemon, loop, running, history, bounds>>

ReplacedNextFireAt(s, previous, sameSchedule) ==
    LET kept == IF sameSchedule THEN previous.next ELSE 0
        fresh == SchedulerTriggerNextFireAt(clock, s, FALSE) IN
    CASE ~previous.tOn -> 0
      [] previous.tOn /\ row[s].kind = "timeout" -> IF sameSchedule THEN kept ELSE fresh
      [] OTHER -> IF kept = 0 THEN fresh ELSE kept

ReplaceSchedulerTriggers(a) ==
    LET s == call[a].arg
        previous == call[a].items[s] IN
    /\ call[a].pc = "replaceWrite"
    /\ \E sameSchedule \in BOOLEAN :
         row' = [row EXCEPT ![s].tOn = previous.tOn,
                            ![s].next = ReplacedNextFireAt(s, previous, sameSchedule)]
    /\ Goto(a, "switchOn")
    /\ Works
    /\ UNCHANGED <<cache, wake, clock, daemon, loop, running, history, bounds>>

-----------------------------------------------------------------------------
(* Refresh.                                                                *)

(* ListSchedulers reads a scheduler's row and its triggers in two queries. *)
ListSchedulers(a) ==
    /\ \/ /\ call[a].pc = "list"
          /\ Reads(a, "triggers", [s \in Schedulers |-> row[s].on])
       \/ /\ call[a].pc = "triggers"
          /\ Reads(a, "init", [s \in Schedulers |-> [row[s] EXCEPT !.on = call[a].items[s]]])
    /\ Works
    /\ UNCHANGED <<row, cache, wake, clock, daemon, loop, running, history, bounds>>

Uninitialized(a) ==
    {s \in Schedulers : LET e == call[a].items[s] IN
        e.on /\ e.tOn /\ e.kind = "cron" /\ e.next = 0}

(* Cron triggers without a fire time get one, in the store and in the list.*)
InitializeCronSchedules(a) ==
    /\ call[a].pc = "init"
    /\ \E s \in Uninitialized(a) :
         LET next == SchedulerTriggerNextFireAt(clock, s, FALSE) IN
         /\ row' = [row EXCEPT ![s].next = next]
         /\ call' = [call EXCEPT ![a].items[s].next = next]
    /\ Works
    /\ UNCHANGED <<cache, wake, clock, daemon, loop, running, history, bounds>>

(* Faulty variant: the new cache is installed and the loop is not woken.   *)
SilentInstallCache(a) ==
    /\ call[a].pc = "init"
    /\ Uninitialized(a) = {}
    /\ cache' = call[a].items
    /\ daemon' = IF a = Boot THEN "up" ELSE daemon
    /\ loop' = IF a = Boot THEN [loop EXCEPT !.pc = "top"] ELSE loop
    /\ quiet' = IF call[a].op \in Disabling /\ alone = a
                THEN quiet \cup {call[a].arg} ELSE quiet
    /\ Return(a)
    /\ Works
    /\ UNCHANGED <<row, wake, clock, running, fired, twice, bounds>>

(* Faulty variant: entries of the old cache that are enabled survive.      *)
MergingInstallCache(a) ==
    /\ call[a].pc = "init"
    /\ Uninitialized(a) = {}
    /\ cache' = [s \in Schedulers |->
                   IF s \in DOMAIN cache /\ cache[s].on THEN cache[s] ELSE call[a].items[s]]
    /\ wake' = TRUE
    /\ daemon' = IF a = Boot THEN "up" ELSE daemon
    /\ loop' = IF a = Boot THEN [loop EXCEPT !.pc = "top"] ELSE loop
    /\ quiet' = IF call[a].op \in Disabling /\ alone = a
                THEN quiet \cup {call[a].arg} ELSE quiet
    /\ Return(a)
    /\ Works
    /\ UNCHANGED <<row, clock, running, fired, twice, bounds>>

(* The end of Refresh: the list replaces the cache, and the loop is woken. *)
(* Startup starts the loop after its Refresh.                              *)
InstallCache(a) ==
    /\ call[a].pc = "init"
    /\ Uninitialized(a) = {}
    /\ cache' = call[a].items
    /\ wake' = TRUE
    /\ daemon' = IF a = Boot THEN "up" ELSE daemon
    /\ loop' = IF a = Boot THEN [loop EXCEPT !.pc = "top"] ELSE loop
    /\ quiet' = IF call[a].op \in Disabling /\ alone = a
                THEN quiet \cup {call[a].arg} ELSE quiet
    /\ Return(a)
    /\ Works
    /\ UNCHANGED <<row, clock, running, fired, twice, bounds>>

-----------------------------------------------------------------------------
(* Who calls.                                                              *)

Begin(a, o, s, pc) ==
    /\ call' = [call EXCEPT ![a] = [pc |-> pc, op |-> o, arg |-> s, items |-> <<>>]]
    /\ alone' = IF InFlight = {} /\ ~Collecting THEN a ELSE None
    /\ raced' = (raced \/ InFlight # {} \/ Collecting)

Request(a) ==
    /\ daemon = "up"
    /\ call[a].pc = "idle"
    /\ calls < MaxCalls
    /\ calls' = calls + 1
    /\ \E r \in Requests :
         /\ Begin(a, r[1], r[2], "write")
         /\ quiet' = IF r[1] \in Disabling THEN quiet ELSE quiet \ {r[2]}
    /\ UNCHANGED <<row, cache, wake, clock, daemon, loop, running, fired, twice, crashes, faults>>

(* A dispatched run ends, and refreshes.                                   *)
RunEnds(a) ==
    /\ daemon = "up"
    /\ call[a].pc = "idle"
    /\ running > 0
    /\ running' = running - 1
    /\ Begin(a, "runEnd", None, "list")
    /\ UNCHANGED <<row, cache, wake, clock, daemon, loop, history, bounds, faults>>

Start ==
    /\ daemon = "down"
    /\ daemon' = "starting"
    /\ Begin(Boot, "boot", None, "list")
    /\ UNCHANGED <<row, cache, wake, clock, loop, running, history, bounds, faults>>

(* The rows survive a crash; everything in memory is gone.                 *)
Crash ==
    /\ daemon # "down"
    /\ crashes < MaxCrashes
    /\ crashes' = crashes + 1
    /\ daemon' = "down"
    /\ cache' = <<>>
    /\ wake' = FALSE
    /\ call' = [a \in Actors |-> Idle]
    /\ loop' = Asleep
    /\ running' = 0
    /\ UNCHANGED <<row, clock, history, alone, raced, calls, faults>>

-----------------------------------------------------------------------------
(* The schedule loop.                                                      *)

LoopKeeps == UNCHANGED <<row, clock, daemon, call, quiet, bounds>>

(* CollectDueScheduledRuns on a snapshot of the cache: every due trigger   *)
(* becomes a job with its next fire time, in a copy of its whole           *)
(* scheduler.                                                              *)
CollectDueScheduledRuns ==
    LET due == {s \in DOMAIN cache : Due(cache[s])} IN
    /\ loop.pc = "top"
    /\ \/ /\ due = {}
          /\ loop' = [loop EXCEPT !.pc = "next"]
          /\ UNCHANGED <<alone, raced>>
       \/ /\ due # {}
          /\ loop' = [pc |-> "replace", at |-> Never,
                      jobs |-> [s \in due |->
                                 [cache[s] EXCEPT !.next = SchedulerTriggerNextFireAt(clock, s, TRUE)]],
                      due |-> [s \in due |-> cache[s].next]]
          /\ alone' = None
          /\ raced' = (raced \/ InFlight # {})
    /\ UNCHANGED <<cache, wake, running, fired, twice, faults>>
    /\ LoopKeeps

ReplaceCachedSchedulers ==
    /\ loop.pc = "replace"
    /\ cache' = [s \in DOMAIN cache \cup DOMAIN loop.jobs |->
                   IF s \in DOMAIN loop.jobs THEN loop.jobs[s] ELSE cache[s]]
    /\ loop' = [loop EXCEPT !.pc = "mark"]
    /\ UNCHANGED <<wake, running, fired, twice, alone, raced, faults>>
    /\ LoopKeeps

(* Faulty variant: the new fire times are only kept in the cache.          *)
CacheOnlyMarkSchedulerTriggerFired ==
    /\ loop.pc = "mark"
    /\ loop' = [loop EXCEPT !.pc = "dispatch"]
    /\ UNCHANGED <<row, cache, wake, running, fired, twice, alone, raced, faults, clock, daemon, call, quiet, bounds>>

(* The new fire time of each job is persisted; a failure is only logged.   *)
MarkSchedulerTriggerFired ==
    /\ loop.pc = "mark"
    /\ \E marked \in SUBSET DOMAIN loop.jobs :
         /\ row' = [s \in Schedulers |->
                      IF s \in marked THEN [row[s] EXCEPT !.next = loop.jobs[s].next] ELSE row[s]]
         /\ IF marked = DOMAIN loop.jobs THEN Works ELSE Fault
    /\ loop' = [loop EXCEPT !.pc = "dispatch"]
    /\ UNCHANGED <<cache, wake, running, fired, twice, clock, daemon, call, quiet, bounds>>

Dispatch ==
    LET jobs == DOMAIN loop.jobs
        total == running + Cardinality(jobs) IN
    /\ loop.pc = "dispatch"
    /\ running' = IF total > MaxRunning THEN MaxRunning ELSE total
    /\ twice' = twice \cup {s \in jobs : loop.due[s] \in fired[s]}
    /\ fired' = [s \in Schedulers |-> IF s \in jobs THEN fired[s] \cup {loop.due[s]} ELSE fired[s]]
    /\ loop' = [Asleep EXCEPT !.pc = "top"]
    /\ UNCHANGED <<cache, wake, alone, raced, faults>>
    /\ LoopKeeps

(* With nothing due the loop reads the earliest fire time off a second     *)
(* snapshot, and sleeps until then or until it is woken.                   *)
NextFireAt ==
    LET armed == {cache[s].next : s \in {t \in DOMAIN cache : Armed(cache[t])}} IN
    /\ loop.pc = "next"
    /\ loop' = [Asleep EXCEPT !.at = IF armed = {} THEN Never
                                     ELSE CHOOSE n \in armed : \A m \in armed : n <= m]
    /\ UNCHANGED <<cache, wake, running, fired, twice, alone, raced, faults>>
    /\ LoopKeeps

Wakes ==
    /\ daemon = "up"
    /\ loop.pc = "sleep"
    /\ \/ wake /\ wake' = FALSE
       \/ loop.at <= clock /\ UNCHANGED wake
    /\ loop' = [Asleep EXCEPT !.pc = "top"]
    /\ UNCHANGED <<cache, running, fired, twice, alone, raced, faults>>
    /\ LoopKeeps

-----------------------------------------------------------------------------

CallStep(a) ==
    \/ SetSchedulerEnabled(a)
    \/ EnableSchedulerTriggers(a)
    \/ SetSchedulerTriggerEnabled(a)
    \/ SetProjectSchedulerEnabled(a)
    \/ ListStoredTriggers(a)
    \/ ReplaceSchedulerTriggers(a)
    \/ ListSchedulers(a)
    \/ InitializeCronSchedules(a)
    \/ InstallCache(a)

LoopStep ==
    \/ CollectDueScheduledRuns
    \/ ReplaceCachedSchedulers
    \/ MarkSchedulerTriggerFired
    \/ Dispatch
    \/ NextFireAt
    \/ Wakes

Next ==
    \/ Tick
    \/ Start
    \/ Crash
    \/ LoopStep
    \/ \E a \in Actors : CallStep(a) \/ StoreFails(a)
    \/ \E a \in Callers : Request(a) \/ RunEnds(a)

Spec == Init /\ [][Next]_vars

(* A goroutine that can take its next step takes it.                       *)
FairSpec ==
    /\ Spec
    /\ WF_vars(Start)
    /\ WF_vars(LoopStep)
    /\ \A a \in Actors : WF_vars(CallStep(a))

-----------------------------------------------------------------------------

TypeOK ==
    /\ row \in [Schedulers -> Entries]
    /\ DOMAIN cache \subseteq Schedulers
    /\ \A s \in DOMAIN cache : cache[s] \in Entries
    /\ wake \in BOOLEAN
    /\ clock \in 0 .. MaxTime
    /\ daemon \in {"down", "starting", "up"}
    /\ \A a \in Actors : call[a].arg \in Schedulers \cup {None}
    /\ DOMAIN loop.jobs = DOMAIN loop.due
    /\ running \in 0 .. MaxRunning
    /\ quiet \subseteq Schedulers

(* A trigger is dispatched twice for one fire time only if its collection  *)
(* overlapped another goroutine's refresh or a store call failed: the loop *)
(* persists the next fire time before it dispatches, so a crash between    *)
(* any two of its steps never repeats a run.                               *)
OneRunPerFireTime == twice # {} => raced

(* A scheduler that was switched off by a request that nothing overlapped  *)
(* never has a run collected for it again, whatever overlapped before and  *)
(* whatever refreshes or restarts follow, until a request switches it on.  *)
SwitchedOffStaysOff == DOMAIN loop.jobs \cap quiet = {}

(* No wake-up is lost: a trigger that is due in the cache does not stay    *)
(* due, however Refresh's installation and wake-up interleave with the     *)
(* loop's two snapshots and its sleep.                                     *)
DueIsCollected ==
    \A s \in Schedulers :
        (daemon = "up" /\ s \in DOMAIN cache /\ Due(cache[s]))
            ~> ~(daemon = "up" /\ s \in DOMAIN cache /\ Due(cache[s]))
=============================================================================
