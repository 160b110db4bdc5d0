----------------------------- MODULE TikuTimer -----------------------------
(***************************************************************************)
(* Software timers (kernel/timers/tiku_timer.c), critical windows           *)
(* (tiku_crit.c) and the scheduler's loop and sleep (scheduler/tiku_sched.c).*)
(*                                                                         *)
(* "at" is where the process context is:                                    *)
(*   loop       in tiku_sched_loop(), between two dispatches                *)
(*   body       in the thread function of process "who"                     *)
(*   scan       in the timer process, about to look at timer_list[pos]      *)
(*   callback   in the callback of timer "who"                              *)
(*   asleep     in the idle hook                                            *)
(* Interrupts come between any two steps.  The process layer is reduced to  *)
(* what timers depend on (TikuProcess has all of it): which processes run,  *)
(* the current process, and a queue of POLLs and of other system events     *)
(* (TIMER and INIT, and EXITED, which is broadcast to NULL).  Application   *)
(* events leave the reserve of the queue alone and are left out.            *)
(***************************************************************************)
EXTENDS Integers, Sequences, FiniteSets, Compaction

CONSTANTS
  Timer, Proc, NULL,
  TimerProcess, \* tiku_timer_process
  Program,    \* the calls bodies and callbacks make: <<process or timer, call, argument>>
  Signalled,  \* processes interrupts poll
  Interval,   \* intervals timers are set to
  ClockMod,   \* 2^w for a clock of w bits
  QueueSize,  \* TIKU_QUEUE_SIZE
  MaxOps,     \* bound: calls a body or a callback makes in one activation
  Tickless,   \* does the port stretch the tick over a sleep?
  TickSkips   \* does the tick skip its poll inside a window (MSP430)?

Call == {"event", "callback", "reset", "restart", "stop", "wait", "exit",
         "start", "window", "light", "deep"}

ASSUME TimerAssumption ==
  /\ IsFiniteSet(Timer) /\ IsFiniteSet(Proc) /\ Timer \cap Proc = {}
  /\ Signalled \subseteq Proc
  /\ NULL \notin Timer \cup Proc /\ TimerProcess \notin Timer \cup Proc \cup {NULL}
  /\ Program \subseteq (Proc \cup Timer) \X Call \X (Timer \cup Proc \cup {NULL})
  /\ \A c \in Program :
       /\ c[2] \in {"event", "callback", "reset", "restart", "stop", "wait"} => c[3] \in Timer
       /\ c[2] \in {"exit", "start"} => c[3] \in Proc
       /\ c[2] = "wait" => c[1] \in Proc
  /\ ClockMod \in Nat \ {0, 1} /\ Interval \subseteq 1..(ClockMod - 1)
  /\ QueueSize \in Nat \ {0} /\ MaxOps \in Nat
  /\ Tickless \in BOOLEAN /\ TickSkips \in BOOLEAN

VARIABLES
  now,         \* tiku_clock_time()
  timer_list,  \* the armed timers, head first
  tm,          \* the fields of each struct tiku_timer
  crit_held,   \* tiku_crit_held
  queue, running, current,
  blocked,     \* the timer a process waits for in PT_WAIT_UNTIL_TIMEOUT, or NULL
  at, who, pos, n,
  tick_wakes,  \* idle_tick_wakes
  ahead, nap,  \* asleep: ticks to the next tick interrupt, and ticks slept so far
  (* history, read to keep callers and the clock within their bounds: *)
  age,         \* true ticks since start, up to ClockMod
  owed         \* due when the scan last started over, and not looked at since

process == <<queue, running, current, blocked>>
place   == <<at, who, pos, n>>
sleep   == <<tick_wakes, ahead, nap>>
timers  == <<timer_list, tm, age>>
vars    == <<now, timers, crit_held, process, place, sleep, owed>>

-----------------------------------------------------------------------------

Armed == {timer_list[i] : i \in DOMAIN timer_list}

Without(list, t) == Compact(list, {i \in DOMAIN list : list[i] # t})

(* Mutant: the tick of expiry is computed and compared.                      *)
timer_is_due_Absolute(t) == now >= (tm[t].start + tm[t].interval) % ClockMod

timer_is_due(t) == (now - tm[t].start) % ClockMod >= tm[t].interval

DueIn(list) == {t \in {list[i] : i \in DOMAIN list} : timer_is_due(t)}

(* Mutant: the queue's limit is off by one.                                  *)
Posted_OneMore(q, e) == IF Len(q) <= QueueSize THEN Append(q, e) ELSE q

Posted(q, e) == IF Len(q) < QueueSize THEN Append(q, e) ELSE q

Event(target) == [p |-> target, poll |-> FALSE, stale |-> FALSE]
PollOf(target) == [p |-> target, poll |-> TRUE, stale |-> FALSE]

(* tiku_process_poll(): one POLL of a target is queued at a time.            *)
Polled(q, target) ==
  IF \E i \in DOMAIN q : q[i].p = target /\ q[i].poll THEN q ELSE Posted(q, PollOf(target))

tiku_timer_request_poll(q) == IF timer_list # <<>> THEN Polled(q, TimerProcess) ELSE q

Distance(t) == (tm[t].start + tm[t].interval - now) % ClockMod

(* Mutant: timers are ranked by the tick they expire at.                     *)
tiku_timer_next_expiration_Absolute ==
  LET expiry(t) == (tm[t].start + tm[t].interval) % ClockMod
  IN  Distance(CHOOSE t \in Armed : \A u \in Armed : expiry(t) <= expiry(u))

(* Ticks from now to the next expiry. *)
tiku_timer_next_expiration ==
  Distance(CHOOSE t \in Armed : \A u \in Armed : Distance(t) <= Distance(u))

(* Some processes tiku_autostart_start() started have yet to receive INIT.     *)
InitsQueued ==
  {q \in UNION {[1..k -> {Event(p) : p \in Proc}] : k \in 0..QueueSize} :
     \A i, j \in DOMAIN q : q[i] = q[j] => i = j}

Init ==
  /\ now = 0 /\ timer_list = <<>>
  /\ tm = [t \in Timer |-> [start |-> 0, interval |-> 0, mode |-> "none", p |-> NULL]]
  /\ crit_held = FALSE /\ queue \in InitsQueued
  /\ running = [p \in Proc |-> TRUE] /\ current = NULL
  /\ blocked = [p \in Proc |-> NULL]
  /\ at = "loop" /\ who = NULL /\ pos = 1 /\ n = 0
  /\ tick_wakes = TRUE /\ ahead = 0 /\ nap = 0
  /\ age = [t \in Timer |-> 0] /\ owed = {}

-----------------------------------------------------------------------------
(* Dispatch.                                                               *)

(* A poll of the timer process: the scan, unless a window is held. *)
PollArrives ==
  /\ at = "loop" /\ queue # <<>> /\ Head(queue).p = TimerProcess
  /\ queue' = Tail(queue)
  /\ IF crit_held
     THEN UNCHANGED <<at, pos, current, owed>>
     ELSE at' = "scan" /\ pos' = 1 /\ current' = TimerProcess /\ owed' = DueIn(timer_list)
  /\ UNCHANGED <<now, timers, crit_held, running, blocked, who, n, sleep>>

(* An event for a process that is not running or an earlier instance, or a     *)
(* broadcast.                                                                *)
EventDropped ==
  /\ at = "loop" /\ queue # <<>>
  /\ \/ Head(queue).stale
     \/ Head(queue).p \notin {TimerProcess} \cup {p \in Proc : running[p]}
  /\ queue' = Tail(queue)
  /\ UNCHANGED <<now, timers, crit_held, running, current, blocked, place, sleep, owed>>

(* An event wakes p.  If p is in PT_WAIT_UNTIL_TIMEOUT, the wait goes on      *)
(* unless the condition holds or the timer is not armed; then it is stopped. *)
EventArrives(p) ==
  /\ at = "loop" /\ queue # <<>> /\ Head(queue).p = p /\ ~Head(queue).stale /\ running[p]
  /\ queue' = Tail(queue)
  /\ LET t == blocked[p] IN
     \/ /\ t \in Armed
        /\ UNCHANGED <<timer_list, blocked, at, who, n, current>>
     \/ /\ timer_list' = Without(timer_list, t)
        /\ blocked' = [blocked EXCEPT ![p] = NULL]
        /\ at' = "body" /\ who' = p /\ n' = MaxOps /\ current' = p
  /\ UNCHANGED <<now, tm, age, crit_held, running, pos, sleep, owed>>

Yields ==
  /\ at = "body"
  /\ at' = "loop" /\ who' = NULL /\ n' = 0 /\ current' = NULL
  /\ UNCHANGED <<now, timers, crit_held, queue, running, blocked, pos, sleep, owed>>

-----------------------------------------------------------------------------
(* The scan of the timer process.                                          *)

Rescan(list) == pos' = 1 /\ owed' = DueIn(list)

ScanEnds ==
  /\ at = "scan" /\ pos > Len(timer_list)
  /\ at' = "loop" /\ pos' = 1 /\ current' = NULL
  /\ UNCHANGED <<now, timers, crit_held, queue, running, blocked, who, n, sleep, owed>>

(* The timer the scan looks at. *)
Looks(t) == at = "scan" /\ pos <= Len(timer_list) /\ timer_list[pos] = t

Notifies(t) == tm[t].mode = "event" /\ tm[t].p # NULL

ScanPasses(t) ==
  /\ Looks(t) /\ ~timer_is_due(t)
  /\ pos' = pos + 1 /\ owed' = owed \ {t}
  /\ UNCHANGED <<now, timers, crit_held, process, at, who, n, sleep>>

(* Mutants: the scan ends at a refused event; a refused event is lost.       *)
EventRefused_Ends(t) ==
  /\ Looks(t) /\ timer_is_due(t) /\ Notifies(t) /\ Len(queue) >= QueueSize
  /\ pos' = Len(timer_list) + 1 /\ owed' = owed \ {t}
  /\ UNCHANGED <<now, timers, crit_held, process, at, who, n, sleep>>

EventRefused_Lost(t) ==
  /\ Looks(t) /\ timer_is_due(t) /\ Notifies(t) /\ Len(queue) >= QueueSize
  /\ timer_list' = Without(timer_list, t) /\ Rescan(Without(timer_list, t))
  /\ UNCHANGED <<now, tm, age, crit_held, process, at, who, n, sleep>>

(* A full queue refuses the event: the timer stays armed. *)
EventRefused(t) ==
  /\ Looks(t) /\ timer_is_due(t) /\ Notifies(t) /\ Len(queue) >= QueueSize
  /\ pos' = pos + 1 /\ owed' = owed \ {t}
  /\ UNCHANGED <<now, timers, crit_held, process, at, who, n, sleep>>

(* The timer leaves the list; its owner, if it has one, is sent TIMER. *)
EventFires(t) ==
  /\ Looks(t) /\ timer_is_due(t) /\ tm[t].mode = "event"
  /\ IF Notifies(t)
     THEN Len(queue) < QueueSize /\ queue' = Append(queue, Event(tm[t].p))
     ELSE UNCHANGED queue
  /\ timer_list' = Without(timer_list, t) /\ Rescan(Without(timer_list, t))
  /\ UNCHANGED <<now, tm, age, crit_held, running, current, blocked, at, who, n, sleep>>

(* The timer leaves the list, and its callback runs as the owner. *)
CallbackFires(t) ==
  /\ Looks(t) /\ timer_is_due(t) /\ tm[t].mode = "callback"
  /\ timer_list' = Without(timer_list, t)
  /\ at' = "callback" /\ who' = t /\ n' = MaxOps /\ current' = tm[t].p
  /\ UNCHANGED <<now, tm, age, crit_held, queue, running, blocked, pos, sleep, owed>>

CallbackReturns ==
  /\ at = "callback"
  /\ at' = "scan" /\ who' = NULL /\ n' = 0 /\ current' = TimerProcess
  /\ Rescan(timer_list)
  /\ UNCHANGED <<now, timers, crit_held, queue, running, blocked, sleep>>

-----------------------------------------------------------------------------
(* What bodies and callbacks call.                                         *)

Calls(c, which) ==
  at \in {"body", "callback"} /\ who = c[1] /\ c[2] \in which /\ n > 0

Spend == n' = n - 1 /\ UNCHANGED <<at, who, pos, current>>

(* timer_insert(): an armed timer is taken off the list first. *)
timer_insert(t, fields, true_age) ==
  /\ timer_list' = <<t>> \o Without(timer_list, t)
  /\ tm'    = [tm EXCEPT ![t] = fields]
  /\ age'   = [age EXCEPT ![t] = true_age]
  /\ queue' = Polled(queue, TimerProcess)

Fields(i, m) == [start |-> now, interval |-> i, mode |-> m, p |-> current]

(* tiku_timer_set_event() and tiku_timer_set_callback(). *)
tiku_timer_set(c) ==
  /\ Calls(c, {"event", "callback"})
  /\ \E i \in Interval : timer_insert(c[3], Fields(i, c[2]), 0)
  /\ Spend
  /\ UNCHANGED <<now, crit_held, running, blocked, sleep, owed>>

(* Callers reset a timer after it came due, less than a clock period after    *)
(* its start (tiku_shell_process, adv_burst_cb()).                            *)
tiku_timer_reset(c) ==
  LET t == c[3] IN
  /\ Calls(c, {"reset"}) /\ tm[t].mode # "none"
  /\ age[t] \in tm[t].interval..(ClockMod - 1)
  /\ timer_insert(t, [tm[t] EXCEPT !.start = (@ + tm[t].interval) % ClockMod],
                  age[t] - tm[t].interval)
  /\ Spend
  /\ UNCHANGED <<now, crit_held, running, blocked, sleep, owed>>

tiku_timer_restart(c) ==
  /\ Calls(c, {"restart"}) /\ tm[c[3]].mode # "none"
  /\ timer_insert(c[3], [tm[c[3]] EXCEPT !.start = now], 0)
  /\ Spend
  /\ UNCHANGED <<now, crit_held, running, blocked, sleep, owed>>

tiku_timer_stop(c) ==
  /\ Calls(c, {"stop"})
  /\ timer_list' = Without(timer_list, c[3])
  /\ Spend
  /\ UNCHANGED <<now, tm, age, crit_held, queue, running, blocked, sleep, owed>>

(* PT_WAIT_UNTIL_TIMEOUT, up to the return to the dispatcher. *)
PT_WAIT_UNTIL_TIMEOUT(c) ==
  /\ Calls(c, {"wait"})
  /\ \E i \in Interval : timer_insert(c[3], Fields(i, "event"), 0)
  /\ blocked' = [blocked EXCEPT ![who] = c[3]]
  /\ at' = "loop" /\ who' = NULL /\ n' = 0 /\ current' = NULL
  /\ UNCHANGED <<now, crit_held, running, pos, sleep, owed>>

(* tiku_process_exit(): events and timers of p go with it.  A process that    *)
(* exits itself does so by ending (Ends).                                    *)
Exits(p) ==
  /\ running'    = [running EXCEPT ![p] = FALSE]
  /\ blocked'    = [blocked EXCEPT ![p] = NULL]
  /\ timer_list' = Compact(timer_list, {i \in DOMAIN timer_list : tm[timer_list[i]].p # p})
  /\ queue'      = Posted(Compact(queue, {i \in DOMAIN queue : queue[i].p # p}), Event(NULL))

tiku_process_exit(c) ==
  /\ Calls(c, {"exit"}) /\ running[c[3]] /\ c[3] # current
  /\ Exits(c[3]) /\ Spend
  /\ UNCHANGED <<now, tm, age, crit_held, sleep, owed>>

Ends ==
  /\ at = "body"
  /\ Exits(who)
  /\ at' = "loop" /\ who' = NULL /\ n' = 0 /\ current' = NULL
  /\ UNCHANGED <<now, tm, age, crit_held, pos, sleep, owed>>

(* tiku_process_start(): what is queued for the last instance is now stale;    *)
(* INIT is queued, or delivered by a direct call, which leaves no current    *)
(* process behind.  The body INIT runs sets no timer.                        *)
tiku_process_start(c) ==
  /\ Calls(c, {"start"}) /\ ~running[c[3]]
  /\ running' = [running EXCEPT ![c[3]] = TRUE]
  /\ queue'   = Posted([i \in DOMAIN queue |-> [queue[i] EXCEPT !.stale = @ \/ queue[i].p = c[3]]],
                       Event(c[3]))
  /\ current' = IF Len(queue) < QueueSize THEN current ELSE NULL
  /\ n' = n - 1
  /\ UNCHANGED <<now, timers, crit_held, blocked, at, who, pos, sleep, owed>>

tiku_crit_begin(c) ==
  /\ Calls(c, {"window"}) /\ ~crit_held /\ at = "body"
  /\ crit_held' = TRUE
  /\ Spend
  /\ UNCHANGED <<now, timers, queue, running, blocked, sleep, owed>>

tiku_sched_set_idle_tick_wakes(c) ==
  /\ Calls(c, {"light", "deep"})
  /\ tick_wakes' = (c[2] = "light")
  /\ Spend
  /\ UNCHANGED <<now, timers, crit_held, queue, running, blocked, ahead, nap, owed>>

-----------------------------------------------------------------------------
(* The idle path of tiku_sched_loop(), one atomic section.                 *)

(* Mutant: an armed timer does not keep a sleep without tick away.          *)
Idle_Deep ==
  /\ at = "loop" /\ queue = <<>> /\ DueIn(timer_list) = {}
  /\ at' = "asleep" /\ nap' = 0
  /\ ahead' \in {1} \cup
       IF Tickless /\ tick_wakes /\ timer_list # <<>> THEN {tiku_timer_next_expiration} ELSE {}
  /\ UNCHANGED <<now, timers, crit_held, process, who, pos, n, tick_wakes, owed>>

Idle ==
  /\ at = "loop" /\ queue = <<>> /\ DueIn(timer_list) = {}
  /\ tick_wakes \/ timer_list = <<>>
  /\ at' = "asleep" /\ nap' = 0
  /\ ahead' \in {1} \cup
       IF Tickless /\ tick_wakes /\ timer_list # <<>> THEN {tiku_timer_next_expiration} ELSE {}
  /\ UNCHANGED <<now, timers, crit_held, process, who, pos, n, tick_wakes, owed>>

(* A tick goes by for which no interrupt is due. *)
SleepsOn ==
  /\ at = "asleep" /\ tick_wakes /\ nap + 1 < ahead
  /\ nap' = nap + 1
  /\ UNCHANGED <<now, timers, crit_held, process, place, tick_wakes, ahead, owed>>

(* The ages that matter: of armed timers and of those that may be reset.      *)
Aging == Armed \cup {c[3] : c \in {d \in Program : d[2] = "reset"}}

Older(k) ==
  [t \in Timer |-> IF t \notin Aging THEN 0
                   ELSE IF age[t] + k > ClockMod THEN ClockMod ELSE age[t] + k]

(* The idle hook returns, and the ticks slept through are credited. *)
Wakes(k) ==
  /\ at' = IF at = "asleep" THEN "loop" ELSE at
  /\ now' = (now + k) % ClockMod /\ age' = Older(k)
  /\ nap' = 0 /\ ahead' = 0

(* The next tick interrupt: awake at each tick, asleep where the tick was set. *)
TickDue == at = "asleep" => tick_wakes /\ nap + 1 = ahead

(* Bound: no armed timer gets a whole clock period old.  The ticks of that     *)
(* period that are left poll, but do not move the clock.                     *)
Elapsed == IF \A t \in Armed : age[t] + nap + 1 < ClockMod THEN nap + 1 ELSE 0

(* Mutant: the tick does not poll.                                          *)
Tick_Silent ==
  /\ TickDue /\ Wakes(Elapsed)
  /\ UNCHANGED <<timer_list, tm, crit_held, process, who, pos, n, tick_wakes, owed>>

Tick ==
  /\ TickDue /\ Wakes(Elapsed)
  /\ queue' = IF TickSkips /\ crit_held THEN queue ELSE tiku_timer_request_poll(queue)
  /\ UNCHANGED <<timer_list, tm, crit_held, running, current, blocked, who, pos, n,
                 tick_wakes, owed>>

(* The credit for ticks slept through polls like a tick, before the interrupt  *)
(* that ended the sleep is taken.                                            *)
Credited(q) == IF nap > 0 THEN tiku_timer_request_poll(q) ELSE q

IsrPoll(p) ==
  /\ Wakes(nap)
  /\ queue' = Polled(Credited(queue), p)
  /\ UNCHANGED <<timer_list, tm, crit_held, running, current, blocked, who, pos, n,
                 tick_wakes, owed>>

(* The handler that ends what the window was opened for closes it. *)
tiku_crit_end ==
  /\ crit_held
  /\ crit_held' = FALSE
  /\ Wakes(nap)
  /\ queue' = tiku_timer_request_poll(Credited(queue))
  /\ UNCHANGED <<timer_list, tm, running, current, blocked, who, pos, n, tick_wakes, owed>>

-----------------------------------------------------------------------------

Scan == \/ ScanEnds \/ CallbackReturns
        \/ \E t \in Timer : \/ ScanPasses(t) \/ EventRefused(t)
                            \/ EventFires(t) \/ CallbackFires(t)

Makes(c) == \/ tiku_timer_set(c) \/ tiku_timer_reset(c) \/ tiku_timer_restart(c)
            \/ tiku_timer_stop(c) \/ PT_WAIT_UNTIL_TIMEOUT(c)
            \/ tiku_process_exit(c) \/ tiku_process_start(c)
            \/ tiku_crit_begin(c) \/ tiku_sched_set_idle_tick_wakes(c)

(* A step of the process context. *)
Step == \/ PollArrives \/ EventDropped \/ Yields \/ Ends \/ Idle \/ Scan
        \/ \E p \in Proc : EventArrives(p)
        \/ \E c \in Program : Makes(c)

Clock == SleepsOn \/ Tick

Interrupt == \E p \in Signalled : IsrPoll(p)

Next == Step \/ Clock \/ Interrupt \/ tiku_crit_end

Spec == Init /\ [][Next]_vars

(* The processor runs, the clock ticks, and windows are closed: a held window *)
(* must be shorter than the watchdog's timeout (tiku_crit.h).                 *)
FairSpec == Spec /\ WF_vars(Step) /\ WF_vars(Clock) /\ WF_vars(tiku_crit_end)

-----------------------------------------------------------------------------
(* Properties.                                                             *)

TimerType == [start : 0..(ClockMod - 1), interval : Interval \cup {0},
              mode : {"none", "event", "callback"}, p : Proc \cup {NULL}]

(* The types of the state of the timers and the scheduler.                   *)
TypeOK ==
  /\ now \in 0..(ClockMod - 1)
  /\ timer_list \in Seq(Timer) /\ Len(timer_list) = Cardinality(Armed)
  /\ tm \in [Timer -> TimerType] /\ crit_held \in BOOLEAN
  /\ queue \in Seq([p : Proc \cup {TimerProcess, NULL}, poll : BOOLEAN, stale : BOOLEAN]) /\ Len(queue) <= QueueSize
  /\ running \in [Proc -> BOOLEAN] /\ current \in Proc \cup {TimerProcess, NULL}
  /\ blocked \in [Proc -> Timer \cup {NULL}]
  /\ at \in {"loop", "body", "scan", "callback", "asleep"}
  /\ who \in Proc \cup Timer \cup {NULL} /\ pos \in 1..(Cardinality(Timer) + 1)
  /\ n \in 0..MaxOps /\ tick_wakes \in BOOLEAN
  /\ ahead \in 0..(ClockMod - 1) /\ nap \in 0..(ClockMod - 1)
  /\ age \in [Timer -> 0..ClockMod] /\ owed \subseteq Timer

Fires(t) == Looks(t) /\ \A i \in DOMAIN timer_list' : timer_list'[i] # t

(* No timer expires before its interval has truly passed since its start,    *)
(* whatever the clock's wrap, resets and drift-free rearming do to the       *)
(* modular comparison of timer_is_due().                                     *)
NeverEarly == [][\A t \in Timer : Fires(t) => age[t] >= tm[t].interval]_vars

(* The CPU sleeps only with nothing to do, and no armed timer comes due      *)
(* while it sleeps, stretched tick or not (tiku_sched_loop(),                *)
(* tiku_timer_next_expiration()).                                            *)
SleepSound ==
  at = "asleep" =>
    /\ queue = <<>>
    /\ \A t \in Armed : tick_wakes /\ age[t] + nap < tm[t].interval

(* When a scan is over it has looked at every timer that was due when it      *)
(* last started over: an event the queue refuses holds up no other timer     *)
(* (the timer process's thread: "this scan moves past it").                  *)
ScanComplete == at = "loop" => owed = {}

Overdue(t) == t \in Armed /\ age[t] >= tm[t].interval

(* Other interrupts leave off, and scans end: a callback that takes longer    *)
(* than its timer's interval would be run for ever.                         *)
Settled == <>[][~Interrupt]_vars /\ []<>(at = "loop")

(* Once settled, every timer that came due expires, or is stopped or set     *)
(* again, whatever the queue refused, windows deferred and sleep stretched.  *)
DueFires == Settled => \A t \in Timer : []<>~Overdue(t)

(* Once settled, a process in PT_WAIT_UNTIL_TIMEOUT runs again: the expiry    *)
(* that unarms its timer also wakes it (tiku_timer.h: "Block until cond is   *)
(* true or ticks have elapsed").                                             *)
WaitEnds == Settled => \A p \in Proc : []<>(blocked[p] = NULL)
=============================================================================
