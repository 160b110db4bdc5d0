-------------------------- MODULE TikuTimerProofs --------------------------
(***************************************************************************)
(* Proofs about TikuTimer: type correctness and the safety properties of    *)
(* the run timer_periodic, for any finite sets of timers and processes, any *)
(* program of calls, any clock of at least two ticks and any queue.        *)
(***************************************************************************)
EXTENDS TikuTimer, CompactionProofs, TLAPS

-----------------------------------------------------------------------------
(* Arithmetic of the clock.                                                *)

(* The clock's period and the intervals are numbers.                        *)
LEMMA ClockBounds ==
  /\ ClockMod \in Int /\ 2 <= ClockMod
  /\ \A i \in Interval : i \in Int /\ 1 <= i /\ i < ClockMod
<1>1. ClockMod \in Nat \ {0, 1} /\ Interval \subseteq 1..(ClockMod - 1)
  BY TimerAssumption
<1>2. ClockMod \in Int /\ 2 <= ClockMod
  BY <1>1
<1>3. \A i \in 1..(ClockMod - 1) : i \in Int /\ 1 <= i /\ i < ClockMod
  BY <1>2
<1> QED
  BY <1>1, <1>2, <1>3

(* The remainder by the clock's period, at most one period off.            *)
LEMMA Clockwise ==
  ASSUME NEW i \in Int
  PROVE  /\ i % ClockMod \in 0..(ClockMod - 1)
         /\ 0 <= i /\ i < ClockMod => i % ClockMod = i
         /\ ClockMod <= i /\ i < 2 * ClockMod => i % ClockMod = i - ClockMod
         /\ -ClockMod <= i /\ i < 0 => i % ClockMod = i + ClockMod
<1>1. i % ClockMod \in 0..(ClockMod - 1)
  BY TimerAssumption
<1>2. 0 <= i /\ i < ClockMod => i % ClockMod = i
  BY TimerAssumption
<1>3. ClockMod <= i /\ i < 2 * ClockMod => i % ClockMod = i - ClockMod
  BY TimerAssumption
<1>4. -ClockMod <= i /\ i < 0 => i % ClockMod = i + ClockMod
  BY TimerAssumption
<1> QED
  BY <1>1, <1>2, <1>3, <1>4

-----------------------------------------------------------------------------
(* The list of timers.                                                     *)

Distinct(list) == \A i, j \in DOMAIN list : list[i] = list[j] => i = j

Members(list) == {list[i] : i \in DOMAIN list}

(* A list without repetition is as long as the set of its members, and no    *)
(* longer than there are timers.                                           *)
LEMMA DistinctLen ==
  ASSUME NEW list \in Seq(Timer), Distinct(list)
  PROVE  /\ Len(list) = Cardinality(Members(list))
         /\ Len(list) <= Cardinality(Timer) /\ Cardinality(Timer) \in Nat
<1>1. Len(list) \in Nat /\ DOMAIN list = 1..Len(list) /\ list \in [1..Len(list) -> Timer]
  BY LenProperties
<1>2. list \in Surjection(1..Len(list), Members(list))
  BY <1>1 DEF Members, Surjection
<1>3. list \in Injection(1..Len(list), Members(list))
  BY <1>1, <1>2 DEF Distinct, Surjection, Injection, IsInjective
<1>4. IsFiniteSet(1..Len(list)) /\ Cardinality(1..Len(list)) = Len(list)
  BY <1>1, FS_Interval
<1>5. Cardinality(Members(list)) = Len(list)
  BY <1>2, <1>3, <1>4, FS_Surjection
<1>6. Members(list) \subseteq Timer /\ IsFiniteSet(Timer)
  BY <1>1, TimerAssumption DEF Members
<1>7. Cardinality(Members(list)) <= Cardinality(Timer) /\ Cardinality(Timer) \in Nat
  BY <1>6, FS_Subset, FS_CardinalityType
<1> QED
  BY <1>5, <1>7

(* What compaction leaves of a list: kept members only, and none twice.     *)
LEMMA CompactList ==
  ASSUME NEW list \in Seq(Timer), NEW keep \in SUBSET (DOMAIN list), Distinct(list)
  PROVE  /\ Compact(list, keep) \in Seq(Timer)
         /\ Distinct(Compact(list, keep))
         /\ \A k \in DOMAIN Compact(list, keep) :
              \E i \in keep : Compact(list, keep)[k] = list[i]
<1>1. /\ Compact(list, keep) \in Seq(Timer)
      /\ \A k \in DOMAIN Compact(list, keep) :
           /\ Kept(keep, k) \in keep
           /\ KeptUpTo(keep, Kept(keep, k)) = k
           /\ Compact(list, keep)[k] = list[Kept(keep, k)]
  BY CompactKeeps
<1>2. Distinct(Compact(list, keep))
  <2> SUFFICES ASSUME NEW k \in DOMAIN Compact(list, keep),
                      NEW m \in DOMAIN Compact(list, keep),
                      Compact(list, keep)[k] = Compact(list, keep)[m]
               PROVE  k = m
    BY DEF Distinct
  <2>1. list[Kept(keep, k)] = list[Kept(keep, m)]
    BY <1>1
  <2>2. Kept(keep, k) = Kept(keep, m)
    BY <1>1, <2>1 DEF Distinct
  <2> QED
    BY <1>1, <2>2, Zenon
<1> QED
  BY <1>1, <1>2, Zenon

(* Taking a timer off the list.                                            *)
LEMMA WithoutList ==
  ASSUME NEW list \in Seq(Timer), Distinct(list), NEW t
  PROVE  /\ Without(list, t) \in Seq(Timer)
         /\ Distinct(Without(list, t))
         /\ Members(Without(list, t)) \subseteq Members(list) \ {t}
<1> DEFINE keep == {i \in DOMAIN list : list[i] # t}
<1>0. keep \in SUBSET (DOMAIN list) /\ \A i \in keep : i \in DOMAIN list /\ list[i] # t
  OBVIOUS
<1>1. Without(list, t) = Compact(list, keep)
  BY DEF Without
<1> HIDE DEF keep
<1>2. /\ Compact(list, keep) \in Seq(Timer)
      /\ Distinct(Compact(list, keep))
      /\ \A k \in DOMAIN Compact(list, keep) :
           \E i \in keep : Compact(list, keep)[k] = list[i]
  BY <1>0, CompactList
<1> QED
  BY <1>0, <1>1, <1>2, Zenon DEF Members

(* Putting a timer at the head of a list that is without it.               *)
LEMMA ConsList ==
  ASSUME NEW list \in Seq(Timer), Distinct(list), NEW t \in Timer, t \notin Members(list)
  PROVE  /\ <<t>> \o list \in Seq(Timer)
         /\ Distinct(<<t>> \o list)
         /\ Members(<<t>> \o list) = Members(list) \cup {t}
<1> DEFINE L == <<t>> \o list
<1>1. <<t>> \in Seq(Timer) /\ Len(<<t>>) = 1 /\ <<t>>[1] = t
  OBVIOUS
<1>2. /\ L \in Seq(Timer) /\ Len(L) = 1 + Len(list)
      /\ \A i \in 1..(1 + Len(list)) : L[i] = IF i <= 1 THEN <<t>>[i] ELSE list[i - 1]
  BY <1>1, ConcatProperties
<1>3. /\ Len(list) \in Nat /\ DOMAIN list = 1..Len(list)
      /\ DOMAIN L = 1..(1 + Len(list))
  BY <1>2, LenProperties
<1> HIDE DEF L
<1>4. L[1] = t /\ \A i \in DOMAIN list : L[i + 1] = list[i]
  BY <1>1, <1>2, <1>3
<1>5. \A i \in DOMAIN L : i = 1 \/ i - 1 \in DOMAIN list
  BY <1>3
<1>6. \A i \in DOMAIN L : i # 1 => L[i] = list[i - 1]
  BY <1>2, <1>3
<1>7. Distinct(L)
  <2> SUFFICES ASSUME NEW i \in DOMAIN L, NEW j \in DOMAIN L, L[i] = L[j]
               PROVE  i = j
    BY DEF Distinct
  <2>1. CASE i = 1 /\ j = 1
    BY <2>1
  <2>2. CASE i = 1 /\ j # 1
    BY <1>4, <1>5, <1>6, <2>2 DEF Members
  <2>3. CASE i # 1 /\ j = 1
    BY <1>4, <1>5, <1>6, <2>3 DEF Members
  <2>4. CASE i # 1 /\ j # 1
    <3>1. list[i - 1] = list[j - 1] /\ i - 1 \in DOMAIN list /\ j - 1 \in DOMAIN list
      BY <1>5, <1>6, <2>4
    <3>2. i - 1 = j - 1
      BY <3>1 DEF Distinct
    <3> QED
      BY <1>3, <3>2
  <2> QED
    BY <2>1, <2>2, <2>3, <2>4
<1>8. Members(L) = Members(list) \cup {t}
  <2>1. ASSUME NEW x \in Members(L)
        PROVE  x \in Members(list) \cup {t}
    BY <1>4, <1>5, <1>6 DEF Members
  <2>2. ASSUME NEW x \in Members(list)
        PROVE  x \in Members(L)
    <3>1. PICK i \in DOMAIN list : x = list[i]
      BY DEF Members
    <3>2. i + 1 \in DOMAIN L /\ L[i + 1] = x
      BY <1>3, <1>4, <3>1
    <3> QED
      BY <3>2 DEF Members
  <2>3. t \in Members(L)
    <3>1. 1 \in DOMAIN L
      BY <1>3
    <3> QED
      BY <1>4, <3>1 DEF Members
  <2> QED
    BY <2>1, <2>2, <2>3
<1> QED
  BY <1>2, <1>7, <1>8 DEF L

-----------------------------------------------------------------------------
(* Types, in groups of variables that change together.                     *)

Entry == [p : Proc \cup {TimerProcess, NULL}, poll : BOOLEAN, stale : BOOLEAN]

QueueOK(q) == q \in Seq(Entry) /\ Len(q) <= QueueSize

\* The list and the fields: an armed timer has been set, to an interval.
TimersOK ==
  /\ timer_list \in Seq(Timer) /\ Distinct(timer_list)
  /\ tm \in [Timer -> TimerType] /\ age \in [Timer -> 0..ClockMod]
  /\ \A t \in Timer : tm[t].mode # "none" => tm[t].interval \in Interval
  /\ \A t \in Armed : tm[t].mode # "none"

\* The process context: bodies and callbacks run as a process or as nobody.
ContextOK ==
  /\ running \in [Proc -> BOOLEAN] /\ current \in Proc \cup {TimerProcess, NULL}
  /\ blocked \in [Proc -> Timer \cup {NULL}]
  /\ at \in {"loop", "body", "scan", "callback", "asleep"}
  /\ who \in Proc \cup Timer \cup {NULL} /\ n \in 0..MaxOps
  /\ at = "body" => who \in Proc
  /\ at = "callback" => who \in Timer
  /\ at \in {"body", "callback"} => current # TimerProcess

ClockOK ==
  /\ now \in 0..(ClockMod - 1)
  /\ crit_held \in BOOLEAN /\ tick_wakes \in BOOLEAN
  /\ ahead \in 0..(ClockMod - 1) /\ nap \in 0..(ClockMod - 1)

ScanOK == pos \in 1..(Cardinality(Timer) + 1) /\ owed \subseteq Timer

TypeInv == TimersOK /\ QueueOK(queue) /\ ContextOK /\ ClockOK /\ ScanOK

(* The groups make up the type invariant.                                  *)
LEMMA TypeParts ==
  ASSUME TypeInv
  PROVE  TypeOK
<1>1. Len(timer_list) = Cardinality(Armed)
  BY DistinctLen DEF TypeInv, TimersOK, Members, Armed
<1>2. TimersOK /\ QueueOK(queue) /\ ContextOK /\ ClockOK /\ ScanOK
  BY DEF TypeInv
<1>3. queue \in Seq(Entry) /\ Len(queue) <= QueueSize
  BY <1>2 DEF QueueOK
<1> QED
  BY <1>1, <1>2, <1>3 DEF TypeOK, TimersOK, ContextOK, ClockOK, ScanOK, Entry

(* A post is refused where it would overfill the queue.                    *)
LEMMA PostedOK ==
  ASSUME NEW q, QueueOK(q), NEW e \in Entry
  PROVE  QueueOK(Posted(q, e))
<1>1. CASE Len(q) < QueueSize
  <2>1. Append(q, e) \in Seq(Entry) /\ Len(Append(q, e)) = Len(q) + 1
    BY AppendProperties DEF QueueOK
  <2>2. Len(q) \in Nat
    BY LenProperties DEF QueueOK
  <2> QED
    BY <1>1, <2>1, <2>2, TimerAssumption DEF QueueOK, Posted
<1>2. CASE ~(Len(q) < QueueSize)
  BY <1>2 DEF Posted
<1> QED
  BY <1>1, <1>2

(* So is a poll, whoever is polled.                                        *)
LEMMA PolledOK ==
  ASSUME NEW q, QueueOK(q), NEW target \in Proc \cup {TimerProcess}
  PROVE  QueueOK(Polled(q, target)) /\ QueueOK(tiku_timer_request_poll(q))
<1>1. ASSUME NEW p \in Proc \cup {TimerProcess}
      PROVE  QueueOK(Polled(q, p))
  <2>1. PollOf(p) \in Entry
    BY DEF PollOf, Entry
  <2> QED
    BY <2>1, PostedOK DEF Polled
<1> QED
  BY <1>1 DEF tiku_timer_request_poll

(* Initially the queue holds INITs, none twice.                            *)
LEMMA TypeInit ==
  ASSUME Init
  PROVE  TypeInv
<1>1. TimersOK
  <2>1. timer_list = <<>> /\ <<>> \in Seq(Timer) /\ DOMAIN <<>> = {}
    BY EmptySeq DEF Init
  <2>2. \A t \in Timer : tm[t] = [start |-> 0, interval |-> 0, mode |-> "none", p |-> NULL]
    BY DEF Init
  <2>3. tm \in [Timer -> TimerType]
    BY TimerAssumption DEF Init, TimerType
  <2>4. age \in [Timer -> 0..ClockMod]
    BY TimerAssumption DEF Init
  <2> QED
    BY <2>1, <2>2, <2>3, <2>4 DEF TimersOK, Distinct, Armed
<1>2. QueueOK(queue)
  <2>1. PICK k \in 0..QueueSize : queue \in [1..k -> {Event(p) : p \in Proc}]
    BY DEF Init, InitsQueued
  <2>2. k \in Nat /\ k <= QueueSize
    BY <2>1, TimerAssumption
  <2>3. \A p \in Proc : Event(p) \in Entry
    BY DEF Event, Entry
  <2>4. queue \in [1..k -> Entry]
    BY <2>1, <2>3
  <2>5. queue \in Seq(Entry) /\ Len(queue) = k
    BY <2>2, <2>4, SeqDef, LenProperties
  <2> QED
    BY <2>2, <2>5 DEF QueueOK
<1>3. ContextOK
  BY TimerAssumption DEF Init, ContextOK
<1>4. ClockOK
  <2>1. 0 \in 0..(ClockMod - 1)
    BY TimerAssumption
  <2> QED
    BY <2>1 DEF Init, ClockOK
<1>5. ScanOK
  <2>1. Cardinality(Timer) \in Nat
    BY TimerAssumption, FS_CardinalityType
  <2> QED
    BY <2>1 DEF Init, ScanOK
<1> QED
  BY <1>1, <1>2, <1>3, <1>4, <1>5 DEF TypeInv

-----------------------------------------------------------------------------
(* What the kernel's calls do to the list of timers.                       *)

(* The arguments of the calls have the types the calls give them.          *)
LEMMA CallTypes ==
  ASSUME NEW c \in Program
  PROVE  /\ c[2] \in {"event", "callback", "reset", "restart", "stop", "wait"} => c[3] \in Timer
         /\ c[2] \in {"exit", "start"} => c[3] \in Proc
         /\ c[2] = "wait" => c[1] \in Proc /\ c[1] \notin Timer
BY TimerAssumption

(* Taking members off the list, or leaving it alone, keeps it in order.     *)
LEMMA ListShrinks ==
  ASSUME TimersOK, UNCHANGED <<tm, age>>,
         \/ UNCHANGED timer_list
         \/ \E t : timer_list' = Without(timer_list, t)
         \/ \E keep \in SUBSET (DOMAIN timer_list) : timer_list' = Compact(timer_list, keep)
  PROVE  TimersOK' /\ Armed' \subseteq Armed
<1>1. CASE UNCHANGED timer_list
  BY <1>1 DEF TimersOK, Distinct, Armed
<1>2. ASSUME NEW t, timer_list' = Without(timer_list, t)
      PROVE  TimersOK' /\ Armed' \subseteq Armed
  <2>1. /\ Without(timer_list, t) \in Seq(Timer) /\ Distinct(Without(timer_list, t))
        /\ Members(Without(timer_list, t)) \subseteq Members(timer_list)
    BY WithoutList DEF TimersOK
  <2>2. Armed' \subseteq Armed
    BY <1>2, <2>1 DEF Armed, Members
  <2>3. timer_list' \in Seq(Timer) /\ Distinct(timer_list)'
    BY <1>2, <2>1 DEF Distinct
  <2> QED
    BY <2>2, <2>3 DEF TimersOK
<1>3. ASSUME NEW keep \in SUBSET (DOMAIN timer_list), timer_list' = Compact(timer_list, keep)
      PROVE  TimersOK' /\ Armed' \subseteq Armed
  <2>1. /\ Compact(timer_list, keep) \in Seq(Timer) /\ Distinct(Compact(timer_list, keep))
        /\ \A k \in DOMAIN Compact(timer_list, keep) :
             \E i \in keep : Compact(timer_list, keep)[k] = timer_list[i]
    BY CompactList DEF TimersOK
  <2>2. Armed' \subseteq Armed
    BY <1>3, <2>1 DEF Armed
  <2>3. timer_list' \in Seq(Timer) /\ Distinct(timer_list)'
    BY <1>3, <2>1 DEF Distinct
  <2> QED
    BY <2>2, <2>3 DEF TimersOK
<1> QED
  BY <1>1, <1>2, <1>3

(* Inserting a timer arms it with the fields given, and no other.          *)
LEMMA InsertTimer ==
  ASSUME TimersOK, QueueOK(queue), NEW t \in Timer, NEW fields \in TimerType,
         fields.mode # "none", fields.interval \in Interval,
         NEW true_age \in 0..ClockMod, timer_insert(t, fields, true_age)
  PROVE  /\ TimersOK' /\ QueueOK(queue)' /\ Armed' = Armed \cup {t}
         /\ tm'[t] = fields /\ age'[t] = true_age
         /\ \A u \in Timer : u # t => tm'[u] = tm[u] /\ age'[u] = age[u]
<1>1. /\ Without(timer_list, t) \in Seq(Timer) /\ Distinct(Without(timer_list, t))
      /\ Members(Without(timer_list, t)) \subseteq Members(timer_list) \ {t}
  BY WithoutList DEF TimersOK
<1>2. timer_list' = <<t>> \o Without(timer_list, t)
  BY DEF timer_insert
<1>3. /\ timer_list' \in Seq(Timer) /\ Distinct(timer_list')
      /\ Members(timer_list') = Members(Without(timer_list, t)) \cup {t}
  BY <1>1, <1>2, ConsList
<1>4. /\ tm' = [tm EXCEPT ![t] = fields] /\ age' = [age EXCEPT ![t] = true_age]
      /\ queue' = Polled(queue, TimerProcess)
  BY DEF timer_insert
<1>5. /\ tm' \in [Timer -> TimerType] /\ age' \in [Timer -> 0..ClockMod]
      /\ tm'[t] = fields /\ age'[t] = true_age
      /\ \A u \in Timer : u # t => tm'[u] = tm[u] /\ age'[u] = age[u]
  BY <1>4 DEF TimersOK
<1>6. Members(timer_list) \subseteq Members(Without(timer_list, t)) \cup {t}
  <2> SUFFICES ASSUME NEW i \in DOMAIN timer_list, timer_list[i] # t
               PROVE  timer_list[i] \in Members(Without(timer_list, t))
    BY DEF Members
  <2> DEFINE keep == {j \in DOMAIN timer_list : timer_list[j] # t}
  <2>1. timer_list \in Seq(Timer) /\ keep \in SUBSET (DOMAIN timer_list) /\ i \in keep
    BY DEF TimersOK
  <2>2. Without(timer_list, t) = Compact(timer_list, keep)
    BY DEF Without
  <2> HIDE DEF keep
  <2>3. \E k \in DOMAIN Compact(timer_list, keep) : Compact(timer_list, keep)[k] = timer_list[i]
    BY <2>1, CompactAll
  <2> QED
    BY <2>2, <2>3 DEF Members
<1>7. Armed' = Armed \cup {t}
  BY <1>1, <1>3, <1>6 DEF Armed, Members
<1>8. TimersOK'
  <2>1. timer_list' \in Seq(Timer) /\ Distinct(timer_list)'
    BY <1>3 DEF Distinct
  <2>2. \A u \in Timer : tm'[u].mode # "none" => tm'[u].interval \in Interval
    BY <1>5 DEF TimersOK
  <2>3. \A u \in Armed' : tm'[u].mode # "none"
    <3>1. Armed \subseteq Timer
      BY LenProperties DEF TimersOK, Armed
    <3> QED
      BY <1>5, <1>7, <3>1 DEF TimersOK
  <2> QED
    BY <1>5, <2>1, <2>2, <2>3 DEF TimersOK
<1>9. QueueOK(queue)'
  BY <1>4, PolledOK DEF QueueOK
<1> QED
  BY <1>5, <1>7, <1>8, <1>9

-----------------------------------------------------------------------------
(* The steps, by what they do to the timers.                               *)

\* The list is left alone or shortened, no field changes and no time passes.
Shrinks ==
  /\ UNCHANGED <<now, tm, age>>
  /\ \/ UNCHANGED timer_list
     \/ \E t : timer_list' = Without(timer_list, t)
     \/ \E keep \in SUBSET (DOMAIN timer_list) : timer_list' = Compact(timer_list, keep)

\* A timer is set, reset, restarted or waited for.
Inserts ==
  \E c \in Program : \/ tiku_timer_set(c) \/ tiku_timer_reset(c) \/ tiku_timer_restart(c)
                     \/ PT_WAIT_UNTIL_TIMEOUT(c)

\* Time passes, or the interrupt comes before the next tick.
Passes == Tick \/ tiku_crit_end \/ \E p \in Signalled : IsrPoll(p)

(* These are all the steps there are.                                      *)
LEMMA StepKinds ==
  ASSUME [Next]_vars
  PROVE  Shrinks \/ Inserts \/ Passes
<1>1. CASE UNCHANGED vars \/ PollArrives \/ EventDropped \/ Yields \/ Idle \/ SleepsOn
  BY <1>1 DEF vars, timers, PollArrives, EventDropped, Yields, Idle, SleepsOn, Shrinks
<1>2. CASE Ends
  <2>1. {i \in DOMAIN timer_list : tm[timer_list[i]].p # who} \in SUBSET (DOMAIN timer_list)
    OBVIOUS
  <2> QED
    BY <1>2, <2>1 DEF Ends, Exits, Shrinks
<1>3. CASE Scan
  <2>1. CASE ScanEnds \/ CallbackReturns
    BY <2>1 DEF ScanEnds, CallbackReturns, timers, Shrinks
  <2>2. ASSUME NEW t \in Timer, ScanPasses(t) \/ EventRefused(t)
        PROVE  Shrinks
    BY <2>2 DEF ScanPasses, EventRefused, timers, Shrinks
  <2>3. ASSUME NEW t \in Timer, EventFires(t) \/ CallbackFires(t)
        PROVE  Shrinks
    BY <2>3 DEF EventFires, CallbackFires, Shrinks
  <2> QED
    BY <1>3, <2>1, <2>2, <2>3 DEF Scan
<1>4. ASSUME NEW p \in Proc, EventArrives(p)
      PROVE  Shrinks
  BY <1>4 DEF EventArrives, Shrinks
<1>5. ASSUME NEW c \in Program, Makes(c)
      PROVE  Shrinks \/ Inserts
  <2>1. CASE tiku_timer_stop(c)
    BY <2>1 DEF tiku_timer_stop, Shrinks
  <2>2. CASE tiku_process_exit(c)
    <3>1. {i \in DOMAIN timer_list : tm[timer_list[i]].p # c[3]} \in SUBSET (DOMAIN timer_list)
      OBVIOUS
    <3> QED
      BY <2>2, <3>1 DEF tiku_process_exit, Exits, Shrinks
  <2>3. CASE tiku_process_start(c) \/ tiku_crit_begin(c) \/ tiku_sched_set_idle_tick_wakes(c)
    BY <2>3 DEF tiku_process_start, tiku_crit_begin, tiku_sched_set_idle_tick_wakes, timers,
                Shrinks
  <2> QED
    BY <1>5, <2>1, <2>2, <2>3 DEF Makes, Inserts
<1>6. Clock \/ Interrupt \/ tiku_crit_end => SleepsOn \/ Passes
  BY DEF Clock, Interrupt, Passes
<1> QED
  BY <1>1, <1>2, <1>3, <1>4, <1>5, <1>6 DEF Next, Step

(* How a call inserts a timer: with a clean start, or exactly one interval   *)
(* after its last.                                                         *)
LEMMA Insertion ==
  ASSUME TypeInv, Inserts
  PROVE  \E t \in Timer, f \in TimerType, a \in 0..(ClockMod - 1) :
           /\ timer_insert(t, f, a) /\ UNCHANGED now
           /\ f.mode # "none" /\ f.interval \in Interval
           /\ \/ f.start = now /\ a = 0
              \/ /\ t \in Aging /\ tm[t].mode # "none"
                 /\ age[t] \in tm[t].interval..(ClockMod - 1)
                 /\ f.start = (tm[t].start + tm[t].interval) % ClockMod
                 /\ a = age[t] - tm[t].interval
<1>0. /\ tm \in [Timer -> TimerType] /\ age \in [Timer -> 0..ClockMod]
      /\ \A t \in Timer : tm[t].mode # "none" => tm[t].interval \in Interval
      /\ now \in 0..(ClockMod - 1) /\ 0 \in 0..(ClockMod - 1)
      /\ current \in Proc \cup {TimerProcess, NULL}
      /\ at \in {"body", "callback"} => current \in Proc \cup {NULL}
  BY TimerAssumption DEF TypeInv, TimersOK, ContextOK, ClockOK
<1>1. ASSUME NEW i \in Interval, NEW m \in {"event", "callback"}, at \in {"body", "callback"}
      PROVE  /\ Fields(i, m) \in TimerType /\ Fields(i, m).mode # "none"
             /\ Fields(i, m).interval \in Interval /\ Fields(i, m).start = now
  BY <1>0, <1>1 DEF Fields, TimerType
<1>2. ASSUME NEW c \in Program, tiku_timer_set(c) \/ PT_WAIT_UNTIL_TIMEOUT(c)
      PROVE  \E t \in Timer, m \in {"event", "callback"}, i \in Interval :
               /\ timer_insert(t, Fields(i, m), 0) /\ UNCHANGED now
               /\ at \in {"body", "callback"}
  BY <1>2, CallTypes DEF tiku_timer_set, PT_WAIT_UNTIL_TIMEOUT, Calls
<1>3. ASSUME NEW c \in Program, tiku_timer_restart(c)
      PROVE  \E t \in Timer, f \in TimerType :
               /\ timer_insert(t, f, 0) /\ UNCHANGED now
               /\ f.mode # "none" /\ f.interval \in Interval /\ f.start = now
  <2> DEFINE f == [tm[c[3]] EXCEPT !.start = now]
  <2>1. c[3] \in Timer /\ tm[c[3]].mode # "none" /\ timer_insert(c[3], f, 0) /\ UNCHANGED now
    BY <1>3, CallTypes DEF tiku_timer_restart, Calls
  <2>2. f \in TimerType /\ f.mode # "none" /\ f.interval \in Interval /\ f.start = now
    BY <1>0, <2>1 DEF TimerType
  <2> QED
    BY <2>1, <2>2
<1>4. ASSUME NEW c \in Program, tiku_timer_reset(c)
      PROVE  \E t \in Timer, f \in TimerType, a \in 0..(ClockMod - 1) :
               /\ timer_insert(t, f, a) /\ UNCHANGED now
               /\ f.mode # "none" /\ f.interval \in Interval
               /\ t \in Aging /\ tm[t].mode # "none"
               /\ age[t] \in tm[t].interval..(ClockMod - 1)
               /\ f.start = (tm[t].start + tm[t].interval) % ClockMod
               /\ a = age[t] - tm[t].interval
  <2> DEFINE t == c[3]
  <2> DEFINE f == [tm[t] EXCEPT !.start = (@ + tm[t].interval) % ClockMod]
  <2>1. /\ c[2] = "reset" /\ t \in Timer /\ tm[t].mode # "none"
        /\ age[t] \in tm[t].interval..(ClockMod - 1)
        /\ timer_insert(t, f, age[t] - tm[t].interval) /\ UNCHANGED now
    BY <1>4, CallTypes DEF tiku_timer_reset, Calls
  <2>2. t \in Aging
    BY <2>1 DEF Aging
  <2>3. tm[t].interval \in Int /\ tm[t].start \in Int /\ tm[t].interval >= 0
    BY <1>0, <2>1, TimerAssumption DEF TimerType
  <2>4. (tm[t].start + tm[t].interval) % ClockMod \in 0..(ClockMod - 1)
    BY <2>3, Clockwise
  <2>5. f \in TimerType /\ f.mode # "none" /\ f.interval \in Interval
        /\ f.start = (tm[t].start + tm[t].interval) % ClockMod
    BY <1>0, <2>1, <2>4 DEF TimerType
  <2>6. age[t] - tm[t].interval \in 0..(ClockMod - 1)
    BY <2>1, <2>3, TimerAssumption
  <2> QED
    BY <2>1, <2>2, <2>5, <2>6
<1>5. ASSUME NEW c \in Program, tiku_timer_set(c) \/ PT_WAIT_UNTIL_TIMEOUT(c)
      PROVE  \E t \in Timer, f \in TimerType :
               /\ timer_insert(t, f, 0) /\ UNCHANGED now
               /\ f.mode # "none" /\ f.interval \in Interval /\ f.start = now
  BY <1>1, <1>2, <1>5
<1>6. PICK c \in Program : \/ tiku_timer_set(c) \/ tiku_timer_reset(c) \/ tiku_timer_restart(c)
                           \/ PT_WAIT_UNTIL_TIMEOUT(c)
  BY DEF Inserts
<1>7. CASE tiku_timer_reset(c)
  BY <1>4, <1>7
<1>8. CASE ~tiku_timer_reset(c)
  <2>1. PICK t \in Timer, f \in TimerType :
               /\ timer_insert(t, f, 0) /\ UNCHANGED now
               /\ f.mode # "none" /\ f.interval \in Interval /\ f.start = now
    BY <1>3, <1>5, <1>6, <1>8
  <2> QED
    BY <1>0, <2>1
<1> QED
  BY <1>7, <1>8

(* Time that passes moves the clock and the ages, and leaves the timers.     *)
LEMMA Passing ==
  ASSUME TypeInv, Passes
  PROVE  \E k \in Nat :
           /\ Wakes(k) /\ UNCHANGED <<timer_list, tm, running, current, blocked, who, pos, n,
                                      tick_wakes, owed>>
           /\ k = nap \/ k = 0 \/ (k = nap + 1 /\ \A t \in Armed : age[t] + k < ClockMod)
<1>1. nap \in Nat
  BY TimerAssumption DEF TypeInv, ClockOK
<1>2. CASE Tick
  <2>1. Wakes(Elapsed) /\ UNCHANGED <<timer_list, tm, running, current, blocked, who, pos, n,
                                      tick_wakes, owed>>
    BY <1>2 DEF Tick
  <2>2. CASE \A t \in Armed : age[t] + nap + 1 < ClockMod
    <3>1. Elapsed = nap + 1 /\ nap + 1 \in Nat
      BY <1>1, <2>2 DEF Elapsed
    <3>2. \A t \in Armed : age[t] \in Int
      <4>1. Armed \subseteq Timer
        BY LenProperties DEF TypeInv, TimersOK, Armed
      <4> QED
        BY <4>1, TimerAssumption DEF TypeInv, TimersOK
    <3>3. \A t \in Armed : age[t] + (nap + 1) < ClockMod
      BY <1>1, <2>2, <3>2
    <3> QED
      BY <2>1, <3>1, <3>3
  <2>3. CASE ~(\A t \in Armed : age[t] + nap + 1 < ClockMod)
    BY <2>1, <2>3 DEF Elapsed
  <2> QED
    BY <2>2, <2>3
<1>3. CASE tiku_crit_end
  BY <1>1, <1>3 DEF tiku_crit_end
<1>4. ASSUME NEW p \in Signalled, IsrPoll(p)
      PROVE  Wakes(nap) /\ UNCHANGED <<timer_list, tm, running, current, blocked, who, pos, n,
                                       tick_wakes, owed>>
  BY <1>4 DEF IsrPoll
<1> QED
  BY <1>1, <1>2, <1>3, <1>4 DEF Passes

(* No step puts a timer on the list twice, or one that was never set.       *)
LEMMA TimersStep ==
  ASSUME TypeInv, [Next]_vars
  PROVE  TimersOK'
<1>0. TimersOK /\ QueueOK(queue)
  BY DEF TypeInv
<1>1. CASE Shrinks
  BY <1>0, <1>1, ListShrinks DEF Shrinks
<1>2. CASE Inserts
  <2>1. PICK t \in Timer, f \in TimerType, a \in 0..(ClockMod - 1) :
          timer_insert(t, f, a) /\ f.mode # "none" /\ f.interval \in Interval
    BY <1>2, Insertion
  <2>2. a \in 0..ClockMod
    BY TimerAssumption
  <2> QED
    BY <1>0, <2>1, <2>2, InsertTimer
<1>3. CASE Passes
  <2>1. PICK k \in Nat : Wakes(k) /\ UNCHANGED <<timer_list, tm>>
    BY <1>3, Passing
  <2>2. \A t \in Timer : age[t] \in 0..ClockMod
    BY <1>0 DEF TimersOK
  <2>3. ClockMod \in Nat
    BY TimerAssumption
  <2>4. \A t \in Timer : IF t \notin Aging THEN 0 \in 0..ClockMod
                         ELSE IF age[t] + k > ClockMod THEN ClockMod \in 0..ClockMod
                         ELSE age[t] + k \in 0..ClockMod
    BY <2>2, <2>3
  <2>5. age' \in [Timer -> 0..ClockMod]
    BY <2>1, <2>4 DEF Wakes, Older
  <2> QED
    BY <1>0, <2>1, <2>5 DEF TimersOK, Distinct, Armed
<1> QED
  BY <1>1, <1>2, <1>3, StepKinds

(* The expiry that is next is a number of ticks below the clock's period,    *)
(* and no armed timer's is nearer.                                         *)
LEMMA NextExpiration ==
  ASSUME TypeInv, timer_list # <<>>
  PROVE  /\ tiku_timer_next_expiration \in 0..(ClockMod - 1)
         /\ \A u \in Armed : tiku_timer_next_expiration <= Distance(u)
         /\ \E u \in Armed : tiku_timer_next_expiration = Distance(u)
<1>1. ASSUME NEW t \in Timer
      PROVE  Distance(t) \in 0..(ClockMod - 1)
  <2>1. tm[t].start \in Int /\ tm[t].interval \in Int /\ now \in Int
    <3>1. tm[t] \in TimerType /\ now \in 0..(ClockMod - 1)
      BY DEF TypeInv, TimersOK, ClockOK
    <3>2. tm[t].start \in 0..(ClockMod - 1) /\ tm[t].interval \in Interval \cup {0}
      BY <3>1 DEF TimerType
    <3> QED
      BY <3>1, <3>2, ClockBounds
  <2>2. tm[t].start + tm[t].interval - now \in Int
    BY <2>1
  <2> QED
    BY <2>2, Clockwise DEF Distance
<1>2. Armed \subseteq Timer /\ Armed # {}
  <2>1. Len(timer_list) \in Nat /\ DOMAIN timer_list = 1..Len(timer_list)
        /\ timer_list \in [1..Len(timer_list) -> Timer]
    BY LenProperties DEF TypeInv, TimersOK
  <2>2. 1 \in DOMAIN timer_list
    BY <2>1, EmptySeq DEF TypeInv, TimersOK
  <2> QED
    BY <2>1, <2>2 DEF Armed
<1> DEFINE D == {Distance(u) : u \in Armed}
<1>3. D \subseteq Nat /\ D # {}
  BY <1>1, <1>2, TimerAssumption
<1>4. PICK d \in D : \A e \in D : d <= e
  BY <1>3, LeastNat
<1>5. PICK t \in Armed : d = Distance(t)
  OBVIOUS
<1>6. \A u \in Armed : Distance(t) <= Distance(u)
  BY <1>4, <1>5
<1> DEFINE first == CHOOSE v \in Armed : \A u \in Armed : Distance(v) <= Distance(u)
<1>7. first \in Armed /\ \A u \in Armed : Distance(first) <= Distance(u)
  BY <1>6
<1>8. tiku_timer_next_expiration = Distance(first)
  BY DEF tiku_timer_next_expiration
<1> QED
  BY <1>1, <1>2, <1>7, <1>8

-----------------------------------------------------------------------------
(* The other groups.                                                       *)

(* No step queues more than the queue holds.                               *)
LEMMA QueueStep ==
  ASSUME TypeInv, [Next]_vars
  PROVE  QueueOK(queue')
<1>0. QueueOK(queue) /\ TimersOK /\ ContextOK
  BY DEF TypeInv
<1>1. ASSUME NEW q, QueueOK(q), q # <<>>
      PROVE  QueueOK(Tail(q))
  <2>1. q \in Seq(Entry) /\ Len(q) <= QueueSize
    BY <1>1 DEF QueueOK
  <2>2. Tail(q) \in Seq(Entry) /\ Len(Tail(q)) = Len(q) - 1 /\ Len(q) \in Nat
    BY <1>1, <2>1, HeadTailProperties, LenProperties
  <2> QED
    BY <2>1, <2>2, TimerAssumption DEF QueueOK
<1>2. CASE \/ UNCHANGED queue
           \/ queue # <<>> /\ queue' = Tail(queue)
           \/ \E p \in Proc \cup {TimerProcess} : queue' = Polled(queue, p)
  BY <1>0, <1>1, <1>2, PolledOK
<1>3. ASSUME NEW t \in Timer, EventFires(t), ~ UNCHANGED queue
      PROVE  QueueOK(queue')
  <2>1. /\ Notifies(t) /\ Len(queue) < QueueSize /\ queue' = Append(queue, Event(tm[t].p))
    BY <1>3 DEF EventFires
  <2>2. tm[t].p \in Proc \cup {NULL}
    BY <1>0 DEF TimersOK, TimerType
  <2>3. Event(tm[t].p) \in Entry
    BY <2>2 DEF Event, Entry
  <2>4. queue' = Posted(queue, Event(tm[t].p))
    BY <2>1 DEF Posted
  <2> QED
    BY <1>0, <2>3, <2>4, PostedOK
<1>4. ASSUME NEW p, Exits(p)
      PROVE  QueueOK(queue')
  <2> DEFINE keep == {i \in DOMAIN queue : queue[i].p # p}
  <2>1. queue \in Seq(Entry) /\ keep \in SUBSET (DOMAIN queue) /\ Len(queue) <= QueueSize
        /\ Len(queue) \in Nat
    BY <1>0, LenProperties DEF QueueOK
  <2>2. queue' = Posted(Compact(queue, keep), Event(NULL))
    BY <1>4 DEF Exits
  <2> HIDE DEF keep
  <2>3. Compact(queue, keep) \in Seq(Entry) /\ Len(Compact(queue, keep)) <= Len(queue)
    BY <2>1, CompactKeeps
  <2>4. QueueOK(Compact(queue, keep))
    <3>1. Len(Compact(queue, keep)) \in Nat
      BY <2>3, LenProperties
    <3> QED
      BY <2>1, <2>3, <3>1, TimerAssumption DEF QueueOK
  <2>5. Event(NULL) \in Entry
    BY DEF Event, Entry
  <2> QED
    BY <2>2, <2>4, <2>5, PostedOK
<1>5. ASSUME NEW c \in Program, tiku_process_start(c)
      PROVE  QueueOK(queue')
  <2> DEFINE stale == [i \in DOMAIN queue |-> [queue[i] EXCEPT !.stale = @ \/ queue[i].p = c[3]]]
  <2>1. c[3] \in Proc /\ queue' = Posted(stale, Event(c[3]))
    BY <1>5, CallTypes DEF tiku_process_start, Calls
  <2>2. queue \in Seq(Entry) /\ Len(queue) <= QueueSize /\ Len(queue) \in Nat
        /\ DOMAIN queue = 1..Len(queue) /\ \A i \in 1..Len(queue) : queue[i] \in Entry
    BY <1>0, LenProperties, ElementOfSeq DEF QueueOK
  <2>3. \A i \in 1..Len(queue) : [queue[i] EXCEPT !.stale = @ \/ queue[i].p = c[3]] \in Entry
    BY <2>2 DEF Entry
  <2>4. stale \in [1..Len(queue) -> Entry]
    BY <2>2, <2>3
  <2> HIDE DEF stale
  <2>5. stale \in Seq(Entry) /\ Len(stale) = Len(queue)
    BY <2>2, <2>4, SeqDef, LenProperties
  <2>6. Event(c[3]) \in Entry
    BY <2>1 DEF Event, Entry
  <2> QED
    BY <2>1, <2>2, <2>5, <2>6, PostedOK DEF QueueOK
<1>6. ASSUME NEW q, QueueOK(q)
      PROVE  QueueOK(tiku_timer_request_poll(q)) /\ QueueOK(Credited(queue))
  <2>1. \A r : QueueOK(r) => QueueOK(tiku_timer_request_poll(r))
    BY PolledOK
  <2> QED
    BY <1>0, <1>6, <2>1 DEF Credited
<1>7. CASE Tick
  BY <1>0, <1>6, <1>7 DEF Tick
<1>8. CASE tiku_crit_end
  BY <1>0, <1>6, <1>8 DEF tiku_crit_end
<1>9. ASSUME NEW p \in Signalled, IsrPoll(p)
      PROVE  QueueOK(queue')
  <2>1. p \in Proc \cup {TimerProcess}
    BY TimerAssumption
  <2> QED
    BY <1>0, <1>6, <1>9, <2>1, PolledOK DEF IsrPoll
<1>10. ASSUME NEW c \in Program, Makes(c)
       PROVE  QueueOK(queue')
  <2>1. CASE \/ tiku_timer_set(c) \/ tiku_timer_reset(c) \/ tiku_timer_restart(c)
             \/ tiku_timer_stop(c) \/ PT_WAIT_UNTIL_TIMEOUT(c)
             \/ tiku_crit_begin(c) \/ tiku_sched_set_idle_tick_wakes(c)
    BY <1>2, <2>1 DEF tiku_timer_set, tiku_timer_reset, tiku_timer_restart, tiku_timer_stop,
         PT_WAIT_UNTIL_TIMEOUT, tiku_crit_begin, tiku_sched_set_idle_tick_wakes, timer_insert
  <2>2. CASE tiku_process_exit(c)
    BY <1>4, <2>2 DEF tiku_process_exit
  <2> QED
    BY <1>5, <1>10, <2>1, <2>2 DEF Makes
<1>11. CASE UNCHANGED vars \/ PollArrives \/ EventDropped \/ Yields \/ Idle \/ SleepsOn
            \/ ScanEnds \/ CallbackReturns
  BY <1>2, <1>11 DEF vars, process, PollArrives, EventDropped, Yields, Idle, SleepsOn,
       ScanEnds, CallbackReturns
<1>12. CASE Ends
  BY <1>4, <1>12 DEF Ends
<1>13. ASSUME NEW p \in Proc, EventArrives(p)
       PROVE  QueueOK(queue')
  BY <1>2, <1>13 DEF EventArrives
<1>14. ASSUME NEW t \in Timer, ScanPasses(t) \/ EventRefused(t) \/ CallbackFires(t)
       PROVE  QueueOK(queue')
  BY <1>2, <1>14 DEF ScanPasses, EventRefused, CallbackFires, process
<1> QED
  BY <1>2, <1>3, <1>7, <1>8, <1>9, <1>10, <1>11, <1>12, <1>13, <1>14
     DEF Next, Step, Scan, Clock, Interrupt

(* Bodies run as processes, callbacks as timers, and both within their bound. *)
LEMMA ContextStep ==
  ASSUME TypeInv, [Next]_vars
  PROVE  ContextOK'
<1>0. /\ ContextOK /\ QueueOK(queue) /\ 0 \in 0..MaxOps /\ MaxOps \in 0..MaxOps
      /\ \A k \in 0..MaxOps : k > 0 => k - 1 \in 0..MaxOps
      /\ Proc \cap Timer = {} /\ TimerProcess \notin Proc \cup {NULL}
  BY TimerAssumption DEF TypeInv
<1>1. CASE UNCHANGED vars \/ EventDropped \/ SleepsOn
  BY <1>0, <1>1 DEF vars, process, place, EventDropped, SleepsOn, ContextOK
<1>2. CASE PollArrives
  BY <1>0, <1>2 DEF PollArrives, ContextOK
<1>3. CASE Yields
  BY <1>0, <1>3 DEF Yields, ContextOK
<1>4. ASSUME NEW p \in Proc, Exits(p)
      PROVE  /\ running' \in [Proc -> BOOLEAN] /\ blocked' \in [Proc -> Timer \cup {NULL}]
  BY <1>0, <1>4 DEF Exits, ContextOK
<1>5. CASE Ends
  <2>1. who \in Proc
    BY <1>0, <1>5 DEF Ends, ContextOK
  <2> QED
    BY <1>0, <1>4, <1>5, <2>1 DEF Ends, ContextOK
<1>6. CASE Idle
  BY <1>0, <1>6 DEF Idle, process, ContextOK
<1>7. CASE ScanEnds
  BY <1>0, <1>7 DEF ScanEnds, ContextOK
<1>8. CASE CallbackReturns
  BY <1>0, <1>8 DEF CallbackReturns, ContextOK
<1>9. ASSUME NEW t \in Timer, ScanPasses(t) \/ EventRefused(t) \/ EventFires(t)
      PROVE  ContextOK'
  BY <1>0, <1>9 DEF ScanPasses, EventRefused, EventFires, Looks, process, ContextOK
<1>10. ASSUME NEW t \in Timer, CallbackFires(t)
       PROVE  ContextOK'
  <2>1. tm[t].p \in Proc \cup {NULL}
    BY DEF TypeInv, TimersOK, TimerType
  <2> QED
    BY <1>0, <1>10, <2>1 DEF CallbackFires, ContextOK
<1>11. ASSUME NEW p \in Proc, EventArrives(p)
       PROVE  ContextOK'
  <2>1. \/ UNCHANGED <<blocked, at, who, n, current, running>>
        \/ /\ blocked' = [blocked EXCEPT ![p] = NULL]
           /\ at' = "body" /\ who' = p /\ n' = MaxOps /\ current' = p /\ UNCHANGED running
    BY <1>11 DEF EventArrives
  <2> QED
    BY <1>0, <2>1 DEF ContextOK
<1>12. ASSUME NEW c \in Program, Makes(c)
       PROVE  ContextOK'
  <2>1. ASSUME Spend, Calls(c, Call), UNCHANGED <<running, blocked>>
        PROVE  ContextOK'
    BY <1>0, <2>1 DEF Spend, Calls, ContextOK
  <2>2. CASE \/ tiku_timer_set(c) \/ tiku_timer_reset(c) \/ tiku_timer_restart(c)
             \/ tiku_timer_stop(c) \/ tiku_crit_begin(c) \/ tiku_sched_set_idle_tick_wakes(c)
    <3>1. Spend /\ Calls(c, Call) /\ UNCHANGED <<running, blocked>>
      BY <2>2 DEF tiku_timer_set, tiku_timer_reset, tiku_timer_restart, tiku_timer_stop,
           tiku_crit_begin, tiku_sched_set_idle_tick_wakes, Calls, Call
    <3> QED
      BY <2>1, <3>1
  <2>3. CASE PT_WAIT_UNTIL_TIMEOUT(c)
    <3>1. c[3] \in Timer /\ c[1] \in Proc /\ who = c[1]
      BY <2>3, CallTypes DEF PT_WAIT_UNTIL_TIMEOUT, Calls
    <3> QED
      BY <1>0, <2>3, <3>1 DEF PT_WAIT_UNTIL_TIMEOUT, ContextOK
  <2>4. CASE tiku_process_exit(c)
    <3>1. c[3] \in Proc /\ Spend /\ Calls(c, Call) /\ Exits(c[3])
      BY <2>4, CallTypes DEF tiku_process_exit, Calls, Call
    <3> QED
      BY <1>0, <1>4, <3>1 DEF Spend, Calls, ContextOK
  <2>5. CASE tiku_process_start(c)
    <3>1. c[3] \in Proc /\ at \in {"body", "callback"} /\ n > 0
      BY <2>5, CallTypes DEF tiku_process_start, Calls
    <3>2. /\ running' = [running EXCEPT ![c[3]] = TRUE] /\ current' \in {current, NULL}
          /\ n' = n - 1 /\ UNCHANGED <<blocked, at, who>>
      BY <2>5 DEF tiku_process_start
    <3> QED
      BY <1>0, <3>1, <3>2 DEF ContextOK
  <2> QED
    BY <1>12, <2>2, <2>3, <2>4, <2>5 DEF Makes
<1>13. CASE Passes
  <2>1. PICK k \in Nat : Wakes(k) /\ UNCHANGED <<running, current, blocked, who, n>>
    BY <1>13, Passing
  <2> QED
    BY <1>0, <2>1 DEF Wakes, ContextOK
<1> QED
  BY <1>1, <1>2, <1>3, <1>5, <1>6, <1>7, <1>8, <1>9, <1>10, <1>11, <1>12, <1>13
     DEF Next, Step, Scan, Clock, Interrupt, Passes

(* The clock and the ticks slept through stay within the clock's width.      *)
LEMMA ClockStep ==
  ASSUME TypeInv, [Next]_vars
  PROVE  ClockOK'
<1>0. /\ ClockOK /\ 0 \in 0..(ClockMod - 1) /\ 1 \in 0..(ClockMod - 1)
      /\ now \in Int
  BY ClockBounds DEF TypeInv, ClockOK
<1>1. CASE Passes
  <2>1. PICK k \in Nat : Wakes(k) /\ UNCHANGED tick_wakes
    BY <1>1, Passing
  <2>2. (now + k) % ClockMod \in 0..(ClockMod - 1)
    BY <1>0, <2>1, Clockwise
  <2>3. crit_held' \in BOOLEAN
    BY <1>0, <1>1 DEF Passes, Tick, tiku_crit_end, IsrPoll, ClockOK
  <2> QED
    BY <1>0, <2>1, <2>2, <2>3 DEF Wakes, ClockOK
<1>2. CASE Idle
  <2>1. ahead' = 1 \/ (timer_list # <<>> /\ ahead' = tiku_timer_next_expiration)
    BY <1>2 DEF Idle
  <2>2. ahead' \in 0..(ClockMod - 1)
    BY <1>0, <2>1, NextExpiration
  <2> QED
    BY <1>0, <1>2, <2>2 DEF Idle, ClockOK
<1>3. CASE SleepsOn
  <2>1. nap' = nap + 1 /\ nap + 1 < ahead /\ UNCHANGED <<now, crit_held, tick_wakes, ahead>>
    BY <1>3 DEF SleepsOn
  <2>2. nap + 1 \in 0..(ClockMod - 1)
    BY <1>0, <2>1, ClockBounds DEF ClockOK
  <2> QED
    BY <1>0, <2>1, <2>2 DEF ClockOK
<1>4. ASSUME NEW c \in Program, Makes(c)
      PROVE  ClockOK'
  <2>1. /\ UNCHANGED <<now, ahead, nap>>
        /\ crit_held' \in {crit_held, TRUE} /\ tick_wakes' \in {tick_wakes, TRUE, FALSE}
    BY <1>4 DEF Makes, tiku_timer_set, tiku_timer_reset, tiku_timer_restart, tiku_timer_stop,
         PT_WAIT_UNTIL_TIMEOUT, tiku_process_exit, tiku_process_start, tiku_crit_begin,
         tiku_sched_set_idle_tick_wakes, sleep
  <2> QED
    BY <1>0, <2>1 DEF ClockOK
<1>5. CASE UNCHANGED <<now, crit_held, sleep>>
  BY <1>0, <1>5 DEF sleep, ClockOK
<1>6. CASE UNCHANGED vars \/ PollArrives \/ EventDropped \/ Yields \/ Ends \/ Scan
           \/ \E p \in Proc : EventArrives(p)
  <2>1. UNCHANGED <<now, crit_held, sleep>>
    BY <1>6 DEF vars, PollArrives, EventDropped, Yields, Ends, Scan, ScanEnds, CallbackReturns,
         ScanPasses, EventRefused, EventFires, CallbackFires, EventArrives
  <2> QED
    BY <1>5, <2>1
<1> QED
  BY <1>1, <1>2, <1>3, <1>4, <1>6 DEF Next, Step, Clock, Interrupt, Passes

(* The scan looks at positions of the list, or just behind it.              *)
LEMMA ScanStep ==
  ASSUME TypeInv, [Next]_vars
  PROVE  ScanOK'
<1>0. /\ ScanOK /\ TimersOK /\ Cardinality(Timer) \in Nat
      /\ Len(timer_list) <= Cardinality(Timer) /\ Len(timer_list) \in Nat
  BY DistinctLen, LenProperties DEF TypeInv, TimersOK
<1>1. ASSUME NEW list \in Seq(Timer)
      PROVE  DueIn(list) \subseteq Timer
  BY LenProperties, <1>1 DEF DueIn
<1>2. ASSUME NEW list \in Seq(Timer), Rescan(list)
      PROVE  ScanOK'
  BY <1>0, <1>1, <1>2 DEF Rescan, ScanOK
<1>3. ASSUME UNCHANGED owed, UNCHANGED pos \/ pos' = 1
      PROVE  ScanOK'
  BY <1>0, <1>3 DEF ScanOK
<1>4. CASE PollArrives
  <2>1. (UNCHANGED <<pos, owed>>) \/ (pos' = 1 /\ owed' = DueIn(timer_list))
    BY <1>4 DEF PollArrives
  <2> QED
    BY <1>0, <1>2, <1>3, <2>1 DEF Rescan, TimersOK
<1>5. ASSUME NEW t \in Timer, ScanPasses(t) \/ EventRefused(t)
      PROVE  ScanOK'
  <2>1. pos <= Len(timer_list) /\ pos' = pos + 1 /\ owed' = owed \ {t}
    BY <1>5 DEF ScanPasses, EventRefused, Looks
  <2> QED
    BY <1>0, <2>1 DEF ScanOK
<1>6. ASSUME NEW t \in Timer, EventFires(t)
      PROVE  ScanOK'
  <2>1. Without(timer_list, t) \in Seq(Timer)
    BY <1>0, WithoutList DEF TimersOK
  <2> QED
    BY <1>2, <1>6, <2>1 DEF EventFires
<1>7. ASSUME NEW t \in Timer, CallbackFires(t)
      PROVE  ScanOK'
  BY <1>3, <1>7 DEF CallbackFires
<1>8. CASE ScanEnds
  BY <1>3, <1>8 DEF ScanEnds
<1>9. CASE CallbackReturns
  BY <1>0, <1>2, <1>9 DEF CallbackReturns, TimersOK
<1>10. ASSUME NEW c \in Program, Makes(c)
       PROVE  ScanOK'
  <2>1. UNCHANGED <<pos, owed>>
    BY <1>10 DEF Makes, tiku_timer_set, tiku_timer_reset, tiku_timer_restart, tiku_timer_stop,
         PT_WAIT_UNTIL_TIMEOUT, tiku_process_exit, tiku_process_start, tiku_crit_begin,
         tiku_sched_set_idle_tick_wakes, Spend
  <2> QED
    BY <1>3, <2>1
<1>11. CASE UNCHANGED vars \/ EventDropped \/ Yields \/ Ends \/ Idle \/ SleepsOn \/ Passes
            \/ \E p \in Proc : EventArrives(p)
  <2>1. UNCHANGED <<pos, owed>>
    BY <1>11 DEF vars, place, EventDropped, Yields, Ends, Idle, SleepsOn, Passes, Tick,
         tiku_crit_end, IsrPoll, EventArrives
  <2> QED
    BY <1>3, <2>1
<1> QED
  BY <1>4, <1>5, <1>6, <1>7, <1>8, <1>9, <1>10, <1>11
     DEF Next, Step, Scan, Clock, Interrupt, Passes

(* Every step preserves every group.                                       *)
LEMMA TypeStep ==
  ASSUME TypeInv, [Next]_vars
  PROVE  TypeInv'
<1>1. TimersOK' /\ QueueOK(queue')
  BY TimersStep, QueueStep
<1>2. ContextOK' /\ ClockOK' /\ ScanOK'
  BY ContextStep, ClockStep, ScanStep
<1> QED
  BY <1>1, <1>2 DEF TypeInv, QueueOK

(* The state of the timers and the scheduler keeps its types: the list is    *)
(* free of repetition, and neither queue nor list outgrows its bound.       *)
THEOREM TypeCorrect == Spec => []TypeOK
<1>1. Init => TypeInv
  BY TypeInit
<1>2. TypeInv /\ [Next]_vars => TypeInv'
  BY TypeStep
<1>3. TypeInv => TypeOK
  BY TypeParts
<1> QED
  BY <1>1, <1>2, <1>3, PTL DEF Spec

-----------------------------------------------------------------------------
(* Time: the clock's arithmetic against the true age of timers.            *)

\* The modular distance from a timer's start is its age, up to a clock period.
AgeExact ==
  \A t \in Aging :
    tm[t].mode # "none" /\ age[t] < ClockMod => (now - tm[t].start) % ClockMod = age[t]

ArmedYoung == \A t \in Armed : age[t] < ClockMod

\* While the CPU sleeps the next tick is set no later than the next expiry.
SleepOK ==
  /\ at # "asleep" => nap = 0
  /\ at = "asleep" =>
       /\ queue = <<>> /\ nap < ahead
       /\ \A t \in Armed : tick_wakes /\ age[t] + ahead <= tm[t].interval

\* What the scan still owes is in the part of the list ahead of it.
OwedAhead ==
  /\ at \in {"loop", "body", "asleep"} => owed = {}
  /\ at = "scan" => owed \subseteq {timer_list[i] : i \in {j \in DOMAIN timer_list : pos <= j}}

TimeInv == AgeExact /\ ArmedYoung /\ SleepOK /\ OwedAhead

(* The values of a timer are numbers.                                      *)
LEMMA TimerNumbers ==
  ASSUME TypeInv, NEW t \in Timer
  PROVE  /\ tm[t].start \in Int /\ 0 <= tm[t].start /\ tm[t].start < ClockMod
         /\ tm[t].interval \in Int /\ 0 <= tm[t].interval /\ tm[t].interval < ClockMod
         /\ now \in Int /\ 0 <= now /\ now < ClockMod
         /\ age[t] \in Int /\ 0 <= age[t] /\ age[t] <= ClockMod
         /\ nap \in Int /\ 0 <= nap /\ nap < ClockMod /\ ahead \in Int
<1>1. /\ tm[t] \in TimerType /\ now \in 0..(ClockMod - 1) /\ age[t] \in 0..ClockMod
      /\ nap \in 0..(ClockMod - 1) /\ ahead \in 0..(ClockMod - 1)
  BY DEF TypeInv, TimersOK, ClockOK
<1>2. tm[t].start \in 0..(ClockMod - 1) /\ tm[t].interval \in Interval \cup {0}
  BY <1>1 DEF TimerType
<1> QED
  BY <1>1, <1>2, ClockBounds

(* Armed timers have been set, to an interval of at least a tick.           *)
LEMMA ArmedTimers ==
  ASSUME TypeInv
  PROVE  /\ Armed \subseteq Timer /\ Armed \subseteq Aging /\ Aging \subseteq Timer
         /\ \A t \in Armed : tm[t].mode # "none" /\ 1 <= tm[t].interval
<1>1. Armed \subseteq Timer
  BY LenProperties DEF TypeInv, TimersOK, Armed
<1>2. \A t \in Armed : tm[t].mode # "none" /\ tm[t].interval \in Interval
  BY <1>1 DEF TypeInv, TimersOK
<1>3. Aging \subseteq Timer
  BY <1>1, CallTypes DEF Aging
<1> QED
  BY <1>1, <1>2, <1>3, ClockBounds DEF Aging

(* timer_is_due() tells the truth about armed timers.                      *)
LEMMA DueExact ==
  ASSUME TypeInv, AgeExact, ArmedYoung, NEW t \in Armed
  PROVE  timer_is_due(t) <=> age[t] >= tm[t].interval
<1>1. t \in Timer /\ t \in Aging /\ tm[t].mode # "none" /\ age[t] < ClockMod
  BY ArmedTimers DEF ArmedYoung
<1>2. (now - tm[t].start) % ClockMod = age[t]
  BY <1>1 DEF AgeExact
<1> QED
  BY <1>2 DEF timer_is_due

(* A number one clock period off its remainder, or none.                    *)
LEMMA Congruent ==
  ASSUME NEW d \in Int, NEW g \in Int, 0 <= g, g < ClockMod,
         d = g \/ d = g - ClockMod \/ d = g + ClockMod
  PROVE  d % ClockMod = g
<1>1. CASE d = g
  BY <1>1, Clockwise
<1>2. CASE d = g - ClockMod
  <2>1. -ClockMod <= d /\ d < 0 /\ d + ClockMod = g
    BY <1>2, ClockBounds
  <2> QED
    BY <2>1, Clockwise
<1>3. CASE d = g + ClockMod
  <2>1. ClockMod <= d /\ d < 2 * ClockMod /\ d - ClockMod = g
    BY <1>3, ClockBounds
  <2> QED
    BY <2>1, Clockwise
<1> QED
  BY <1>1, <1>2, <1>3

(* A sum of two times wraps once at most.                                  *)
LEMMA OneWrap ==
  ASSUME NEW s \in Int, 0 <= s, s < 2 * ClockMod
  PROVE  s % ClockMod = s \/ s % ClockMod = s - ClockMod
<1>1. CASE s < ClockMod
  BY <1>1, Clockwise
<1>2. CASE ~(s < ClockMod)
  <2>1. ClockMod <= s
    BY <1>2, ClockBounds
  <2> QED
    BY <2>1, Clockwise
<1> QED
  BY <1>1, <1>2

(* A start lies as many ticks back as the timer is old, unless the clock       *)
(* wrapped since.                                                          *)
LEMMA StartApart ==
  ASSUME TypeInv, AgeExact, NEW t \in Aging, tm[t].mode # "none", age[t] < ClockMod
  PROVE  now - tm[t].start = age[t] \/ now - tm[t].start = age[t] - ClockMod
<1>1. t \in Timer
  BY ArmedTimers
<1> DEFINE d == now - tm[t].start
<1>2. d \in Int /\ -ClockMod <= d /\ d < ClockMod
  BY <1>1, TimerNumbers, ClockBounds
<1>3. (0 <= d /\ d < ClockMod => d % ClockMod = d)
      /\ (-ClockMod <= d /\ d < 0 => d % ClockMod = d + ClockMod)
  BY <1>2, Clockwise
<1>4. d % ClockMod = age[t]
  BY DEF AgeExact
<1>5. age[t] \in Int
  BY <1>1, TimerNumbers
<1> QED
  BY <1>2, <1>3, <1>4, <1>5, ClockBounds

(* The distance to an expiry that is not due is what is left of the interval. *)
LEMMA DistanceExact ==
  ASSUME TypeInv, AgeExact, NEW t \in Armed, age[t] < tm[t].interval
  PROVE  Distance(t) = tm[t].interval - age[t]
<1>1. t \in Timer /\ t \in Aging /\ tm[t].mode # "none" /\ 1 <= tm[t].interval
  BY ArmedTimers
<1>2. /\ tm[t].start \in Int /\ tm[t].interval \in Int /\ tm[t].interval < ClockMod
      /\ now \in Int /\ age[t] \in Int /\ 0 <= age[t] /\ age[t] < ClockMod
  BY <1>1, TimerNumbers, ClockBounds
<1>3. now - tm[t].start = age[t] \/ now - tm[t].start = age[t] - ClockMod
  BY <1>1, <1>2, StartApart
<1> DEFINE e == tm[t].start + tm[t].interval - now
<1> DEFINE g == tm[t].interval - age[t]
<1>4. e \in Int /\ g \in Int /\ 0 <= g /\ g < ClockMod /\ (e = g \/ e = g + ClockMod)
  BY <1>2, <1>3, ClockBounds
<1>5. e % ClockMod = g
  BY <1>4, Congruent
<1> QED
  BY <1>5 DEF Distance

(* Ages stay exact, and armed timers younger than a clock period, whatever    *)
(* inserts a timer and however much time is credited at once.               *)
LEMMA AgeStep ==
  ASSUME TypeInv, TimeInv, [Next]_vars
  PROVE  AgeExact' /\ ArmedYoung'
<1>0. TimersOK /\ QueueOK(queue) /\ AgeExact /\ ArmedYoung /\ SleepOK
  BY DEF TypeInv, TimeInv
<1>1. CASE Shrinks
  <2>1. Armed' \subseteq Armed /\ UNCHANGED <<now, tm, age>>
    BY <1>0, <1>1, ListShrinks DEF Shrinks
  <2>2. Aging' \subseteq Aging
    BY <2>1 DEF Aging
  <2> QED
    BY <1>0, <2>1, <2>2 DEF AgeExact, ArmedYoung
<1>2. CASE Inserts
  <2>1. PICK t \in Timer, f \in TimerType, a \in 0..(ClockMod - 1) :
           /\ timer_insert(t, f, a) /\ UNCHANGED now
           /\ f.mode # "none" /\ f.interval \in Interval
           /\ \/ f.start = now /\ a = 0
              \/ /\ t \in Aging /\ tm[t].mode # "none"
                 /\ age[t] \in tm[t].interval..(ClockMod - 1)
                 /\ f.start = (tm[t].start + tm[t].interval) % ClockMod
                 /\ a = age[t] - tm[t].interval
    BY <1>2, Insertion
  <2>2. a \in 0..ClockMod /\ a \in Int /\ 0 <= a /\ a < ClockMod
    BY ClockBounds
  <2>3. /\ Armed' = Armed \cup {t} /\ tm'[t] = f /\ age'[t] = a
        /\ \A u \in Timer : u # t => tm'[u] = tm[u] /\ age'[u] = age[u]
    BY <1>0, <2>1, <2>2, InsertTimer
  <2>4. Aging' \subseteq Aging \cup {t} /\ Armed \subseteq Timer /\ Aging \subseteq Timer
    BY <2>3, ArmedTimers DEF Aging
  <2>5. (now - f.start) % ClockMod = a
    <3>0. now \in Int /\ 0 <= now /\ now < ClockMod
      BY <2>1, TimerNumbers
    <3>1. CASE f.start = now /\ a = 0
      BY <2>2, <3>0, <3>1, Congruent
    <3>2. CASE ~(f.start = now /\ a = 0)
      <4>1. /\ t \in Aging /\ tm[t].mode # "none"
            /\ age[t] \in tm[t].interval..(ClockMod - 1)
            /\ f.start = (tm[t].start + tm[t].interval) % ClockMod
            /\ a = age[t] - tm[t].interval
        BY <2>1, <3>2
      <4>2. /\ tm[t].start \in Int /\ 0 <= tm[t].start /\ tm[t].start < ClockMod
            /\ tm[t].interval \in Int /\ 0 <= tm[t].interval /\ tm[t].interval < ClockMod
            /\ age[t] \in Int /\ age[t] < ClockMod
        BY <4>1, TimerNumbers, ClockBounds
      <4>3. now - tm[t].start = age[t] \/ now - tm[t].start = age[t] - ClockMod
        BY <1>0, <4>1, <4>2, StartApart
      <4> DEFINE s == tm[t].start + tm[t].interval
      <4>4. s \in Int /\ 0 <= s /\ s < 2 * ClockMod
        BY <4>2, ClockBounds
      <4>5. f.start = s \/ f.start = s - ClockMod
        <5>1. f.start = s % ClockMod
          BY <4>1
        <5> QED
          BY <4>4, <5>1, OneWrap
      <4>6. /\ now - f.start \in Int
            /\ \/ now - f.start = a \/ now - f.start = a - ClockMod
               \/ now - f.start = a + ClockMod
        BY <2>2, <3>0, <4>1, <4>2, <4>3, <4>5, ClockBounds
      <4> QED
        BY <2>2, <4>6, Congruent
    <3> QED
      BY <3>1, <3>2
  <2>6. AgeExact'
    BY <1>0, <2>1, <2>3, <2>4, <2>5 DEF AgeExact
  <2>7. ArmedYoung'
    BY <1>0, <2>2, <2>3, <2>4 DEF ArmedYoung
  <2> QED
    BY <2>6, <2>7
<1>3. CASE Passes
  <2>1. PICK k \in Nat :
           /\ Wakes(k) /\ UNCHANGED <<timer_list, tm>>
           /\ k = nap \/ k = 0 \/ (k = nap + 1 /\ \A t \in Armed : age[t] + k < ClockMod)
    BY <1>3, Passing
  <2>2. Armed' = Armed /\ Aging' = Aging
    BY <2>1 DEF Armed, Aging
  <2>3. \A t \in Aging : age'[t] = IF age[t] + k > ClockMod THEN ClockMod ELSE age[t] + k
    BY <2>1, ArmedTimers DEF Wakes, Older
  <2>4. ASSUME NEW t \in Armed
        PROVE  age[t] + k < ClockMod
    <3>1. t \in Timer /\ age[t] < ClockMod
      BY <1>0, ArmedTimers DEF ArmedYoung
    <3>2. /\ age[t] \in Int /\ tm[t].interval \in Int /\ tm[t].interval < ClockMod
          /\ nap \in Int /\ ahead \in Int
      BY <3>1, TimerNumbers
    <3>3. CASE k = nap
      <4>1. CASE at = "asleep"
        <5>1. nap < ahead /\ age[t] + ahead <= tm[t].interval
          BY <1>0, <4>1 DEF SleepOK
        <5> QED
          BY <3>2, <3>3, <5>1, ClockBounds
      <4>2. CASE at # "asleep"
        <5>1. nap = 0
          BY <1>0, <4>2 DEF SleepOK
        <5> QED
          BY <3>1, <3>2, <3>3, <5>1
      <4> QED
        BY <4>1, <4>2
    <3>4. CASE k = 0
      BY <3>1, <3>2, <3>4
    <3> QED
      BY <2>1, <3>3, <3>4
  <2>5. ArmedYoung'
    <3> SUFFICES ASSUME NEW t \in Armed'
                 PROVE  age'[t] < ClockMod
      BY DEF ArmedYoung
    <3>1. t \in Armed /\ t \in Aging /\ t \in Timer
      BY <2>2, ArmedTimers
    <3>2. age[t] + k < ClockMod /\ age[t] \in Int
      BY <2>4, <3>1, TimerNumbers
    <3> QED
      BY <2>3, <3>1, <3>2, ClockBounds
  <2>6. AgeExact'
    <3> SUFFICES ASSUME NEW t \in Aging', tm'[t].mode # "none", age'[t] < ClockMod
                 PROVE  (now' - tm'[t].start) % ClockMod = age'[t]
      BY DEF AgeExact
    <3>1. t \in Aging /\ t \in Timer /\ tm[t].mode # "none" /\ tm' = tm
      BY <2>1, <2>2, ArmedTimers
    <3>2. /\ tm[t].start \in Int /\ 0 <= tm[t].start /\ tm[t].start < ClockMod
          /\ now \in Int /\ 0 <= now /\ now < ClockMod
          /\ age[t] \in Int /\ 0 <= age[t]
      BY <3>1, TimerNumbers
    <3>3. age'[t] = age[t] + k /\ age[t] + k < ClockMod
      BY <2>1, <2>3, <3>1, <3>2, ClockBounds
    <3>4. now - tm[t].start = age[t] \/ now - tm[t].start = age[t] - ClockMod
      BY <1>0, <2>1, <3>1, <3>2, <3>3, ClockBounds, StartApart
    <3> DEFINE s == now + k
    <3>5. s \in Int /\ 0 <= s /\ s < 2 * ClockMod
      BY <2>1, <3>2, <3>3, ClockBounds
    <3>6. now' = s \/ now' = s - ClockMod
      <4>1. now' = s % ClockMod
        BY <2>1 DEF Wakes
      <4> QED
        BY <3>5, <4>1, OneWrap
    <3>7. /\ now' - tm[t].start \in Int
          /\ \/ now' - tm[t].start = age[t] + k
             \/ now' - tm[t].start = age[t] + k - ClockMod
             \/ now' - tm[t].start = age[t] + k + ClockMod
      <4>1. now' \in Int /\ 0 <= now' /\ now' < ClockMod
        <5>1. now' = s % ClockMod
          BY <2>1 DEF Wakes
        <5>2. s % ClockMod \in 0..(ClockMod - 1)
          BY <3>5, Clockwise
        <5> QED
          BY <5>1, <5>2, ClockBounds
      <4> QED
        BY <2>1, <3>2, <3>3, <3>4, <3>6, <4>1, ClockBounds
    <3>8. age[t] + k \in Int /\ 0 <= age[t] + k
      BY <2>1, <3>2
    <3>9. (now' - tm[t].start) % ClockMod = age[t] + k
      <4> DEFINE d == now' - tm[t].start
      <4> DEFINE g == age[t] + k
      <4>1. /\ d \in Int /\ g \in Int /\ 0 <= g /\ g < ClockMod
            /\ d = g \/ d = g - ClockMod \/ d = g + ClockMod
        BY <2>1, <3>2, <3>3, <3>7, <3>8, ClockBounds
      <4> HIDE DEF d, g
      <4>2. d % ClockMod = g
        BY <4>1, Congruent
      <4> QED
        BY <4>2 DEF d, g
    <3> QED
      BY <3>1, <3>3, <3>9
  <2> QED
    BY <2>5, <2>6
<1> QED
  BY <1>1, <1>2, <1>3, StepKinds

(* The CPU falls asleep only where SleepOK holds, and time asleep keeps it.   *)
LEMMA SleepStep ==
  ASSUME TypeInv, TimeInv, [Next]_vars
  PROVE  SleepOK'
<1>0. SleepOK /\ AgeExact /\ ArmedYoung
  BY DEF TimeInv
<1>1. CASE Passes
  <2>1. PICK k \in Nat : Wakes(k)
    BY <1>1, Passing
  <2>2. at' # "asleep" /\ nap' = 0
    BY <2>1 DEF Wakes
  <2> QED
    BY <2>2 DEF SleepOK
<1>2. CASE SleepsOn
  BY <1>0, <1>2 DEF SleepsOn, process, timers, place, Armed, SleepOK
<1>3. CASE Idle
  <2>1. /\ nap' = 0 /\ at' = "asleep" /\ queue = <<>> /\ DueIn(timer_list) = {}
        /\ UNCHANGED <<timer_list, tm, age, queue, tick_wakes>>
        /\ tick_wakes \/ timer_list = <<>>
        /\ ahead' = 1 \/ (timer_list # <<>> /\ ahead' = tiku_timer_next_expiration)
    BY <1>3 DEF Idle, timers, process
  <2>2. ASSUME NEW t \in Armed
        PROVE  /\ age[t] \in Int /\ tm[t].interval \in Int
               /\ age[t] < tm[t].interval /\ Distance(t) = tm[t].interval - age[t]
    <3>1. t \in Timer /\ ~timer_is_due(t)
      BY <2>1, ArmedTimers DEF Armed, DueIn
    <3>2. age[t] \in Int /\ tm[t].interval \in Int
      BY <3>1, TimerNumbers
    <3>3. ~(age[t] >= tm[t].interval)
      BY <1>0, <3>1, DueExact
    <3>4. age[t] < tm[t].interval
      BY <3>2, <3>3
    <3> QED
      BY <1>0, <3>2, <3>4, DistanceExact
  <2>3. nap' < ahead'
    <3>1. CASE ahead' = 1
      BY <2>1, <3>1
    <3>2. CASE timer_list # <<>> /\ ahead' = tiku_timer_next_expiration
      <4>1. PICK t \in Armed : ahead' = Distance(t)
        BY <3>2, NextExpiration
      <4> QED
        BY <2>1, <2>2, <4>1
    <3> QED
      BY <2>1, <3>1, <3>2
  <2>4. ASSUME NEW t \in Armed
        PROVE  tick_wakes /\ age[t] + ahead' <= tm[t].interval
    <3>0. timer_list # <<>>
      BY EmptySeq DEF Armed
    <3>1. CASE ahead' = 1
      BY <2>1, <2>2, <3>0, <3>1
    <3>2. CASE timer_list # <<>> /\ ahead' = tiku_timer_next_expiration
      <4>1. ahead' <= Distance(t) /\ ahead' \in 0..(ClockMod - 1)
        BY <3>2, NextExpiration
      <4>2. ahead' \in Int
        BY <4>1
      <4> QED
        BY <2>1, <2>2, <3>0, <4>1, <4>2
    <3> QED
      BY <2>1, <3>1, <3>2
  <2> QED
    BY <2>1, <2>3, <2>4 DEF SleepOK, Armed
<1>4. CASE UNCHANGED vars
  BY <1>0, <1>4 DEF vars, process, timers, place, sleep, Armed, SleepOK
<1>5. CASE at # "asleep" /\ at' # "asleep" /\ UNCHANGED nap
  BY <1>0, <1>5 DEF SleepOK
<1>6. CASE PollArrives \/ EventDropped \/ Yields \/ Ends \/ Scan \/ \E p \in Proc : EventArrives(p)
  <2>1. at # "asleep" /\ at' # "asleep" /\ UNCHANGED nap
    BY <1>6 DEF PollArrives, EventDropped, Yields, Ends, Scan, ScanEnds, CallbackReturns,
         ScanPasses, EventRefused, EventFires, CallbackFires, EventArrives, Looks, place, sleep
  <2> QED
    BY <1>5, <2>1
<1>7. ASSUME NEW c \in Program, Makes(c)
      PROVE  SleepOK'
  <2>1. at \in {"body", "callback"} /\ at' # "asleep" /\ UNCHANGED nap
    BY <1>7 DEF Makes, tiku_timer_set, tiku_timer_reset, tiku_timer_restart, tiku_timer_stop,
         PT_WAIT_UNTIL_TIMEOUT, tiku_process_exit, tiku_process_start, tiku_crit_begin,
         tiku_sched_set_idle_tick_wakes, Calls, Spend, sleep
  <2> QED
    BY <1>5, <2>1
<1> QED
  BY <1>1, <1>2, <1>3, <1>4, <1>6, <1>7 DEF Next, Step, Clock, Interrupt, Passes

(* The scan leaves nothing owed behind it.                                 *)
LEMMA OwedStep ==
  ASSUME TypeInv, TimeInv, [Next]_vars
  PROVE  OwedAhead'
<1>0. OwedAhead /\ TimersOK /\ ContextOK /\ ScanOK
  BY DEF TypeInv, TimeInv
<1>1. ASSUME at' = "scan", Rescan(timer_list')
      PROVE  OwedAhead'
  <2>1. timer_list' \in Seq(Timer)
    BY TimersStep DEF TimersOK
  <2>2. DOMAIN timer_list' = 1..Len(timer_list') /\ Len(timer_list') \in Nat
    BY <2>1, LenProperties
  <2>3. \A j \in DOMAIN timer_list' : pos' <= j
    BY <1>1, <2>2 DEF Rescan
  <2>4. owed' \subseteq {timer_list'[i] : i \in DOMAIN timer_list'}
    BY <1>1 DEF Rescan, DueIn
  <2>5. owed' \subseteq {timer_list'[i] : i \in {j \in DOMAIN timer_list' : pos' <= j}}
    BY <2>3, <2>4
  <2> QED
    BY <1>1, <2>5 DEF OwedAhead
<1>2. CASE PollArrives
  <2>1. CASE crit_held
    BY <1>0, <1>2, <2>1 DEF PollArrives, OwedAhead
  <2>2. CASE ~crit_held
    BY <1>1, <1>2, <2>2 DEF PollArrives, timers, Rescan
  <2> QED
    BY <2>1, <2>2
<1>3. ASSUME NEW t \in Timer, ScanPasses(t) \/ EventRefused(t)
      PROVE  OwedAhead'
  <2>1. /\ at = "scan" /\ timer_list[pos] = t /\ pos' = pos + 1 /\ owed' = owed \ {t}
        /\ UNCHANGED <<at, timer_list>>
    BY <1>3 DEF ScanPasses, EventRefused, Looks, timers
  <2>2. pos \in Int /\ DOMAIN timer_list \subseteq Int
    <3>1. DOMAIN timer_list = 1..Len(timer_list)
      BY <1>0, LenProperties DEF TimersOK
    <3>2. Cardinality(Timer) \in Nat
      BY TimerAssumption, FS_CardinalityType
    <3> QED
      BY <1>0, <3>1, <3>2 DEF ScanOK
  <2>3. \A j \in DOMAIN timer_list : pos <= j => j = pos \/ pos + 1 <= j
    BY <2>2
  <2>4. owed \subseteq {timer_list[i] : i \in {j \in DOMAIN timer_list : pos <= j}}
    BY <1>0, <2>1 DEF OwedAhead
  <2>5. owed' \subseteq {timer_list[i] : i \in {j \in DOMAIN timer_list : pos' <= j}}
    BY <2>1, <2>3, <2>4
  <2> QED
    BY <2>1, <2>5 DEF OwedAhead
<1>4. ASSUME NEW t \in Timer, EventFires(t)
      PROVE  OwedAhead'
  BY <1>1, <1>4 DEF EventFires, Looks
<1>5. ASSUME NEW t \in Timer, CallbackFires(t)
      PROVE  OwedAhead'
  BY <1>5 DEF CallbackFires, OwedAhead
<1>6. CASE ScanEnds
  <2>1. at' = "loop" /\ owed' = owed /\ at = "scan" /\ pos > Len(timer_list)
    BY <1>6 DEF ScanEnds
  <2>2. DOMAIN timer_list = 1..Len(timer_list) /\ Len(timer_list) \in Nat
    BY <1>0, LenProperties DEF TimersOK
  <2>3. pos \in Int
    <3>1. Cardinality(Timer) \in Nat
      BY TimerAssumption, FS_CardinalityType
    <3> QED
      BY <1>0, <3>1 DEF ScanOK
  <2>4. \A j \in DOMAIN timer_list : ~(pos <= j)
    BY <2>1, <2>2, <2>3
  <2>5. owed = {}
    BY <1>0, <2>1, <2>4 DEF OwedAhead
  <2> QED
    BY <2>1, <2>5 DEF OwedAhead
<1>7. CASE CallbackReturns
  BY <1>1, <1>7 DEF CallbackReturns, timers
<1>8. CASE /\ at \in {"loop", "body", "asleep"} /\ at' \in {"loop", "body", "asleep"}
           /\ UNCHANGED owed
  BY <1>0, <1>8 DEF OwedAhead
<1>9. CASE EventDropped \/ Yields \/ Ends \/ Idle \/ SleepsOn \/ \E p \in Proc : EventArrives(p)
  <2>1. /\ at \in {"loop", "body", "asleep"} /\ at' \in {"loop", "body", "asleep"}
        /\ UNCHANGED owed
    BY <1>9 DEF EventDropped, Yields, Ends, Idle, SleepsOn, EventArrives, place
  <2> QED
    BY <1>8, <2>1
<1>10. CASE UNCHANGED <<at, timer_list, pos, owed>>
  BY <1>0, <1>10 DEF OwedAhead
<1>11. CASE UNCHANGED vars
  BY <1>10, <1>11 DEF vars, timers, place
<1>12. CASE Passes
  <2>1. PICK k \in Nat : Wakes(k) /\ UNCHANGED <<timer_list, pos, owed>>
    BY <1>12, Passing
  <2> QED
    BY <1>0, <2>1 DEF Wakes, OwedAhead
<1>13. ASSUME NEW c \in Program, Makes(c)
       PROVE  OwedAhead'
  <2>1. CASE PT_WAIT_UNTIL_TIMEOUT(c)
    <3>1. who \in Proc /\ at' = "loop" /\ UNCHANGED owed /\ at \in {"body", "callback"}
      BY <2>1, CallTypes DEF PT_WAIT_UNTIL_TIMEOUT, Calls
    <3>2. at = "body"
      BY <1>0, <3>1, TimerAssumption DEF ContextOK
    <3> QED
      BY <1>8, <3>1, <3>2
  <2>2. CASE ~PT_WAIT_UNTIL_TIMEOUT(c)
    <3>1. at \in {"body", "callback"} /\ UNCHANGED <<at, owed>>
      BY <1>13, <2>2 DEF Makes, tiku_timer_set, tiku_timer_reset, tiku_timer_restart,
           tiku_timer_stop, tiku_process_exit, tiku_process_start, tiku_crit_begin,
           tiku_sched_set_idle_tick_wakes, Calls, Spend
    <3> QED
      BY <1>0, <3>1 DEF OwedAhead
  <2> QED
    BY <2>1, <2>2
<1> QED
  BY <1>2, <1>3, <1>4, <1>5, <1>6, <1>7, <1>9, <1>11, <1>12, <1>13
     DEF Next, Step, Scan, Clock, Interrupt, Passes

-----------------------------------------------------------------------------
(* The theorems.                                                           *)

IInv == TypeInv /\ TimeInv

(* Initially nothing is armed.                                             *)
LEMMA TimeInit ==
  ASSUME Init
  PROVE  TimeInv
<1>1. Armed = {} /\ \A t \in Timer : tm[t].mode = "none"
  BY EmptySeq DEF Init, Armed
<1>2. Aging \subseteq Timer
  BY <1>1, CallTypes DEF Aging
<1> QED
  BY <1>1, <1>2 DEF Init, TimeInv, AgeExact, ArmedYoung, SleepOK, OwedAhead

(* The invariant all of the theorems below rest on.                        *)
THEOREM Inductive == Spec => []IInv
<1>1. Init => IInv
  BY TypeInit, TimeInit DEF IInv
<1>2. IInv /\ [Next]_vars => IInv'
  BY TypeStep, AgeStep, SleepStep, OwedStep DEF IInv, TimeInv
<1> QED
  BY <1>1, <1>2, PTL DEF Spec

(* No armed timer comes due while the CPU sleeps, stretched tick or not.     *)
THEOREM SleepsSoundly == Spec => []SleepSound
<1>1. IInv => SleepSound
  <2> SUFFICES ASSUME IInv, at = "asleep"
               PROVE  /\ queue = <<>>
                      /\ \A t \in Armed : tick_wakes /\ age[t] + nap < tm[t].interval
    BY DEF SleepSound
  <2>1. TypeInv /\ queue = <<>> /\ nap < ahead
        /\ \A t \in Armed : tick_wakes /\ age[t] + ahead <= tm[t].interval
    BY DEF IInv, TimeInv, SleepOK
  <2>2. ASSUME NEW t \in Armed
        PROVE  age[t] + nap < tm[t].interval
    <3>1. t \in Timer
      BY <2>1, ArmedTimers
    <3>2. age[t] \in Int /\ tm[t].interval \in Int /\ nap \in Int /\ ahead \in Int
      BY <2>1, <3>1, TimerNumbers
    <3> QED
      BY <2>1, <3>2
  <2> QED
    BY <2>1, <2>2
<1> QED
  BY <1>1, Inductive, PTL

(* A scan that is over has looked at all that was due when it last started    *)
(* over, whatever the queue refused.                                       *)
THEOREM ScansComplete == Spec => []ScanComplete
<1>1. IInv => ScanComplete
  BY DEF IInv, TimeInv, OwedAhead, ScanComplete
<1> QED
  BY <1>1, Inductive, PTL

(* No timer expires before its interval has passed, on a clock of any width.  *)
THEOREM FiresOnTime == Spec => NeverEarly
<1>1. ASSUME IInv, [Next]_vars, NEW t \in Timer, Fires(t)
      PROVE  age[t] >= tm[t].interval
  <2>1. /\ TypeInv /\ AgeExact /\ ArmedYoung /\ TimersOK /\ ScanOK
    BY <1>1 DEF IInv, TimeInv, TypeInv
  <2>2. /\ at = "scan" /\ pos <= Len(timer_list) /\ timer_list[pos] = t
        /\ \A i \in DOMAIN timer_list' : timer_list'[i] # t
    BY <1>1 DEF Fires, Looks
  <2>3. t \in Armed /\ timer_list' # timer_list
    <3>1. DOMAIN timer_list = 1..Len(timer_list) /\ Len(timer_list) \in Nat
      BY <2>1, LenProperties DEF TimersOK
    <3>2. Cardinality(Timer) \in Nat
      BY TimerAssumption, FS_CardinalityType
    <3>3. pos \in DOMAIN timer_list
      BY <2>1, <2>2, <3>1, <3>2 DEF ScanOK
    <3> QED
      BY <2>2, <3>3 DEF Armed
  <2>4. ASSUME NEW u \in Timer, EventFires(u) \/ CallbackFires(u)
        PROVE  timer_is_due(t)
    BY <2>2, <2>4 DEF EventFires, CallbackFires, Looks
  <2>5. CASE \/ UNCHANGED vars \/ PollArrives \/ EventDropped \/ Yields \/ Ends \/ Idle
             \/ ScanEnds \/ CallbackReturns \/ Clock \/ Interrupt \/ tiku_crit_end
             \/ \E u \in Timer : ScanPasses(u) \/ EventRefused(u)
             \/ \E p \in Proc : EventArrives(p)
    <3>1. at # "scan" \/ timer_list' = timer_list
      BY <2>5 DEF vars, timers, PollArrives, EventDropped, Yields, Ends, Idle, ScanEnds,
           CallbackReturns, Clock, SleepsOn, Tick, Interrupt, IsrPoll, tiku_crit_end,
           ScanPasses, EventRefused, EventArrives
    <3> QED
      BY <2>2, <2>3, <3>1
  <2>6. ASSUME NEW c \in Program, Makes(c)
        PROVE  at # "scan"
    BY <2>6 DEF Makes, tiku_timer_set, tiku_timer_reset, tiku_timer_restart, tiku_timer_stop,
         PT_WAIT_UNTIL_TIMEOUT, tiku_process_exit, tiku_process_start, tiku_crit_begin,
         tiku_sched_set_idle_tick_wakes, Calls
  <2>7. CASE \E u \in Timer : EventFires(u) \/ CallbackFires(u)
    BY <2>1, <2>3, <2>4, <2>7, DueExact
  <2> QED
    BY <1>1, <2>2, <2>5, <2>6, <2>7 DEF Next, Step, Scan
<1>2. IInv /\ [Next]_vars => [\A t \in Timer : Fires(t) => age[t] >= tm[t].interval]_vars
  BY <1>1
<1> QED
  BY <1>2, Inductive, PTL DEF Spec, NeverEarly
=============================================================================
