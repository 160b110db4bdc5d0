----------------------------- MODULE TikuThread -----------------------------
(***************************************************************************)
(* Preemptive worker threads (kernel/threads/tiku_thread.c) under the       *)
(* kernel thread, which runs the scheduler's loop (scheduler/tiku_sched.c). *)
(*                                                                         *)
(* What runs with interrupts masked is one step.  The switch exception has  *)
(* the lowest priority: once it is pended, no thread takes a step before    *)
(* it, but interrupts do.  "kat" and "at[w]" are where the kernel thread    *)
(* and worker w are, on the CPU or off it:                                  *)
(*   kat   loop  idle  handed  asleep  body  join  wait  napping            *)
(*           (handed: off the CPU in the idle section, or just back;         *)
(*           asleep in the idle hook, napping in the wait's own sleep)      *)
(*   at[w] off  body  wait  yield  notify  exit                             *)
(*                                                                         *)
(* The client of the wait queue is a semaphore: "tokens" is the condition,  *)
(* tested and changed under the mask the queue asks for.  One process of    *)
(* the kernel thread waits for workers (TIKU_WAIT_WORKER); the other        *)
(* events in the queue are for processes that return at once.               *)
(***************************************************************************)
EXTENDS Integers, FiniteSets

CONSTANTS
  Worker, Kernel, NULL,
  ThreadsMax,  \* TIKU_THREADS_MAX
  QueueSize,   \* TIKU_QUEUE_SIZE
  Timeout,     \* the ticks arguments each thread waits with (0: no limit)
  Budgeted,    \* workers the kernel gives budgets to
  MaxGrant,    \* bound: cycles left to a budgeted worker
  MaxTenure,   \* bound: cycles between two switches
  MaxTokens    \* bound: tokens

ASSUME ThreadAssumption ==
  /\ IsFiniteSet(Worker) /\ Budgeted \subseteq Worker
  /\ Kernel \notin Worker \cup Int /\ NULL \notin Worker \cup Int \cup {Kernel}
  /\ ThreadsMax \in Nat \ {0} /\ QueueSize \in Nat \ {0}
  /\ Timeout \in [Worker \cup {Kernel} -> SUBSET Nat]
  /\ MaxGrant \in Nat /\ MaxTenure \in Nat /\ MaxTokens \in Nat

Slot   == 0..(ThreadsMax - 1)
Thread == Worker \cup {Kernel}

VARIABLES
  threads,  \* s_threads: the worker in each slot, or NULL
  current,  \* s_current, with Kernel for NULL
  kready,   \* s_kernel_ready
  rr,       \* s_rr
  pended,   \* the switch exception is pended
  state,    \* the fields of each control block
  slot, waiter,
  left,     \* budget - 1 - cycles, or NULL for a budget of 0 (unlimited)
  waiters,  \* the wait queue: the slots, and Kernel, whose bits are set
  timed,    \* does the wait have a deadline?
  ttl,      \* ticks left to it
  tokens,   \* the condition the queue's clients wait for
  events,   \* events queued for other processes
  polled,   \* is a POLL for the waiting process queued?
  refused,  \* was a POLL for it refused since it last ran?
  awaited,  \* the worker it waits for in TIKU_WAIT_WORKER, or NULL
  joinee,   \* the worker the kernel thread joins, or NULL
  kat, at

cpu    == <<threads, current, kready, rr, pended>>
tcb    == <<state, slot, waiter, left>>
waitq  == <<waiters, timed, ttl>>
queue  == <<events, polled, refused>>
clients == <<tokens, awaited, joinee>>
vars   == <<cpu, tcb, waitq, queue, clients, kat, at>>

Pending == events > 0 \/ polled

(***************************************************************************)
(* Helpers of the switch.                                                  *)
(***************************************************************************)
Registered(w) == \E s \in Slot : threads[s] = w

(* Mutant: a worker whose budget is spent is still picked. *)
Runnable_Unmetered(st, budget, w) == w # NULL /\ st[w] = "READY"

Runnable(st, budget, w) ==
  w # NULL /\ st[w] = "READY" /\ (budget[w] # NULL => budget[w] > 0)

\* The states once every worker whose deadline has come is made ready.
WakeDue(st) ==
  [w \in Worker |->
     IF Registered(w) /\ st[w] = "BLOCKED" /\ timed[w] /\ ttl[w] = 0
     THEN "READY" ELSE st[w]]

(* Mutant: the thread that leaves the CPU keeps its state. *)
OffCPU_Kept(st) == st

\* The states once the thread on the CPU is off it: a worker that blocked or
\* exited keeps its state.
OffCPU(st) == IF current # Kernel /\ st[current] = "RUNNING"
              THEN [st EXCEPT ![current] = "READY"] ELSE st

\* The thread the switch picks: the kernel if ready, else the first runnable
\* worker from the cursor, else the kernel.
Pick(st, budget) ==
  LET Ahead(i) == threads[(rr + i) % ThreadsMax]
      picks    == {i \in Slot : Runnable(st, budget, Ahead(i))}
  IN IF kready \/ picks = {} THEN Kernel
     ELSE Ahead(CHOOSE i \in picks : \A j \in picks : i <= j)

WorkerReady(st) == \E s \in Slot : Runnable(st, left, threads[s])

(* Mutant: the cursor is not wrapped. *)
Rotate_NoWrap == rr' = rr + 1

Rotate == rr' = (rr + 1) % ThreadsMax

KernelBlock == kready' = FALSE /\ Rotate /\ pended' = TRUE

KernelWake == kready' = TRUE /\ pended' = (pended \/ ~kready)

(***************************************************************************)
(* The switch exception.  Whoever leaves the CPU is charged its tenure.    *)
(***************************************************************************)
Switch ==
  /\ pended
  /\ \E tenure \in 0..MaxTenure :
       LET spent == IF current = Kernel \/ left[current] = NULL THEN left
                    ELSE [left EXCEPT ![current] = @ - tenure]
           due   == WakeDue(OffCPU(state))
           next  == Pick(due, spent)
       IN /\ left' = spent
          /\ current' = next
          /\ state' = IF next = Kernel THEN due ELSE [due EXCEPT ![next] = "RUNNING"]
  /\ pended' = FALSE
  /\ UNCHANGED <<threads, kready, rr, slot, waiter, waitq, queue, clients, kat, at>>

(***************************************************************************)
(* The wait queue.                                                         *)
(***************************************************************************)
\* waitq_release()
Release(bits) ==
  /\ waiters' = waiters \ bits
  /\ state' = [w \in Worker |->
                 IF state[w] = "BLOCKED" /\ \E s \in bits \cap Slot : threads[s] = w
                 THEN "READY" ELSE state[w]]
  /\ kready' = (kready \/ Kernel \in bits)
  /\ pended' = TRUE

\* The bits wake_one and wake_all clear.
WakeOne == LET slots == waiters \cap Slot
           IN IF slots = {} THEN waiters
              ELSE {CHOOSE s \in slots : \A r \in slots : s <= r}
WakeAll == waiters

Wake(bits) == IF bits = {} THEN UNCHANGED <<waiters, state, kready, pended>>
              ELSE Release(bits)

\* Any context: make the condition true and wake, under one mask.
Give ==
  /\ tokens < MaxTokens
  /\ tokens' = tokens + 1
  /\ \E bits \in {WakeOne, WakeAll} : Wake(bits)
  /\ UNCHANGED <<threads, current, rr, slot, waiter, left, timed, ttl, queue,
                 awaited, joinee, at>>

(* Mutant: the wait is told of its deadline even if a wake came first. *)
EndWait_DeadlineOnly(t, bit) ==
  LET verdict == ~timed[t] \/ ttl[t] > 0
  IN /\ waiters' = waiters \ {bit}
     /\ timed' = [timed EXCEPT ![t] = FALSE]
     /\ ttl' = [ttl EXCEPT ![t] = 0]
     /\ tokens' = IF verdict /\ tokens > 0 THEN tokens - 1 ELSE tokens

(* Mutant: a wait that ends by its deadline leaves its bit set. *)
EndWait_LeavesBit(t, bit) ==
  LET verdict == bit \notin waiters \/ ~timed[t] \/ ttl[t] > 0
  IN /\ waiters' = waiters
     /\ timed' = [timed EXCEPT ![t] = FALSE]
     /\ ttl' = [ttl EXCEPT ![t] = 0]
     /\ tokens' = IF verdict /\ tokens > 0 THEN tokens - 1 ELSE tokens

\* How a wait ends for thread t: its bit is cleared, and it tests the
\* condition again unless it is told that its deadline passed.
EndWait(t, bit) ==
  LET verdict == bit \notin waiters \/ ~timed[t] \/ ttl[t] > 0
  IN /\ waiters' = waiters \ {bit}
     /\ timed' = [timed EXCEPT ![t] = FALSE]
     /\ ttl' = [ttl EXCEPT ![t] = 0]
     /\ tokens' = IF verdict /\ tokens > 0 THEN tokens - 1 ELSE tokens

(***************************************************************************)
(* Events.  A POLL merges with a queued one, and is refused by a full      *)
(* queue; the kernel is woken whatever comes of it.                        *)
(***************************************************************************)
QueueLen == events + (IF polled THEN 1 ELSE 0)

Poll ==
  /\ polled' = (polled \/ QueueLen < QueueSize)
  /\ refused' = (refused \/ (~polled /\ QueueLen = QueueSize))
  /\ KernelWake

(***************************************************************************)
(* A worker's steps.                                                       *)
(***************************************************************************)
Runs(t) == current = t /\ ~pended

WorkerGive(w) == Runs(w) /\ at[w] = "body" /\ Give /\ UNCHANGED kat

\* Takes a token, or blocks until a wake or the deadline.
WorkerTake(w, ticks) ==
  /\ Runs(w) /\ at[w] = "body"
  /\ \/ /\ tokens > 0
        /\ tokens' = tokens - 1
        /\ UNCHANGED <<waiters, timed, ttl, state, pended, at>>
     \/ /\ tokens = 0
        /\ waiters' = waiters \cup {slot[w]}
        /\ timed' = [timed EXCEPT ![w] = ticks # 0]
        /\ ttl' = [ttl EXCEPT ![w] = ticks]
        /\ state' = [state EXCEPT ![w] = "BLOCKED"]
        /\ pended' = TRUE
        /\ at' = [at EXCEPT ![w] = "wait"]
        /\ UNCHANGED tokens
  /\ UNCHANGED <<threads, current, kready, rr, slot, waiter, left, queue,
                 awaited, joinee, kat>>

WorkerResume(w) ==
  /\ Runs(w) /\ at[w] = "wait"
  /\ EndWait(w, slot[w])
  /\ at' = [at EXCEPT ![w] = "body"]
  /\ UNCHANGED <<cpu, tcb, queue, awaited, joinee, kat>>

WorkerYield(w) ==
  /\ Runs(w) /\ at[w] = "body"
  /\ Rotate
  /\ at' = [at EXCEPT ![w] = "yield"]
  /\ UNCHANGED <<threads, current, kready, pended, tcb, waitq, queue, clients, kat>>

\* The switch is pended once the mask is open again.
WorkerPend(w) ==
  /\ Runs(w) /\ at[w] \in {"yield", "exit"}
  /\ pended' = TRUE
  /\ at' = IF at[w] = "yield" THEN [at EXCEPT ![w] = "body"] ELSE at
  /\ UNCHANGED <<threads, current, kready, rr, tcb, waitq, queue, clients, kat>>

\* A post: the kernel is woken once the mask is open again.
WorkerPost(w) ==
  /\ Runs(w) /\ at[w] = "body"
  /\ QueueLen < QueueSize
  /\ events' = events + 1
  /\ at' = [at EXCEPT ![w] = "notify"]
  /\ UNCHANGED <<cpu, tcb, waitq, polled, refused, clients, kat>>

WorkerNotify(w) ==
  /\ Runs(w) /\ at[w] = "notify"
  /\ KernelWake
  /\ at' = [at EXCEPT ![w] = "body"]
  /\ UNCHANGED <<threads, current, rr, tcb, waitq, queue, clients, kat>>

(* Mutant: the process that waits for the worker is not polled. *)
WorkerExit_Unpolled(w) ==
  /\ Runs(w) /\ at[w] = "body"
  /\ state' = [state EXCEPT ![w] = "DONE"]
  /\ waiter' = [waiter EXCEPT ![w] = FALSE]
  /\ at' = [at EXCEPT ![w] = "exit"]
  /\ UNCHANGED <<cpu, slot, left, waitq, queue, clients, kat>>

WorkerExit(w) ==
  /\ Runs(w) /\ at[w] = "body"
  /\ state' = [state EXCEPT ![w] = "DONE"]
  /\ IF waiter[w] THEN Poll ELSE UNCHANGED <<polled, refused, kready, pended>>
  /\ waiter' = [waiter EXCEPT ![w] = FALSE]
  /\ at' = [at EXCEPT ![w] = "exit"]
  /\ UNCHANGED <<threads, current, rr, slot, left, waitq, events, clients, kat>>

(***************************************************************************)
(* The kernel thread: the scheduler's loop.                                *)
(***************************************************************************)
KernelAt(k) == Runs(Kernel) /\ kat = k

DispatchOther ==
  /\ KernelAt("loop") /\ events > 0
  /\ events' = events - 1
  /\ UNCHANGED <<cpu, tcb, waitq, polled, refused, clients, kat, at>>

\* The process that waits for workers is dispatched, by its POLL or by
\* another event.
Dispatch ==
  /\ KernelAt("loop")
  /\ \/ polled /\ polled' = FALSE /\ UNCHANGED events
     \/ events > 0 /\ events' = events - 1 /\ UNCHANGED polled
  /\ refused' = FALSE
  /\ kat' = "body"
  /\ UNCHANGED <<cpu, tcb, waitq, clients, at>>

Drained ==
  /\ KernelAt("loop") /\ ~Pending
  /\ kat' = "idle"
  /\ UNCHANGED <<cpu, tcb, waitq, queue, clients, at>>

\* The idle section: the queue is looked at again under the mask.
IdleAgain ==
  /\ KernelAt("idle") /\ Pending
  /\ kat' = "loop"
  /\ UNCHANGED <<cpu, tcb, waitq, queue, clients, at>>

(* Mutant: the queue is not looked at again under the mask. *)
IdleBlock_Unchecked ==
  /\ KernelAt("idle")
  /\ state' = WakeDue(state)
  /\ WorkerReady(state')
  /\ KernelBlock
  /\ kat' = "handed"
  /\ UNCHANGED <<threads, current, slot, waiter, left, waitq, queue, clients, at>>

IdleBlock ==
  /\ KernelAt("idle") /\ ~Pending
  /\ state' = WakeDue(state)
  /\ WorkerReady(state')
  /\ KernelBlock
  /\ kat' = "handed"
  /\ UNCHANGED <<threads, current, slot, waiter, left, waitq, queue, clients, at>>

IdleSleep ==
  /\ KernelAt("idle") /\ ~Pending
  /\ state' = WakeDue(state)
  /\ ~WorkerReady(state')
  /\ kat' = "asleep"
  /\ UNCHANGED <<cpu, slot, waiter, left, waitq, queue, clients, at>>

\* The kernel thread has the CPU back, after a wake or for want of workers.
IdleResume ==
  /\ KernelAt("handed")
  /\ kat' = "loop"
  /\ UNCHANGED <<cpu, tcb, waitq, queue, clients, at>>

(***************************************************************************)
(* The kernel thread in a process body.                                    *)
(***************************************************************************)
Body == KernelAt("body") /\ awaited = NULL

IsDone(w) == state[w] \in {"DONE", "UNUSED"}

(* Mutant: the slot of a blocked worker counts as free. *)
StartSlot_TakesBlocked(w) ==
  LET own  == {s \in Slot : threads[s] = w}
      free == {s \in Slot : threads[s] = NULL \/ state[threads[s]] \in {"DONE", "BLOCKED"}}
      from == IF own # {} THEN own ELSE free
  IN {s \in from : \A r \in from : s <= r}

\* The slot a start takes: the worker's own, else the first that is empty or
\* whose worker is done.
StartSlot(w) ==
  LET own  == {s \in Slot : threads[s] = w}
      free == {s \in Slot : threads[s] = NULL \/ state[threads[s]] = "DONE"}
      from == IF own # {} THEN own ELSE free
  IN {s \in from : \A r \in from : s <= r}

\* Callers start a worker that is_done().
Start(w) ==
  /\ Body /\ IsDone(w)
  /\ \E s \in StartSlot(w) :
       /\ threads' = [threads EXCEPT ![s] = w]
       /\ slot' = [slot EXCEPT ![w] = s]
  /\ timed' = [timed EXCEPT ![w] = FALSE]
  /\ state' = [state EXCEPT ![w] = "READY"]
  /\ at' = [at EXCEPT ![w] = "body"]
  /\ UNCHANGED <<current, kready, rr, pended, waiter, left, waiters, ttl, queue,
                 clients, kat>>

Forget(w) ==
  /\ Body /\ IsDone(w)
  /\ threads' = [s \in Slot |-> IF threads[s] = w THEN NULL ELSE threads[s]]
  /\ UNCHANGED <<current, kready, rr, pended, tcb, waitq, queue, clients, kat, at>>

BudgetGrant(w, cycles) ==
  /\ Body
  /\ left' = [left EXCEPT ![w] = cycles]
  /\ UNCHANGED <<cpu, state, slot, waiter, waitq, queue, clients, kat, at>>

BudgetRefill(w, cycles) ==
  /\ Body /\ left[w] # NULL
  /\ left[w] + cycles <= MaxGrant
  /\ left' = [left EXCEPT ![w] = @ + cycles]
  /\ UNCHANGED <<cpu, state, slot, waiter, waitq, queue, clients, kat, at>>

BudgetUnlimited(w) ==
  /\ Body
  /\ left' = [left EXCEPT ![w] = NULL]
  /\ UNCHANGED <<cpu, state, slot, waiter, waitq, queue, clients, kat, at>>

KernelGive == Body /\ Give /\ UNCHANGED kat

(* Mutant: the worker is tested before the flag is set, with no test after. *)
Await_TestedBefore(w) ==
  /\ Body /\ state[w] # "UNUSED"
  /\ waiter' = [waiter EXCEPT ![w] = TRUE]
  /\ awaited' = w
  /\ kat' = "loop"
  /\ UNCHANGED <<cpu, state, slot, left, waitq, queue, tokens, joinee, at>>

\* TIKU_WAIT_WORKER(): the first test, and the one of each later dispatch.
Await(w) ==
  /\ Body /\ ~IsDone(w)
  /\ waiter' = [waiter EXCEPT ![w] = TRUE]
  /\ awaited' = w
  /\ kat' = "loop"
  /\ UNCHANGED <<cpu, state, slot, left, waitq, queue, tokens, joinee, at>>

AwaitAgain ==
  /\ KernelAt("body") /\ awaited # NULL
  /\ IF IsDone(awaited)
     THEN awaited' = NULL /\ UNCHANGED <<waiter, kat>>
     ELSE /\ waiter' = [waiter EXCEPT ![awaited] = TRUE]
          /\ kat' = "loop"
          /\ UNCHANGED awaited
  /\ UNCHANGED <<cpu, state, slot, left, waitq, queue, tokens, joinee, at>>

Join(w) ==
  /\ Body /\ state[w] # "UNUSED"
  /\ joinee' = w
  /\ kat' = "join"
  /\ UNCHANGED <<cpu, tcb, waitq, queue, tokens, awaited, at>>

JoinAgain ==
  /\ KernelAt("join") /\ state[joinee] # "DONE"
  /\ state' = WakeDue(state)
  /\ IF WorkerReady(state') THEN KernelBlock ELSE UNCHANGED <<kready, rr, pended>>
  /\ UNCHANGED <<threads, current, slot, waiter, left, waitq, queue, clients, kat, at>>

Joined ==
  /\ KernelAt("join") /\ state[joinee] = "DONE"
  /\ joinee' = NULL
  /\ kat' = "body"
  /\ UNCHANGED <<cpu, tcb, waitq, queue, tokens, awaited, at>>

\* One pass of the kernel's wait: the workers get the CPU, or the CPU naps.
WaitPass ==
  /\ state' = WakeDue(state)
  /\ IF WorkerReady(state')
     THEN KernelBlock /\ kat' = "wait"
     ELSE kat' = "napping" /\ UNCHANGED <<kready, rr, pended>>

KernelTake(ticks) ==
  /\ Body
  /\ \/ /\ tokens > 0
        /\ tokens' = tokens - 1
        /\ UNCHANGED <<waitq, state, kready, rr, pended, kat>>
     \/ /\ tokens = 0
        /\ waiters' = waiters \cup {Kernel}
        /\ timed' = [timed EXCEPT ![Kernel] = ticks # 0]
        /\ ttl' = [ttl EXCEPT ![Kernel] = ticks]
        /\ WaitPass
        /\ UNCHANGED tokens
  /\ UNCHANGED <<threads, current, slot, waiter, left, queue, awaited, joinee, at>>

WaitOver == Kernel \notin waiters \/ kready \/ (timed[Kernel] /\ ttl[Kernel] = 0)

WaitAgain ==
  /\ KernelAt("wait") /\ ~WaitOver
  /\ WaitPass
  /\ UNCHANGED <<threads, current, slot, waiter, left, waitq, queue, clients, at>>

WaitReturn ==
  /\ KernelAt("wait") /\ WaitOver
  /\ EndWait(Kernel, Kernel)
  /\ kat' = "body"
  /\ UNCHANGED <<cpu, tcb, queue, awaited, joinee, at>>

Return ==
  /\ Body
  /\ kat' = "loop"
  /\ UNCHANGED <<cpu, tcb, waitq, queue, clients, at>>

(***************************************************************************)
(* Interrupts, which also end a sleep.                                     *)
(***************************************************************************)
WakeCPU == kat' = CASE kat = "asleep" -> "loop" [] kat = "napping" -> "wait"
                    [] OTHER -> kat

(* Mutant: the tick does not wake the kernel thread. *)
Tick_Quiet ==
  /\ ttl' = [t \in Thread |-> IF ttl[t] > 0 THEN ttl[t] - 1 ELSE 0]
  /\ WakeCPU
  /\ UNCHANGED <<cpu, tcb, waiters, timed, queue, clients, at>>

Tick ==
  /\ ttl' = [t \in Thread |-> IF ttl[t] > 0 THEN ttl[t] - 1 ELSE 0]
  /\ KernelWake
  /\ WakeCPU
  /\ UNCHANGED <<threads, current, rr, tcb, waiters, timed, queue, clients, at>>

InterruptPost ==
  /\ QueueLen < QueueSize
  /\ events' = events + 1
  /\ KernelWake
  /\ WakeCPU
  /\ UNCHANGED <<threads, current, rr, tcb, waitq, polled, refused, clients, at>>

InterruptGive == Give /\ WakeCPU

(***************************************************************************)
(* Initially nothing is started, and the process is about to get INIT.     *)
(***************************************************************************)
Init ==
  /\ threads = [s \in Slot |-> NULL]
  /\ current = Kernel /\ kready = TRUE /\ rr = 0 /\ pended = FALSE
  /\ state = [w \in Worker |-> "UNUSED"]
  /\ slot = [w \in Worker |-> 0]
  /\ waiter = [w \in Worker |-> FALSE]
  /\ left = [w \in Worker |-> NULL]
  /\ waiters = {}
  /\ timed = [t \in Thread |-> FALSE]
  /\ ttl = [t \in Thread |-> 0]
  /\ tokens = 0 /\ awaited = NULL /\ joinee = NULL
  /\ events = 1 /\ polled = FALSE /\ refused = FALSE
  /\ kat = "loop"
  /\ at = [w \in Worker |-> "off"]

WorkerStep(w) ==
  \/ WorkerGive(w)
  \/ \E ticks \in Timeout[w] : WorkerTake(w, ticks)
  \/ WorkerResume(w)
  \/ WorkerYield(w)
  \/ WorkerPend(w)
  \/ WorkerPost(w)
  \/ WorkerNotify(w)
  \/ WorkerExit(w)

KernelStep ==
  \/ DispatchOther
  \/ Dispatch
  \/ Drained
  \/ IdleAgain
  \/ IdleBlock
  \/ IdleSleep
  \/ IdleResume
  \/ \E w \in Worker : Start(w) \/ Forget(w) \/ Await(w) \/ Join(w)
  \/ \E w \in Budgeted : \/ \E cycles \in 0..MaxGrant :
                              BudgetGrant(w, cycles) \/ BudgetRefill(w, cycles)
                         \/ BudgetUnlimited(w)
  \/ KernelGive
  \/ AwaitAgain
  \/ JoinAgain
  \/ Joined
  \/ \E ticks \in Timeout[Kernel] : KernelTake(ticks)
  \/ WaitAgain
  \/ WaitReturn
  \/ Return

Interrupt == Tick \/ InterruptPost \/ InterruptGive

Next == Switch \/ (\E w \in Worker : WorkerStep(w)) \/ KernelStep \/ Interrupt

Spec == Init /\ [][Next]_vars

(***************************************************************************)
(* Fairness.  A pended switch is taken.  A thread on the CPU takes a step   *)
(* however often interrupts pend a switch that comes back to it, so the     *)
(* kernel's steps are strongly fair; so is the end of a process body, which *)
(* must return for the system to be live.  The tick interrupt never stops.  *)
(* Nothing is asked of workers: one may keep the CPU for ever.              *)
(***************************************************************************)
KernelMust ==
  \/ DispatchOther \/ Dispatch \/ Drained \/ IdleAgain \/ IdleBlock \/ IdleSleep
  \/ IdleResume \/ AwaitAgain \/ Joined \/ WaitReturn \/ Return

Fairness ==
  /\ WF_vars(Switch)
  /\ WF_vars(Tick)
  /\ SF_vars(KernelMust)
  /\ SF_vars(Dispatch)

FairSpec == Spec /\ Fairness

(***************************************************************************)
(* Properties.                                                             *)
(***************************************************************************)
\* Every variable has its type.
TypeOK ==
  /\ threads \in [Slot -> Worker \cup {NULL}]
  /\ current \in Thread
  /\ kready \in BOOLEAN /\ rr \in Slot /\ pended \in BOOLEAN
  /\ state \in [Worker -> {"UNUSED", "READY", "RUNNING", "DONE", "BLOCKED"}]
  /\ slot \in [Worker -> Slot]
  /\ waiter \in [Worker -> BOOLEAN]
  /\ left \in [Worker -> Int \cup {NULL}]
  /\ waiters \subseteq Slot \cup {Kernel}
  /\ timed \in [Thread -> BOOLEAN] /\ ttl \in [Thread -> Nat]
  /\ tokens \in 0..MaxTokens
  /\ events \in 0..QueueSize /\ polled \in BOOLEAN /\ refused \in BOOLEAN
  /\ awaited \in Worker \cup {NULL} /\ joinee \in Worker \cup {NULL}
  /\ kat \in {"loop", "idle", "handed", "asleep", "body", "join", "wait", "napping"}
  /\ at \in [Worker -> {"off", "body", "wait", "yield", "notify", "exit"}]

\* A worker that has started and is not done keeps a slot of its own, so the
\* switch finds it and a wake reaches it: start takes no slot from a worker
\* that is blocked or preempted, and forget empties none.
SlotKept ==
  \A w \in Worker :
    state[w] \in {"READY", "RUNNING", "BLOCKED"} =>
      /\ threads[slot[w]] = w
      /\ \A s \in Slot : threads[s] = w => s = slot[w]

\* At most one worker is RUNNING, the one on the CPU; and a worker that takes
\* steps is RUNNING or in the last loop of its exit: a worker that blocks or
\* is done has left the CPU before its next step, whatever wakes it first.
RunningSound ==
  \A w \in Worker :
    /\ state[w] = "RUNNING" => current = w
    /\ Runs(w) => state[w] = "RUNNING" \/ at[w] = "exit"

\* No bit of the wait queue is left over: a set bit is of a thread in its
\* wait, so wake_one never spends a wake on a slot nobody waits in.
BitsSound ==
  /\ \A s \in waiters \cap Slot :
       \E w \in Worker : threads[s] = w /\ slot[w] = s /\ at[w] = "wait"
  /\ Kernel \in waiters => kat \in {"wait", "napping"}

\* No wake is lost: while the condition holds and a thread waits, some other
\* thread has been woken and is on its way to test the condition.  Broken if a
\* wake can come between the test and the wait, if a deadline takes back a
\* wake, or if the kernel's wait drops one on an event.
NoLostWake ==
  tokens > 0 /\ waiters # {} =>
    \/ \E w \in Worker : at[w] = "wait" /\ slot[w] \notin waiters
    \/ kat = "wait" /\ Kernel \notin waiters

\* The kernel thread does not stay off the CPU, handed to the workers by the
\* idle loop, while an event is queued: kernel_wake has run since, or runs as
\* the poster's next step.
EventHeard ==
  kat \in {"handed", "asleep"} /\ Pending =>
    kready \/ \E w \in Worker : at[w] = "notify"

\* A process in TIKU_WAIT_WORKER whose worker is done has its POLL queued,
\* or the full queue refused it: an exit that comes between the test and the
\* wait is not missed.
AwaitHeard ==
  awaited # NULL /\ kat # "body" /\ IsDone(awaited) => polled \/ refused

\* A budgeted worker overruns its ceiling by at most one tenure, whatever is
\* granted and refilled between its turns.
BudgetBound ==
  \A w \in Worker : left[w] # NULL => left[w] >= -MaxTenure

\* A worker never takes the CPU from a process the kernel thread runs
\* ("Thread 0 (the kernel) has absolute priority", tiku_thread.c:9).
KernelFirst == \A w \in Worker : Runs(w) => kat # "body"

\* A process in TIKU_WAIT_WORKER whose worker is done resumes, unless the
\* POLL was refused.
AwaitEnds ==
  []<>~(awaited # NULL /\ IsDone(awaited) /\ ~refused)

\* An event does not stay queued for ever while workers keep the CPU, unless
\* the kernel thread joins a worker or waits itself, which dispatch nothing.
EventTaken ==
  []<>(~Pending \/ kat \in {"body", "join", "wait", "napping"})
=============================================================================
