-------------------------- MODULE TikuThreadProofs --------------------------
(***************************************************************************)
(* Proofs about TikuThread: type correctness and the safety invariants of   *)
(* the run thread_wait, for any finite set of workers, any number of slots, *)
(* any size of the event queue, any deadlines and any budgets.             *)
(***************************************************************************)
EXTENDS TikuThread, NatOrder, FiniteSetTheorems, TLAPS

-----------------------------------------------------------------------------
(* The operators of the switch.                                            *)

(* The cursor stays on the slots.                                          *)
LEMMA SlotArith ==
  /\ 0 \in Slot
  /\ \A i \in Int : i % ThreadsMax \in Slot
BY ThreadAssumption DEF Slot

(* A nonempty set of slots has a first one.                                *)
LEMMA FirstSlot ==
  ASSUME NEW S \in SUBSET Slot, S # {}
  PROVE  /\ (CHOOSE s \in S : \A r \in S : s <= r) \in S
         /\ {s \in S : \A r \in S : s <= r} \subseteq S
<1>1. S \in SUBSET Nat
  BY ThreadAssumption DEF Slot
<1>2. \E s \in S : \A r \in S : s <= r
  BY <1>1, LeastNat
<1> QED
  BY <1>2

(* The switch picks the kernel thread, or a worker with a slot that is READY *)
(* and whose budget is not spent.                                          *)
LEMMA PickSound ==
  ASSUME threads \in [Slot -> Worker \cup {NULL}], rr \in Slot, NEW st, NEW budget
  PROVE  \/ Pick(st, budget) = Kernel
         \/ /\ Pick(st, budget) \in Worker
            /\ \E s \in Slot : threads[s] = Pick(st, budget)
            /\ st[Pick(st, budget)] = "READY"
            /\ budget[Pick(st, budget)] # NULL => budget[Pick(st, budget)] > 0
<1> DEFINE Ahead(i) == threads[(rr + i) % ThreadsMax]
           picks == {i \in Slot : Runnable(st, budget, Ahead(i))}
           first == CHOOSE i \in picks : \A j \in picks : i <= j
<1>1. CASE kready \/ picks = {}
  BY <1>1 DEF Pick
<1>2. CASE ~kready /\ picks # {}
  <2>1. first \in picks
    BY <1>2, FirstSlot
  <2>2. Pick(st, budget) = Ahead(first)
    BY <1>2 DEF Pick
  <2>3. first \in Slot /\ Runnable(st, budget, Ahead(first))
    BY <2>1
  <2> HIDE DEF first
  <2>4. rr + first \in Int
    BY <2>3 DEF Slot
  <2>5. (rr + first) % ThreadsMax \in Slot
    BY <2>4, SlotArith
  <2>6. Ahead(first) \in Worker
    BY <2>3, <2>5 DEF Runnable
  <2> QED
    BY <2>2, <2>3, <2>5, <2>6 DEF Runnable
<1> QED
  BY <1>1, <1>2

(* Making due workers ready changes the state of BLOCKED workers to READY   *)
(* and nothing else; so does taking a RUNNING worker off the CPU.           *)
LEMMA DueStates ==
  ASSUME NEW st \in [Worker -> {"UNUSED", "READY", "RUNNING", "DONE", "BLOCKED"}]
  PROVE  /\ WakeDue(st) \in [Worker -> {"UNUSED", "READY", "RUNNING", "DONE", "BLOCKED"}]
         /\ \A w \in Worker : \/ WakeDue(st)[w] = st[w]
                              \/ st[w] = "BLOCKED" /\ WakeDue(st)[w] = "READY"
BY DEF WakeDue

(* The switch: the thread that leaves the CPU is charged, and is RUNNING no  *)
(* more; the one that takes it is the kernel thread, or a registered worker, *)
(* READY with cycles left, that becomes RUNNING.                            *)
LEMMA SwitchEffect ==
  ASSUME TypeOK, Switch
  PROVE  /\ state' \in [Worker -> {"UNUSED", "READY", "RUNNING", "DONE", "BLOCKED"}]
         /\ left' \in [Worker -> Int \cup {NULL}]
         /\ current' \in Thread
         /\ \A w \in Worker : IsDone(w) <=> IsDone(w)'
         /\ \A w \in Worker :
              state'[w] = "RUNNING" =>
                w = current' \/ (state[w] = "RUNNING" /\ w # current)
         /\ current' # Kernel =>
              /\ state'[current'] = "RUNNING"
              /\ \E s \in Slot : threads[s] = current'
              /\ left'[current'] # NULL => left'[current'] > 0
         /\ \A w \in Worker :
              \/ left'[w] = left[w]
              \/ /\ w = current /\ left[w] # NULL
                 /\ \E tenure \in 0..MaxTenure : left'[w] = left[w] - tenure
<1> DEFINE States == {"UNUSED", "READY", "RUNNING", "DONE", "BLOCKED"}
           Spent(tenure) == IF current = Kernel \/ left[current] = NULL THEN left
                            ELSE [left EXCEPT ![current] = @ - tenure]
           due == WakeDue(OffCPU(state))
<1>1. PICK tenure \in 0..MaxTenure :
        /\ left' = Spent(tenure)
        /\ current' = Pick(due, Spent(tenure))
        /\ state' = IF Pick(due, Spent(tenure)) = Kernel THEN due
                    ELSE [due EXCEPT ![Pick(due, Spent(tenure))] = "RUNNING"]
  BY DEF Switch
<1>2. /\ Spent(tenure) \in [Worker -> Int \cup {NULL}]
      /\ \A w \in Worker :
           \/ Spent(tenure)[w] = left[w]
           \/ w = current /\ left[w] # NULL /\ Spent(tenure)[w] = left[w] - tenure
  BY ThreadAssumption DEF TypeOK, Thread
<1>3. /\ OffCPU(state) \in [Worker -> States]
      /\ \A w \in Worker : \/ OffCPU(state)[w] = state[w]
                           \/ state[w] = "RUNNING" /\ OffCPU(state)[w] = "READY"
      /\ \A w \in Worker : OffCPU(state)[w] = "RUNNING" =>
           state[w] = "RUNNING" /\ w # current
  BY ThreadAssumption DEF TypeOK, Thread, OffCPU
<1> HIDE DEF Spent
<1>4. /\ due \in [Worker -> States]
      /\ \A w \in Worker : \/ due[w] = OffCPU(state)[w]
                           \/ OffCPU(state)[w] = "BLOCKED" /\ due[w] = "READY"
  BY <1>3, DueStates
<1> HIDE DEF due
<1>5. \/ current' = Kernel
      \/ /\ current' \in Worker
         /\ \E s \in Slot : threads[s] = current'
         /\ due[current'] = "READY"
         /\ left'[current'] # NULL => left'[current'] > 0
  BY <1>1, PickSound DEF TypeOK
<1>6. /\ current' = Kernel => state' = due
      /\ current' # Kernel => state' = [due EXCEPT ![current'] = "RUNNING"]
  BY <1>1
<1>7. state' \in [Worker -> States] /\ current' \in Thread
  BY <1>4, <1>5, <1>6 DEF Thread
<1>8. \A w \in Worker : IsDone(w) <=> IsDone(w)'
  BY <1>3, <1>4, <1>5, <1>6 DEF IsDone
<1>9. \A w \in Worker :
        state'[w] = "RUNNING" => w = current' \/ (state[w] = "RUNNING" /\ w # current)
  BY <1>3, <1>4, <1>5, <1>6
<1>10. current' # Kernel => state'[current'] = "RUNNING"
  BY <1>4, <1>5, <1>6
<1> QED
  BY <1>1, <1>2, <1>5, <1>7, <1>8, <1>9, <1>10

(* What a wake does to the wait queue, whatever bits it clears.            *)
LEMMA GiveEffect ==
  ASSUME TypeOK, Give
  PROVE  /\ tokens < MaxTokens /\ tokens' = tokens + 1
         /\ state' \in [Worker -> {"UNUSED", "READY", "RUNNING", "DONE", "BLOCKED"}]
         /\ \A w \in Worker : \/ state'[w] = state[w]
                              \/ state[w] = "BLOCKED" /\ state'[w] = "READY"
         /\ kready' \in BOOLEAN /\ (kready => kready')
         /\ pended' \in BOOLEAN /\ (pended => pended')
         /\ \/ waiters = {} /\ waiters' = {}
            \/ waiters' = {}
            \/ \E s \in waiters : waiters' = waiters \ {s}
<1>1. tokens < MaxTokens /\ tokens' = tokens + 1
  BY DEF Give
<1>2. PICK bits \in {WakeOne, WakeAll} : Wake(bits)
  BY DEF Give
<1>3. CASE bits = {}
  <2>1. UNCHANGED <<waiters, state, kready, pended>>
    BY <1>2, <1>3 DEF Wake
  <2>2. waiters = {}
    <3>1. CASE bits = WakeAll
      BY <1>3, <3>1 DEF WakeAll
    <3>2. CASE bits = WakeOne
      BY <1>3, <3>2 DEF WakeOne
    <3> QED
      BY <3>1, <3>2
  <2> QED
    BY <1>1, <2>1, <2>2 DEF TypeOK
<1>4. CASE bits # {}
  <2>1. Release(bits)
    BY <1>2, <1>4 DEF Wake
  <2>2. \/ waiters' = {}
        \/ \E s \in waiters : waiters' = waiters \ {s}
    <3>1. waiters' = waiters \ bits
      BY <2>1 DEF Release
    <3>2. CASE bits = WakeAll
      BY <3>1, <3>2 DEF WakeAll
    <3>3. CASE bits = WakeOne /\ waiters \cap Slot = {}
      BY <3>1, <3>3 DEF WakeOne
    <3>4. CASE bits = WakeOne /\ waiters \cap Slot # {}
      <4>1. waiters \cap Slot \in SUBSET Slot
        OBVIOUS
      <4>2. (CHOOSE s \in waiters \cap Slot : \A r \in waiters \cap Slot : s <= r)
              \in waiters \cap Slot
        BY <3>4, <4>1, FirstSlot
      <4> QED
        BY <3>1, <3>4, <4>2 DEF WakeOne
    <3> QED
      BY <1>2, <3>2, <3>3, <3>4
  <2>3. /\ state' \in [Worker -> {"UNUSED", "READY", "RUNNING", "DONE", "BLOCKED"}]
        /\ \A w \in Worker : \/ state'[w] = state[w]
                             \/ state[w] = "BLOCKED" /\ state'[w] = "READY"
    BY <2>1 DEF Release, TypeOK
  <2>4. /\ kready' \in BOOLEAN /\ (kready => kready')
        /\ pended' \in BOOLEAN /\ (pended => pended')
    BY <2>1 DEF Release, TypeOK
  <2> QED
    BY <1>1, <2>2, <2>3, <2>4
<1> QED
  BY <1>3, <1>4

(* A start takes a slot, and only one whose worker is done.                *)
LEMMA StartSlotSound ==
  ASSUME TypeOK, NEW w \in Worker, NEW s \in StartSlot(w)
  PROVE  /\ s \in Slot
         /\ \/ threads[s] = w
            \/ /\ \A r \in Slot : threads[r] # w
               /\ threads[s] = NULL \/ state[threads[s]] = "DONE"
BY DEF StartSlot

(* The cursor stays on the slots when it moves.                            *)
LEMMA RotateSlot ==
  ASSUME TypeOK, Rotate
  PROVE  rr' \in Slot
<1>1. rr + 1 \in Int
  BY DEF TypeOK, Slot
<1> QED
  BY <1>1, SlotArith DEF Rotate

-----------------------------------------------------------------------------
(* Types.                                                                  *)

(* Initially every variable has its type.                                  *)
LEMMA TypeInit ==
  ASSUME Init
  PROVE  TypeOK
<1>1. /\ threads \in [Slot -> Worker \cup {NULL}] /\ slot \in [Worker -> Slot]
      /\ current \in Thread /\ kready \in BOOLEAN /\ rr \in Slot /\ pended \in BOOLEAN
  BY SlotArith DEF Init, Thread
<1>2. /\ state \in [Worker -> {"UNUSED", "READY", "RUNNING", "DONE", "BLOCKED"}]
      /\ waiter \in [Worker -> BOOLEAN] /\ left \in [Worker -> Int \cup {NULL}]
      /\ at \in [Worker -> {"off", "body", "wait", "yield", "notify", "exit"}]
  BY DEF Init
<1>3. /\ waiters \subseteq Slot \cup {Kernel}
      /\ timed \in [Thread -> BOOLEAN] /\ ttl \in [Thread -> Nat]
  BY DEF Init
<1>4. tokens \in 0..MaxTokens /\ events \in 0..QueueSize
  BY ThreadAssumption DEF Init
<1>5. /\ polled \in BOOLEAN /\ refused \in BOOLEAN
      /\ awaited \in Worker \cup {NULL} /\ joinee \in Worker \cup {NULL}
      /\ kat \in {"loop", "idle", "handed", "asleep", "body", "join", "wait", "napping"}
  BY DEF Init
<1> QED
  BY <1>1, <1>2, <1>3, <1>4, <1>5 DEF TypeOK

(* A wake keeps the types.                                                 *)
LEMMA GiveTypes ==
  ASSUME TypeOK, Give,
         kat' \in {"loop", "idle", "handed", "asleep", "body", "join", "wait", "napping"}
  PROVE  TypeOK'
<1>1. tokens' \in 0..MaxTokens
  BY GiveEffect, ThreadAssumption DEF TypeOK
<1>2. waiters' \subseteq Slot \cup {Kernel}
  BY GiveEffect DEF TypeOK
<1>3. /\ state' \in [Worker -> {"UNUSED", "READY", "RUNNING", "DONE", "BLOCKED"}]
      /\ kready' \in BOOLEAN /\ pended' \in BOOLEAN
  BY GiveEffect
<1>4. UNCHANGED <<threads, current, rr, slot, waiter, left, timed, ttl, events,
                  polled, refused, awaited, joinee, at>>
  BY DEF Give, queue
<1> QED
  BY <1>1, <1>2, <1>3, <1>4 DEF TypeOK

(* So does the end of a wait.                                              *)
LEMMA EndWaitTypes ==
  ASSUME TypeOK, NEW t \in Thread, NEW bit, EndWait(t, bit)
  PROVE  /\ tokens' \in 0..MaxTokens
         /\ waiters' \subseteq Slot \cup {Kernel}
         /\ timed' \in [Thread -> BOOLEAN] /\ ttl' \in [Thread -> Nat]
<1>1. tokens' = tokens \/ (tokens > 0 /\ tokens' = tokens - 1)
  BY DEF EndWait
<1> QED
  BY <1>1, ThreadAssumption DEF EndWait, TypeOK

(* A step of a worker keeps the types.                                     *)
LEMMA WorkerTypes ==
  ASSUME TypeOK, NEW w \in Worker, WorkerStep(w)
  PROVE  TypeOK'
<1> USE DEF TypeOK, cpu, tcb, waitq, queue, clients
<1>1. w \in Thread
  BY DEF Thread
<1>2. CASE WorkerGive(w)
  BY <1>2, GiveTypes DEF WorkerGive
<1>3. ASSUME NEW ticks \in Timeout[w], WorkerTake(w, ticks)
      PROVE  TypeOK'
  <2>1. ticks \in Nat
    BY ThreadAssumption
  <2>2. CASE tokens > 0
    BY <1>3, <2>2, ThreadAssumption DEF WorkerTake
  <2>3. CASE tokens = 0
    <3>1. /\ waiters' = waiters \cup {slot[w]}
          /\ timed' = [timed EXCEPT ![w] = ticks # 0] /\ ttl' = [ttl EXCEPT ![w] = ticks]
      BY <1>3, <2>3 DEF WorkerTake
    <3>2. waiters' \subseteq Slot \cup {Kernel}
      BY <3>1
    <3>3. timed' \in [Thread -> BOOLEAN]
      BY <1>1, <3>1, (ticks # 0) \in BOOLEAN
    <3>4. ttl' \in [Thread -> Nat]
      BY <1>1, <2>1, <3>1
    <3>5. state' \in [Worker -> {"UNUSED", "READY", "RUNNING", "DONE", "BLOCKED"}]
      BY <1>3, <2>3 DEF WorkerTake
    <3>6. at' \in [Worker -> {"off", "body", "wait", "yield", "notify", "exit"}]
      BY <1>3, <2>3 DEF WorkerTake
    <3> QED
      BY <1>3, <2>3, <3>2, <3>3, <3>4, <3>5, <3>6 DEF WorkerTake
  <2> QED
    BY <2>2, <2>3, ThreadAssumption
<1>4. CASE WorkerResume(w)
  <2>1. EndWait(w, slot[w])
    BY <1>4 DEF WorkerResume
  <2>2. /\ tokens' \in 0..MaxTokens
        /\ waiters' \subseteq Slot \cup {Kernel}
        /\ timed' \in [Thread -> BOOLEAN] /\ ttl' \in [Thread -> Nat]
    BY <1>1, <2>1, EndWaitTypes
  <2> QED
    BY <1>4, <2>2 DEF WorkerResume
<1>5. CASE WorkerYield(w)
  <2>1. rr' \in Slot
    BY <1>5, RotateSlot DEF WorkerYield
  <2> QED
    BY <1>5, <2>1 DEF WorkerYield
<1>6. CASE WorkerPend(w)
  BY <1>6 DEF WorkerPend
<1>7. CASE WorkerPost(w)
  BY <1>7, ThreadAssumption DEF WorkerPost, QueueLen
<1>8. CASE WorkerNotify(w)
  BY <1>8 DEF WorkerNotify, KernelWake
<1>9. CASE WorkerExit(w)
  BY <1>9 DEF WorkerExit, Poll, KernelWake
<1> QED
  BY <1>2, <1>3, <1>4, <1>5, <1>6, <1>7, <1>8, <1>9 DEF WorkerStep

(* A pass of the kernel's wait keeps the types of what it changes.         *)
LEMMA WaitPassTypes ==
  ASSUME TypeOK, WaitPass
  PROVE  /\ state' \in [Worker -> {"UNUSED", "READY", "RUNNING", "DONE", "BLOCKED"}]
         /\ kready' \in BOOLEAN /\ rr' \in Slot /\ pended' \in BOOLEAN
         /\ kat' \in {"wait", "napping"}
<1>1. state' \in [Worker -> {"UNUSED", "READY", "RUNNING", "DONE", "BLOCKED"}]
  BY DueStates DEF WaitPass, TypeOK
<1> QED
  BY <1>1, RotateSlot DEF WaitPass, KernelBlock, TypeOK

(* A step of the kernel thread keeps the types.                            *)
LEMMA KernelTypes ==
  ASSUME TypeOK, KernelStep
  PROVE  TypeOK'
<1> USE DEF TypeOK, cpu, tcb, waitq, queue, clients
<1>1. Kernel \in Thread /\ Worker \subseteq Thread /\ Budgeted \subseteq Worker
  BY ThreadAssumption DEF Thread
<1>2. CASE DispatchOther
  BY <1>2, ThreadAssumption DEF DispatchOther
<1>3. CASE Dispatch
  <2>1. events' = events \/ (events > 0 /\ events' = events - 1)
    BY <1>3, Zenon DEF Dispatch
  <2>2. events' \in 0..QueueSize
    BY <2>1, ThreadAssumption
  <2>3. polled' \in BOOLEAN
    BY <1>3 DEF Dispatch
  <2> QED
    BY <1>3, <2>2, <2>3 DEF Dispatch
<1>4. CASE Drained \/ IdleAgain \/ IdleResume
  BY <1>4 DEF Drained, IdleAgain, IdleResume
<1>5. CASE IdleBlock
  <2>1. state' \in [Worker -> {"UNUSED", "READY", "RUNNING", "DONE", "BLOCKED"}]
    BY <1>5, DueStates DEF IdleBlock
  <2>2. rr' \in Slot
    BY <1>5, RotateSlot DEF IdleBlock, KernelBlock
  <2> QED
    BY <1>5, <2>1, <2>2 DEF IdleBlock, KernelBlock
<1>6. CASE IdleSleep
  <2>1. state' \in [Worker -> {"UNUSED", "READY", "RUNNING", "DONE", "BLOCKED"}]
    BY <1>6, DueStates DEF IdleSleep
  <2> QED
    BY <1>6, <2>1 DEF IdleSleep
<1>7. ASSUME NEW w \in Worker, Start(w)
      PROVE  TypeOK'
  <2>1. PICK s \in StartSlot(w) : /\ threads' = [threads EXCEPT ![s] = w]
                                  /\ slot' = [slot EXCEPT ![w] = s]
    BY <1>7 DEF Start
  <2>2. s \in Slot
    BY StartSlotSound
  <2> QED
    BY <1>1, <1>7, <2>1, <2>2 DEF Start
<1>8. ASSUME NEW w \in Worker, Forget(w)
      PROVE  TypeOK'
  BY <1>8 DEF Forget
<1>9. ASSUME NEW w \in Worker, Await(w)
      PROVE  TypeOK'
  BY <1>9 DEF Await
<1>10. ASSUME NEW w \in Worker, Join(w)
       PROVE  TypeOK'
  BY <1>10 DEF Join
<1>11. ASSUME NEW w \in Worker, NEW cycles \in 0..MaxGrant, BudgetGrant(w, cycles)
       PROVE  TypeOK'
  BY <1>11, ThreadAssumption DEF BudgetGrant
<1>12. ASSUME NEW w \in Worker, NEW cycles \in 0..MaxGrant, BudgetRefill(w, cycles)
       PROVE  TypeOK'
  BY <1>12, ThreadAssumption DEF BudgetRefill
<1>13. ASSUME NEW w \in Worker, BudgetUnlimited(w)
       PROVE  TypeOK'
  BY <1>13 DEF BudgetUnlimited
<1>14. CASE KernelGive
  BY <1>14, GiveTypes DEF KernelGive
<1>15. CASE AwaitAgain
  BY <1>15 DEF AwaitAgain
<1>16. CASE JoinAgain
  <2>1. state' \in [Worker -> {"UNUSED", "READY", "RUNNING", "DONE", "BLOCKED"}]
    BY <1>16, DueStates DEF JoinAgain
  <2>2. kready' \in BOOLEAN /\ rr' \in Slot /\ pended' \in BOOLEAN
    BY <1>16, RotateSlot DEF JoinAgain, KernelBlock
  <2> QED
    BY <1>16, <2>1, <2>2 DEF JoinAgain
<1>17. CASE Joined
  BY <1>17 DEF Joined
<1>18. ASSUME NEW ticks \in Timeout[Kernel], KernelTake(ticks)
       PROVE  TypeOK'
  <2>1. ticks \in Nat
    BY ThreadAssumption
  <2>2. CASE tokens > 0
    BY <1>18, <2>2, ThreadAssumption DEF KernelTake
  <2>3. CASE tokens = 0
    <3>1. /\ waiters' = waiters \cup {Kernel}
          /\ timed' = [timed EXCEPT ![Kernel] = ticks # 0] /\ ttl' = [ttl EXCEPT ![Kernel] = ticks]
      BY <1>18, <2>3 DEF KernelTake
    <3>2. waiters' \subseteq Slot \cup {Kernel}
      BY <3>1
    <3>3. timed' \in [Thread -> BOOLEAN]
      BY <1>1, <3>1, (ticks # 0) \in BOOLEAN
    <3>4. ttl' \in [Thread -> Nat]
      BY <1>1, <2>1, <3>1
    <3>5. WaitPass
      BY <1>18, <2>3 DEF KernelTake
    <3> QED
      BY <1>18, <2>3, <3>2, <3>3, <3>4, <3>5, WaitPassTypes DEF KernelTake
  <2> QED
    BY <2>2, <2>3, ThreadAssumption
<1>19. CASE WaitAgain
  BY <1>19, WaitPassTypes DEF WaitAgain
<1>20. CASE WaitReturn
  <2>1. /\ tokens' \in 0..MaxTokens
        /\ waiters' \subseteq Slot \cup {Kernel}
        /\ timed' \in [Thread -> BOOLEAN] /\ ttl' \in [Thread -> Nat]
    BY <1>1, <1>20, EndWaitTypes DEF WaitReturn
  <2> QED
    BY <1>20, <2>1 DEF WaitReturn
<1>21. CASE Return
  BY <1>21 DEF Return
<1> QED
  BY <1>1, <1>2, <1>3, <1>4, <1>5, <1>6, <1>7, <1>8, <1>9, <1>10, <1>11, <1>12,
     <1>13, <1>14, <1>15, <1>16, <1>17, <1>18, <1>19, <1>20, <1>21 DEF KernelStep

(* An interrupt keeps the types.                                           *)
LEMMA InterruptTypes ==
  ASSUME TypeOK, Interrupt
  PROVE  TypeOK'
<1> USE DEF TypeOK, cpu, tcb, waitq, queue, clients
<1>1. CASE Tick
  BY <1>1 DEF Tick, KernelWake, WakeCPU
<1>2. CASE InterruptPost
  BY <1>2, ThreadAssumption DEF InterruptPost, QueueLen, KernelWake, WakeCPU
<1>3. CASE InterruptGive
  <2>1. kat' \in {"loop", "idle", "handed", "asleep", "body", "join", "wait", "napping"}
    BY <1>3 DEF InterruptGive, WakeCPU
  <2> QED
    BY <1>3, <2>1, GiveTypes DEF InterruptGive
<1> QED
  BY <1>1, <1>2, <1>3 DEF Interrupt

(* Every step keeps the types.                                             *)
LEMMA TypeStep ==
  ASSUME TypeOK, [Next]_vars
  PROVE  TypeOK'
<1>1. CASE Switch
  <2>1. UNCHANGED <<threads, kready, rr, slot, waiter, waiters, timed, ttl, events,
                    polled, refused, tokens, awaited, joinee, kat, at>>
        /\ pended' = FALSE
    BY <1>1 DEF Switch, waitq, queue, clients
  <2> QED
    BY <1>1, <2>1, SwitchEffect DEF TypeOK
<1>2. CASE UNCHANGED vars
  BY <1>2 DEF vars, cpu, tcb, waitq, queue, clients, TypeOK
<1> QED
  BY <1>1, <1>2, WorkerTypes, KernelTypes, InterruptTypes DEF Next

(* Every variable keeps its type.                                          *)
THEOREM TypeCorrect == Spec => []TypeOK
BY TypeInit, TypeStep, PTL DEF Spec

-----------------------------------------------------------------------------
(* Slots and lives.                                                        *)

\* No worker has two slots; one that is not done has the slot it holds; and
\* it is done exactly when it takes no step of its function.
SlotInv ==
  /\ \A s, r \in Slot : threads[s] # NULL /\ threads[s] = threads[r] => s = r
  /\ \A w \in Worker : ~IsDone(w) => threads[slot[w]] = w
  /\ \A w \in Worker : at[w] \in {"off", "exit"} <=> IsDone(w)

(* Making due workers ready ends no life and starts none.                  *)
LEMMA DueLives ==
  ASSUME TypeOK, state' = WakeDue(state)
  PROVE  \A w \in Worker : IsDone(w)' <=> IsDone(w)
BY DueStates DEF IsDone, TypeOK

(* Only the exit of a worker, its start and its being forgotten change what  *)
(* SlotInv is about.                                                       *)
LEMMA WorkerLives ==
  ASSUME TypeOK, SlotInv, NEW w \in Worker, WorkerStep(w), ~WorkerExit(w)
  PROVE  /\ UNCHANGED <<threads, slot>>
         /\ \A v \in Worker : IsDone(v)' <=> IsDone(v)
         /\ \A v \in Worker : at'[v] \in {"off", "exit"} <=> at[v] \in {"off", "exit"}
<1> USE DEF cpu, tcb, waitq, queue, clients, TypeOK
<1>1. CASE WorkerGive(w)
  BY <1>1, GiveEffect DEF WorkerGive, Give, IsDone
<1>2. ASSUME NEW ticks \in Timeout[w], WorkerTake(w, ticks)
      PROVE  /\ UNCHANGED <<threads, slot>>
             /\ \A v \in Worker : IsDone(v)' <=> IsDone(v)
             /\ \A v \in Worker : at'[v] \in {"off", "exit"} <=> at[v] \in {"off", "exit"}
  <2>1. at[w] = "body" /\ ~IsDone(w)
    BY <1>2 DEF WorkerTake, SlotInv
  <2>2. CASE tokens > 0
    BY <1>2, <2>2 DEF WorkerTake, IsDone
  <2>3. CASE ~(tokens > 0)
    BY <1>2, <2>1, <2>3 DEF WorkerTake, IsDone
  <2> QED
    BY <2>2, <2>3
<1>3. CASE WorkerResume(w)
  BY <1>3 DEF WorkerResume, IsDone
<1>4. CASE WorkerYield(w)
  BY <1>4 DEF WorkerYield, IsDone
<1>5. CASE WorkerPend(w)
  BY <1>5 DEF WorkerPend, IsDone
<1>6. CASE WorkerPost(w)
  BY <1>6 DEF WorkerPost, IsDone
<1>7. CASE WorkerNotify(w)
  BY <1>7 DEF WorkerNotify, IsDone
<1> QED
  BY <1>1, <1>2, <1>3, <1>4, <1>5, <1>6, <1>7 DEF WorkerStep

(* Of the kernel thread's steps, only Start and Forget touch lives and slots. *)
LEMMA KernelLives ==
  ASSUME TypeOK, KernelStep, ~\E w \in Worker : Start(w) \/ Forget(w)
  PROVE  /\ UNCHANGED <<threads, slot, at>>
         /\ \A v \in Worker : IsDone(v)' <=> IsDone(v)
<1> USE DEF cpu, tcb, waitq, queue, clients
<1>1. CASE DispatchOther \/ Dispatch \/ Drained \/ IdleAgain \/ IdleResume
  BY <1>1 DEF DispatchOther, Dispatch, Drained, IdleAgain, IdleResume, IsDone
<1>2. CASE IdleBlock \/ IdleSleep \/ JoinAgain
  BY <1>2, DueLives DEF IdleBlock, IdleSleep, JoinAgain, KernelBlock
<1>3. CASE \E w \in Worker : Await(w) \/ Join(w)
  BY <1>3 DEF Await, Join, IsDone
<1>4. CASE \E w \in Budgeted : \/ \E cycles \in 0..MaxGrant :
                                    BudgetGrant(w, cycles) \/ BudgetRefill(w, cycles)
                               \/ BudgetUnlimited(w)
  BY <1>4 DEF BudgetGrant, BudgetRefill, BudgetUnlimited, IsDone
<1>5. CASE KernelGive
  BY <1>5, GiveEffect DEF KernelGive, Give, IsDone
<1>6. CASE AwaitAgain \/ Joined \/ WaitReturn \/ Return
  BY <1>6 DEF AwaitAgain, Joined, WaitReturn, Return, IsDone
<1>7. ASSUME NEW ticks \in Timeout[Kernel], KernelTake(ticks)
      PROVE  /\ UNCHANGED <<threads, slot, at>>
             /\ \A v \in Worker : IsDone(v)' <=> IsDone(v)
  <2>1. UNCHANGED <<threads, slot, at>> /\ (UNCHANGED state \/ WaitPass)
    BY <1>7 DEF KernelTake
  <2> QED
    BY <2>1, DueLives DEF WaitPass, IsDone
<1>8. CASE WaitAgain
  BY <1>8, DueLives DEF WaitAgain, WaitPass
<1> QED
  BY <1>1, <1>2, <1>3, <1>4, <1>5, <1>6, <1>7, <1>8 DEF KernelStep

(* No step but an exit, a start and a forget touches lives and slots.       *)
LEMMA LifeFrame ==
  ASSUME TypeOK, SlotInv, [Next]_vars,
         ~\E w \in Worker : WorkerExit(w) \/ Start(w) \/ Forget(w)
  PROVE  /\ UNCHANGED <<threads, slot>>
         /\ \A v \in Worker : IsDone(v)' <=> IsDone(v)
         /\ \A v \in Worker : at'[v] \in {"off", "exit"} <=> at[v] \in {"off", "exit"}
<1> USE DEF cpu, tcb, waitq, queue, clients
<1>1. CASE Switch
  BY <1>1, SwitchEffect DEF Switch
<1>2. CASE Interrupt
  <2>1. CASE Tick \/ InterruptPost
    BY <2>1 DEF Tick, InterruptPost, IsDone
  <2>2. CASE InterruptGive
    BY <2>2, GiveEffect DEF InterruptGive, Give, IsDone
  <2> QED
    BY <1>2, <2>1, <2>2 DEF Interrupt
<1>3. CASE UNCHANGED vars
  BY <1>3 DEF vars, IsDone
<1> QED
  BY <1>1, <1>2, <1>3, WorkerLives, KernelLives DEF Next

(* Initially no slot is taken and every worker is unused.                   *)
LEMMA SlotInit == ASSUME Init PROVE SlotInv
BY DEF Init, SlotInv, IsDone

(* Every step keeps slots and lives in order.                               *)
LEMMA SlotStep ==
  ASSUME TypeOK, SlotInv, [Next]_vars
  PROVE  SlotInv'
<1>1. ASSUME NEW w \in Worker, WorkerExit(w)
      PROVE  SlotInv'
  BY <1>1 DEF WorkerExit, SlotInv, IsDone, TypeOK, cpu, tcb
<1>2. ASSUME NEW w \in Worker, Start(w)
      PROVE  SlotInv'
  <2>1. PICK s \in StartSlot(w) : /\ threads' = [threads EXCEPT ![s] = w]
                                  /\ slot' = [slot EXCEPT ![w] = s]
    BY <1>2 DEF Start
  <2>2. /\ s \in Slot
        /\ \/ threads[s] = w
           \/ /\ \A r \in Slot : threads[r] # w
              /\ threads[s] = NULL \/ state[threads[s]] = "DONE"
    BY StartSlotSound
  <2>3. /\ state' = [state EXCEPT ![w] = "READY"] /\ at' = [at EXCEPT ![w] = "body"]
        /\ IsDone(w)
    BY <1>2 DEF Start
  <2>4. \A r, q \in Slot : threads'[r] # NULL /\ threads'[r] = threads'[q] => r = q
    BY <2>1, <2>2 DEF SlotInv, TypeOK
  <2>5. ASSUME NEW v \in Worker, ~IsDone(v)'
        PROVE  threads'[slot'[v]] = v
    <3>1. CASE v = w
      BY <2>1, <2>2, <3>1 DEF TypeOK
    <3>2. CASE v # w
      <4>1. ~IsDone(v) /\ slot'[v] = slot[v]
        BY <2>1, <2>3, <2>5, <3>2 DEF IsDone, TypeOK
      <4>2. threads[slot[v]] = v /\ slot[v] \in Slot
        BY <4>1 DEF SlotInv, TypeOK
      <4>3. slot[v] # s
        BY <2>2, <3>2, <4>1, <4>2, ThreadAssumption DEF IsDone
      <4> QED
        BY <2>1, <2>2, <4>1, <4>2, <4>3 DEF TypeOK
    <3> QED
      BY <3>1, <3>2
  <2>6. \A v \in Worker : at'[v] \in {"off", "exit"} <=> IsDone(v)'
    BY <2>3 DEF SlotInv, IsDone, TypeOK
  <2> QED
    BY <2>4, <2>5, <2>6 DEF SlotInv
<1>3. ASSUME NEW w \in Worker, Forget(w)
      PROVE  SlotInv'
  <2>1. /\ threads' = [s \in Slot |-> IF threads[s] = w THEN NULL ELSE threads[s]]
        /\ UNCHANGED <<state, slot, at>> /\ IsDone(w)
    BY <1>3 DEF Forget, tcb
  <2> QED
    BY <2>1 DEF SlotInv, IsDone, TypeOK
<1>4. CASE ~\E w \in Worker : WorkerExit(w) \/ Start(w) \/ Forget(w)
  BY <1>4, LifeFrame DEF SlotInv
<1> QED
  BY <1>1, <1>2, <1>3, <1>4

(* A worker that is neither done nor unused keeps a slot of its own.       *)
THEOREM SlotsKept == Spec => []SlotKept
<1>1. ASSUME TypeOK, SlotInv
      PROVE  SlotKept
  <2> SUFFICES ASSUME NEW w \in Worker, state[w] \in {"READY", "RUNNING", "BLOCKED"}
               PROVE  /\ threads[slot[w]] = w
                      /\ \A s \in Slot : threads[s] = w => s = slot[w]
    BY DEF SlotKept
  <2>1. ~IsDone(w)
    BY DEF IsDone
  <2>2. threads[slot[w]] = w /\ slot[w] \in Slot
    BY <1>1, <2>1 DEF SlotInv, TypeOK
  <2>3. \A s \in Slot : threads[s] = w => s = slot[w]
    BY <1>1, <2>2, ThreadAssumption DEF SlotInv
  <2> QED
    BY <2>2, <2>3
<1> QED
  BY <1>1, TypeInit, TypeStep, SlotInit, SlotStep, PTL DEF Spec

-----------------------------------------------------------------------------
(* Who is on the CPU.                                                      *)

(* No step of a thread or an interrupt gives the CPU to another thread, or   *)
(* takes back a pended switch; the kernel thread's steps make no worker      *)
(* RUNNING.                                                                *)
LEMMA KernelStates ==
  ASSUME TypeOK, KernelStep
  PROVE  /\ current = Kernel /\ ~pended /\ current' = Kernel
         /\ \A w \in Worker : state'[w] = "RUNNING" => state[w] = "RUNNING"
<1> USE DEF KernelAt, Runs, Body, cpu, tcb
<1> DEFINE Goal == /\ current = Kernel /\ ~pended /\ current' = Kernel
                   /\ \A w \in Worker : state'[w] = "RUNNING" => state[w] = "RUNNING"
<1>1. ASSUME state' = WakeDue(state)
      PROVE  \A w \in Worker : state'[w] = "RUNNING" => state[w] = "RUNNING"
  BY <1>1, DueStates DEF TypeOK
<1>2. CASE DispatchOther \/ Dispatch \/ Drained \/ IdleAgain \/ IdleResume
  BY <1>2 DEF DispatchOther, Dispatch, Drained, IdleAgain, IdleResume
<1>3. CASE IdleBlock \/ IdleSleep \/ JoinAgain
  BY <1>1, <1>3 DEF IdleBlock, IdleSleep, JoinAgain
<1>4. ASSUME NEW w \in Worker, Start(w) \/ Forget(w) \/ Await(w) \/ Join(w)
      PROVE  Goal
  <2>1. CASE Start(w)
    BY <2>1 DEF Start, TypeOK
  <2> QED
    BY <1>4, <2>1 DEF Forget, Await, Join
<1>5. CASE \E w \in Budgeted : \/ \E cycles \in 0..MaxGrant :
                                    BudgetGrant(w, cycles) \/ BudgetRefill(w, cycles)
                               \/ BudgetUnlimited(w)
  BY <1>5 DEF BudgetGrant, BudgetRefill, BudgetUnlimited
<1>6. CASE KernelGive
  BY <1>6, GiveEffect DEF KernelGive, Give
<1>7. CASE AwaitAgain \/ Joined \/ WaitReturn \/ Return
  BY <1>7 DEF AwaitAgain, Joined, WaitReturn, Return
<1>8. ASSUME NEW ticks \in Timeout[Kernel], KernelTake(ticks)
      PROVE  Goal
  <2>1. /\ current = Kernel /\ ~pended /\ current' = Kernel
        /\ UNCHANGED state \/ WaitPass
    BY <1>8 DEF KernelTake
  <2> QED
    BY <1>1, <2>1 DEF WaitPass
<1>9. CASE WaitAgain
  BY <1>1, <1>9 DEF WaitAgain, WaitPass
<1> QED
  BY <1>2, <1>3, <1>4, <1>5, <1>6, <1>7, <1>8, <1>9 DEF KernelStep

(* Initially the kernel thread has the CPU.                                 *)
LEMMA RunningInit == ASSUME Init PROVE RunningSound
BY ThreadAssumption DEF Init, RunningSound, Runs

(* Every step keeps RUNNING to the worker on the CPU.                       *)
LEMMA RunningStep ==
  ASSUME TypeOK, SlotInv, RunningSound, [Next]_vars
  PROVE  RunningSound'
<1> USE DEF RunningSound, Runs, cpu, tcb
<1>1. CASE Switch
  <2>1. pended' = FALSE /\ UNCHANGED at
    BY <1>1 DEF Switch
  <2>2. ASSUME NEW w \in Worker, state'[w] = "RUNNING"
        PROVE  current' = w
    BY <1>1, <2>2, SwitchEffect
  <2>3. ASSUME NEW w \in Worker, current' = w
        PROVE  state'[w] = "RUNNING"
    BY <1>1, <2>3, SwitchEffect, ThreadAssumption
  <2> QED
    BY <2>2, <2>3
<1>2. ASSUME NEW w \in Worker, WorkerStep(w)
      PROVE  RunningSound'
  <2>1. CASE WorkerGive(w)
    BY <2>1, GiveEffect DEF WorkerGive, Give
  <2>2. ASSUME NEW ticks \in Timeout[w], WorkerTake(w, ticks)
        PROVE  RunningSound'
    <3>1. CASE tokens > 0
      BY <2>2, <3>1 DEF WorkerTake
    <3>2. CASE ~(tokens > 0)
      BY <2>2, <3>2 DEF WorkerTake, TypeOK
    <3> QED
      BY <3>1, <3>2
  <2>3. CASE WorkerResume(w)
    BY <2>3 DEF WorkerResume, TypeOK
  <2>4. CASE WorkerYield(w)
    BY <2>4 DEF WorkerYield, TypeOK
  <2>5. CASE WorkerPend(w)
    BY <2>5 DEF WorkerPend, TypeOK
  <2>6. CASE WorkerPost(w)
    BY <2>6 DEF WorkerPost, TypeOK
  <2>7. CASE WorkerNotify(w)
    BY <2>7 DEF WorkerNotify, KernelWake, TypeOK
  <2>8. CASE WorkerExit(w)
    BY <2>8 DEF WorkerExit, Poll, KernelWake, TypeOK
  <2> QED
    BY <1>2, <2>1, <2>2, <2>3, <2>4, <2>5, <2>6, <2>7, <2>8 DEF WorkerStep
<1>3. CASE KernelStep
  BY <1>3, KernelStates, ThreadAssumption
<1>4. CASE Interrupt
  <2>1. CASE Tick \/ InterruptPost
    BY <2>1 DEF Tick, InterruptPost, KernelWake
  <2>2. CASE InterruptGive
    BY <2>2, GiveEffect DEF InterruptGive, Give
  <2> QED
    BY <1>4, <2>1, <2>2 DEF Interrupt
<1>5. CASE UNCHANGED vars
  BY <1>5 DEF vars
<1> QED
  BY <1>1, <1>2, <1>3, <1>4, <1>5 DEF Next

(* The worker on the CPU is the only one RUNNING, and has not blocked.     *)
THEOREM RunningRight == Spec => []RunningSound
BY TypeInit, TypeStep, SlotInit, SlotStep, RunningInit, RunningStep, PTL DEF Spec

-----------------------------------------------------------------------------
(* The bits of the wait queue.                                             *)

(* Initially no bit is set.                                                 *)
LEMMA BitsInit == ASSUME Init PROVE BitsSound
BY DEF Init, BitsSound

(* A step that sets no bit, moves no slot and lets no thread out of its wait *)
(* keeps every bit's thread.                                               *)
LEMMA BitsFrame ==
  ASSUME BitsSound, waiters' \subseteq waiters, UNCHANGED <<threads, slot>>,
         \A w \in Worker : at[w] = "wait" => at'[w] = "wait",
         kat \in {"wait", "napping"} => kat' \in {"wait", "napping"}
  PROVE  BitsSound'
BY DEF BitsSound

(* A step of a worker sets the bit of its own slot, or leaves none over.    *)
LEMMA BitsWorker ==
  ASSUME TypeOK, SlotInv, BitsSound, NEW w \in Worker, WorkerStep(w)
  PROVE  BitsSound'
<1> USE DEF cpu, tcb, waitq, clients
<1>1. CASE WorkerGive(w)
  BY <1>1, GiveEffect, BitsFrame DEF WorkerGive, Give
<1>2. ASSUME NEW ticks \in Timeout[w], WorkerTake(w, ticks)
      PROVE  BitsSound'
  <2>1. at[w] = "body" /\ UNCHANGED <<threads, slot, kat>>
    BY <1>2 DEF WorkerTake
  <2>2. CASE tokens > 0
    BY <1>2, <2>1, <2>2, BitsFrame DEF WorkerTake
  <2>3. CASE ~(tokens > 0)
    <3>1. waiters' = waiters \cup {slot[w]} /\ at' = [at EXCEPT ![w] = "wait"]
      BY <1>2, <2>3 DEF WorkerTake
    <3>2. threads[slot[w]] = w /\ slot[w] \in Slot
      BY <2>1 DEF SlotInv, TypeOK
    <3>3. Kernel \in waiters' => Kernel \in waiters
      BY <3>1, <3>2, ThreadAssumption DEF Slot
    <3>4. ASSUME NEW s \in waiters' \cap Slot
          PROVE  \E v \in Worker : threads[s] = v /\ slot[v] = s /\ at'[v] = "wait"
      <4>1. CASE s = slot[w]
        BY <3>1, <3>2, <4>1 DEF TypeOK
      <4>2. CASE s # slot[w]
        BY <2>1, <3>1, <3>4, <4>2 DEF BitsSound, TypeOK
      <4> QED
        BY <4>1, <4>2
    <3> QED
      BY <2>1, <3>3, <3>4 DEF BitsSound
  <2> QED
    BY <2>2, <2>3
<1>3. CASE WorkerResume(w)
  <2>1. /\ waiters' = waiters \ {slot[w]} /\ at' = [at EXCEPT ![w] = "body"]
        /\ UNCHANGED <<threads, slot, kat>>
    BY <1>3 DEF WorkerResume, EndWait
  <2> QED
    BY <2>1 DEF BitsSound, TypeOK
<1>4. CASE WorkerYield(w)
  BY <1>4, BitsFrame DEF WorkerYield, TypeOK
<1>5. CASE WorkerPend(w)
  BY <1>5, BitsFrame DEF WorkerPend, TypeOK
<1>6. CASE WorkerPost(w)
  BY <1>6, BitsFrame DEF WorkerPost, TypeOK
<1>7. CASE WorkerNotify(w)
  BY <1>7, BitsFrame DEF WorkerNotify, TypeOK
<1>8. CASE WorkerExit(w)
  BY <1>8, BitsFrame DEF WorkerExit, TypeOK
<1> QED
  BY <1>1, <1>2, <1>3, <1>4, <1>5, <1>6, <1>7, <1>8 DEF WorkerStep

(* A step of the kernel thread leaves no bit over: a start takes no slot of a *)
(* worker in its wait.                                                      *)
LEMMA BitsKernel ==
  ASSUME TypeOK, SlotInv, BitsSound, KernelStep
  PROVE  BitsSound'
<1> USE DEF KernelAt, Body, cpu, tcb, waitq, clients
<1>1. CASE DispatchOther \/ Dispatch \/ Drained \/ IdleAgain \/ IdleResume
  BY <1>1, BitsFrame DEF DispatchOther, Dispatch, Drained, IdleAgain, IdleResume
<1>2. CASE IdleBlock \/ IdleSleep \/ JoinAgain
  BY <1>2, BitsFrame DEF IdleBlock, IdleSleep, JoinAgain, KernelBlock
<1>3. ASSUME NEW w \in Worker, Start(w)
      PROVE  BitsSound'
  <2>1. PICK s \in StartSlot(w) : /\ threads' = [threads EXCEPT ![s] = w]
                                  /\ slot' = [slot EXCEPT ![w] = s]
    BY <1>3 DEF Start
  <2>2. /\ s \in Slot
        /\ \/ threads[s] = w
           \/ threads[s] = NULL \/ state[threads[s]] = "DONE"
    BY StartSlotSound
  <2>3. /\ at' = [at EXCEPT ![w] = "body"] /\ IsDone(w)
        /\ UNCHANGED <<waiters, kat>>
    BY <1>3 DEF Start
  <2>4. ASSUME NEW r \in waiters' \cap Slot
        PROVE  \E v \in Worker : threads'[r] = v /\ slot'[v] = r /\ at'[v] = "wait"
    <3>1. PICK v \in Worker : threads[r] = v /\ slot[v] = r /\ at[v] = "wait"
      BY <2>3, <2>4 DEF BitsSound
    <3>2. ~IsDone(v)
      BY <3>1 DEF SlotInv
    <3>3. v # w
      BY <2>3, <3>2
    <3>4. r # s
      BY <2>2, <3>1, <3>2, <3>3, ThreadAssumption DEF IsDone
    <3> QED
      BY <2>1, <2>2, <2>3, <2>4, <3>1, <3>3, <3>4 DEF TypeOK
  <2> QED
    BY <2>3, <2>4 DEF BitsSound
<1>4. ASSUME NEW w \in Worker, Forget(w)
      PROVE  BitsSound'
  <2>1. /\ threads' = [s \in Slot |-> IF threads[s] = w THEN NULL ELSE threads[s]]
        /\ IsDone(w) /\ UNCHANGED <<waiters, slot, at, kat>>
    BY <1>4 DEF Forget
  <2>2. at[w] # "wait"
    BY <2>1 DEF SlotInv
  <2> QED
    BY <2>1, <2>2 DEF BitsSound
<1>5. CASE \E w \in Worker : Await(w) \/ Join(w)
  BY <1>5, BitsFrame DEF Await, Join
<1>6. CASE \E w \in Budgeted : \/ \E cycles \in 0..MaxGrant :
                                    BudgetGrant(w, cycles) \/ BudgetRefill(w, cycles)
                               \/ BudgetUnlimited(w)
  BY <1>6, BitsFrame DEF BudgetGrant, BudgetRefill, BudgetUnlimited
<1>7. CASE KernelGive
  BY <1>7, GiveEffect, BitsFrame DEF KernelGive, Give
<1>8. CASE AwaitAgain \/ Joined \/ Return
  BY <1>8, BitsFrame DEF AwaitAgain, Joined, Return
<1>9. CASE WaitReturn
  <2>1. /\ waiters' = waiters \ {Kernel}
        /\ UNCHANGED <<threads, slot, at>>
    BY <1>9 DEF WaitReturn, EndWait
  <2> QED
    BY <2>1 DEF BitsSound
<1>10. ASSUME NEW ticks \in Timeout[Kernel], KernelTake(ticks)
       PROVE  BitsSound'
  <2>1. UNCHANGED <<threads, slot, at>>
    BY <1>10 DEF KernelTake
  <2>2. CASE tokens > 0
    BY <1>10, <2>1, <2>2, BitsFrame DEF KernelTake
  <2>3. CASE ~(tokens > 0)
    <3>1. waiters' = waiters \cup {Kernel} /\ kat' \in {"wait", "napping"}
      BY <1>10, <2>3 DEF KernelTake, WaitPass
    <3>2. waiters' \cap Slot = waiters \cap Slot
      BY <3>1, ThreadAssumption DEF Slot
    <3> QED
      BY <2>1, <3>1, <3>2 DEF BitsSound
  <2> QED
    BY <2>2, <2>3
<1>11. CASE WaitAgain
  BY <1>11, BitsFrame DEF WaitAgain, WaitPass
<1> QED
  BY <1>1, <1>2, <1>3, <1>4, <1>5, <1>6, <1>7, <1>8, <1>9, <1>10, <1>11
  DEF KernelStep

(* Every step keeps the bits to threads in their wait.                      *)
LEMMA BitsStep ==
  ASSUME TypeOK, SlotInv, BitsSound, [Next]_vars
  PROVE  BitsSound'
<1> USE DEF cpu, tcb, waitq
<1>1. CASE Switch
  BY <1>1, BitsFrame DEF Switch
<1>2. CASE Interrupt
  <2>1. CASE Tick \/ InterruptPost
    BY <2>1, BitsFrame DEF Tick, InterruptPost, WakeCPU
  <2>2. CASE InterruptGive
    BY <2>2, GiveEffect, BitsFrame DEF InterruptGive, Give, WakeCPU
  <2> QED
    BY <1>2, <2>1, <2>2 DEF Interrupt
<1>3. CASE UNCHANGED vars
  BY <1>3, BitsFrame DEF vars
<1> QED
  BY <1>1, <1>2, <1>3, BitsWorker, BitsKernel DEF Next

(* A set bit of the wait queue is of a thread in its wait.                 *)
THEOREM BitsRight == Spec => []BitsSound
BY TypeInit, TypeStep, SlotInit, SlotStep, BitsInit, BitsStep, PTL DEF Spec

-----------------------------------------------------------------------------
(* Budgets.                                                                *)

\* The worker on the CPU took it with cycles left.
Solvent == current # Kernel /\ left[current] # NULL => left[current] >= 0

(* Initially no worker has a budget.                                        *)
LEMMA BudgetInit == ASSUME Init PROVE BudgetBound /\ Solvent
BY DEF Init, BudgetBound, Solvent

(* Every step keeps the bound: only the switch charges, and it charges the  *)
(* worker that took the CPU with cycles left.                               *)
LEMMA BudgetStep ==
  ASSUME TypeOK, BudgetBound, Solvent, [Next]_vars
  PROVE  BudgetBound' /\ Solvent'
<1> USE DEF cpu, tcb, waitq, queue, clients
<1>1. CASE Switch
  <2>1. Solvent'
    <3> SUFFICES ASSUME current' # Kernel, left'[current'] # NULL
                 PROVE  left'[current'] >= 0
      BY DEF Solvent
    <3>1. current' \in Worker
      BY <1>1, SwitchEffect DEF Thread
    <3>2. left'[current'] \in Int /\ left'[current'] > 0
      BY <1>1, <3>1, SwitchEffect
    <3> QED
      BY <3>2
  <2>2. ASSUME NEW w \in Worker, left'[w] # NULL
        PROVE  left'[w] >= -MaxTenure
    <3>1. \/ left'[w] = left[w]
          \/ /\ w = current /\ left[w] # NULL
             /\ \E tenure \in 0..MaxTenure : left'[w] = left[w] - tenure
      BY <1>1, SwitchEffect
    <3>2. CASE left'[w] = left[w]
      BY <2>2, <3>2 DEF BudgetBound
    <3>3. CASE /\ w = current /\ left[w] # NULL
               /\ \E tenure \in 0..MaxTenure : left'[w] = left[w] - tenure
      <4>1. PICK tenure \in 0..MaxTenure : left'[w] = left[w] - tenure
        BY <3>3
      <4>2. left[w] \in Int /\ left[w] >= 0
        BY <3>3, ThreadAssumption DEF TypeOK, Solvent
      <4> QED
        BY <4>1, <4>2, ThreadAssumption
    <3> QED
      BY <3>1, <3>2, <3>3
  <2> QED
    BY <2>1, <2>2 DEF BudgetBound
<1>2. ASSUME NEW w \in Worker, NEW cycles \in 0..MaxGrant,
             BudgetGrant(w, cycles) \/ BudgetRefill(w, cycles) \/ BudgetUnlimited(w)
      PROVE  BudgetBound' /\ Solvent'
  <2>1. current' = Kernel
    BY <1>2 DEF BudgetGrant, BudgetRefill, BudgetUnlimited, Body, KernelAt, Runs
  <2>2. \A v \in Worker : v # w => left'[v] = left[v]
    BY <1>2 DEF BudgetGrant, BudgetRefill, BudgetUnlimited, TypeOK
  <2>3. left'[w] # NULL => left'[w] >= -MaxTenure
    <3>1. CASE BudgetGrant(w, cycles)
      BY <3>1, ThreadAssumption DEF BudgetGrant, TypeOK
    <3>2. CASE BudgetRefill(w, cycles)
      <4>1. left'[w] = left[w] + cycles /\ left[w] \in Int /\ left[w] >= -MaxTenure
        BY <3>2 DEF BudgetRefill, TypeOK, BudgetBound
      <4> QED
        BY <4>1, ThreadAssumption
    <3>3. CASE BudgetUnlimited(w)
      BY <3>3 DEF BudgetUnlimited, TypeOK
    <3> QED
      BY <1>2, <3>1, <3>2, <3>3
  <2> QED
    BY <2>1, <2>2, <2>3 DEF BudgetBound, Solvent
<1>3. CASE UNCHANGED <<current, left>>
  BY <1>3 DEF BudgetBound, Solvent
<1>4. ASSUME NEW w \in Worker, WorkerStep(w)
      PROVE  UNCHANGED <<current, left>>
  BY <1>4 DEF WorkerStep, WorkerGive, Give, WorkerTake, WorkerResume, WorkerYield,
     WorkerPend, WorkerPost, WorkerNotify, WorkerExit
<1>5. CASE KernelStep
  <2>1. ASSUME NEW w \in Worker, Start(w) \/ Forget(w) \/ Await(w) \/ Join(w)
        PROVE  UNCHANGED <<current, left>>
    BY <2>1 DEF Start, Forget, Await, Join
  <2>2. CASE DispatchOther \/ Dispatch \/ Drained \/ IdleAgain \/ IdleResume
    BY <1>3, <2>2 DEF DispatchOther, Dispatch, Drained, IdleAgain, IdleResume
  <2>3. CASE IdleBlock \/ IdleSleep \/ JoinAgain
    BY <1>3, <2>3 DEF IdleBlock, IdleSleep, JoinAgain
  <2>4. CASE KernelGive \/ AwaitAgain \/ Joined \/ WaitReturn \/ Return
    BY <1>3, <2>4 DEF KernelGive, Give, AwaitAgain, Joined, WaitReturn, Return
  <2>5. CASE WaitAgain \/ \E ticks \in Timeout[Kernel] : KernelTake(ticks)
    BY <1>3, <2>5 DEF KernelTake, WaitAgain
  <2> QED
    BY <1>2, <1>3, <1>5, <2>1, <2>2, <2>3, <2>4, <2>5, ThreadAssumption DEF KernelStep
<1>6. CASE Interrupt
  BY <1>3, <1>6 DEF Interrupt, Tick, InterruptPost, InterruptGive, Give
<1> QED
  BY <1>1, <1>3, <1>4, <1>5, <1>6 DEF Next, vars

(* A worker overruns its budget by at most one tenure.                     *)
THEOREM BudgetsBound == Spec => []BudgetBound
BY TypeInit, TypeStep, BudgetInit, BudgetStep, PTL DEF Spec

-----------------------------------------------------------------------------
(* Events and the idle section.                                            *)

(* Initially the kernel thread is in its loop.                              *)
LEMMA EventInit == ASSUME Init PROVE EventHeard
BY DEF Init, EventHeard

(* What no step outside the idle section does: let the kernel thread into    *)
(* it, take its readiness, queue an event without a wake or the notice of    *)
(* one, or drop such a notice.                                             *)
LEMMA EventFrame ==
  ASSUME EventHeard,
         kat' \in {"handed", "asleep"} => kat \in {"handed", "asleep"},
         kready => kready',
         Pending' => Pending \/ kready',
         \A w \in Worker : at[w] = "notify" => at'[w] = "notify" \/ kready'
  PROVE  EventHeard'
BY DEF EventHeard

(* A post of a worker leaves the notice the wake follows from.              *)
LEMMA EventWorker ==
  ASSUME TypeOK, SlotInv, EventHeard, NEW w \in Worker, WorkerStep(w)
  PROVE  EventHeard'
<1> USE DEF cpu, tcb, queue, clients
<1>1. CASE WorkerGive(w)
  BY <1>1, GiveEffect, EventFrame DEF WorkerGive, Give, Pending
<1>2. ASSUME NEW ticks \in Timeout[w], WorkerTake(w, ticks)
      PROVE  EventHeard'
  <2>1. /\ at[w] = "body" /\ at' \in {at, [at EXCEPT ![w] = "wait"]}
        /\ UNCHANGED <<kready, kat, events, polled>>
    BY <1>2 DEF WorkerTake
  <2> QED
    BY <2>1, EventFrame DEF Pending, TypeOK
<1>3. CASE WorkerResume(w)
  BY <1>3, EventFrame DEF WorkerResume, Pending, TypeOK
<1>4. CASE WorkerYield(w)
  BY <1>4, EventFrame DEF WorkerYield, Pending, TypeOK
<1>5. CASE WorkerPend(w)
  BY <1>5, EventFrame DEF WorkerPend, Pending, TypeOK
<1>6. CASE WorkerPost(w)
  BY <1>6 DEF WorkerPost, EventHeard, TypeOK
<1>7. CASE WorkerNotify(w)
  BY <1>7, EventFrame DEF WorkerNotify, KernelWake, Pending, TypeOK
<1>8. CASE WorkerExit(w)
  <2>1. /\ at[w] = "body" /\ at' = [at EXCEPT ![w] = "exit"] /\ UNCHANGED <<kat, events>>
        /\ (UNCHANGED <<polled, kready>> \/ kready' = TRUE)
    BY <1>8 DEF WorkerExit, Poll, KernelWake
  <2> QED
    BY <2>1, EventFrame DEF Pending, TypeOK
<1> QED
  BY <1>1, <1>2, <1>3, <1>4, <1>5, <1>6, <1>7, <1>8 DEF WorkerStep

(* The kernel thread leaves the CPU in the idle section with no event queued. *)
LEMMA EventKernel ==
  ASSUME TypeOK, SlotInv, EventHeard, KernelStep
  PROVE  EventHeard'
<1> USE DEF KernelAt, Body, cpu, tcb, queue, clients
<1>1. CASE kat' \notin {"handed", "asleep"}
  BY <1>1 DEF EventHeard
<1>2. CASE DispatchOther \/ Dispatch \/ Drained \/ IdleAgain \/ IdleResume
  BY <1>1, <1>2 DEF DispatchOther, Dispatch, Drained, IdleAgain, IdleResume
<1>3. CASE IdleBlock \/ IdleSleep
  BY <1>3 DEF IdleBlock, IdleSleep, EventHeard, Pending
<1>4. ASSUME NEW w \in Worker, Start(w) \/ Forget(w) \/ Await(w) \/ Join(w)
      PROVE  EventHeard'
  BY <1>1, <1>4 DEF Start, Forget, Await, Join
<1>5. CASE \E w \in Budgeted : \/ \E cycles \in 0..MaxGrant :
                                    BudgetGrant(w, cycles) \/ BudgetRefill(w, cycles)
                               \/ BudgetUnlimited(w)
  BY <1>1, <1>5 DEF BudgetGrant, BudgetRefill, BudgetUnlimited
<1>6. CASE KernelGive \/ AwaitAgain \/ JoinAgain \/ Joined \/ WaitReturn \/ Return
  BY <1>1, <1>6 DEF KernelGive, AwaitAgain, JoinAgain, Joined, WaitReturn, Return
<1>7. ASSUME NEW ticks \in Timeout[Kernel], KernelTake(ticks)
      PROVE  EventHeard'
  <2>1. kat' \in {"body", "wait", "napping"}
    BY <1>7 DEF KernelTake, WaitPass
  <2> QED
    BY <1>1, <2>1
<1>8. CASE WaitAgain
  BY <1>1, <1>8 DEF WaitAgain, WaitPass
<1> QED
  BY <1>2, <1>3, <1>4, <1>5, <1>6, <1>7, <1>8 DEF KernelStep

(* Every step keeps the events heard.                                       *)
LEMMA EventStep ==
  ASSUME TypeOK, SlotInv, EventHeard, [Next]_vars
  PROVE  EventHeard'
<1> USE DEF queue
<1>1. CASE Switch
  BY <1>1, EventFrame DEF Switch, Pending
<1>2. CASE Interrupt
  <2>1. CASE Tick \/ InterruptPost
    BY <2>1, EventFrame DEF Tick, InterruptPost, KernelWake, WakeCPU, Pending
  <2>2. CASE InterruptGive
    BY <2>2, GiveEffect, EventFrame DEF InterruptGive, Give, WakeCPU, Pending
  <2> QED
    BY <1>2, <2>1, <2>2 DEF Interrupt
<1>3. CASE UNCHANGED vars
  BY <1>3, EventFrame DEF vars, cpu, Pending
<1> QED
  BY <1>1, <1>2, <1>3, EventWorker, EventKernel DEF Next

(* The kernel thread is not left off the CPU with an event queued unheard.  *)
THEOREM EventsHeard == Spec => []EventHeard
BY TypeInit, TypeStep, SlotInit, SlotStep, EventInit, EventStep, PTL DEF Spec

-----------------------------------------------------------------------------
(* The wait for a worker.                                                  *)

\* While the process waits for a worker that is not done, the worker knows it.
Recorded == awaited # NULL /\ kat # "body" /\ ~IsDone(awaited) => waiter[awaited]

(* Initially the process waits for no worker.                               *)
LEMMA AwaitInit == ASSUME Init PROVE AwaitHeard /\ Recorded
BY DEF Init, AwaitHeard, Recorded

(* A step that changes no life, forgets no waiter and loses no POLL, and      *)
(* comes neither from a body nor with another worker to wait for.           *)
LEMMA AwaitFrame ==
  ASSUME TypeOK, AwaitHeard, Recorded, UNCHANGED awaited,
         kat = "body" => kat' = "body" \/ awaited = NULL,
         \A w \in Worker : (IsDone(w)' <=> IsDone(w)) /\ (waiter[w] => waiter'[w]),
         polled => polled' \/ kat' = "body",
         refused => refused' \/ kat' = "body"
  PROVE  AwaitHeard' /\ Recorded'
<1>1. awaited \in Worker \cup {NULL}
  BY DEF TypeOK
<1>2. CASE awaited = NULL
  BY <1>2 DEF AwaitHeard, Recorded
<1>3. CASE kat' = "body"
  BY <1>3 DEF AwaitHeard, Recorded
<1>4. CASE awaited \in Worker /\ kat # "body" /\ kat' # "body"
  <2>1. /\ IsDone(awaited)' <=> IsDone(awaited)
        /\ waiter[awaited] => waiter'[awaited]
    BY <1>4 DEF IsDone
  <2> QED
    BY <1>4, <2>1 DEF AwaitHeard, Recorded
<1> QED
  BY <1>1, <1>2, <1>3, <1>4

(* A worker that exits while it is awaited posts the POLL, or is refused.   *)
LEMMA AwaitWorker ==
  ASSUME TypeOK, SlotInv, AwaitHeard, Recorded, NEW w \in Worker, WorkerStep(w)
  PROVE  AwaitHeard' /\ Recorded'
<1> USE DEF cpu, tcb, queue, clients
<1>1. CASE WorkerExit(w)
  <2>1. /\ state' = [state EXCEPT ![w] = "DONE"] /\ waiter' = [waiter EXCEPT ![w] = FALSE]
        /\ UNCHANGED <<awaited, kat>>
        /\ IF waiter[w] THEN Poll ELSE UNCHANGED <<polled, refused>>
    BY <1>1 DEF WorkerExit
  <2>2. at[w] = "body" /\ ~IsDone(w)
    BY <1>1 DEF WorkerExit, SlotInv
  <2>3. (polled => polled') /\ (refused => refused')
    BY <2>1 DEF Poll
  <2>4. CASE awaited = NULL \/ kat = "body"
    BY <2>1, <2>4 DEF AwaitHeard, Recorded
  <2>5. CASE awaited # NULL /\ kat # "body" /\ awaited = w
    <3>1. Poll
      BY <2>1, <2>2, <2>5 DEF Recorded
    <3>2. ~polled => QueueLen \in 0..QueueSize
      BY ThreadAssumption DEF QueueLen, TypeOK
    <3>3. polled \/ QueueLen < QueueSize \/ (~polled /\ QueueLen = QueueSize)
      BY <3>2, ThreadAssumption
    <3>4. polled' \/ refused'
      BY <3>1, <3>3 DEF Poll
    <3>5. IsDone(awaited)'
      BY <2>1, <2>5 DEF IsDone, TypeOK
    <3> QED
      BY <3>4, <3>5 DEF AwaitHeard, Recorded
  <2>6. CASE awaited # NULL /\ kat # "body" /\ awaited # w
    <3>1. (IsDone(awaited)' <=> IsDone(awaited)) /\ waiter'[awaited] = waiter[awaited]
      BY <2>1, <2>6 DEF IsDone, TypeOK
    <3> QED
      BY <2>1, <2>3, <2>6, <3>1 DEF AwaitHeard, Recorded
  <2> QED
    BY <2>4, <2>5, <2>6
<1>2. CASE ~WorkerExit(w)
  <2>1. UNCHANGED <<awaited, kat, waiter, polled, refused>>
    BY <1>2 DEF WorkerStep, WorkerGive, Give, WorkerTake, WorkerResume, WorkerYield,
       WorkerPend, WorkerPost, WorkerNotify
  <2> QED
    BY <1>2, <2>1, WorkerLives, AwaitFrame
<1> QED
  BY <1>1, <1>2

(* The process waits for a worker only once the worker knows it.            *)
LEMMA AwaitKernel ==
  ASSUME TypeOK, SlotInv, AwaitHeard, Recorded, KernelStep
  PROVE  AwaitHeard' /\ Recorded'
<1> USE DEF KernelAt, Body, cpu, tcb, queue, clients
<1>1. CASE awaited' = NULL \/ kat' = "body"
  BY <1>1 DEF AwaitHeard, Recorded
<1>2. ASSUME NEW w \in Worker, Start(w) \/ Forget(w)
      PROVE  AwaitHeard' /\ Recorded'
  BY <1>1, <1>2 DEF Start, Forget
<1>3. ASSUME NEW w \in Worker, Await(w)
      PROVE  AwaitHeard' /\ Recorded'
  <2>1. /\ awaited' = w /\ waiter' = [waiter EXCEPT ![w] = TRUE] /\ UNCHANGED state
        /\ ~IsDone(w)
    BY <1>3 DEF Await
  <2> QED
    BY <2>1 DEF AwaitHeard, Recorded, IsDone, TypeOK
<1>4. CASE AwaitAgain
  <2>1. CASE IsDone(awaited)
    BY <1>1, <1>4, <2>1 DEF AwaitAgain
  <2>2. CASE ~IsDone(awaited)
    <3>1. /\ UNCHANGED <<awaited, state>> /\ waiter' = [waiter EXCEPT ![awaited] = TRUE]
          /\ awaited # NULL
      BY <1>4, <2>2 DEF AwaitAgain
    <3> QED
      BY <2>2, <3>1 DEF AwaitHeard, Recorded, IsDone, TypeOK
  <2> QED
    BY <2>1, <2>2
<1>5. ASSUME NEW w \in Worker, Join(w)
      PROVE  AwaitHeard' /\ Recorded'
  BY <1>1, <1>5 DEF Join
<1>6. CASE Dispatch \/ Joined \/ WaitReturn
  BY <1>1, <1>6 DEF Dispatch, Joined, WaitReturn
<1>7. CASE KernelGive \/ Return \/ \E ticks \in Timeout[Kernel] : KernelTake(ticks)
  BY <1>1, <1>7 DEF KernelGive, Give, Return, KernelTake
<1>8. CASE \E w \in Budgeted : \/ \E cycles \in 0..MaxGrant :
                                    BudgetGrant(w, cycles) \/ BudgetRefill(w, cycles)
                               \/ BudgetUnlimited(w)
  BY <1>1, <1>8 DEF BudgetGrant, BudgetRefill, BudgetUnlimited
<1>9. ASSUME DispatchOther \/ Drained \/ IdleAgain \/ IdleBlock \/ IdleSleep \/ IdleResume
             \/ JoinAgain \/ WaitAgain
      PROVE  UNCHANGED <<awaited, waiter, polled, refused>> /\ kat # "body"
  BY <1>9 DEF DispatchOther, Drained, IdleAgain, IdleBlock, IdleSleep, IdleResume,
     JoinAgain, WaitAgain
<1>10. CASE UNCHANGED <<awaited, waiter, polled, refused>> /\ kat # "body"
            /\ ~\E w \in Worker : Start(w) \/ Forget(w)
  BY <1>10, KernelLives, AwaitFrame
<1> QED
  BY <1>2, <1>3, <1>4, <1>5, <1>6, <1>7, <1>8, <1>9, <1>10 DEF KernelStep

(* Every step keeps the exits heard.                                        *)
LEMMA AwaitStep ==
  ASSUME TypeOK, SlotInv, AwaitHeard, Recorded, [Next]_vars
  PROVE  AwaitHeard' /\ Recorded'
<1> USE DEF tcb, queue, clients
<1>1. CASE Switch
  <2>1. UNCHANGED <<awaited, kat, waiter, polled, refused>>
    BY <1>1 DEF Switch
  <2> QED
    BY <1>1, <2>1, SwitchEffect, AwaitFrame
<1>2. CASE Interrupt
  <2>1. CASE Tick \/ InterruptPost
    <3>1. UNCHANGED <<awaited, waiter, polled, refused, state>>
          /\ (kat = "body" => kat' = "body")
      BY <2>1 DEF Tick, InterruptPost, WakeCPU
    <3> QED
      BY <3>1, AwaitFrame DEF IsDone
  <2>2. CASE InterruptGive
    <3>1. UNCHANGED <<awaited, waiter, polled, refused>> /\ (kat = "body" => kat' = "body")
      BY <2>2 DEF InterruptGive, Give, WakeCPU
    <3>2. \A w \in Worker : IsDone(w)' <=> IsDone(w)
      BY <2>2, GiveEffect DEF InterruptGive, IsDone
    <3> QED
      BY <3>1, <3>2, AwaitFrame
  <2> QED
    BY <1>2, <2>1, <2>2 DEF Interrupt
<1>3. CASE UNCHANGED vars
  BY <1>3, AwaitFrame DEF vars, IsDone
<1> QED
  BY <1>1, <1>2, <1>3, AwaitWorker, AwaitKernel DEF Next

(* The exit of an awaited worker is announced, or the full queue refused to.*)
THEOREM AwaitsHeard == Spec => []AwaitHeard
BY TypeInit, TypeStep, SlotInit, SlotStep, AwaitInit, AwaitStep, PTL DEF Spec

-----------------------------------------------------------------------------
(* Wakes.                                                                  *)

\* The kernel thread sleeps on the CPU, and no switch is pended.
Resting == kat \in {"asleep", "napping"} => current = Kernel /\ ~pended

\* The threads that were woken and have yet to test the condition.
Woken == {w \in Worker : at[w] = "wait" /\ slot[w] \notin waiters}
           \cup {k \in {Kernel} : kat = "wait" /\ Kernel \notin waiters}

\* A thread is on its way for every token, if any thread waits.
WokenEnough == tokens > 0 /\ waiters # {} => Cardinality(Woken) >= tokens

(* Initially there is no token.                                             *)
LEMMA WakeInit == ASSUME Init PROVE Resting /\ WokenEnough
BY DEF Init, Resting, WokenEnough

(* The kernel thread sleeps on the CPU until an interrupt.                  *)
LEMMA RestingStep ==
  ASSUME TypeOK, Resting, [Next]_vars
  PROVE  Resting'
<1> USE DEF cpu
<1>1. CASE Switch
  BY <1>1 DEF Switch, Resting
<1>2. ASSUME NEW w \in Worker, WorkerStep(w)
      PROVE  Resting'
  <2>1. current = w /\ UNCHANGED kat
    BY <1>2 DEF WorkerStep, WorkerGive, WorkerTake, WorkerResume, WorkerYield, WorkerPend,
       WorkerPost, WorkerNotify, WorkerExit, Runs
  <2> QED
    BY <2>1, ThreadAssumption DEF Resting
<1>3. CASE KernelStep
  <2>1. current = Kernel /\ ~pended /\ current' = Kernel
    BY <1>3, KernelStates
  <2>2. CASE kat' \notin {"asleep", "napping"} \/ UNCHANGED pended
    BY <2>1, <2>2 DEF Resting
  <2>3. CASE IdleBlock \/ IdleSleep
    BY <2>2, <2>3 DEF IdleBlock, IdleSleep
  <2>4. CASE DispatchOther \/ Dispatch \/ Drained \/ IdleAgain \/ IdleResume
    BY <2>2, <2>4 DEF DispatchOther, Dispatch, Drained, IdleAgain, IdleResume
  <2>5. CASE \E w \in Worker : Start(w) \/ Forget(w) \/ Await(w) \/ Join(w)
    BY <2>2, <2>5 DEF Start, Forget, Await, Join
  <2>6. CASE \E w \in Budgeted : \/ \E cycles \in 0..MaxGrant :
                                      BudgetGrant(w, cycles) \/ BudgetRefill(w, cycles)
                                 \/ BudgetUnlimited(w)
    BY <2>2, <2>6 DEF BudgetGrant, BudgetRefill, BudgetUnlimited
  <2>7. CASE KernelGive \/ JoinAgain
    BY <2>2, <2>7 DEF KernelGive, JoinAgain, Body, KernelAt
  <2>8. CASE AwaitAgain \/ Joined \/ WaitReturn \/ Return
    BY <2>2, <2>8 DEF AwaitAgain, Joined, WaitReturn, Return
  <2>9. CASE WaitAgain
    BY <2>2, <2>9 DEF WaitAgain, WaitPass
  <2>10. ASSUME NEW ticks \in Timeout[Kernel], KernelTake(ticks)
         PROVE  Resting'
    BY <2>2, <2>10 DEF KernelTake, WaitPass
  <2> QED
    BY <1>3, <2>3, <2>4, <2>5, <2>6, <2>7, <2>8, <2>9, <2>10 DEF KernelStep
<1>4. CASE Interrupt
  BY <1>4 DEF Interrupt, Tick, InterruptPost, InterruptGive, WakeCPU, Resting
<1>5. CASE UNCHANGED vars
  BY <1>5 DEF vars, Resting
<1> QED
  BY <1>1, <1>2, <1>3, <1>4, <1>5 DEF Next

(* The threads woken are finitely many.                                     *)
LEMMA WokenFinite == IsFiniteSet(Woken) /\ Cardinality(Woken) \in Nat
<1>1. IsFiniteSet(Worker \cup {Kernel})
  BY ThreadAssumption, FS_AddElement
<1>2. Woken \subseteq Worker \cup {Kernel}
  BY DEF Woken
<1>3. IsFiniteSet(Woken)
  BY <1>1, <1>2, FS_Subset
<1> QED
  BY <1>3, FS_CardinalityType

(* So they are after a step.                                                *)
LEMMA WokenFiniteNext == IsFiniteSet(Woken') /\ Cardinality(Woken') \in Nat
<1>1. IsFiniteSet(Worker \cup {Kernel})
  BY ThreadAssumption, FS_AddElement
<1>2. Woken' \subseteq Worker \cup {Kernel}
  BY DEF Woken
<1>3. IsFiniteSet(Woken')
  BY <1>1, <1>2, FS_Subset
<1> QED
  BY <1>3, FS_CardinalityType

(* A step that adds no token while a thread waits, and takes no woken thread *)
(* out of its wait.                                                        *)
LEMMA WokenFrame ==
  ASSUME TypeOK, WokenEnough, tokens' \in Nat, tokens' <= tokens,
         waiters' # {} /\ tokens' > 0 => waiters # {},
         Woken \subseteq Woken'
  PROVE  WokenEnough'
<1>1. Cardinality(Woken) <= Cardinality(Woken')
  BY WokenFiniteNext, FS_Subset
<1>2. tokens \in Nat
  BY ThreadAssumption DEF TypeOK
<1> QED
  BY <1>1, <1>2, WokenFinite, WokenFiniteNext DEF WokenEnough

(* A woken thread that leaves its wait takes a token with it, if there is one.*)
LEMMA WokenLeaves ==
  ASSUME TypeOK, WokenEnough, NEW t \in Woken,
         tokens' = IF tokens > 0 THEN tokens - 1 ELSE tokens,
         waiters' # {} => waiters # {},
         Woken \ {t} \subseteq Woken'
  PROVE  WokenEnough'
<1>1. /\ IsFiniteSet(Woken \ {t})
      /\ Cardinality(Woken \ {t}) = Cardinality(Woken) - 1
  BY WokenFinite, FS_RemoveElement
<1>2. Cardinality(Woken \ {t}) <= Cardinality(Woken')
  BY <1>1, WokenFiniteNext, FS_Subset
<1>3. tokens \in Nat
  BY ThreadAssumption DEF TypeOK
<1> QED
  BY <1>1, <1>2, <1>3, WokenFinite, WokenFiniteNext DEF WokenEnough

(* A wake puts a thread on its way for the new token.                      *)
LEMMA WokenGive ==
  ASSUME TypeOK, SlotInv, BitsSound, WokenEnough, Give,
         kat \in {"wait", "napping"} => kat' = "wait"
  PROVE  WokenEnough'
<1>1. /\ tokens' = tokens + 1 /\ UNCHANGED <<slot, at>>
      /\ \/ waiters' = {}
         \/ \E s \in waiters : waiters' = waiters \ {s}
  BY GiveEffect DEF Give
<1>2. CASE waiters' = {}
  BY <1>2 DEF WokenEnough
<1>3. CASE \E s \in waiters : waiters' = waiters \ {s}
  <2>1. PICK s \in waiters : waiters' = waiters \ {s}
    BY <1>3
  <2>2. Woken \subseteq Woken'
    BY <1>1, <2>1 DEF Woken
  <2>3. PICK t \in Worker \cup {Kernel} : t \in Woken' /\ t \notin Woken
    <3>1. CASE s = Kernel
      <4>1. kat' = "wait"
        BY <2>1, <3>1 DEF BitsSound
      <4> QED
        BY <2>1, <3>1, <4>1, ThreadAssumption DEF Woken
    <3>2. CASE s \in Slot
      <4>1. PICK w \in Worker : slot[w] = s /\ at[w] = "wait"
        BY <3>2 DEF BitsSound
      <4> QED
        BY <1>1, <2>1, <4>1, ThreadAssumption DEF Woken
    <3> QED
      BY <3>1, <3>2 DEF TypeOK
  <2>4. /\ IsFiniteSet(Woken \cup {t})
        /\ Cardinality(Woken \cup {t}) = Cardinality(Woken) + 1
    BY <2>3, WokenFinite, FS_AddElement
  <2>5. Cardinality(Woken \cup {t}) <= Cardinality(Woken')
    BY <2>2, <2>3, WokenFiniteNext, FS_Subset, Woken \cup {t} \subseteq Woken'
  <2>6. tokens \in Nat
    BY ThreadAssumption DEF TypeOK
  <2>7. CASE tokens = 0
    BY <1>1, <2>4, <2>5, <2>7, WokenFinite, WokenFiniteNext DEF WokenEnough
  <2>8. CASE tokens > 0
    <3>1. Cardinality(Woken) >= tokens
      BY <2>1, <2>8 DEF WokenEnough
    <3> QED
      BY <1>1, <2>4, <2>5, <2>6, <3>1, WokenFinite, WokenFiniteNext DEF WokenEnough
  <2> QED
    BY <2>6, <2>7, <2>8
<1> QED
  BY <1>1, <1>2, <1>3

(* The end of a wait: a woken thread takes a token, and one that was not     *)
(* woken takes its own bit out.                                            *)
LEMMA WokenEndWait ==
  ASSUME TypeOK, WokenEnough, NEW t \in Thread, NEW bit, EndWait(t, bit),
         bit \notin waiters => t \in Woken,
         bit \in waiters => Woken \subseteq Woken',
         Woken \ {t} \subseteq Woken'
  PROVE  WokenEnough'
<1>1. waiters' = waiters \ {bit} /\ tokens \in Nat
  BY ThreadAssumption DEF EndWait, TypeOK
<1>2. CASE bit \notin waiters
  <2>1. tokens' = IF tokens > 0 THEN tokens - 1 ELSE tokens
    BY <1>2 DEF EndWait
  <2> QED
    BY <1>1, <1>2, <2>1, WokenLeaves
<1>3. CASE bit \in waiters
  <2>1. tokens' \in {tokens, IF tokens > 0 THEN tokens - 1 ELSE tokens}
    BY DEF EndWait
  <2>2. tokens' \in Nat /\ tokens' <= tokens
    BY <1>1, <2>1
  <2> QED
    BY <1>1, <1>3, <2>2, WokenFrame
<1> QED
  BY <1>2, <1>3

(* A step of a worker keeps a thread on its way for every token.            *)
LEMMA WakeWorker ==
  ASSUME TypeOK, SlotInv, BitsSound, Resting, WokenEnough, NEW w \in Worker, WorkerStep(w)
  PROVE  WokenEnough'
<1> USE DEF cpu, tcb, waitq, clients
<1>1. tokens \in Nat
  BY ThreadAssumption DEF TypeOK
<1>2. CASE WorkerGive(w)
  <2>1. current = w /\ UNCHANGED kat
    BY <1>2 DEF WorkerGive, Runs
  <2>2. kat # "napping"
    BY <2>1, ThreadAssumption DEF Resting
  <2> QED
    BY <1>2, <2>1, <2>2, WokenGive DEF WorkerGive
<1>3. ASSUME NEW ticks \in Timeout[w], WorkerTake(w, ticks)
      PROVE  WokenEnough'
  <2>1. at[w] = "body" /\ UNCHANGED <<slot, kat>>
    BY <1>3 DEF WorkerTake
  <2>2. CASE tokens > 0
    <3>1. tokens' = tokens - 1 /\ UNCHANGED <<waiters, at>>
      BY <1>3, <2>2 DEF WorkerTake
    <3>2. Woken' = Woken
      BY <2>1, <3>1 DEF Woken
    <3> QED
      BY <1>1, <2>2, <3>1, <3>2, WokenFrame
  <2>3. CASE ~(tokens > 0)
    <3>1. tokens' = 0
      BY <1>1, <1>3, <2>3 DEF WorkerTake
    <3> QED
      BY <3>1 DEF WokenEnough
  <2> QED
    BY <2>2, <2>3
<1>4. CASE WorkerResume(w)
  <2>1. /\ EndWait(w, slot[w]) /\ at[w] = "wait" /\ at' = [at EXCEPT ![w] = "body"]
        /\ UNCHANGED <<slot, kat>>
    BY <1>4 DEF WorkerResume
  <2>2. waiters' = waiters \ {slot[w]}
    BY <2>1 DEF EndWait
  <2>3. Woken \ {w} \subseteq Woken'
    BY <2>1, <2>2, ThreadAssumption DEF Woken, TypeOK
  <2>4. slot[w] \in waiters => w \notin Woken
    BY ThreadAssumption DEF Woken
  <2>5. slot[w] \notin waiters => w \in Woken
    BY <2>1 DEF Woken
  <2> QED
    BY <2>1, <2>3, <2>4, <2>5, WokenEndWait DEF Thread
<1>5. ASSUME UNCHANGED <<tokens, waiters, slot, kat>>,
             \A v \in Worker : at[v] = "wait" => at'[v] = "wait"
      PROVE  WokenEnough'
  <2>1. Woken \subseteq Woken'
    BY <1>5 DEF Woken
  <2> QED
    BY <1>1, <1>5, <2>1, WokenFrame
<1>6. CASE WorkerYield(w)
  BY <1>5, <1>6 DEF WorkerYield, TypeOK
<1>7. CASE WorkerPend(w)
  BY <1>5, <1>7 DEF WorkerPend, TypeOK
<1>8. CASE WorkerPost(w)
  BY <1>5, <1>8 DEF WorkerPost, TypeOK
<1>9. CASE WorkerNotify(w)
  BY <1>5, <1>9 DEF WorkerNotify, TypeOK
<1>10. CASE WorkerExit(w)
  BY <1>5, <1>10 DEF WorkerExit, TypeOK
<1> QED
  BY <1>2, <1>3, <1>4, <1>6, <1>7, <1>8, <1>9, <1>10 DEF WorkerStep

(* So does a step of the kernel thread: it waits on only while its bit is set. *)
LEMMA WakeKernel ==
  ASSUME TypeOK, SlotInv, BitsSound, WokenEnough, KernelStep
  PROVE  WokenEnough'
<1> USE DEF KernelAt, Body, cpu, tcb, waitq, clients
<1>1. tokens \in Nat
  BY ThreadAssumption DEF TypeOK
<1>2. ASSUME UNCHANGED <<tokens, waiters, slot, at>>,
             kat = "wait" /\ Kernel \notin waiters => kat' = "wait"
      PROVE  WokenEnough'
  <2>1. Woken \subseteq Woken'
    BY <1>2 DEF Woken
  <2> QED
    BY <1>1, <1>2, <2>1, WokenFrame
<1>3. CASE DispatchOther \/ Dispatch \/ Drained \/ IdleAgain \/ IdleResume
  BY <1>2, <1>3 DEF DispatchOther, Dispatch, Drained, IdleAgain, IdleResume
<1>4. CASE IdleBlock \/ IdleSleep \/ JoinAgain
  BY <1>2, <1>4 DEF IdleBlock, IdleSleep, JoinAgain
<1>5. ASSUME NEW w \in Worker, Start(w)
      PROVE  WokenEnough'
  <2>1. /\ at' = [at EXCEPT ![w] = "body"] /\ UNCHANGED <<tokens, waiters, kat>> /\ IsDone(w)
        /\ \E s \in StartSlot(w) : slot' = [slot EXCEPT ![w] = s]
    BY <1>5 DEF Start
  <2>2. at[w] # "wait"
    BY <2>1 DEF SlotInv
  <2>3. \A v \in Worker : at[v] = "wait" => at'[v] = "wait" /\ slot'[v] = slot[v]
    BY <2>1, <2>2 DEF TypeOK
  <2>4. Woken \subseteq Woken'
    BY <2>1, <2>3 DEF Woken
  <2> QED
    BY <1>1, <2>1, <2>4, WokenFrame
<1>6. CASE \E w \in Worker : Forget(w) \/ Await(w) \/ Join(w)
  BY <1>2, <1>6 DEF Forget, Await, Join
<1>7. CASE \E w \in Budgeted : \/ \E cycles \in 0..MaxGrant :
                                    BudgetGrant(w, cycles) \/ BudgetRefill(w, cycles)
                               \/ BudgetUnlimited(w)
  BY <1>2, <1>7 DEF BudgetGrant, BudgetRefill, BudgetUnlimited
<1>8. CASE KernelGive
  BY <1>8, WokenGive DEF KernelGive
<1>9. CASE AwaitAgain \/ Joined \/ Return
  BY <1>2, <1>9 DEF AwaitAgain, Joined, Return
<1>10. CASE WaitReturn
  <2>1. /\ EndWait(Kernel, Kernel) /\ kat = "wait" /\ UNCHANGED <<slot, at>>
    BY <1>10 DEF WaitReturn
  <2>2. waiters' = waiters \ {Kernel}
    BY <2>1 DEF EndWait
  <2>3. Woken \ {Kernel} \subseteq Woken'
    BY <2>1, <2>2 DEF Woken
  <2>4. Kernel \in waiters => Kernel \notin Woken
    BY ThreadAssumption DEF Woken
  <2>5. Kernel \notin waiters => Kernel \in Woken
    BY <2>1 DEF Woken
  <2> QED
    BY <2>1, <2>3, <2>4, <2>5, WokenEndWait DEF Thread
<1>11. ASSUME NEW ticks \in Timeout[Kernel], KernelTake(ticks)
       PROVE  WokenEnough'
  <2>1. kat = "body" /\ UNCHANGED <<slot, at>>
    BY <1>11 DEF KernelTake
  <2>2. CASE tokens > 0
    <3>1. tokens' = tokens - 1 /\ UNCHANGED <<waiters, kat>>
      BY <1>11, <2>2 DEF KernelTake
    <3>2. Woken' = Woken
      BY <2>1, <3>1 DEF Woken
    <3> QED
      BY <1>1, <2>2, <3>1, <3>2, WokenFrame
  <2>3. CASE ~(tokens > 0)
    <3>1. tokens' = 0
      BY <1>1, <1>11, <2>3 DEF KernelTake
    <3> QED
      BY <3>1 DEF WokenEnough
  <2> QED
    BY <2>2, <2>3
<1>12. CASE WaitAgain
  BY <1>2, <1>12 DEF WaitAgain, WaitOver
<1> QED
  BY <1>3, <1>4, <1>5, <1>6, <1>7, <1>8, <1>9, <1>10, <1>11, <1>12 DEF KernelStep

(* So does every step.                                                      *)
LEMMA WakeStep ==
  ASSUME TypeOK, SlotInv, BitsSound, Resting, WokenEnough, [Next]_vars
  PROVE  WokenEnough'
<1> USE DEF cpu, tcb, waitq, clients
<1>1. ASSUME UNCHANGED <<tokens, waiters, slot, at>>, kat = "wait" => kat' = "wait"
      PROVE  WokenEnough'
  <2>1. Woken \subseteq Woken'
    BY <1>1 DEF Woken
  <2>2. tokens \in Nat
    BY ThreadAssumption DEF TypeOK
  <2> QED
    BY <1>1, <2>1, <2>2, WokenFrame
<1>2. CASE Switch
  BY <1>1, <1>2 DEF Switch
<1>3. CASE Tick \/ InterruptPost
  BY <1>1, <1>3 DEF Tick, InterruptPost, WakeCPU
<1>4. CASE InterruptGive
  <2>1. kat \in {"wait", "napping"} => kat' = "wait"
    BY <1>4 DEF InterruptGive, WakeCPU
  <2> QED
    BY <1>4, <2>1, WokenGive DEF InterruptGive
<1>5. CASE UNCHANGED vars
  BY <1>1, <1>5 DEF vars
<1> QED
  BY <1>2, <1>3, <1>4, <1>5, WakeWorker, WakeKernel DEF Next, Interrupt

(* While the condition holds and a thread waits, another is on its way.    *)
THEOREM NoWakeLost == Spec => []NoLostWake
<1>1. ASSUME TypeOK, WokenEnough
      PROVE  NoLostWake
  <2> SUFFICES ASSUME tokens > 0, waiters # {}
               PROVE  Woken # {}
    BY ThreadAssumption DEF NoLostWake, Woken
  <2>1. Cardinality(Woken) >= tokens /\ tokens \in Nat
    BY <1>1, ThreadAssumption DEF WokenEnough, TypeOK
  <2> QED
    BY <2>1, WokenFinite, FS_EmptySet
<1> QED
  BY <1>1, TypeInit, TypeStep, SlotInit, SlotStep, BitsInit, BitsStep, WakeInit,
     RestingStep, WakeStep, PTL DEF Spec
=============================================================================
