# A TLA+ model of the Tiku kernel

TikuOS is an event-driven operating system for microcontrollers (MSP430,
RP2350, STM32N6, Ambiq and others). A program is a set of *processes*, which
are protothreads: C functions that run until they yield. The kernel delivers
events to them from one queue, in one context, which interrupts may enter
between any two instructions outside an atomic section. Data survives a power
cut in non-volatile memory, which some parts rewrite word by word (FRAM) and
others sector by sector (flash).

This directory holds TLA+ modules for the parts of the kernel where the
order of things matters, TLC configurations that check them on small
instances, and TLAPS proofs of what should hold for every size. Paths below are
relative to the root of the repository.

| file | what it is |
|---|---|
| `TikuProcess.tla` | the process layer: queue, dispatch, list, supervision |
| `MCTikuProcess.tla`, `Process*.cfg` | its small instances |
| `TikuProcessProofs.tla` | theorems about its queue, its supervision and its nested dispatch, with their proofs |
| `TikuListProofs.tla` | theorems about its list and the broadcasts that walk it, with their proofs |
| `AtomicFiles.tla` | what a file store promises |
| `TikuTfs.tla` | the Tiku File Store, write by write; it implements `AtomicFiles` |
| `MCTikuTfs.tla`, `Tfs*.cfg` | its small instances |
| `TikuTfsProofs.tla` | theorems about it, with their proofs, the refinement among them |
| `TikuTimer.tla` | software timers, critical windows, the scheduler's idle path |
| `MCTikuTimer.tla`, `Timer*.cfg` | its small instances |
| `TikuTimerProofs.tla` | theorems about it, with their proofs |
| `Compaction.tla` | what is left of a queue or a list when entries are taken out |
| `CompactionProofs.tla` | lemmas on it, for sequences of any length |
| `TikuThread.tla` | preemptive worker threads, the switch, wait queues, the kernel thread |
| `MCTikuThread.tla`, `Thread*.cfg` | its small instances |
| `TikuThreadProofs.tla` | theorems about it, with their proofs |
| `NatOrder.tla` | facts about the naturals the proof modules use |
| `AtomicCells.tla` | what persistent cells promise |
| `TikuPersist.tla` | cells and the boot move, store by store; it implements `AtomicCells` |
| `MCTikuPersist.tla`, `PersistMove.cfg` | its small instance |
| `TikuPersistProofs.tla` | theorems about it, with their proofs, the refinement among them |
| `PROJECT.json` | the runs, the source lines of each definition, the mutants, hazards and findings |

To check: `tlc -config ProcessPair.cfg MCTikuProcess.tla` (and so on for each
`.cfg`); to prove: `tlapm TikuProcessProofs.tla`
(the other `*Proofs.tla` alike). The longest runs,
ProcessTrio, ProcessPair and ThreadWait, take about a minute and a half each
on two cores.

## 1. Inventory

### Contexts

* **Process context.** `tiku_sched_loop()` takes one event at a time off the
  queue and calls the target's thread function. The function may call the
  kernel back: post, start, exit, stop. Two of these calls dispatch *inside*
  the caller: `tiku_process_start()` when the queue refuses INIT, and
  `tiku_process_run_except()` while the shell waits for an HTTPS exchange.
* **Interrupt context.** Handlers post and poll, count ticks, record hangs and,
  with worker threads, switch stacks.
* **Worker threads** (optional): preemptive stacks for long computations, which
  run while the kernel thread has nothing to dispatch.
* **Power.** It may go at any instant; RAM is lost, non-volatile memory stays,
  perhaps with a torn write.

### Components

| component | state | operations | hard behaviour | correct means |
|---|---|---|---|---|
| Process layer (`process/tiku_process.c`) | event ring, list head and `next`, per-process run flag, state, generation, exit reason, restart policy, pid registry, current process | post, poll, start, exit, stop, resume, register, fail, set_restart, run, run_except | posts from interrupts during every step; bodies that edit the list a broadcast walks; nested dispatch; 8-bit generation; full queue | room for system events; one POLL per target; no event reaches a later instance; a broadcast reaches all, once; the list is sound; INIT arrives; a failed process is restarted or given up |
| Channels (same file) | FIFO ring and counter | put, get | interrupts on one side | FIFO, no loss below capacity |
| Software timers (`timers/tiku_timer.c`, `tiku_crit.c`) | linked list of armed timers, critical-window flag | set, reset, restart, stop, scan, cancel_process | callbacks that edit the list during the scan; refused events; owner taken from the current process | an armed timer fires once, not early, and in the end; one refused event does not block the others |
| Scheduler loop (`scheduler/tiku_sched.c`) | idle hook, does the tick wake it | drain, idle, notify | an interrupt between the last check and the sleep | no wake-up is lost |
| Worker threads (`threads/tiku_thread.c`) | thread table, kernel-ready flag, wait queues, budgets | start, exit, join, await, wait, wake, block | exit against await; wake against timeout; the kernel thread off the CPU | a waiter is woken; the kernel thread runs when an event is posted |
| Hang detector (`cpu/tiku_hang.c`) | heartbeat, stall count, record that survives a reset | check-in, tick, boot_init | reset between two writes of the record | the culprit is skipped on one boot |
| File store (`fs/tiku_tfs.c`) | superblock, directory, slots; slot map and handles in RAM | mount, format, create, delete, open, write, commit, abort, read | power cut or failed write between any two words | every call is atomic; every medium mounts; the map is exact |
| Persistent cells (`memory/tiku_persist.c`, `tiku_persist_move.c`) | value and gate per cell, manifest of a layout | init, write, commit, write_u32, move to a new image | power cut inside a write or a move | a valid gate vouches for a whole value, but for a one-word cell stored byte by byte |
| Layout and reclaim (`memory/tiku_layout.c`, `tiku_reclaim.c`) | layout record, tickets, owner slots | change layout over a reset, drain and restore owners | reset in the middle, events posted while a process is drained | the layout in use matches its record; no event is lost |
| Tiers, pools, regions, MPU (`memory/`) | allocation tables, protection registers | alloc, free, unlock, lock | sequential | no overlap |
| Blob, model, FAT stores (`fs/`) | catalogue entries | put, get, delete | clients of the file store | as the file store |
| VFS (`vfs/`) | static tree, watches, cache | read, write, watch | watches of an exited process | released with their owner |
| Console, links, shell (`console/`, `link/`, `shell/`) | line buffers, jobs | commands, HTTPS offload | what they do with the process calls | they keep to the contracts of `tiku_process.h` |
| Boot and init (`src/boot`, `init/`, `src/main.c`) | configuration | straight line to the loop | - | - |
| Chip ports (`src/arch`, `src/hal`) | registers | interrupts, flash, sleep | how a word is written | a word is atomic |
| BASIC, interfaces, network, tools | - | - | data-heavy | - |

**How they interact.** Timers post TIMER events and are polled through the
process layer; their owners are read from `tiku_current_process`. Exit calls
back into timers, watches and supervision. The tick polls the timer process,
wakes the kernel thread and feeds the hang detector. The hang detector names a
process that autostart then skips. The file store, cells and layout write
through the memory HAL, which a chip port implements.

`PROJECT.json` lists under `hazards` where each of these bites, at its line, and
the properties that watch over it.

## 2. What is modelled

### TikuProcess: the process layer

The variables are those of `tiku_process.c`; `queue` is the used part of the
ring, oldest first. `stack` is the C call stack of the process context at the
points where an interrupt can come in or a nested call return. An action is a
stretch of code between two such points: usually one atomic section with what
surrounds it. The frames are:

| frame | the process context is |
|---|---|
| `call` | at the top of `call_process(p, ev)` |
| `body` | in p's thread function, which may still make `n` kernel calls |
| `walk` | in a broadcast, with p the next node to visit |
| `init` | in `tiku_process_start(p)`, linked, before the post of INIT |
| `exited` | in `tiku_process_exit(p)`, unlinked, before the post of EXITED |
| `supervise` | in `supervisor_on_exit(p)` |
| `pump` | in the loop of `basic_https_offload()` |

Bodies are arbitrary: at each point a body may make any call that `Program`
gives it, or yield, or (but for the shell) end. `IsrPost` and `IsrPoll` may
happen at every point. Three history variables record what the properties
speak of and no guard reads but one: `owed` (INIT not yet handed over), `wrong`
(a wrong delivery has happened), and `parked` (down by
`tiku_process_stop()`, so still on the list). `parked` is read where the caller
of start is modelled: `StartParked` says whether callers obey the contract of
`tiku_process.h:499`, that a stopped process is resumed, not started.

Left out: the data an event carries, the sizes and segments a process records
for `/proc`, channels, and the memory-reclaim hooks (compiled out unless
`TIKU_MEM_RECLAIM_ENABLE`). `tiku_process_stop()` and `resume()` act on
registered processes only, as the shell uses them, by pid.

### TikuTfs: the file store

The medium is a magic, a directory of gates, names and runs, and slots with a
length word and content. A call is `op`: which of its backend writes comes next
and to what. A write may land, fail, or fail and have landed
(`LandsOnFailure`, which one port does); power may go before, after or during
it. A word is whole or absent; a name or a chunk may be torn (`Junk`). With
`SectorErase` a directory write may lose the sector, as on two flash ports.

RAM updates after a call's last write are part of that write's action: no one
sees the state between, as nothing else runs, and a power cut loses it.
Content is a sequence of slot-sized pieces, so lengths inside a slot are not
told apart. Read leases (`TIKU_TFS_HOLD_ENABLE`, off), probing for stores and
the geometry computation are left out; read, stat and list change nothing and
appear as the operator `File`.

`AtomicFiles` is the abstract specification: a map from names to contents and
the open drafts, each change one step. `A == INSTANCE AtomicFiles WITH file <-
Files, draft <- Drafts` maps the medium to it: a file exists once its gate and
the magic say so, and its content is what its run holds.

### TikuTimer: timers, critical windows and sleep

`at` is where the process context is: in `tiku_sched_loop()`, in a body, in the
timer process about to look at `timer_list[pos]`, in a callback, or asleep. A
step of the scan looks at one timer; what the code does with a due one (post or
callback, unlink, start over) is one action up to the callback, whose calls are
steps of their own. A tick or another interrupt may come between any two steps.
The process layer is reduced to what timers depend on: which processes run, the
current process, and the queue with its POLL, TIMER, INIT and EXITED entries.
Application events are left out; they cannot use the last slots.

`now` is a clock of `ClockMod` values, as `tiku_clock_time_t` is of 2^16 or 2^32.
`age` is the history that knows how many ticks have truly passed since a timer's
start, and `owed` the timers that were due when the scan last started over.
`age` is read in two places: callers reset a timer only once it came due and
within a clock period (the shell and the beacon do, from the wake-up or callback
of that timer), and the clock stops, though its ticks still poll, before an armed
timer is a whole clock period old (`Elapsed`): 16 bits at 128 ticks a second are
more than eight minutes.

The idle path is one action, as it is one atomic section in the code. A sleep
with a stretched tick ends at the deadline chosen, or at another interrupt,
which finds the ticks slept so far credited (`Credited`). With `TickSkips` the
tick does not poll in a critical window, as on MSP430. A window is opened by a
body and closed by the handler that ends what it was opened for. `Program` gives
the calls of bodies and callbacks; a process in `PT_WAIT_UNTIL_TIMEOUT` is
`blocked` and each event may end the wait (the condition holds) or leave it
waiting. In `timer_periodic` the process that waits starts no other.

### TikuThread: worker threads

The variables are the file's own (`threads`, `current`, `kready`, `rr`), the
fields of the control blocks, one wait queue, and `pended`: the switch exception
is pending. It has the lowest priority, so once it is pended no thread takes a
step before `Switch`, but interrupts do; a step of a thread is what it does
under one mask. `kat` and `at[w]` say where the kernel thread and worker w are,
running or preempted. A worker that pends the switch *after* it opens the mask
(`yield`, `exit`, a post) has a step between, where a tick may come.

The kernel thread runs the loop of `tiku_sched.c`: dispatch, the second look at
the queue under the mask, the hand-over to ready workers or the sleep. A process
body may start, forget, grant, join, wait, give, and wait for a worker with
`TIKU_WAIT_WORKER`, which is the process layer's POLL: merged with one queued,
refused by a full queue (`refused` remembers it; nothing wakes the process then,
and `AwaitHeard` and `AwaitEnds` do not speak of it). The queue is a count of
events and whether the POLL is in it; what they do is TikuProcess.

The wait queue's client is a semaphore: `tokens` is the condition, tested and
changed under the mask in which the queue is waited on or woken, as
`tiku_thread.h` asks. `ttl` is the distance to a deadline, `left` what a budget
has left (`budget - 1 - cycles`; the code's 0 is `NULL`), charged at the switch.

Assumed of callers: they start only workers that are done or were never started
(`tiku_thread_start()` accepts a blocked one; no caller in the tree does it), and
budgets are granted from the kernel thread. Left out: the stack canary, counters,
and the deadline given to a stretched tick, which TikuTimer has for timers.

### TikuPersist: cells and the boot move

Durable memory is an array of words. A cell is a gate word and the words of its
value, each image has a table of where its cells are and a manifest: a magic and
the words of its record. `stores` is what the operation under way has still to
store; power may go between any two stores, and inside one the memory HAL makes
byte by byte, which leaves a word that is no key, magic or value (`Torn`). A
direct store of an aligned word is whole or absent, as `tiku_persist.c:380-383`
says of it.

`Boot(i, preserve)` boots any image: the shortcut when memory is laid out as
recorded, or else the copy and the retirement of the old records; `Clear`,
`CarryCell` and `RecordLayout` are the phases of `tiku_persist_move()`, and
`CellInit` primes what is left. A record checks if its words are of one image: that
FNV-1a tells records apart is assumed. Of the layouts it is assumed that an
image's own objects do not overlap (`Apart`), which the linker sees to, and that a
record is contiguous, so that two with the magic at one place share its second word
as well; how the layouts of *different* images overlap is open. Whether a layout record is to be restored
(`preserve`) is a choice; what it is, is the layout component's. Zero fill and
default are one store of each word, and writes are of whole cells.

`Calls` says which operations a program uses on each of its cells. `CellWrite`,
`CellCommit` and `CellWriteU32` choose their stores as the code does: a value of
several words goes between two stores of the gate (`Gated`); a value of one word
goes through the HAL under the gate as it is, and `commit` stamps the gate behind
it; `write_u32` stores the words of a `uint32_t` directly and leaves a cell of any
other size to the HAL (`U32` says which cells are exactly a `uint32_t`). `write`
and `write_u32` are called on cells the program primes, as their header asks; a
cell may be committed without (`arch/nordic/tiku_cpu_settings_arch.c`), and then
shows nothing until the first commit.

`shown` is what each cell in use shows while its gate is valid, and what it showed
last while an operation or the move keeps the gate invalid. `Atomic == INSTANCE
AtomicCells` is the promise: whole values, the last one written, or nothing; only
a restart takes one away. The promise has one exception, `AtomicCells!Tear`: a
cell of one word that some program stores through the HAL (`Frail`) may be left
torn under its valid gate, by a cut inside that store, until the next write. Left out: the key-value store in the same file, ports that mirror
the cells in RAM, and wear.

## 3. What the runs check

| run | instance | shows |
|---|---|---|
| `process_pair` | 2 processes, queue of 2 with 1 reserved, generation wraps at 2, burst cap 1 | `ReserveKept`, `OnePoll`, `NoStaleDelivery`, `Supervised`, `NoReentry`; under fairness `InitArrives`, `PollTaken` |
| `process_trio` | 3 processes that start, exit, stop, resume and register each other | `TypeOK`, `BroadcastComplete`, `BroadcastOnce`, `ListSound` |
| `process_reopen` | callers that start a stopped process | finding: the list becomes a cycle |
| `process_poll` | a supervised process, and polls of it | finding: a poll is merged with a dead one |
| `timer_periodic` | 2 timers, 2 processes, queue of 2, clock modulo 4, interval 2 | `TypeOK`, `SleepSound`, `ScanComplete`, `NeverEarly`; under fairness `DueFires`, `WaitEnds` |
| `timer_wait` | a start at a full queue, then a wait with a timeout | finding: the wait never ends |
| `thread_wait` | 2 workers, 2 slots, queue of 1, one worker with a budget, one with deadlines | `TypeOK`, `SlotKept`, `RunningSound`, `BitsSound`, `NoLostWake`, `EventHeard`, `AwaitHeard`, `BudgetBound`; under fairness `AwaitEnds`, `EventTaken` |
| `thread_priority` | the same | finding: a worker preempts a process body |
| `persist_move` | 2 images over each other, 3 cells, 2 values, copy of 3 words | `TypeOK`, `OneRecord`, `Atomic!Spec`, `CarryComplete` |
| `tfs_atomic` | 3 names, 2 entries, 3 slots, 2 pieces, 2 handles | `TypeOK`, `Atomic`, `MapExact`, `Mountable`, `CommitFits`, `StagedUnseen`, `ShadowSlot` |
| `tfs_sector` | the same, on a backend that erases sectors | finding: a cut loses the store |
| `tfs_landed` | the same, on a backend whose failed writes may land | finding: a stream stages into a live file's slot |

Each property of a passing run has a mutant in `PROJECT.json`: a plausible
mistake in the code under which the run finds the property violated.

### Bounds, and why they are enough

* *Two or three processes.* The queue and supervision properties involve a
  process, another that acts on it, and broadcasts: two. The list properties
  involve a node that leaves, its neighbour and one after it: three.
* *A queue of two with one reserved slot* is full, half full and empty within a
  few posts, so every post meets both a refused and a granted one; compaction
  behind a removal needs two entries. What does not depend on the size is
  proved for every size (section 4).
* *MaxGen = 2*: the generation goes 1, 2, 1, so an entry two instances old looks
  fresh if it is still there. With 255 the same needs 255 restarts.
* *MaxBurst = 1* reaches the cap with the second failure.
* *MaxOps* and *MaxDepth* bound how many kernel calls a body makes in one
  activation and how deep calls may nest while bodies still make them. A body
  is activated any number of times, so only what needs two calls without a
  yield between them is lost by MaxOps = 1; the two runs that need it have 2.
  MaxDepth 4 and 5 allow a body inside a direct call inside a body inside a
  broadcast.
* *Two timers* of the same interval, set at different ticks: one is nearer, one
  is behind the other on the list, both can be due in one scan; their starts lie
  on both sides of the wrap. *A clock modulo 4* wraps within one wait and leaves a
  timer up to one tick late before its modular age is ambiguous; a stretched
  tick covers two. The run takes the stretched tick and the skipped poll
  together, which no port does: fewest polls, longest sleep. With modulus 5 and
  interval 3, and with intervals 1 and 2 together, the same properties held in
  trials, which take two to four minutes and are not kept as runs.
* *A queue of two* in the timer runs is filled by a POLL and one TIMER or EXITED,
  so the scan meets refused events and ticks meet refused polls.
* *Two workers and the kernel thread* are three threads on one queue: two
  waiters, and a third to wake or to take the CPU. *One token, one tick of
  deadline, one cycle of budget* make a wake meet a second waiter, a deadline
  and an exhausted budget in a few steps; a semaphore that holds more only puts
  off the waits. *A queue of one* is full with the first event, so the exit's
  POLL is merged, queued or refused.
* *Two images*: a move has an old layout and a new one, and an interrupted move
  may be followed by the first again. The layouts put a value over a gate, a
  gate over a value, a value over its own old gate and over a magic, keep one gate
  in place over data that moves, change one cell's size, and have one cell more
  than the copy holds. Each operation is used on a value of one word and of two,
  but for `write_u32` on two words, whose stores are `Gated` like the others'.
  One cell is frail, and one image commits it without priming it.
* *Two directory entries, three slots* give a store that is full, has one free
  entry, and has the shadow slot only; `SpanMax = 2` has files of one and of two
  slots, so runs from both ends of the map. Three names are one more than fit.
  Names, pieces and handles are symmetric.

### Fairness

`FairSpec` assumes weak fairness of `Step`, the process context: the processor
goes on executing it, since `tiku_sched_loop()` never leaves the loop but to
sleep when the queue is empty, and interrupt handlers return. No fairness is
given to interrupts, nor to any one process, call or body: that a body yields
in the end is the budget `MaxOps` and the contract of a protothread, and a body
that hangs is the hang detector's business. Its next-state relation,
`PromptNext`, lets the 5 s of `TIKU_SUPERVISOR_WINDOW_TICKS` run out between
dispatches only, not inside one. Without it a process that fails in INIT, restarted by a
direct call each time, could be restarted for ever inside one dispatch, each
restart 5 s after the last. Safety properties in that run are checked under `PromptNext`;
section 4 proves each of them under `Next`.

The timer runs assume weak fairness of the process context as above, of `Clock`
(the tick interrupt, or time passing in a stretched sleep; none while the clock
stops in deep sleep, which `Idle` allows with no timer armed), and of the end of
a critical window: `tiku_crit.h` requires a held window to be shorter than the
watchdog's timeout. `DueFires` and `WaitEnds` speak of runs that settle: other
interrupts leave off, as a stream of them can keep the queue full at every tick,
and scans end, as a callback that takes as long as its interval keeps the scan
starting over for ever.

The thread run assumes weak fairness of the switch exception and the tick, which
come from hardware. The kernel thread's steps are strongly fair: it makes progress
whenever it has the CPU again and again, though ticks and posts pend switches in
between that come back to it. That the process body returns (`Return`) is part of
it, as for every protothread. `SF_vars(Dispatch)` says that the process that waits
is dispatched some time when its events come again and again among others, as the
queue is first in, first out. Nothing is assumed of workers: one may
keep the CPU for ever, and `EventTaken` and `AwaitEnds` hold all the same. That
each worker gets its turn is not claimed: the cursor moves at every yield and
every hand-over, and two that move it in step may pass one worker by.

## 4. What is proved

`TikuProcessProofs.tla` proves, for every value of the constants that
`ProcessAssumption` allows (any finite set of processes, any program of calls,
any queue size, reserve, generation range of at least two, burst cap):

* **TypeCorrect**: `Spec => []TypeOK`. `TypeOK` is inductive. The work is in the
  queue, whose entries are removed from the middle: `Compact` keeps the entries
  at a set of positions, defined by counting, and `CompactKeeps` shows that the
  result is a sequence of exactly those entries in their order (`KeptUpToCounts`
  and `KeptUpToOnto` show that counting is a bijection onto the kept
  positions).
* **ReserveAlwaysKept**: `Spec => []ReserveKept`. `StepQueue` says what any step
  does to the queue: nothing, a post, a poll, a compaction, or marking entries
  as old. A post of a user event lands below the reserve; compaction moves
  entries only towards the front.
* **OnePollPerTarget**: `Spec => []OnePoll`, along the same cases.
* **NoStaleEverDelivered**: `Spec => []NoStaleDelivery`, assuming
  `StartParked = FALSE`. `NoStaleDelivery` itself is not inductive: nothing in it says
  that the queue holds no old entry with the current generation. `Dated`
  adds that an entry's generation tells its instance: an entry of an earlier
  instance never carries the current generation, one of this instance always
  does, and entries of an earlier instance exist only while the process is on
  the list. The last is what makes the generation's wrap harmless: exit
  purges the queue, so at a start no entry of the process is queued but those of
  the instance just before, and two values suffice to tell these apart. With
  `StartParked` a stopped process could be started again and again with its old
  entries queued, and the wrap would bring one back.
* **FailedAreBack**: `Spec => []Supervised`, assuming `FailsItself`: a process
  reports its own failure and asks for its own restart, from a body that only
  posts, sets policies and fails. That is the contract of
  `tiku_process_fail()`, "called from inside the process on an unrecoverable
  error", and the program of `process_pair` keeps to it. `Supervised` is not
  inductive: nothing in it keeps a process from reporting a failure after it was
  taken down. `LeafInv` does: no frame is ever stacked on the body of a process that
  only fails, so that nothing takes it down under its own feet and it runs
  while its body does. `Backed` is `Supervised` in terms of what the frames
  are about; `HeldTop`, `HeldAppend` and `HeldSpent` say what pushing, popping
  and counting a call does to that.
* **NeverReentered**: `Spec => []NoReentry`, assuming `Disciplined(s)` for some
  process s, the shell in `process_pair`: only s starts, registers and exits
  others and pumps, and an activation of s makes one call at most, or never
  pumps, or never starts or exits anything. The second part is what finding 2
  costs: INIT that a full queue makes `tiku_process_start()` deliver itself
  leaves `tiku_current_process` NULL, so that a pump after it in the same body
  has no process to skip. `NestInv` says that every frame fits the frames below
  it (a body with a frame above it is s's, and no frame above it will call s),
  and that s is named while it may still pump.

`Compact` is stated with `CHOOSE` and cardinalities, not with recursion, so
that this can be proved about it. It and its lemmas are in modules of their own
(`Compaction`, `CompactionProofs`), as the list of timers is shortened the same
way.

`TikuListProofs.tla` proves the three list properties of the run process_trio
for the same constants and `StartParked = FALSE`, the contract of
`tiku_process.h:499`; the run process_reopen shows what happens without.

* What is on the list is stated without recursion. `Reach(h, next)` is what every
  set holds that contains h and is closed under `next`; `Heads` says that a pointer
  heads a list of exactly some set of nodes, with no node pointed at twice;
  `Acyclic`, that no nonempty set of nodes keeps all its pointers inside. Lemmas
  say what linking at the head and unlinking anywhere does to each
  (`NodesListed` and `ListInvSound` bring it back to the walk by positions that
  `Listed` is defined with).
* `ListInv` is inductive. The list is headed by exactly the processes that
  run or were stopped (`Live`), and every broadcast under way still reaches from its
  next node all it owes a visit, and nothing running that it has visited. The
  hard case is a node that leaves while a walk stands on it: its pointer is kept by
  the code, and leads on through nodes that may have left before or after it.
  So `Acyclic` speaks of the pointers of *all* nodes, on the list or off it.
  Linking a node again gives it a new pointer under walks that may stand on it:
  they still reach the list, of which they may see a part again. That is why
  `BroadcastOnce` counts visits from the last link only.
* **ListAlwaysSound**, **BroadcastReachesAll**, **BroadcastReachesOnce** follow from
  it.

`TikuThreadProofs.tla` proves every safety invariant of the run thread_wait for
what `ThreadAssumption` allows: any finite set of workers, any number of slots,
any size of the event queue, any deadlines, grants and tenures. `TypeOK` is
inductive and each other invariant is so relative to it and to those named
here; `SwitchEffect` and `GiveEffect` say once what a switch and a wake do.

* **SlotsKept**: from `SlotInv`, which also says that no two slots hold one
  worker and that a worker is done exactly when it is out of its function. The
  second is what a start relies on when it takes the slot of a worker in state
  DONE: nobody waits there.
* **RunningRight**: inductive given `SlotInv`. A worker that blocks pends the
  switch in the same step, and a wake makes it READY, never RUNNING.
* **BitsRight**: inductive given `SlotInv`. The hard step is a start: the slot it
  takes is of a worker that is done, so no bit of it is set.
* **NoWakeLost**: `NoLostWake` is not inductive: with two tokens and one thread
  woken, that thread leaves and the second token is unannounced. `WokenEnough`
  counts: there are at least as many threads woken and not yet returned as there
  are tokens. A wake of one adds one to both sides, since `BitsSound` gives the bit it
  clears a thread; a wake of all leaves nobody waiting; the end of a wait takes
  at most one from each. A wait that ends by its deadline with its bit cleared
  counts as woken: that is why the code must look at the bit before the deadline.
  `Resting` keeps the worker that gives a token from running while the kernel
  naps.
* **EventsHeard**, **AwaitsHeard**: the second needs `Recorded`: a worker that is
  not done knows of the process that waits for it, so its exit polls.
* **BudgetsBound**: needs `Solvent`: the worker on the CPU took it with cycles
  left, so one tenure is all it can overrun.

`TikuTimerProofs.tla` proves every safety property of the run timer_periodic for
what `TimerAssumption` allows: any finite sets of timers and processes, any
program of calls, any clock of at least two values, any intervals below its
period, any queue, tickless or not. `IInv` is `TypeInv` and `TimeInv`, and
`StepKinds` sorts the steps by what they do to timers: a list that at most
shortens, a timer inserted, or time that passes.

* **TypeCorrect**: `TypeInv` splits the types into groups of variables that
  change together and adds what `TypeOK` needs to be inductive: the list has no
  timer twice (an insertion unlinks first), an armed timer was set to an interval,
  and bodies and callbacks never run as the timer process.
* **FiresOnTime**: `AgeExact` says that the modular distance from a timer's start
  is its true age as long as that is below a clock period, and `ArmedYoung` that
  it is for an armed one. The distance is kept through the wrap of the clock, the
  wrap of a start a reset has moved, and any number of ticks credited at once;
  `DueExact` concludes that `timer_is_due()` tells the truth.
* **SleepsSoundly**: `SleepOK` says that the next tick is set no later than any
  armed timer's expiry. Falling asleep makes it so, since the distance
  `tiku_timer_next_expiration()` minimises is what is left of each interval
  (`DistanceExact`), and ticks slept through stay below it. In turn `ArmedYoung`
  needs it: credit for a sleep must not carry a timer past a period.
* **ScansComplete**: `OwedAhead` says that what a scan owes is at its position or
  behind it on the list; each rescan starts from the first position.

These rest on the two assumptions section 2 names: callers reset due timers only,
and no armed timer gets a clock period old.

`TikuTfsProofs.tla` proves what the run tfs_atomic checks, for what `TfsAssumption`
allows: any names and pieces, any handles, any number of entries, runs of any
length. **TypeCorrect** holds on every backend. The rest is stated as `Whole =>
...`: failed writes have not landed and words are written in place. Findings 4 and 5 are what
happens without.

`StoreInv` is the inductive invariant. `Streams` (one at a time, with an entry to
commit to), `Directory` (a magic vouches for a consistent directory of whole
names) and `MapOK` (the map is exact *during* calls too) speak of the state between
writes; `CallOK` of what the writes of the call under way have left so far: for a
create and a commit, that the length word is down before the name, the name before
the run and the run before the gate (`Entering`), which is why the gate may
publish. `NewRun` concludes that the run being written is sound and in no live
entry. There is a lemma per call and per write; the ones that touch nothing live
are instances of `Kept`.

* **MapAlwaysExact**, **AlwaysMountable**, **CommitAlwaysFits**,
  **StagedNeverSeen** are conjuncts of it or follow from one. **ShadowSlotKept**
  counts: one-slot runs of `NFiles` entries do not cover `NFiles + 1` slots.
* **ImplementsAtomicFiles**: `Spec => Atomic`. Of the writes only four can change
  what is read: the flipped run and the gate of a commit (`Publish`), the gate of
  a create, the gate of a delete, and the magic (`Format`). All others touch slots
  and entries that no live entry names, so `SameFiles` applies; a chunk that lands appends to
  the draft. A power cut tears only such a slot or name (`CutSpares`, `StagedApart`).
* **CutsKeepFiles** is the case of the power cut.

`TikuPersistProofs.tla` proves every property of the run persist_move, for what
`PersistAssumption` allows: any cells and values, any images, tables in any order, values of any length, and layouts that
overlap in any way. `Inv` is the inductive invariant, one part per phase of the boot.

* The stores under way are always the rest of a *plan*: for a cell, its gate
  cleared, its words, its gate keyed (`CellAt`, `CellWord`); for a record, no magic,
  its words, its magic (`RecordAt`, `RecordWord`). `Underway` and `Recording` say
  what is left of it and what it has stored so far; `CellStore` and `RecordStore`
  take one store of it. A cell past its first store is invalid until the last.
* **OneRecordAlways**: `NoNewRecord` says which single store can bring a record
  back, its magic or one of its words. Only `RecordLayout` stores those, for the
  running image, and it stores a cleared magic before anything else, so no record
  that an old layout left half stored is completed by another's stores.
* **ImplementsAtomicCells**: `Spec => AtomicSpec`. `Faithful` says that an image finds
  in its cells what they show, or nothing, and holds of every image whose record
  checks while power is off; that is what makes the copy sound (`CopySound`) and
  the shortcut safe. No cell is faithful during the move, and none needs to be:
  no record is sound then. When it ends, what moved is in place and nothing else is
  valid (`RestInvalid`). A torn word spares the other cells (`Homes`) and leaves
  its own cell invalid (the gate itself was torn, or it was cleared before), or
  that cell is `Frail` and the word is its value: then the cut is `Tear`
  (`PowerCutKeeps`). A frail cell torn before is carried as it is, like a value
  (`Held`).
* **TypeCorrect** with them.
* **NothingElseLost**: `Spec => CarryComplete`. `Inv` says that what moves is right;
  `Lossless` adds, where no cut has interrupted stores, that what shows and fits
  moves (`CopyComplete`), and that between boots the cells show exactly what the
  one record's image reads (`Uncut`). `FitCarried` compares two counts along the
  table: the words the loop has used so far (`Used`) are never more than the words of all cells so far
  (`UpTo`), so a cell that fits behind all of these is taken, whichever of them
  were skipped.

The first three need the images' own objects apart, but of `Carried` only that it
takes valid cells of equal size: not how it counts what fits. The counts are
recursive functions; that one exists and what its values are is an induction over
the set of positions where it holds (`StepsUpTo` in `NatOrder`, `CountExists`).

### Only model-checked

Liveness, which is out of the prover's reach: `InitArrives` and `PollTaken` of the
process layer, `DueFires` and `WaitEnds` of the timers, `AwaitEnds` and
`EventTaken` of the threads. Of `Supervised` and `NoReentry` nothing
is claimed for programs outside the two hypotheses above, which the program of
`process_pair` meets. What the findings' runs check (`KernelFirst`, `PollHeard` and
the others under `expect: violation`) is false of their instances (section 5).

## 5. Findings

1. `tiku_link_ble_open()` registers the link's process and starts it when it is
   not running (`link/tiku_link_ble.c:281-283`), also when the shell's `kill` has
   stopped it since the last open, which `tiku_process.h:499` forbids; the list
   becomes a cycle (`process_reopen`).
2. A direct delivery of INIT leaves `tiku_current_process` NULL for the rest of
   the body that called start (`tiku_process.c:334`). A timer that the body sets
   next is ownerless (`tiku_timer.c:226`): it expires without an event, and a
   `PT_WAIT_UNTIL_TIMEOUT` that relies on it never ends (`timer_wait`). The HTTPS
   offload of a shell in that state has no process to skip and pumps itself.
3. A poll is merged with a POLL queued for an earlier instance, which dispatch
   drops (`tiku_process.c:812`, `process_poll`).
4. On RP2350 and STM32N6 a directory write erases the sector that holds the
   superblock, against the promise of `tiku_tfs.h:11` (`tfs_sector`).
5. When a backend reports failure for a word that has landed, `tiku_tfs_create()`
   leaves a live file whose slot is free in the map (`tfs_landed`).
6. When the switch falls back to the kernel thread because no worker is
   runnable, the kernel's ready flag stays clear (`tiku_thread.c:183`): after a
   join, the next wake of a worker takes the CPU from the process body that goes
   on, against "the kernel has absolute priority" (`thread_priority`).

Seen in the models and not claimed as defects: an interrupt's event may reach a
fresh instance before INIT; a process that stops itself is labelled WAITING when
it yields, so `resume` refuses it; the exit reason of a resumed process is the
one of its last failure until the next start; a callback that opens a critical
window does not end the scan it runs in; `tiku_persist.c:432` says of a value of
one word that "the store itself is the atom", which holds of a direct store, but
`cell_write` (534), `cell_commit` (573) and `write_u32` of another size (629) store
it through the HAL, byte by byte on MSP430 and nRF54L, under a gate that is still
valid (`AtomicCells!Tear`; the one such cell found in the tree, that of
`arch/nordic/tiku_cpu_settings_arch.c:49`, is checked by its reader); a reset before the expiry moves the
start past the present and makes the timer due at once, which callers avoid
(`tiku_console.c:131`).

## 6. Plan

In this order; each with its own MC module.

1. **TikuChannel**: the FIFO between a handler and a process, as a refinement of
   a bounded sequence; small.
2. **Hang record, layout receipts, reclaim**: as far as the bounds allow.
3. **Proofs**: `NoReentry` where several processes nest calls, of which none can
   come back to another.

Not planned: register-level code of the ports, the BASIC interpreter, drivers,
the network stack, the shell's line editing, and the allocators, which are
sequential and best tested.
