---------------------------- MODULE TikuProcess ----------------------------
(***************************************************************************)
(* The process layer of the kernel (kernel/process/tiku_process.c): the    *)
(* event queue, the list of started processes, dispatch to protothreads,   *)
(* start / exit / stop / resume, and supervised restart.                   *)
(*                                                                         *)
(* Two contexts share the queue.  Interrupt handlers post and poll at any  *)
(* moment outside an atomic section.  Everything else runs in the single   *)
(* process context, whose C call stack is the variable "stack": a frame is *)
(* a point at which an interrupt can be taken between two atomic sections, *)
(* or at which a nested dispatch has the rest of its caller still to run.  *)
(*   call       call_process(p, ev, ..) about to look at p                 *)
(*   body       p's thread function is executing                           *)
(*   walk       a broadcast about to visit p (NULL: end of the list)       *)
(*   init       tiku_process_start(p) has linked p, INIT not yet posted    *)
(*   exited     tiku_process_exit(p) has unlinked p, EXITED not yet posted *)
(*   supervise  EXITED posted, the restart policy not yet applied          *)
(*   pump       the shell, in its own dispatch, runs the other processes   *)
(***************************************************************************)
EXTENDS Naturals, Sequences, FiniteSets, Compaction

CONSTANTS
  Proc,        \* the processes
  NULL,        \* the null pointer; as a post's target, TIKU_PROCESS_BROADCAST
  Shell,       \* tiku_shell_process, whose thread never ends
  Autostart,   \* sequence of processes: the list given to tiku_autostart_start()
  Culprit,     \* the process tiku_hang_is_culprit() names this boot, or NULL
  Program,     \* the kernel calls bodies make: <<caller, call, argument>>
  StartParked, \* do callers start a process that tiku_process_stop() took down?
  QueueSize,   \* TIKU_QUEUE_SIZE (32)
  Reserve,     \* TIKU_QUEUE_RESERVE (4)
  ProcessMax,  \* TIKU_PROCESS_MAX (8), slots of the pid registry
  MaxGen,      \* largest value of the 8-bit generation (255)
  MaxBurst,    \* TIKU_SUPERVISOR_MAX_BURST (5)
  MaxOps,      \* bound: kernel calls a body makes in one activation
  MaxDepth     \* bound: frames below which bodies still make kernel calls

Ev == {"INIT", "CONTINUE", "POLL", "FORCE_EXIT", "EXITED", "GPIO", "USER"}
RestartPolicy == {"NEVER", "ON_FAILURE", "ALWAYS"}
Call == Ev \cup RestartPolicy \cup
        {"start", "register", "exit", "stop", "resume", "fail", "pump"}

ASSUME ProcessAssumption ==
  /\ IsFiniteSet(Proc) /\ NULL \notin Proc
  /\ Shell \in Proc /\ Culprit \in Proc \cup {NULL}
  /\ Autostart \in Seq(Proc)
  /\ Program \subseteq Proc \X Call \X (Proc \cup {NULL})
  /\ \A c \in Program : c[3] = NULL => c[2] \in Ev \cup {"pump"}
  /\ StartParked \in BOOLEAN
  /\ QueueSize \in Nat \ {0} /\ Reserve \in 0..QueueSize
  /\ ProcessMax \in Nat /\ MaxGen \in Nat /\ MaxGen >= 2
  /\ MaxBurst \in Nat \ {0} /\ MaxOps \in Nat /\ MaxDepth \in Nat

VARIABLES
  queue,       \* the ring queue[q_head .. q_head + q_len - 1], oldest first
  head, next,  \* tiku_process_list_head, and each p->next
  running,     \* p->is_running
  pstate,      \* p->state; IDLE is READY, WAITING or SLEEPING
  gen,         \* p->generation
  reason,      \* p->exit_reason
  restart, burst, recent, \* p->restart, p->restart_burst, and whether the last
                          \* restart is within TIKU_SUPERVISOR_WINDOW_TICKS
  registered,  \* the processes the pid registry holds
  current,     \* tiku_current_process
  boot,        \* what tiku_autostart_start() has still to look at
  stack,       \* the process context's call stack, innermost frame last
  (* history, which no action reads: *)
  parked,      \* running when tiku_process_stop() took it down, not yet resumed
  owed,        \* started, and INIT neither handed over nor given up since
  wrong        \* kinds of wrong delivery seen so far

vars == <<queue, head, next, running, pstate, gen, reason, restart, burst,
          recent, registered, current, boot, stack, parked, owed, wrong>>

list  == <<head, next>>
super == <<restart, burst, recent>>

-----------------------------------------------------------------------------
(* The event queue.                                                        *)

event_is_system(ev) == ev # "USER"

event_generation(p) == IF p = NULL THEN 0 ELSE gen[p]

event_is_stale(e) == e.p # NULL /\ e.gen # gen[e.p]

Item(p, ev) == [p |-> p, ev |-> ev, gen |-> event_generation(p), old |-> FALSE]

(* Mutant: exit leaves the queue alone and trusts the generation.           *)
queue_purge_Trusting(q, p) == q

queue_purge_process_locked(q, p) == Compact(q, {i \in DOMAIN q : q[i].p # p})

queue_remove_locked(q, pos) == Compact(q, DOMAIN q \ {pos})

(* Mutant: the reserve is kept from the kernel's events instead.            *)
Room_Swapped(ev) ==
  Len(queue) < (IF event_is_system(ev) THEN QueueSize - Reserve ELSE QueueSize)

Room(ev) ==
  Len(queue) < (IF event_is_system(ev) THEN QueueSize ELSE QueueSize - Reserve)

Posted(p, ev) == IF Room(ev) THEN Append(queue, Item(p, ev)) ELSE queue

PollQueued(p) == \E i \in DOMAIN queue : queue[i].ev = "POLL" /\ queue[i].p = p

(* Mutant: a POLL for an earlier instance does not count as queued.         *)
Polled_Live(p) ==
  IF \E i \in DOMAIN queue :
       queue[i].ev = "POLL" /\ queue[i].p = p /\ ~event_is_stale(queue[i])
  THEN queue ELSE Posted(p, "POLL")

Polled(p) == IF PollQueued(p) THEN queue ELSE Posted(p, "POLL")

-----------------------------------------------------------------------------
(* The list of started processes.                                          *)

(* The node k steps after the head. *)
Node[k \in 0..Cardinality(Proc)] ==
  IF k = 0 THEN head
  ELSE IF Node[k-1] = NULL THEN NULL ELSE next[Node[k-1]]

Listed(p) == \E k \in DOMAIN Node : Node[k] = p

(* Unlinking p: from the head, or from the first node that points at it. *)
UnlinkedHead(p) == IF head = p THEN next[p] ELSE head

(* Mutant: the node taken off the list no longer points into it.            *)
UnlinkedNext_Cleared(p) ==
  [q \in Proc |-> IF q = p THEN NULL
                  ELSE IF next[q] = p /\ head # p /\ Listed(q) THEN next[p] ELSE next[q]]

UnlinkedNext(p) ==
  LET before == {k \in DOMAIN Node : Node[k] # NULL /\ next[Node[k]] = p}
  IN  IF head = p \/ before = {} THEN next
      ELSE LET k == CHOOSE i \in before : \A j \in before : i <= j
           IN  [next EXCEPT ![Node[k]] = next[p]]

-----------------------------------------------------------------------------
(* The call stack.                                                         *)

Frame(k, p, ev) ==
  [k |-> k, p |-> p, ev |-> ev, n |-> 0, skip |-> NULL, due |-> {}, seen |-> {}]

Top    == stack[Len(stack)]
Caller == SubSeq(stack, 1, Len(stack) - 1)
At(k)  == stack # <<>> /\ Top.k = k

(* What p's leaving or joining the list means for the broadcasts under way: *)
(* they no longer owe it a visit; a fresh link at the head excuses repeats. *)
Gone(st, p) == [i \in DOMAIN st |-> [st[i] EXCEPT !.due = @ \ {p}]]
Joined(st)  == [i \in DOMAIN st |-> [st[i] EXCEPT !.seen = {}]]

-----------------------------------------------------------------------------
(* The two operations that relink, as parts of the actions below; st is the *)
(* stack of the code that called them.                                      *)

(* The queued events of p belong from now on to an earlier instance of it.   *)
Aged(p) ==
  [i \in DOMAIN queue |-> [queue[i] EXCEPT !.old = @ \/ queue[i].p = p]]

NextGen(g) == IF g = MaxGen THEN 1 ELSE g + 1

(* tiku_process_start() up to the end of its atomic section.  The events     *)
(* queued for p stay queued.                                                 *)
Link(p, st) ==
  /\ gen'     = [gen EXCEPT ![p] = NextGen(@)]
  /\ next'    = [next EXCEPT ![p] = head]
  /\ head'    = p
  /\ running' = [running EXCEPT ![p] = TRUE]
  /\ pstate'  = [pstate EXCEPT ![p] = "IDLE"]
  /\ reason'  = [reason EXCEPT ![p] = "NONE"]
  /\ parked'  = [parked EXCEPT ![p] = FALSE]
  /\ owed'    = [owed EXCEPT ![p] = TRUE]
  /\ queue'   = Aged(p)
  /\ stack'   = Append(Joined(st), Frame("init", p, "INIT"))

(* tiku_process_start(p) while p runs returns at once. *)
tiku_process_start(p, st) ==
  IF running[p]
  THEN /\ stack' = st
       /\ UNCHANGED <<queue, list, running, pstate, gen, reason, parked, owed>>
  ELSE /\ ~parked[p] \/ StartParked
       /\ Link(p, st)

(* tiku_process_exit(p), up to the end of its atomic section, with the      *)
(* exit reason its caller has just stored.                                  *)
tiku_process_exit(p, why, st) ==
  /\ reason' = [reason EXCEPT ![p] = why]
  /\ IF running[p]
     THEN /\ running' = [running EXCEPT ![p] = FALSE]
          /\ pstate'  = [pstate EXCEPT ![p] = "STOPPED"]
          /\ head'    = UnlinkedHead(p)
          /\ next'    = UnlinkedNext(p)
          /\ queue'   = queue_purge_process_locked(queue, p)
          /\ owed'    = [owed EXCEPT ![p] = FALSE]
          /\ stack'   = Append(Gone(st, p), Frame("exited", p, "EXITED"))
     ELSE /\ stack' = st
          /\ UNCHANGED <<queue, list, running, pstate, owed>>
  /\ UNCHANGED <<gen, parked>>

-----------------------------------------------------------------------------
(* tiku_process_init(), called before interrupts are enabled and before any *)
(* process starts.                                                          *)
Init ==
  /\ queue = <<>> /\ head = NULL /\ next = [p \in Proc |-> NULL]
  /\ running = [p \in Proc |-> FALSE]
  /\ pstate = [p \in Proc |-> "STOPPED"]
  /\ gen = [p \in Proc |-> 0]
  /\ reason = [p \in Proc |-> "NONE"]
  /\ restart = [p \in Proc |-> "NEVER"]
  /\ burst = [p \in Proc |-> 0]
  /\ recent = [p \in Proc |-> FALSE]
  /\ registered = {} /\ current = NULL /\ boot = Autostart /\ stack = <<>>
  /\ parked = [p \in Proc |-> FALSE]
  /\ owed = [p \in Proc |-> FALSE]
  /\ wrong = {}

(* tiku_autostart_start(): the next process of the list, unless it is the   *)
(* culprit of the last hang.                                                *)
AutostartNext ==
  /\ stack = <<>> /\ boot # <<>>
  /\ boot' = Tail(boot)
  /\ IF Head(boot) = Culprit
     THEN UNCHANGED <<queue, list, running, pstate, gen, reason, parked, owed, stack>>
     ELSE tiku_process_start(Head(boot), stack)
  /\ UNCHANGED <<super, registered, current, wrong>>

-----------------------------------------------------------------------------
(* Dispatch.                                                               *)

(* Mutant: a stale entry is left where it is.                               *)
Dispatch_LeavesStale(i, skip, st) ==
  LET e == queue[i] IN
  /\ queue' = IF event_is_stale(e) THEN queue ELSE queue_remove_locked(queue, i)
  /\ stack' =
       IF event_is_stale(e) \/ (skip # NULL /\ e.p = skip) THEN st
       ELSE IF e.p # NULL THEN Append(st, Frame("call", e.p, e.ev))
       ELSE Append(st, [Frame("walk", head, e.ev) EXCEPT !.skip = skip])
  /\ UNCHANGED <<list, running, pstate, gen, reason, super, registered,
                 current, boot, parked, owed, wrong>>

(* Mutant: the POLL for skip is handed to it.                                *)
Dispatch_PollsSkip(i, skip, st) ==
  LET e == queue[i] IN
  /\ queue' = queue_remove_locked(queue, i)
  /\ stack' =
       IF event_is_stale(e) THEN st
       ELSE IF e.p # NULL THEN Append(st, Frame("call", e.p, e.ev))
       ELSE Append(st, [Frame("walk", head, e.ev) EXCEPT !.skip = skip])
  /\ UNCHANGED <<list, running, pstate, gen, reason, super, registered,
                 current, boot, parked, owed, wrong>>

(* The entry at position i leaves the queue and is handed on, never to skip. *)
Dispatch(i, skip, st) ==
  LET e == queue[i] IN
  /\ queue' = queue_remove_locked(queue, i)
  /\ stack' =
       IF event_is_stale(e) \/ (skip # NULL /\ e.p = skip) THEN st
       ELSE IF e.p # NULL THEN Append(st, Frame("call", e.p, e.ev))
       ELSE Append(st, [Frame("walk", head, e.ev) EXCEPT
              !.skip = skip,
              !.due  = {p \in Proc : running[p]} \ {skip}])
  /\ wrong' = IF e.p # NULL /\ ~event_is_stale(e) /\ e.old
              THEN wrong \cup {"stale"} ELSE wrong
  /\ UNCHANGED <<list, running, pstate, gen, reason, super, registered,
                 current, boot, parked, owed>>

(* One turn of the scheduler loop. *)
tiku_process_run ==
  /\ stack = <<>> /\ boot = <<>> /\ queue # <<>>
  /\ Dispatch(1, NULL, stack)

(* Mutant: when the next node has left the list, the walk starts over.      *)
Walk_StartsOver ==
  /\ At("walk")
  /\ LET p == IF Top.p # NULL /\ ~running[Top.p] THEN head ELSE Top.p IN
     IF p = NULL
     THEN stack' = Caller /\ UNCHANGED wrong
     ELSE /\ stack' = Append(Append(Caller, [Top EXCEPT !.p = next[p], !.seen = @ \cup {p}]),
                             Frame("call", p, Top.ev))
          /\ wrong' = IF p \in Top.seen /\ running[p]
                      THEN wrong \cup {"twice"} ELSE wrong
  /\ UNCHANGED <<queue, list, running, pstate, gen, reason, super, registered,
                 current, boot, parked, owed>>

(* A broadcast's walk reads next before the call. *)
Walk ==
  /\ At("walk")
  /\ LET p == Top.p IN
     IF p = NULL
     THEN /\ stack' = Caller
          /\ wrong' = IF Top.due # {} THEN wrong \cup {"missed"} ELSE wrong
     ELSE LET here == Append(Caller, [Top EXCEPT !.p    = next[p],
                                                 !.due  = @ \ {p},
                                                 !.seen = @ \cup {p}])
          IN  /\ stack' = IF p = Top.skip THEN here
                          ELSE Append(here, Frame("call", p, Top.ev))
              /\ wrong' = IF p \in Top.seen /\ running[p]
                          THEN wrong \cup {"twice"} ELSE wrong
  /\ UNCHANGED <<queue, list, running, pstate, gen, reason, super, registered,
                 current, boot, parked, owed>>

(* call_process(): FORCE_EXIT exits p without running its thread. *)
call_process ==
  /\ At("call")
  /\ LET p == Top.p IN
     \/ /\ ~running[p]
        /\ stack' = Caller
        /\ UNCHANGED <<queue, list, running, pstate, gen, reason, current, parked, owed>>
     \/ /\ running[p] /\ Top.ev = "FORCE_EXIT"
        /\ current' = IF current = p THEN NULL ELSE current
        /\ tiku_process_exit(p, "DONE", Caller)
     \/ /\ running[p] /\ Top.ev # "FORCE_EXIT"
        /\ current' = p
        /\ pstate'  = [pstate EXCEPT ![p] = "RUNNING"]
        /\ owed'    = [owed EXCEPT ![p] = @ /\ Top.ev # "INIT"]
        /\ stack'   = Append(Caller, [Top EXCEPT !.k = "body", !.n = MaxOps])
        /\ UNCHANGED <<queue, list, running, gen, reason, parked>>
  /\ UNCHANGED <<super, registered, boot, wrong>>

(* call_process() once the thread function has returned. *)
Yielded ==
  /\ At("body")
  /\ pstate'  = [pstate EXCEPT ![Top.p] = "IDLE"]
  /\ current' = NULL
  /\ stack'   = Caller
  /\ UNCHANGED <<queue, list, running, gen, reason, super, registered, boot,
                 parked, owed, wrong>>

(* The shell's thread loops for ever; any other may end. *)
Ended ==
  /\ At("body") /\ Top.p # Shell
  /\ current' = NULL
  /\ tiku_process_exit(Top.p,
       IF reason[Top.p] = "FAILED" THEN "FAILED" ELSE "DONE", Caller)
  /\ UNCHANGED <<super, registered, boot, wrong>>

-----------------------------------------------------------------------------
(* The rest of start and exit, outside their atomic sections.              *)

(* Mutant: the answer of the post is ignored.                               *)
PostInit_Unchecked ==
  /\ At("init")
  /\ queue' = Posted(Top.p, "INIT")
  /\ stack' = Caller
  /\ UNCHANGED <<list, running, pstate, gen, reason, super, registered,
                 current, boot, parked, owed, wrong>>

(* tiku_process_start() posts INIT, or delivers it itself. *)
PostInit ==
  /\ At("init")
  /\ queue' = Posted(Top.p, "INIT")
  /\ stack' = IF Room("INIT") THEN Caller
              ELSE Append(Caller, Frame("call", Top.p, "INIT"))
  /\ UNCHANGED <<list, running, pstate, gen, reason, super, registered,
                 current, boot, parked, owed, wrong>>

(* tiku_process_exit() broadcasts EXITED, which a full queue refuses. *)
PostExited ==
  /\ At("exited")
  /\ queue' = Posted(NULL, "EXITED")
  /\ stack' = Append(Caller, [Top EXCEPT !.k = "supervise"])
  /\ UNCHANGED <<list, running, pstate, gen, reason, super, registered,
                 current, boot, parked, owed, wrong>>

(* tiku_process_restart_charge(): a burst is counted only while restarts    *)
(* follow each other within the window.                                     *)
Burst(p) == IF recent[p] THEN burst[p] ELSE 0

Wanted(p) == \/ restart[p] = "ALWAYS"
             \/ restart[p] = "ON_FAILURE" /\ reason[p] = "FAILED"

(* Mutants: one restart more than the cap; the cap leaves the policy as it   *)
(* is.                                                                        *)
supervisor_OneMore ==
  /\ At("supervise")
  /\ LET p == Top.p IN
     \/ /\ ~Wanted(p) \/ Burst(p) > MaxBurst
        /\ stack' = Caller
        /\ UNCHANGED <<queue, list, running, pstate, gen, reason, parked, owed, super>>
     \/ /\ Wanted(p) /\ Burst(p) <= MaxBurst
        /\ burst'  = [burst EXCEPT ![p] = Burst(p) + 1]
        /\ recent' = [recent EXCEPT ![p] = TRUE]
        /\ UNCHANGED restart
        /\ tiku_process_start(p, Caller)
  /\ UNCHANGED <<registered, current, boot, wrong>>

supervisor_Silent ==
  /\ At("supervise")
  /\ LET p == Top.p IN
     \/ /\ ~Wanted(p) \/ Burst(p) >= MaxBurst
        /\ stack' = Caller
        /\ UNCHANGED <<queue, list, running, pstate, gen, reason, parked, owed, super>>
     \/ /\ Wanted(p) /\ Burst(p) < MaxBurst
        /\ burst'  = [burst EXCEPT ![p] = Burst(p) + 1]
        /\ recent' = [recent EXCEPT ![p] = TRUE]
        /\ UNCHANGED restart
        /\ tiku_process_start(p, Caller)
  /\ UNCHANGED <<registered, current, boot, wrong>>

(* supervisor_on_exit(). *)
supervisor_on_exit ==
  /\ At("supervise")
  /\ LET p == Top.p IN
     \/ /\ ~Wanted(p)
        /\ stack' = Caller
        /\ UNCHANGED <<queue, list, running, pstate, gen, reason, parked, owed, super>>
     \/ /\ Wanted(p) /\ Burst(p) >= MaxBurst
        /\ restart' = [restart EXCEPT ![p] = "NEVER"]
        /\ stack'   = Caller
        /\ UNCHANGED <<queue, list, running, pstate, gen, reason, parked, owed, burst, recent>>
     \/ /\ Wanted(p) /\ Burst(p) < MaxBurst
        /\ burst'  = [burst EXCEPT ![p] = Burst(p) + 1]
        /\ recent' = [recent EXCEPT ![p] = TRUE]
        /\ UNCHANGED restart
        /\ tiku_process_start(p, Caller)
  /\ UNCHANGED <<registered, current, boot, wrong>>

(* More than the window has passed since p's last restart.  (A clock that    *)
(* comes round to the window again is left out.)                             *)
WindowPasses(p) ==
  /\ recent[p]
  /\ recent' = [recent EXCEPT ![p] = FALSE]
  /\ UNCHANGED <<queue, list, running, pstate, gen, reason, restart, burst,
                 registered, current, boot, stack, parked, owed, wrong>>

-----------------------------------------------------------------------------
(* What a body does through the kernel while it runs.  A call is a triple   *)
(* of Program; the budget n and MaxDepth bound how many are made.           *)

Calls(c, which) ==
  /\ At("body") /\ Top.p = c[1] /\ c[2] \in which
  /\ Top.n > 0 /\ Len(stack) <= MaxDepth

Spent == Append(Caller, [Top EXCEPT !.n = @ - 1])

BodyPost(c) ==
  /\ Calls(c, Ev)
  /\ queue' = IF c[2] = "POLL" THEN Polled(c[3]) ELSE Posted(c[3], c[2])
  /\ stack' = Spent
  /\ UNCHANGED <<list, running, pstate, gen, reason, super, registered,
                 current, boot, parked, owed, wrong>>

BodyStart(c) ==
  /\ Calls(c, {"start"})
  /\ tiku_process_start(c[3], Spent)
  /\ UNCHANGED <<super, registered, current, boot, wrong>>

(* tiku_process_register() starts a process it finds a free slot for, and   *)
(* leaves alone one that has its slot.                                      *)
tiku_process_register(c) ==
  /\ Calls(c, {"register"})
  /\ c[3] \notin registered /\ Cardinality(registered) < ProcessMax
  /\ registered' = registered \cup {c[3]}
  /\ tiku_process_start(c[3], Spent)
  /\ UNCHANGED <<super, current, boot, wrong>>

BodyExit(c) ==
  /\ Calls(c, {"exit"})
  /\ tiku_process_exit(c[3], reason[c[3]], Spent)
  /\ UNCHANGED <<super, registered, current, boot, wrong>>

tiku_process_stop(c) ==
  /\ Calls(c, {"stop"}) /\ c[3] \in registered
  /\ pstate'  = [pstate EXCEPT ![c[3]] = "STOPPED"]
  /\ running' = [running EXCEPT ![c[3]] = FALSE]
  /\ parked'  = [parked EXCEPT ![c[3]] = @ \/ running[c[3]]]
  /\ owed'    = [owed EXCEPT ![c[3]] = FALSE]
  /\ stack'   = Gone(Spent, c[3])
  /\ UNCHANGED <<queue, list, gen, reason, super, registered, current, boot, wrong>>

(* Mutant: resume links the process without looking for it on the list.     *)
tiku_process_resume_Blind(c) ==
  LET q == c[3] IN
  /\ Calls(c, {"resume"}) /\ q \in registered /\ pstate[q] = "STOPPED"
  /\ next' = [next EXCEPT ![q] = head] /\ head' = q
  /\ pstate'  = [pstate EXCEPT ![q] = "IDLE"]
  /\ running' = [running EXCEPT ![q] = TRUE]
  /\ parked'  = [parked EXCEPT ![q] = FALSE]
  /\ queue'   = Posted(q, "CONTINUE")
  /\ stack'   = Joined(Spent)
  /\ UNCHANGED <<gen, reason, super, registered, current, boot, owed, wrong>>

(* resume links the process again only if an exit took it off the list.  The *)
(* post of CONTINUE, outside the section that links, commutes with whatever   *)
(* an interrupt handler may do between the two.                               *)
tiku_process_resume(c) ==
  LET q == c[3] IN
  /\ Calls(c, {"resume"}) /\ q \in registered /\ pstate[q] = "STOPPED"
  /\ IF Listed(q) THEN UNCHANGED list
     ELSE next' = [next EXCEPT ![q] = head] /\ head' = q
  /\ pstate'  = [pstate EXCEPT ![q] = "IDLE"]
  /\ running' = [running EXCEPT ![q] = TRUE]
  /\ parked'  = [parked EXCEPT ![q] = FALSE]
  /\ queue'   = Posted(q, "CONTINUE")
  /\ stack'   = Joined(Spent)
  /\ UNCHANGED <<gen, reason, super, registered, current, boot, owed, wrong>>

tiku_process_fail(c) ==
  /\ Calls(c, {"fail"})
  /\ reason' = [reason EXCEPT ![c[3]] = "FAILED"]
  /\ stack'  = Spent
  /\ UNCHANGED <<queue, list, running, pstate, gen, super, registered, current,
                 boot, parked, owed, wrong>>

tiku_process_set_restart(c) ==
  /\ Calls(c, RestartPolicy)
  /\ restart' = [restart EXCEPT ![c[3]] = c[2]]
  /\ stack' = Spent
  /\ UNCHANGED <<queue, list, running, pstate, gen, reason, burst, recent,
                 registered, current, boot, parked, owed, wrong>>

(* basic_https_offload(): while a worker thread computes, the shell pumps    *)
(* the other processes from inside its own dispatch.  owner, the process not *)
(* to run, is what tiku_current_process said on entry, and is put back on    *)
(* the way out; a second offload inside the first runs without a pump.       *)
EnterPump(c) ==
  /\ Calls(c, {"pump"})
  /\ \A i \in DOMAIN stack : stack[i].k # "pump"
  /\ stack' = Append(Spent, [Frame("pump", c[1], Top.ev) EXCEPT
                              !.skip = current, !.n = MaxOps])
  /\ UNCHANGED <<queue, list, running, pstate, gen, reason, super, registered,
                 current, boot, parked, owed, wrong>>

LeavePump ==
  /\ At("pump")
  /\ current' = Top.skip
  /\ stack' = Caller
  /\ UNCHANGED <<queue, list, running, pstate, gen, reason, super, registered,
                 boot, parked, owed, wrong>>

(* What run_except() may take: a stale event, an event that is not for skip, *)
(* or a POLL for skip, which it drops.  With no skip it takes the oldest.    *)
Eligible(i, skip) == \/ skip = NULL
                     \/ event_is_stale(queue[i])
                     \/ queue[i].p # skip
                     \/ queue[i].ev = "POLL"

tiku_process_run_except ==
  /\ At("pump") /\ Top.n > 0
  /\ \E i \in DOMAIN queue :
       /\ Eligible(i, Top.skip)
       /\ \A j \in 1..(i-1) : ~Eligible(j, Top.skip)
       /\ Dispatch(i, Top.skip, Spent)

-----------------------------------------------------------------------------
(* Interrupt handlers: a GPIO edge broadcasts, a tick polls.               *)

InIsr == UNCHANGED <<list, running, pstate, gen, reason, super, registered,
                     current, boot, stack, parked, owed, wrong>>

IsrPost    == queue' = Posted(NULL, "GPIO") /\ InIsr
IsrPoll(p) == queue' = Polled(p) /\ InIsr

-----------------------------------------------------------------------------

Body(c) == \/ BodyPost(c) \/ BodyStart(c) \/ tiku_process_register(c)
           \/ BodyExit(c) \/ tiku_process_stop(c) \/ tiku_process_resume(c)
           \/ tiku_process_fail(c) \/ tiku_process_set_restart(c)
           \/ EnterPump(c)

(* A step of the process context. *)
Step == \/ AutostartNext \/ tiku_process_run \/ Walk \/ call_process
        \/ Yielded \/ Ended \/ PostInit \/ PostExited \/ supervisor_on_exit
        \/ tiku_process_run_except \/ LeavePump
        \/ \E c \in Program : Body(c)

Next == \/ Step
        \/ IsrPost
        \/ \E p \in Proc : IsrPoll(p) \/ WindowPasses(p)

Spec == Init /\ [][Next]_vars

(* The processor never stops executing the process context: each dispatch   *)
(* runs to its return and tiku_sched_loop() calls tiku_process_run() again.  *)
(* A dispatch is short against the 5 s of the restart window, so that a      *)
(* crash loop inside one dispatch meets the burst cap.                       *)
WindowPassesBetween(p) == stack = <<>> /\ WindowPasses(p)

PromptNext == \/ Step
              \/ IsrPost
              \/ \E p \in Proc : IsrPoll(p) \/ WindowPassesBetween(p)

FairSpec == Init /\ [][PromptNext]_vars /\ WF_vars(Step)

-----------------------------------------------------------------------------
(* Properties.                                                             *)

Entry == [p : Proc \cup {NULL}, ev : Ev, gen : 0..MaxGen, old : BOOLEAN]

FrameType ==
  {f \in [k : {"call", "body", "walk", "init", "exited", "supervise", "pump"},
          p : Proc \cup {NULL}, ev : Ev, n : 0..MaxOps, skip : Proc \cup {NULL},
          due : SUBSET Proc, seen : SUBSET Proc] : f.k # "walk" => f.p \in Proc}

(* The types of the state of tiku_process.c. *)
TypeOK ==
  /\ queue \in Seq(Entry) /\ Len(queue) <= QueueSize
  /\ head \in Proc \cup {NULL} /\ next \in [Proc -> Proc \cup {NULL}]
  /\ running \in [Proc -> BOOLEAN]
  /\ pstate \in [Proc -> {"IDLE", "RUNNING", "STOPPED"}]
  /\ gen \in [Proc -> 0..MaxGen]
  /\ reason \in [Proc -> {"NONE", "DONE", "FAILED"}]
  /\ restart \in [Proc -> RestartPolicy]
  /\ burst \in [Proc -> 0..MaxBurst] /\ recent \in [Proc -> BOOLEAN]
  /\ registered \subseteq Proc /\ current \in Proc \cup {NULL}
  /\ boot \in Seq(Proc) /\ stack \in Seq(FrameType)
  /\ parked \in [Proc -> BOOLEAN] /\ owed \in [Proc -> BOOLEAN]
  /\ wrong \subseteq {"stale", "missed", "twice"}

(* However posts, polls, purges and out-of-order removals interleave, the    *)
(* last Reserve slots never hold a user event: a system event finds room     *)
(* unless system events took it (tiku_process_post()).                       *)
ReserveKept ==
  \A i \in DOMAIN queue : ~event_is_system(queue[i].ev) => i <= QueueSize - Reserve

(* No target has two POLLs queued, although POLLs come from handlers as well *)
(* as bodies and the queue is compacted behind them (tiku_process_poll()).   *)
OnePoll ==
  \A i, j \in DOMAIN queue :
    queue[i].ev = "POLL" /\ queue[j].ev = "POLL" /\ queue[i].p = queue[j].p => i = j

(* An event posted to one instance of a process is never handed to a later   *)
(* one, even though the 8-bit generation wraps: exit purges what the         *)
(* generation check could not tell apart.                                    *)
NoStaleDelivery == "stale" \notin wrong

(* A broadcast reaches every process that runs when it is taken off the      *)
(* queue and still runs when it ends, whatever its handlers start, exit or   *)
(* stop meanwhile: the walk never loses its way on an unlinked node.         *)
BroadcastComplete == "missed" \notin wrong

(* A broadcast reaches no process a second time, unless a process was linked *)
(* at the head while it was under way.                                       *)
BroadcastOnce == "twice" \notin wrong

(* The list has no cycle and holds exactly the processes that run and those  *)
(* tiku_process_stop() took down, although it is edited while it is walked.  *)
ListSound ==
  /\ Node[Cardinality(Proc)] = NULL
  /\ \A p \in Proc : Listed(p) <=> running[p] \/ parked[p]

(* A process whose body has not returned is not called again: a protothread  *)
(* re-entered resumes at its last yield, inside the interrupted activation.  *)
(* run_except() withholds the events of the process that pumps and drops its *)
(* POLL; a pump whose body has started another process before has lost its   *)
(* own name (tiku_process_start() at a full queue) and is not in the run.    *)
NoReentry ==
  \A i, j \in DOMAIN stack :
    stack[i].k = "body" /\ stack[j].k = "body" /\ stack[i].p = stack[j].p => i = j

(* While there is room in the queue, a poll of a running process leads to a  *)
(* call of it: what the request may be merged with is pending for the        *)
(* instance that runs, or something else queued or on the stack calls it     *)
(* (tiku_process.h on tiku_process_poll(): merged with one already pending,  *)
(* dropped and counted when the queue is full).                              *)
PollHeard ==
  \A p \in Proc :
    running[p] /\ PollQueued(p) /\ Len(queue) < QueueSize
    => \/ \E i \in DOMAIN queue : queue[i].p \in {p, NULL} /\ ~event_is_stale(queue[i])
       \/ \E i \in DOMAIN stack : stack[i].p = p \/ stack[i].k = "walk"

(* A process that failed under ON_FAILURE is back, or its restart is on the  *)
(* way, or supervision has given it up and says so in its policy; only kill   *)
(* (tiku_process_stop) leaves it down without a word (supervisor_on_exit()).  *)
Supervised ==
  \A p \in Proc :
    restart[p] = "ON_FAILURE" /\ reason[p] = "FAILED" /\ ~parked[p]
    => \/ running[p]
       \/ \E i \in DOMAIN stack : stack[i].k \in {"exited", "supervise"} /\ stack[i].p = p

(* The INIT of a started process is handed to it, however full the queue is, *)
(* unless the process leaves first.                                          *)
InitArrives == \A p \in Proc : owed[p] ~> ~owed[p]

(* A POLL that is queued is taken off the queue in the end. *)
PollTaken == \A p \in Proc : PollQueued(p) ~> ~PollQueued(p)
=============================================================================
