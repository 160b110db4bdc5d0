-------------------------- MODULE TikuProcessProofs --------------------------
(***************************************************************************)
(* Proofs about TikuProcess, for any number of processes and any sizes:      *)
(* type correctness, the invariants of the queue, supervision and nested     *)
(* dispatch.  TikuListProofs holds those of the list and its broadcasts.     *)
(***************************************************************************)
EXTENDS TikuProcess, CompactionProofs, TLAPS

-----------------------------------------------------------------------------
(* What a step does to the queue.                                          *)

(* A step leaves the queue alone, posts, polls, takes entries out, or marks  *)
(* the entries of a process that starts anew.                                *)
QueueStep ==
  \/ queue' = queue
  \/ \E p \in Proc \cup {NULL}, ev \in Ev \ {"POLL"} : queue' = Posted(p, ev)
  \/ \E p \in Proc \cup {NULL} : queue' = Polled(p)
  \/ \E keep \in SUBSET (DOMAIN queue) : queue' = Compact(queue, keep)
  \/ \E p \in Proc : queue' = Aged(p)

(* The top frame of a stack and the rest of it.                            *)
LEMMA StackTop ==
  ASSUME stack \in Seq(FrameType), stack # <<>>
  PROVE  /\ Len(stack) \in Nat /\ Len(stack) > 0
         /\ Top \in FrameType /\ Caller \in Seq(FrameType)
<1>1. Len(stack) \in Nat /\ Len(stack) > 0
  BY EmptySeq, LenProperties
<1>2. \A i \in 1..(Len(stack) - 1) : stack[i] \in FrameType
  BY <1>1, ElementOfSeq
<1>3. Caller \in Seq(FrameType)
  BY <1>1, <1>2, SubSeqProperties DEF Caller
<1> QED
  BY <1>1, <1>3, ElementOfSeq DEF Top

(* A start posts INIT and marks what the last instance left as old.        *)
LEMMA StartQueue ==
  ASSUME NEW p \in Proc, NEW st, tiku_process_start(p, st)
  PROVE  QueueStep
BY DEF tiku_process_start, Link, QueueStep

(* An exit purges the queue of the process, or does nothing.               *)
LEMMA ExitQueue ==
  ASSUME NEW p \in Proc, NEW why, NEW st, tiku_process_exit(p, why, st)
  PROVE  QueueStep
<1>1. CASE running[p]
  <2>1. queue' = Compact(queue, {i \in DOMAIN queue : queue[i].p # p})
    BY <1>1 DEF tiku_process_exit, queue_purge_process_locked
  <2> QED
    BY <2>1 DEF QueueStep
<1>2. CASE ~running[p]
  BY <1>2 DEF tiku_process_exit, QueueStep
<1> QED
  BY <1>1, <1>2

(* A dispatch takes one entry out, from the front or the middle.           *)
LEMMA DispatchQueue ==
  ASSUME NEW i, NEW skip, NEW st, Dispatch(i, skip, st)
  PROVE  QueueStep
<1>1. queue' = Compact(queue, DOMAIN queue \ {i})
  BY DEF Dispatch, queue_remove_locked
<1> QED
  BY <1>1 DEF QueueStep

(* So QueueStep is all that any step does to the queue.                    *)
LEMMA StepQueue ==
  ASSUME TypeOK, [Next]_vars
  PROVE  QueueStep
<1> USE ProcessAssumption
<1>1. CASE AutostartNext
  <2>1. Head(boot) \in Proc
    BY <1>1, HeadTailProperties DEF AutostartNext, TypeOK
  <2> QED
    BY <1>1, <2>1, StartQueue DEF AutostartNext, QueueStep
<1>2. CASE tiku_process_run
  BY <1>2, DispatchQueue DEF tiku_process_run
<1>3. CASE Walk \/ Yielded \/ LeavePump
  BY <1>3 DEF Walk, Yielded, LeavePump, QueueStep
<1>4. CASE call_process
  <2>1. Top.p \in Proc
    BY <1>4, StackTop DEF call_process, At, TypeOK, FrameType
  <2> QED
    BY <1>4, <2>1, ExitQueue DEF call_process, QueueStep
<1>5. CASE Ended
  <2>1. Top.p \in Proc
    BY <1>5, StackTop DEF Ended, At, TypeOK, FrameType
  <2> QED
    BY <1>5, <2>1, ExitQueue DEF Ended
<1>6. CASE PostInit
  <2>1. Top.p \in Proc
    BY <1>6, StackTop DEF PostInit, At, TypeOK, FrameType
  <2> QED
    BY <1>6, <2>1 DEF PostInit, QueueStep, Ev
<1>7. CASE PostExited
  BY <1>7 DEF PostExited, QueueStep, Ev
<1>8. CASE supervisor_on_exit
  <2>1. Top.p \in Proc
    BY <1>8, StackTop DEF supervisor_on_exit, At, TypeOK, FrameType
  <2> QED
    BY <1>8, <2>1, StartQueue DEF supervisor_on_exit, QueueStep
<1>9. CASE tiku_process_run_except
  BY <1>9, DispatchQueue DEF tiku_process_run_except
<1>10. ASSUME NEW c \in Program, Body(c)
       PROVE  QueueStep
  <2>1. /\ c[2] \in Ev \cup {"pump"} => c[3] \in Proc \cup {NULL}
        /\ c[2] \notin Ev \cup {"pump"} => c[3] \in Proc
    OBVIOUS
  <2>2. CASE BodyPost(c)
    BY <2>1, <2>2 DEF BodyPost, Calls, QueueStep
  <2>3. CASE BodyStart(c)
    BY <2>1, <2>3, StartQueue DEF BodyStart, Calls, Ev
  <2>4. CASE tiku_process_register(c)
    BY <2>1, <2>4, StartQueue DEF tiku_process_register, Calls, Ev
  <2>5. CASE BodyExit(c)
    BY <2>1, <2>5, ExitQueue DEF BodyExit, Calls, Ev
  <2>6. CASE tiku_process_resume(c)
    BY <2>1, <2>6 DEF tiku_process_resume, Calls, QueueStep, Ev
  <2>7. CASE tiku_process_stop(c) \/ tiku_process_fail(c)
             \/ tiku_process_set_restart(c) \/ EnterPump(c)
    BY <2>7 DEF tiku_process_stop, tiku_process_fail,
                tiku_process_set_restart, EnterPump, QueueStep
  <2> QED
    BY <1>10, <2>2, <2>3, <2>4, <2>5, <2>6, <2>7 DEF Body
<1>11. CASE IsrPost
  BY <1>11 DEF IsrPost, QueueStep, Ev
<1>12. ASSUME NEW p \in Proc, IsrPoll(p) \/ WindowPasses(p)
       PROVE  QueueStep
  BY <1>12 DEF IsrPoll, WindowPasses, QueueStep
<1>13. CASE UNCHANGED vars
  BY <1>13 DEF vars, QueueStep
<1> QED
  BY <1>1, <1>2, <1>3, <1>4, <1>5, <1>6, <1>7, <1>8, <1>9, <1>10, <1>11,
     <1>12, <1>13 DEF Next, Step

(* A post either changes nothing or finds room and adds one entry at the end. *)
LEMMA PostedEntry ==
  ASSUME TypeOK, NEW p \in Proc \cup {NULL}, NEW ev \in Ev
  PROVE  \/ Posted(p, ev) = queue
         \/ /\ Room(ev) /\ Len(queue) < QueueSize
            /\ Posted(p, ev) \in Seq(Entry)
            /\ Len(Posted(p, ev)) = Len(queue) + 1
            /\ Posted(p, ev)[Len(queue) + 1] = Item(p, ev)
            /\ \A i \in 1..Len(queue) : Posted(p, ev)[i] = queue[i]
<1> USE ProcessAssumption
<1>1. queue \in Seq(Entry) /\ Len(queue) \in Nat
  BY LenProperties DEF TypeOK
<1>2. Item(p, ev) \in Entry
  BY DEF Item, event_generation, Entry, TypeOK
<1>3. CASE Room(ev)
  <2>1. Posted(p, ev) = Append(queue, Item(p, ev))
    BY <1>3 DEF Posted
  <2>2. Len(queue) < QueueSize
    BY <1>1, <1>3 DEF Room
  <2> QED
    BY <1>1, <1>2, <1>3, <2>1, <2>2
<1>4. CASE ~Room(ev)
  BY <1>4 DEF Posted
<1> QED
  BY <1>3, <1>4

(* Marking entries as old changes nothing else of the queue.               *)
LEMMA AgedEntries ==
  ASSUME TypeOK, NEW p \in Proc
  PROVE  /\ Aged(p) \in Seq(Entry) /\ Len(Aged(p)) = Len(queue)
         /\ \A i \in 1..Len(queue) :
              Aged(p)[i] = [queue[i] EXCEPT !.old = @ \/ queue[i].p = p]
<1>1. /\ queue \in Seq(Entry) /\ Len(queue) \in Nat
      /\ DOMAIN queue = 1..Len(queue)
  BY LenProperties DEF TypeOK
<1>2. ASSUME NEW i \in 1..Len(queue)
      PROVE  [queue[i] EXCEPT !.old = @ \/ queue[i].p = p] \in Entry
  <2>1. queue[i] \in Entry
    BY <1>1, ElementOfSeq
  <2> QED
    BY <2>1 DEF Entry
<1>3. Aged(p) \in [1..Len(queue) -> Entry]
  BY <1>1, <1>2 DEF Aged
<1>4. Aged(p) \in Seq(Entry)
  BY <1>1, <1>3, SeqDef
<1> QED
  BY <1>1, <1>3, <1>4, LenProperties DEF Aged

(* Whatever a step does, the queue stays within its array.                 *)
LEMMA QueueTyped ==
  ASSUME TypeOK, QueueStep
  PROVE  queue' \in Seq(Entry) /\ Len(queue') <= QueueSize
<1> USE ProcessAssumption
<1>1. /\ queue \in Seq(Entry) /\ Len(queue) <= QueueSize
      /\ Len(queue) \in Nat /\ DOMAIN queue = 1..Len(queue)
  BY LenProperties DEF TypeOK
<1>2. CASE queue' = queue
  BY <1>1, <1>2
<1>3. ASSUME NEW p \in Proc \cup {NULL}, NEW ev \in Ev, queue' = Posted(p, ev)
      PROVE  queue' \in Seq(Entry) /\ Len(queue') <= QueueSize
  BY <1>1, <1>3, PostedEntry
<1>4. ASSUME NEW p \in Proc \cup {NULL}, queue' = Polled(p)
      PROVE  queue' \in Seq(Entry) /\ Len(queue') <= QueueSize
  BY <1>1, <1>3, <1>4 DEF Polled, Ev
<1>5. ASSUME NEW keep \in SUBSET (DOMAIN queue), queue' = Compact(queue, keep)
      PROVE  queue' \in Seq(Entry) /\ Len(queue') <= QueueSize
  <2>1. queue' \in Seq(Entry) /\ Len(queue') <= Len(queue)
    BY <1>1, <1>5, CompactKeeps
  <2>2. Len(queue') \in Nat
    BY <2>1, LenProperties
  <2> QED
    BY <1>1, <2>1, <2>2
<1>6. ASSUME NEW p \in Proc, queue' = Aged(p)
      PROVE  queue' \in Seq(Entry) /\ Len(queue') <= QueueSize
  BY <1>1, <1>6, AgedEntries
<1> QED
  BY <1>2, <1>3, <1>4, <1>5, <1>6 DEF QueueStep

-----------------------------------------------------------------------------
(* Type correctness.                                                       *)

(* A frame for a known process is one of the stack's.                      *)
LEMMA FrameTyped ==
  ASSUME NEW k \in {"call", "body", "init", "exited", "supervise", "pump"},
         NEW p \in Proc, NEW ev \in Ev
  PROVE  Frame(k, p, ev) \in FrameType
BY ProcessAssumption DEF Frame, FrameType

(* So is the frame of a broadcast, and that of a pump.                     *)
LEMMA WideFrameTyped ==
  ASSUME NEW p \in Proc, NEW q \in Proc \cup {NULL}, NEW ev \in Ev,
         NEW skip \in Proc \cup {NULL}, NEW due \in SUBSET Proc
  PROVE  /\ [Frame("walk", q, ev) EXCEPT !.skip = skip, !.due = due] \in FrameType
         /\ [Frame("pump", p, ev) EXCEPT !.skip = skip, !.n = MaxOps] \in FrameType
<1>1. 0 \in 0..MaxOps /\ MaxOps \in 0..MaxOps
  BY ProcessAssumption
<1> QED
  BY <1>1 DEF Frame, FrameType

(* The marks a start or an exit leaves in the frames keep them typed.      *)
LEMMA GoneJoinedTyped ==
  ASSUME NEW st \in Seq(FrameType), NEW p
  PROVE  Gone(st, p) \in Seq(FrameType) /\ Joined(st) \in Seq(FrameType)
<1>1. Len(st) \in Nat /\ DOMAIN st = 1..Len(st)
  BY LenProperties
<1>2. \A i \in 1..Len(st) : st[i] \in FrameType
  BY ElementOfSeq
<1>3. \A i \in 1..Len(st) : /\ [st[i] EXCEPT !.due = @ \ {p}] \in FrameType
                            /\ [st[i] EXCEPT !.seen = {}] \in FrameType
  BY <1>2 DEF FrameType
<1>4. /\ Gone(st, p) \in [1..Len(st) -> FrameType]
      /\ Joined(st) \in [1..Len(st) -> FrameType]
  BY <1>1, <1>3 DEF Gone, Joined
<1> QED
  BY <1>1, <1>4, SeqDef

(* The conjuncts of TypeOK that starting or stopping a process can touch.    *)
Relinked ==
  /\ head \in Proc \cup {NULL} /\ next \in [Proc -> Proc \cup {NULL}]
  /\ running \in [Proc -> BOOLEAN]
  /\ pstate \in [Proc -> {"IDLE", "RUNNING", "STOPPED"}]
  /\ gen \in [Proc -> 0..MaxGen]
  /\ reason \in [Proc -> {"NONE", "DONE", "FAILED"}]
  /\ parked \in [Proc -> BOOLEAN] /\ owed \in [Proc -> BOOLEAN]
  /\ stack \in Seq(FrameType)

(* A start keeps the list, the run flags and the generations typed.        *)
LEMMA StartTyped ==
  ASSUME TypeOK, NEW p \in Proc, NEW st \in Seq(FrameType),
         tiku_process_start(p, st)
  PROVE  Relinked'
<1> USE ProcessAssumption
<1>1. CASE running[p]
  BY <1>1 DEF tiku_process_start, TypeOK, Relinked, list
<1>2. CASE ~running[p]
  <2>1. Link(p, st)
    BY <1>2 DEF tiku_process_start
  <2>2. \A g \in 0..MaxGen : NextGen(g) \in 0..MaxGen
    BY DEF NextGen
  <2>3. stack' \in Seq(FrameType)
    <3>1. Joined(st) \in Seq(FrameType)
      BY GoneJoinedTyped
    <3>2. Frame("init", p, "INIT") \in FrameType
      BY FrameTyped DEF Ev
    <3> QED
      BY <2>1, <3>1, <3>2 DEF Link
  <2> QED
    BY <2>1, <2>2, <2>3 DEF Link, TypeOK, Relinked
<1> QED
  BY <1>1, <1>2

(* An exit keeps them typed too.                                           *)
LEMMA ExitTyped ==
  ASSUME TypeOK, NEW p \in Proc, NEW st \in Seq(FrameType),
         NEW why \in {"NONE", "DONE", "FAILED"}, tiku_process_exit(p, why, st)
  PROVE  Relinked'
<1> USE ProcessAssumption
<1>1. CASE ~running[p]
  BY <1>1 DEF tiku_process_exit, TypeOK, Relinked, list
<1>2. CASE running[p]
  <2>1. UnlinkedHead(p) \in Proc \cup {NULL}
    BY DEF UnlinkedHead, TypeOK
  <2>2. UnlinkedNext(p) \in [Proc -> Proc \cup {NULL}]
    BY DEF UnlinkedNext, TypeOK
  <2>3. stack' \in Seq(FrameType)
    <3>1. Gone(st, p) \in Seq(FrameType)
      BY GoneJoinedTyped
    <3>2. Frame("exited", p, "EXITED") \in FrameType
      BY FrameTyped DEF Ev
    <3> QED
      BY <1>2, <3>1, <3>2 DEF tiku_process_exit
  <2>4. /\ head' \in Proc \cup {NULL} /\ next' \in [Proc -> Proc \cup {NULL}]
        /\ UNCHANGED <<gen, parked>>
    BY <1>2, <2>1, <2>2 DEF tiku_process_exit
  <2>5. /\ running' \in [Proc -> BOOLEAN] /\ owed' \in [Proc -> BOOLEAN]
        /\ pstate' \in [Proc -> {"IDLE", "RUNNING", "STOPPED"}]
        /\ reason' \in [Proc -> {"NONE", "DONE", "FAILED"}]
    BY <1>2 DEF tiku_process_exit, TypeOK
  <2> QED
    BY <2>3, <2>4, <2>5 DEF TypeOK, Relinked
<1> QED
  BY <1>1, <1>2

(* A dispatch pushes a frame for its target, or for the broadcast.         *)
LEMMA DispatchTyped ==
  ASSUME TypeOK, NEW i \in DOMAIN queue, NEW skip \in Proc \cup {NULL},
         NEW st \in Seq(FrameType), Dispatch(i, skip, st)
  PROVE  stack' \in Seq(FrameType) /\ wrong' \subseteq {"stale", "missed", "twice"}
<1> USE ProcessAssumption
<1> DEFINE e == queue[i]
<1>1. e \in Entry
  BY LenProperties, ElementOfSeq DEF TypeOK
<1>0. wrong' \subseteq {"stale", "missed", "twice"}
  <2>1. wrong \subseteq {"stale", "missed", "twice"}
    BY DEF TypeOK
  <2>2. wrong' = wrong \/ wrong' = wrong \cup {"stale"}
    BY DEF Dispatch
  <2> QED
    BY <2>1, <2>2
<1>2. CASE stack' = st
  BY <1>0, <1>2
<1>3. CASE e.p # NULL /\ stack' = Append(st, Frame("call", e.p, e.ev))
  <2>1. Frame("call", e.p, e.ev) \in FrameType
    BY <1>1, <1>3, FrameTyped DEF Entry
  <2> QED
    BY <1>0, <1>3, <2>1
<1>4. CASE stack' = Append(st, [Frame("walk", head, e.ev) EXCEPT
                 !.skip = skip, !.due = {p \in Proc : running[p]} \ {skip}])
  <2>1. [Frame("walk", head, e.ev) EXCEPT
           !.skip = skip, !.due = {p \in Proc : running[p]} \ {skip}] \in FrameType
    <3>1. e.ev \in Ev /\ head \in Proc \cup {NULL} /\ Shell \in Proc
      BY <1>1 DEF Entry, TypeOK
    <3>2. {p \in Proc : running[p]} \ {skip} \in SUBSET Proc
      OBVIOUS
    <3> QED
      BY <3>1, <3>2, WideFrameTyped
  <2> QED
    BY <1>0, <1>4, <2>1
<1> QED
  BY <1>2, <1>3, <1>4 DEF Dispatch

(* What the step of a body finds on the stack.                             *)
LEMMA TopTyped ==
  ASSUME TypeOK, stack # <<>>
  PROVE  /\ Top \in FrameType /\ Caller \in Seq(FrameType)
         /\ Top.k # "walk" => Top.p \in Proc
         /\ Top.n > 0 => Spent \in Seq(FrameType)
<1> USE ProcessAssumption
<1>1. Top \in FrameType /\ Caller \in Seq(FrameType)
  BY StackTop DEF TypeOK
<1>2. ASSUME Top.n > 0
      PROVE  [Top EXCEPT !.n = @ - 1] \in FrameType
  <2>1. Top.n \in 0..MaxOps /\ Top.n - 1 \in 0..MaxOps
    BY <1>1, <1>2 DEF FrameType
  <2> HIDE DEF Top
  <2> QED
    BY <1>1, <2>1 DEF FrameType
<1> QED
  BY <1>1, <1>2 DEF Spent, FrameType

(* The conjuncts of TypeOK that stay out of starting and stopping.           *)
Others ==
  /\ restart \in [Proc -> RestartPolicy]
  /\ burst \in [Proc -> 0..MaxBurst] /\ recent \in [Proc -> BOOLEAN]
  /\ registered \subseteq Proc /\ current \in Proc \cup {NULL}
  /\ boot \in Seq(Proc)
  /\ wrong \subseteq {"stale", "missed", "twice"}

(* What is left of the type invariant besides the queue.                   *)
LEMMA TypeParts ==
  ASSUME queue \in Seq(Entry) /\ Len(queue) <= QueueSize
  PROVE  TypeOK <=> Relinked /\ Others
BY DEF TypeOK, Relinked, Others

(* Every call a body can make keeps the types.                             *)
LEMMA BodyTyped ==
  ASSUME TypeOK, NEW c \in Program, Body(c)
  PROVE  Relinked' /\ Others'
<1> USE ProcessAssumption
<1>1. /\ Top \in FrameType /\ Spent \in Seq(FrameType)
      /\ c[1] \in Proc /\ Top.p = c[1]
      /\ c[2] \notin Ev \cup {"pump"} => c[3] \in Proc
  BY TopTyped DEF Body, BodyPost, BodyStart, tiku_process_register, BodyExit,
     tiku_process_stop, tiku_process_resume, tiku_process_fail,
     tiku_process_set_restart, EnterPump, Calls, At
<1>2. CASE BodyPost(c)
  BY <1>1, <1>2 DEF BodyPost, Relinked, Others, TypeOK, list, super
<1>3. CASE BodyStart(c)
  <2>1. c[3] \in Proc
    BY <1>1, <1>3 DEF BodyStart, Calls, Ev
  <2>2. Relinked'
    BY <1>1, <1>3, <2>1, StartTyped DEF BodyStart
  <2> QED
    BY <1>3, <2>2 DEF BodyStart, Others, TypeOK, super
<1>4. CASE tiku_process_register(c)
  <2>1. c[3] \in Proc
    BY <1>1, <1>4 DEF tiku_process_register, Calls, Ev
  <2>2. Relinked'
    BY <1>1, <1>4, <2>1, StartTyped DEF tiku_process_register
  <2> QED
    BY <1>4, <2>1, <2>2 DEF tiku_process_register, Others, TypeOK, super
<1>5. CASE BodyExit(c)
  <2>1. c[3] \in Proc
    BY <1>1, <1>5 DEF BodyExit, Calls, Ev
  <2>2. reason[c[3]] \in {"NONE", "DONE", "FAILED"}
    BY <2>1 DEF TypeOK
  <2>3. Relinked'
    BY <1>1, <1>5, <2>1, <2>2, ExitTyped DEF BodyExit
  <2> QED
    BY <1>5, <2>3 DEF BodyExit, Others, TypeOK, super
<1>6. CASE tiku_process_stop(c)
  <2>1. c[3] \in Proc
    BY <1>1, <1>6 DEF tiku_process_stop, Calls, Ev
  <2>2. Gone(Spent, c[3]) \in Seq(FrameType)
    BY <1>1, GoneJoinedTyped
  <2> QED
    BY <1>6, <2>1, <2>2
       DEF tiku_process_stop, Relinked, Others, TypeOK, list, super
<1>7. CASE tiku_process_resume(c)
  <2>1. c[3] \in Proc
    BY <1>1, <1>7 DEF tiku_process_resume, Calls, Ev
  <2>2. Joined(Spent) \in Seq(FrameType)
    BY <1>1, GoneJoinedTyped
  <2>3. head' \in Proc \cup {NULL} /\ next' \in [Proc -> Proc \cup {NULL}]
    <3>1. CASE Listed(c[3])
      BY <1>7, <3>1 DEF tiku_process_resume, TypeOK, list
    <3>2. CASE ~Listed(c[3])
      <4>1. head' = c[3] /\ next' = [next EXCEPT ![c[3]] = head]
        BY <1>7, <3>2 DEF tiku_process_resume
      <4> QED
        BY <2>1, <4>1 DEF TypeOK
    <3> QED
      BY <3>1, <3>2
  <2> QED
    BY <1>7, <2>1, <2>2, <2>3
       DEF tiku_process_resume, Relinked, Others, TypeOK, super
<1>8. CASE tiku_process_fail(c)
  <2>1. c[3] \in Proc
    BY <1>1, <1>8 DEF tiku_process_fail, Calls, Ev
  <2> QED
    BY <1>1, <1>8, <2>1
       DEF tiku_process_fail, Relinked, Others, TypeOK, list, super
<1>9. CASE tiku_process_set_restart(c)
  <2>1. c[2] \in RestartPolicy /\ c[3] \in Proc
    BY <1>1, <1>9 DEF tiku_process_set_restart, Calls, Ev, RestartPolicy
  <2> QED
    BY <1>1, <1>9, <2>1
       DEF tiku_process_set_restart, Relinked, Others, TypeOK, list
<1>10. CASE EnterPump(c)
  <2>1. [Frame("pump", c[1], Top.ev) EXCEPT !.skip = current, !.n = MaxOps]
          \in FrameType
    <3>1. Top.ev \in Ev /\ current \in Proc \cup {NULL} /\ {} \in SUBSET Proc
      BY <1>1 DEF FrameType, TypeOK
    <3> QED
      BY <1>1, <3>1, WideFrameTyped
  <2>2. stack' \in Seq(FrameType)
    BY <1>1, <1>10, <2>1 DEF EnterPump
  <2> QED
    BY <1>10, <2>2
       DEF EnterPump, Relinked, Others, TypeOK, list, super
<1> QED
  BY <1>2, <1>3, <1>4, <1>5, <1>6, <1>7, <1>8, <1>9, <1>10 DEF Body

(* Every step does.                                                        *)
LEMMA TypeStep ==
  ASSUME TypeOK, [Next]_vars
  PROVE  TypeOK'
<1> USE ProcessAssumption
<1>q. queue' \in Seq(Entry) /\ Len(queue') <= QueueSize
  BY StepQueue, QueueTyped
<1> SUFFICES Relinked' /\ Others'
  BY <1>q, TypeParts DEF TypeOK, Relinked, Others
<1>1. CASE AutostartNext
  <2>1. Head(boot) \in Proc /\ Tail(boot) \in Seq(Proc)
    BY <1>1, HeadTailProperties DEF AutostartNext, TypeOK
  <2>2. Others'
    BY <1>1, <2>1 DEF AutostartNext, Others, TypeOK, super
  <2>3. CASE Head(boot) = Culprit
    BY <1>1, <2>2, <2>3 DEF AutostartNext, Relinked, TypeOK, list
  <2>4. CASE Head(boot) # Culprit
    BY <1>1, <2>1, <2>2, <2>4, StartTyped DEF AutostartNext, TypeOK
  <2> QED
    BY <2>3, <2>4
<1>2. CASE tiku_process_run
  <2>1. 1 \in DOMAIN queue
    BY <1>2, EmptySeq, LenProperties DEF tiku_process_run, TypeOK
  <2>2. stack' \in Seq(FrameType) /\ wrong' \subseteq {"stale", "missed", "twice"}
    BY <1>2, <2>1, DispatchTyped DEF tiku_process_run, TypeOK
  <2> QED
    BY <1>2, <2>2
       DEF tiku_process_run, Dispatch, Relinked, Others, TypeOK, list, super
<1>3. CASE Walk
  <2>1. stack # <<>> /\ Top.k = "walk" /\ Top \in FrameType
        /\ Caller \in Seq(FrameType)
    BY <1>3, TopTyped DEF Walk, At
  <2>2. CASE Top.p = NULL
    BY <1>3, <2>1, <2>2 DEF Walk, Relinked, Others, TypeOK, list, super
  <2>3. CASE Top.p # NULL
    <3> DEFINE over == [Top EXCEPT !.p    = next[Top.p],
                                   !.due  = @ \ {Top.p},
                                   !.seen = @ \cup {Top.p}]
    <3>1. Top.p \in Proc /\ Top.ev \in Ev /\ next[Top.p] \in Proc \cup {NULL}
      BY <2>1, <2>3 DEF FrameType, TypeOK
    <3>2. over \in FrameType
      BY <2>1, <3>1 DEF FrameType
    <3>3. Frame("call", Top.p, Top.ev) \in FrameType
      BY <3>1, FrameTyped
    <3>4. stack' = Append(Caller, over)
          \/ stack' = Append(Append(Caller, over), Frame("call", Top.p, Top.ev))
      BY <1>3, <2>3 DEF Walk
    <3>5. stack' \in Seq(FrameType)
      <4>1. Caller \in Seq(FrameType)
        BY <2>1
      <4> HIDE DEF over
      <4>2. Append(Caller, over) \in Seq(FrameType)
        BY <3>2, <4>1
      <4>3. Append(Append(Caller, over), Frame("call", Top.p, Top.ev))
              \in Seq(FrameType)
        BY <3>3, <4>2
      <4> QED
        BY <3>4, <4>2, <4>3
    <3>6. wrong' \subseteq {"stale", "missed", "twice"}
      <4>1. wrong \subseteq {"stale", "missed", "twice"}
        BY DEF TypeOK
      <4>2. wrong' = wrong \/ wrong' = wrong \cup {"twice"}
        BY <1>3, <2>3 DEF Walk
      <4> QED
        BY <4>1, <4>2
    <3> QED
      BY <1>3, <3>5, <3>6 DEF Walk, Relinked, Others, TypeOK, list, super
  <2> QED
    BY <2>2, <2>3
<1>4. CASE call_process
  <2>1. Top.p \in Proc /\ Top \in FrameType /\ Top.k = "call"
        /\ Caller \in Seq(FrameType)
    BY <1>4, TopTyped DEF call_process, At
  <2>2. CASE ~running[Top.p]
    BY <1>4, <2>1, <2>2
       DEF call_process, Relinked, Others, TypeOK, list, super
  <2>3. CASE running[Top.p] /\ Top.ev = "FORCE_EXIT"
    <3>1. Relinked'
      BY <1>4, <2>1, <2>3, ExitTyped DEF call_process
    <3> QED
      BY <1>4, <2>3, <3>1 DEF call_process, Others, TypeOK, super
  <2>4. CASE running[Top.p] /\ Top.ev # "FORCE_EXIT"
    <3>1. [Top EXCEPT !.k = "body", !.n = MaxOps] \in FrameType
      <4>1. MaxOps \in 0..MaxOps
        OBVIOUS
      <4> QED
        BY <2>1, <4>1 DEF FrameType
    <3>2. stack' \in Seq(FrameType)
      <4>1. stack' = Append(Caller, [Top EXCEPT !.k = "body", !.n = MaxOps])
        BY <1>4, <2>4 DEF call_process
      <4> QED
        BY <2>1, <3>1, <4>1
    <3> QED
      BY <1>4, <2>1, <2>4, <3>2
         DEF call_process, Relinked, Others, TypeOK, list, super
  <2> QED
    BY <2>2, <2>3, <2>4
<1>5. CASE Yielded
  <2>1. Top.p \in Proc /\ Caller \in Seq(FrameType)
    BY <1>5, TopTyped DEF Yielded, At
  <2> QED
    BY <1>5, <2>1 DEF Yielded, Relinked, Others, TypeOK, list, super
<1>6. CASE Ended
  <2>1. Top.p \in Proc /\ Caller \in Seq(FrameType)
    BY <1>6, TopTyped DEF Ended, At
  <2>2. Relinked'
    BY <1>6, <2>1, ExitTyped DEF Ended
  <2> QED
    BY <1>6, <2>2 DEF Ended, Others, TypeOK, super
<1>7. CASE PostInit
  <2>1. Top.p \in Proc /\ Caller \in Seq(FrameType)
    BY <1>7, TopTyped DEF PostInit, At
  <2>2. Frame("call", Top.p, "INIT") \in FrameType
    BY <2>1, FrameTyped DEF Ev
  <2>3. stack' \in Seq(FrameType)
    BY <1>7, <2>1, <2>2 DEF PostInit
  <2> QED
    BY <1>7, <2>3 DEF PostInit, Relinked, Others, TypeOK, list, super
<1>8. CASE PostExited
  <2>1. Top \in FrameType /\ Top.k = "exited" /\ Caller \in Seq(FrameType)
    BY <1>8, TopTyped DEF PostExited, At
  <2>2. [Top EXCEPT !.k = "supervise"] \in FrameType
    BY <2>1 DEF FrameType
  <2>3. stack' \in Seq(FrameType)
    BY <1>8, <2>1, <2>2 DEF PostExited
  <2> QED
    BY <1>8, <2>3 DEF PostExited, Relinked, Others, TypeOK, list, super
<1>9. CASE supervisor_on_exit
  <2>1. Top.p \in Proc /\ Caller \in Seq(FrameType)
    BY <1>9, TopTyped DEF supervisor_on_exit, At
  <2>0. Burst(Top.p) \in 0..MaxBurst
    BY <2>1 DEF Burst, TypeOK
  <2>2. CASE Wanted(Top.p) /\ Burst(Top.p) < MaxBurst
    <3>1. /\ tiku_process_start(Top.p, Caller) /\ UNCHANGED restart
          /\ burst' = [burst EXCEPT ![Top.p] = Burst(Top.p) + 1]
          /\ recent' = [recent EXCEPT ![Top.p] = TRUE]
          /\ UNCHANGED <<registered, current, boot, wrong>>
      BY <1>9, <2>0, <2>2 DEF supervisor_on_exit
    <3>2. Relinked'
      BY <2>1, <3>1, StartTyped
    <3>3. Burst(Top.p) + 1 \in 0..MaxBurst
      BY <2>0, <2>2
    <3> QED
      BY <3>1, <3>2, <3>3 DEF Others, TypeOK
  <2>3. CASE Wanted(Top.p) /\ Burst(Top.p) >= MaxBurst
    <3>1. /\ restart' = [restart EXCEPT ![Top.p] = "NEVER"] /\ stack' = Caller
          /\ UNCHANGED <<queue, list, running, pstate, gen, reason, parked, owed,
                         burst, recent, registered, current, boot, wrong>>
      BY <1>9, <2>0, <2>3 DEF supervisor_on_exit
    <3> QED
      BY <2>1, <3>1 DEF Relinked, Others, TypeOK, list, RestartPolicy
  <2>4. CASE ~Wanted(Top.p)
    BY <1>9, <2>1, <2>4
       DEF supervisor_on_exit, Relinked, Others, TypeOK, list, super
  <2> QED
    BY <2>0, <2>2, <2>3, <2>4
<1>10. CASE tiku_process_run_except
  <2>1. PICK i \in DOMAIN queue : Dispatch(i, Top.skip, Spent)
    BY <1>10 DEF tiku_process_run_except
  <2>2. Top.skip \in Proc \cup {NULL} /\ Spent \in Seq(FrameType)
    BY <1>10, TopTyped DEF tiku_process_run_except, At, FrameType
  <2>3. stack' \in Seq(FrameType) /\ wrong' \subseteq {"stale", "missed", "twice"}
    BY <2>1, <2>2, DispatchTyped
  <2> QED
    BY <2>1, <2>3 DEF Dispatch, Relinked, Others, TypeOK, list, super
<1>11. CASE LeavePump
  <2>1. Top \in FrameType /\ Caller \in Seq(FrameType)
    BY <1>11, TopTyped DEF LeavePump, At
  <2>2. Top.skip \in Proc \cup {NULL}
    BY <2>1 DEF FrameType
  <2> QED
    BY <1>11, <2>1, <2>2
       DEF LeavePump, Relinked, Others, TypeOK, list, super
<1>12. ASSUME NEW c \in Program, Body(c)
       PROVE  Relinked' /\ Others'
  BY <1>12, BodyTyped
<1>13. CASE IsrPost \/ \E p \in Proc : IsrPoll(p)
  <2>1. CASE IsrPost
    BY <2>1 DEF IsrPost, InIsr, Relinked, Others, TypeOK, list, super
  <2>2. ASSUME NEW p \in Proc, IsrPoll(p)
        PROVE  Relinked' /\ Others'
    BY <2>2 DEF IsrPoll, InIsr, Relinked, Others, TypeOK, list, super
  <2> QED
    BY <1>13, <2>1, <2>2
<1>14. ASSUME NEW p \in Proc, WindowPasses(p)
       PROVE  Relinked' /\ Others'
  BY <1>14 DEF WindowPasses, Relinked, Others, TypeOK, list
<1>15. CASE UNCHANGED vars
  BY <1>15 DEF vars, Relinked, Others, TypeOK
<1> QED
  BY <1>1, <1>2, <1>3, <1>4, <1>5, <1>6, <1>7, <1>8, <1>9, <1>10, <1>11,
     <1>12, <1>13, <1>14, <1>15 DEF Next, Step

(* The initial states are typed.                                           *)
LEMMA TypeInit == Init => TypeOK
BY ProcessAssumption, EmptySeq DEF Init, TypeOK, RestartPolicy

(* The state of the process layer keeps its types: the queue never outgrows  *)
(* its array, a generation never leaves its range and no restart burst       *)
(* exceeds the supervisor's cap.                                             *)
THEOREM TypeCorrect == Spec => []TypeOK
BY TypeInit, TypeStep, PTL DEF Spec

-----------------------------------------------------------------------------
(* The reserve and the single POLL.                                        *)

(* No post of a user event lands in the reserve, and no removal moves one there.*)
LEMMA ReserveStep ==
  ASSUME TypeOK, ReserveKept, QueueStep
  PROVE  ReserveKept'
<1> USE ProcessAssumption
<1>1. /\ queue \in Seq(Entry) /\ Len(queue) \in Nat
      /\ DOMAIN queue = 1..Len(queue)
  BY LenProperties DEF TypeOK
<1>2. CASE queue' = queue
  BY <1>2 DEF ReserveKept
<1>3. ASSUME NEW p \in Proc \cup {NULL}, NEW ev \in Ev, queue' = Posted(p, ev)
      PROVE  ReserveKept'
  <2>1. CASE Posted(p, ev) = queue
    BY <1>3, <2>1 DEF ReserveKept
  <2>2. CASE Posted(p, ev) # queue
    <3>1. /\ Room(ev) /\ DOMAIN queue' = 1..(Len(queue) + 1)
          /\ queue'[Len(queue) + 1] = Item(p, ev)
          /\ \A i \in 1..Len(queue) : queue'[i] = queue[i]
      BY <1>1, <1>3, <2>2, PostedEntry, LenProperties
    <3>2. ~event_is_system(ev) => Len(queue) + 1 <= QueueSize - Reserve
      BY <1>1, <3>1 DEF Room
    <3>3. Item(p, ev).ev = ev
      BY DEF Item
    <3> QED
      BY <1>1, <3>1, <3>2, <3>3 DEF ReserveKept
  <2> QED
    BY <2>1, <2>2
<1>4. ASSUME NEW p \in Proc \cup {NULL}, queue' = Polled(p)
      PROVE  ReserveKept'
  BY <1>2, <1>3, <1>4 DEF Polled, Ev
<1>5. ASSUME NEW keep \in SUBSET (DOMAIN queue), queue' = Compact(queue, keep)
      PROVE  ReserveKept'
  <2>1. \A n \in DOMAIN queue' :
          /\ Kept(keep, n) \in DOMAIN queue /\ n <= Kept(keep, n)
          /\ queue'[n] = queue[Kept(keep, n)]
    BY <1>1, <1>5, CompactKeeps
  <2>2. DOMAIN queue' \in SUBSET Nat
    BY <1>1, <1>5, CompactKeeps, LenProperties
  <2> QED
    BY <1>1, <2>1, <2>2 DEF ReserveKept
<1>6. ASSUME NEW p \in Proc, queue' = Aged(p)
      PROVE  ReserveKept'
  <2>1. \A i \in DOMAIN queue : queue[i] \in Entry
    BY <1>1, ElementOfSeq
  <2>2. DOMAIN queue' = DOMAIN queue
        /\ \A i \in DOMAIN queue : queue'[i].ev = queue[i].ev
    BY <1>6, <2>1 DEF Aged, Entry
  <2> QED
    BY <2>2 DEF ReserveKept
<1> QED
  BY <1>2, <1>3, <1>4, <1>5, <1>6 DEF QueueStep

(* A poll is queued only where no poll of its target is, and no removal doubles one.*)
LEMMA OnePollStep ==
  ASSUME TypeOK, OnePoll, QueueStep
  PROVE  OnePoll'
<1> USE ProcessAssumption
<1>1. /\ queue \in Seq(Entry) /\ Len(queue) \in Nat
      /\ DOMAIN queue = 1..Len(queue)
  BY LenProperties DEF TypeOK
<1>2. CASE queue' = queue
  BY <1>2 DEF OnePoll
<1>3. ASSUME NEW p \in Proc \cup {NULL}, NEW ev \in Ev, queue' = Posted(p, ev),
             ev = "POLL" => ~PollQueued(p)
      PROVE  OnePoll'
  <2>1. CASE Posted(p, ev) = queue
    BY <1>3, <2>1 DEF OnePoll
  <2>2. CASE Posted(p, ev) # queue
    <3>1. /\ DOMAIN queue' = 1..(Len(queue) + 1)
          /\ queue'[Len(queue) + 1] = Item(p, ev)
          /\ \A i \in 1..Len(queue) : queue'[i] = queue[i]
      BY <1>1, <1>3, <2>2, PostedEntry, LenProperties
    <3>2. Item(p, ev).ev = ev /\ Item(p, ev).p = p
      BY DEF Item
    <3>3. \A i \in 1..Len(queue) : queue[i].ev = "POLL" /\ ev = "POLL"
                                  => queue[i].p # p
      BY <1>1, <1>3 DEF PollQueued
    <3> QED
      BY <1>1, <3>1, <3>2, <3>3 DEF OnePoll
  <2> QED
    BY <2>1, <2>2
<1>4. ASSUME NEW p \in Proc \cup {NULL}, queue' = Polled(p)
      PROVE  OnePoll'
  BY <1>2, <1>3, <1>4 DEF Polled, Ev
<1>5. ASSUME NEW keep \in SUBSET (DOMAIN queue), queue' = Compact(queue, keep)
      PROVE  OnePoll'
  <2>1. \A n \in DOMAIN queue' :
          /\ Kept(keep, n) \in DOMAIN queue
          /\ KeptUpTo(keep, Kept(keep, n)) = n
          /\ queue'[n] = queue[Kept(keep, n)]
    BY <1>1, <1>5, CompactKeeps
  <2>2. \A m, n \in DOMAIN queue' : Kept(keep, m) = Kept(keep, n) => m = n
    BY <2>1
  <2> QED
    BY <2>1, <2>2 DEF OnePoll
<1>6. ASSUME NEW p \in Proc, queue' = Aged(p)
      PROVE  OnePoll'
  <2>1. \A i \in DOMAIN queue : queue[i] \in Entry
    BY <1>1, ElementOfSeq
  <2>2. DOMAIN queue' = DOMAIN queue
        /\ \A i \in DOMAIN queue : /\ queue'[i].ev = queue[i].ev
                                   /\ queue'[i].p = queue[i].p
    BY <1>6, <2>1 DEF Aged, Entry
  <2> QED
    BY <2>2 DEF OnePoll
<1> QED
  BY <1>2, <1>3, <1>4, <1>5, <1>6 DEF QueueStep

(* However interrupts, bodies and dispatches interleave, the last Reserve    *)
(* slots of the queue never hold a user event.                               *)
THEOREM ReserveAlwaysKept == Spec => []ReserveKept
<1>1. Init => ReserveKept
  BY DEF Init, ReserveKept
<1>2. TypeOK /\ ReserveKept /\ [Next]_vars => ReserveKept'
  BY StepQueue, ReserveStep
<1> QED
  BY <1>1, <1>2, TypeCorrect, PTL DEF Spec

(* At no time are two POLLs for one target queued.                           *)
THEOREM OnePollPerTarget == Spec => []OnePoll
<1>1. Init => OnePoll
  BY DEF Init, OnePoll
<1>2. TypeOK /\ OnePoll /\ [Next]_vars => OnePoll'
  BY StepQueue, OnePollStep
<1> QED
  BY <1>1, <1>2, TypeCorrect, PTL DEF Spec

-----------------------------------------------------------------------------
(* No event crosses from one instance of a process to the next.            *)

(* NoStaleDelivery is not inductive: it says nothing of the queue.  What the *)
(* steps preserve is that the generation tells the events of p's instance    *)
(* from the older ones.  A start can only spoil that when older events are   *)
(* queued already, because the generation may come round to theirs; but no   *)
(* older event is queued for a process that exit took down, since exit       *)
(* purges, and a process that stop took down is not started.                 *)
Dated ==
  /\ "stale" \notin wrong
  /\ \A p \in Proc : parked[p] => ~running[p]
  /\ \A i \in DOMAIN queue : queue[i].p # NULL =>
       /\ queue[i].old => queue[i].gen # gen[queue[i].p]
       /\ ~queue[i].old => queue[i].gen = gen[queue[i].p]
       /\ queue[i].old => running[queue[i].p] \/ parked[queue[i].p]

NoNewWrong == "stale" \in wrong' => "stale" \in wrong

(* A step, as far as Dated can tell: a start, an exit, a stop, a resume, a   *)
(* dispatch, or at most one new entry at the end of the queue.               *)
Starts(p) ==
  /\ ~running[p] /\ ~parked[p] /\ queue' = Aged(p) /\ NoNewWrong
  /\ gen' = [gen EXCEPT ![p] = NextGen(@)]
  /\ running' = [running EXCEPT ![p] = TRUE]
  /\ parked'  = [parked EXCEPT ![p] = FALSE]

Exits(p) ==
  /\ running[p] /\ queue' = queue_purge_process_locked(queue, p) /\ NoNewWrong
  /\ running' = [running EXCEPT ![p] = FALSE]
  /\ UNCHANGED <<gen, parked>>

Stops(p) ==
  /\ running' = [running EXCEPT ![p] = FALSE]
  /\ parked'  = [parked EXCEPT ![p] = @ \/ running[p]]
  /\ NoNewWrong /\ UNCHANGED <<queue, gen>>

Resumes(p) ==
  /\ running' = [running EXCEPT ![p] = TRUE]
  /\ parked'  = [parked EXCEPT ![p] = FALSE]
  /\ queue'   = Posted(p, "CONTINUE")
  /\ NoNewWrong /\ UNCHANGED gen

Removes(i) ==
  /\ queue' = queue_remove_locked(queue, i)
  /\ "stale" \in wrong' =>
       \/ "stale" \in wrong
       \/ queue[i].p # NULL /\ ~event_is_stale(queue[i]) /\ queue[i].old
  /\ UNCHANGED <<running, gen, parked>>

Adds ==
  /\ \/ queue' = queue
     \/ \E p \in Proc \cup {NULL}, ev \in Ev : queue' = Posted(p, ev)
  /\ NoNewWrong /\ UNCHANGED <<running, gen, parked>>

DateStep == \/ \E p \in Proc : Starts(p) \/ Exits(p) \/ Stops(p) \/ Resumes(p)
            \/ \E i \in DOMAIN queue : Removes(i)
            \/ Adds

(* A start begins a new instance, and dates its INIT.                      *)
LEMMA StartDates ==
  ASSUME StartParked = FALSE, NEW p \in Proc, NEW st,
         tiku_process_start(p, st), UNCHANGED wrong
  PROVE  DateStep
BY DEF tiku_process_start, Link, DateStep, Starts, Adds, NoNewWrong

(* An exit leaves no entry of its process.                                 *)
LEMMA ExitDates ==
  ASSUME NEW p \in Proc, NEW why, NEW st,
         tiku_process_exit(p, why, st), UNCHANGED wrong
  PROVE  DateStep
BY DEF tiku_process_exit, DateStep, Exits, Adds, NoNewWrong

(* A dispatch removes one entry and dates none.                            *)
LEMMA DispatchDates ==
  ASSUME NEW i \in DOMAIN queue, NEW skip, NEW st, Dispatch(i, skip, st)
  PROVE  DateStep
<1>1. Removes(i)
  BY DEF Dispatch, Removes
<1> QED
  BY <1>1 DEF DateStep

(* So DateStep covers every step, where callers leave stopped processes alone.*)
LEMMA StepDates ==
  ASSUME StartParked = FALSE, TypeOK, [Next]_vars
  PROVE  DateStep
<1> USE ProcessAssumption
<1>1. CASE AutostartNext
  <2>1. Head(boot) \in Proc
    BY <1>1, HeadTailProperties DEF AutostartNext, TypeOK
  <2> QED
    BY <1>1, <2>1, StartDates DEF AutostartNext, DateStep, Adds, NoNewWrong
<1>2. CASE tiku_process_run
  <2>1. 1 \in DOMAIN queue
    BY <1>2, EmptySeq, LenProperties DEF tiku_process_run, TypeOK
  <2> QED
    BY <1>2, <2>1, DispatchDates DEF tiku_process_run
<1>3. CASE Walk
  <2>1. wrong' \in {wrong, wrong \cup {"missed"}, wrong \cup {"twice"}}
    BY <1>3 DEF Walk
  <2>2. NoNewWrong
    BY <2>1 DEF NoNewWrong
  <2> QED
    BY <1>3, <2>2 DEF Walk, DateStep, Adds
<1>4. CASE call_process
  <2>1. Top.p \in Proc
    BY <1>4, TopTyped DEF call_process, At
  <2> QED
    BY <1>4, <2>1, ExitDates DEF call_process, DateStep, Adds, NoNewWrong
<1>5. CASE Ended
  <2>1. Top.p \in Proc
    BY <1>5, TopTyped DEF Ended, At
  <2> QED
    BY <1>5, <2>1, ExitDates DEF Ended
<1>6. CASE PostInit
  <2>1. Top.p \in Proc
    BY <1>6, TopTyped DEF PostInit, At
  <2> QED
    BY <1>6, <2>1 DEF PostInit, DateStep, Adds, NoNewWrong, Ev
<1>7. CASE PostExited
  BY <1>7 DEF PostExited, DateStep, Adds, NoNewWrong, Ev
<1>8. CASE supervisor_on_exit
  <2>1. Top.p \in Proc
    BY <1>8, TopTyped DEF supervisor_on_exit, At
  <2> QED
    BY <1>8, <2>1, StartDates
       DEF supervisor_on_exit, DateStep, Adds, NoNewWrong
<1>9. CASE tiku_process_run_except
  BY <1>9, DispatchDates DEF tiku_process_run_except
<1>10. CASE Yielded \/ LeavePump
  BY <1>10 DEF Yielded, LeavePump, DateStep, Adds, NoNewWrong
<1>11. ASSUME NEW c \in Program, Body(c)
       PROVE  DateStep
  <2>1. /\ c[2] \in Ev \cup {"pump"} => c[3] \in Proc \cup {NULL}
        /\ c[2] \notin Ev \cup {"pump"} => c[3] \in Proc
    OBVIOUS
  <2>2. CASE BodyPost(c)
    BY <2>1, <2>2 DEF BodyPost, Calls, DateStep, Adds, NoNewWrong, Polled
  <2>3. CASE BodyStart(c)
    BY <2>1, <2>3, StartDates DEF BodyStart, Calls, Ev
  <2>4. CASE tiku_process_register(c)
    BY <2>1, <2>4, StartDates DEF tiku_process_register, Calls, Ev
  <2>5. CASE BodyExit(c)
    BY <2>1, <2>5, ExitDates DEF BodyExit, Calls, Ev
  <2>6. CASE tiku_process_stop(c)
    BY <2>1, <2>6
       DEF tiku_process_stop, Calls, Ev, DateStep, Stops, NoNewWrong
  <2>7. CASE tiku_process_resume(c)
    BY <2>1, <2>7
       DEF tiku_process_resume, Calls, Ev, DateStep, Resumes, NoNewWrong
  <2>8. CASE tiku_process_fail(c) \/ tiku_process_set_restart(c) \/ EnterPump(c)
    BY <2>8 DEF tiku_process_fail, tiku_process_set_restart, EnterPump,
                DateStep, Adds, NoNewWrong
  <2> QED
    BY <1>11, <2>2, <2>3, <2>4, <2>5, <2>6, <2>7, <2>8 DEF Body
<1>12. CASE IsrPost
  BY <1>12 DEF IsrPost, InIsr, DateStep, Adds, NoNewWrong, Ev
<1>13. ASSUME NEW p \in Proc, IsrPoll(p) \/ WindowPasses(p)
       PROVE  DateStep
  BY <1>13 DEF IsrPoll, InIsr, WindowPasses, Polled, DateStep, Adds,
               NoNewWrong, Ev
<1>14. CASE UNCHANGED vars
  BY <1>14 DEF vars, DateStep, Adds, NoNewWrong
<1> QED
  BY <1>1, <1>2, <1>3, <1>4, <1>5, <1>6, <1>7, <1>8, <1>9, <1>10, <1>11,
     <1>12, <1>13, <1>14 DEF Next, Step

(* A post adds an entry of the running instance's generation.                *)
LEMMA PostDated ==
  ASSUME TypeOK, NEW p \in Proc \cup {NULL}, NEW ev \in Ev, queue' = Posted(p, ev)
  PROVE  \A i \in DOMAIN queue' :
           \/ i \in DOMAIN queue /\ queue'[i] = queue[i]
           \/ queue'[i].p = p /\ ~queue'[i].old
              /\ (p # NULL => queue'[i].gen = gen[p])
<1>1. queue \in Seq(Entry) /\ Len(queue) \in Nat /\ DOMAIN queue = 1..Len(queue)
  BY LenProperties DEF TypeOK
<1>2. CASE Posted(p, ev) = queue
  BY <1>2
<1>3. CASE Posted(p, ev) # queue
  <2>1. /\ DOMAIN queue' = 1..(Len(queue) + 1)
        /\ queue'[Len(queue) + 1] = Item(p, ev)
        /\ \A i \in 1..Len(queue) : queue'[i] = queue[i]
    BY <1>1, <1>3, PostedEntry, LenProperties
  <2>2. /\ Item(p, ev).p = p /\ ~Item(p, ev).old
        /\ p # NULL => Item(p, ev).gen = gen[p]
    BY DEF Item, event_generation
  <2> QED
    BY <1>1, <2>1, <2>2
<1> QED
  BY <1>2, <1>3

(* Taking entries out leaves only entries that were there and stayed.        *)
LEMMA CompactDated ==
  ASSUME TypeOK, NEW keep \in SUBSET (DOMAIN queue), queue' = Compact(queue, keep)
  PROVE  \A n \in DOMAIN queue' : \E i \in keep : queue'[n] = queue[i]
<1>1. queue \in Seq(Entry)
  BY DEF TypeOK
<1>2. \A n \in DOMAIN queue' :
        Kept(keep, n) \in keep /\ queue'[n] = queue[Kept(keep, n)]
  BY <1>1, CompactKeeps
<1> QED
  BY <1>2

(* Under each of them an entry's generation goes on telling its instance.  *)
LEMMA DatedStep ==
  ASSUME TypeOK, Dated, DateStep
  PROVE  Dated'
<1> USE ProcessAssumption
<1>1. /\ \A i \in DOMAIN queue : queue[i] \in Entry
      /\ gen \in [Proc -> 0..MaxGen] /\ running \in [Proc -> BOOLEAN]
      /\ parked \in [Proc -> BOOLEAN]
  BY LenProperties, ElementOfSeq DEF TypeOK
<1>2. ASSUME NEW p \in Proc, Starts(p)
      PROVE  Dated'
  <2>1. "stale" \notin wrong' /\ \A q \in Proc : parked'[q] => ~running'[q]
    BY <1>1, <1>2 DEF Starts, Dated, NoNewWrong
  <2>2. DOMAIN queue' = DOMAIN queue
        /\ \A i \in DOMAIN queue : /\ queue'[i].p = queue[i].p
                                   /\ queue'[i].gen = queue[i].gen
                                   /\ queue'[i].old = (queue[i].old \/ queue[i].p = p)
    BY <1>1, <1>2 DEF Starts, Aged, Entry
  <2>3. NextGen(gen[p]) # gen[p]
    BY <1>1 DEF NextGen
  <2>4. ASSUME NEW i \in DOMAIN queue, queue[i].p = p
        PROVE  queue'[i].old /\ queue'[i].gen # gen'[p] /\ running'[p]
    <3>1. ~queue[i].old /\ queue[i].gen = gen[p]
      BY <1>2, <2>4 DEF Starts, Dated
    <3>2. gen'[p] = NextGen(gen[p]) /\ running'[p]
      BY <1>1, <1>2 DEF Starts
    <3> QED
      BY <2>2, <2>3, <2>4, <3>1, <3>2
  <2>5. ASSUME NEW i \in DOMAIN queue, queue[i].p # p, queue[i].p # NULL
        PROVE  /\ queue'[i].old = queue[i].old
               /\ gen'[queue[i].p] = gen[queue[i].p]
               /\ running'[queue[i].p] = running[queue[i].p]
               /\ parked'[queue[i].p] = parked[queue[i].p]
    BY <1>1, <1>2, <2>2, <2>5 DEF Starts, Entry
  <2> QED
    BY <2>1, <2>2, <2>4, <2>5 DEF Dated
<1>3. ASSUME NEW p \in Proc, Exits(p)
      PROVE  Dated'
  <2>1. "stale" \notin wrong' /\ \A q \in Proc : parked'[q] => ~running'[q]
    BY <1>1, <1>3 DEF Exits, Dated, NoNewWrong
  <2>2. \A n \in DOMAIN queue' : \E i \in DOMAIN queue :
          queue[i].p # p /\ queue'[n] = queue[i]
    BY <1>3, CompactDated DEF Exits, queue_purge_process_locked
  <2>3. \A q \in Proc \ {p} : running'[q] = running[q] /\ UNCHANGED <<gen, parked>>
    BY <1>1, <1>3 DEF Exits
  <2> QED
    BY <1>1, <2>1, <2>2, <2>3 DEF Dated, Entry
<1>4. ASSUME NEW p \in Proc, Stops(p)
      PROVE  Dated'
  <2>1. \A q \in Proc : running[q] \/ parked[q] => running'[q] \/ parked'[q]
    BY <1>1, <1>4 DEF Stops
  <2>2. \A q \in Proc : parked'[q] => ~running'[q]
    BY <1>1, <1>4 DEF Stops, Dated
  <2> QED
    BY <1>1, <1>4, <2>1, <2>2 DEF Stops, Dated, Entry, NoNewWrong
<1>5. ASSUME NEW p \in Proc, Resumes(p)
      PROVE  Dated'
  <2>1. \A q \in Proc : running[q] \/ parked[q] => running'[q] \/ parked'[q]
    BY <1>1, <1>5 DEF Resumes
  <2>2. \A q \in Proc : parked'[q] => ~running'[q]
    BY <1>1, <1>5 DEF Resumes, Dated
  <2>3. \A i \in DOMAIN queue' :
           \/ i \in DOMAIN queue /\ queue'[i] = queue[i]
           \/ queue'[i].p = p /\ ~queue'[i].old /\ queue'[i].gen = gen[p]
    BY <1>5, PostDated DEF Resumes, Ev
  <2> QED
    BY <1>1, <1>5, <2>1, <2>2, <2>3 DEF Resumes, Dated, Entry, NoNewWrong
<1>6. ASSUME NEW i \in DOMAIN queue, Removes(i)
      PROVE  Dated'
  <2>1. ~(queue[i].p # NULL /\ ~event_is_stale(queue[i]) /\ queue[i].old)
    BY DEF Dated, event_is_stale
  <2>2. \A n \in DOMAIN queue' : \E j \in DOMAIN queue : queue'[n] = queue[j]
    <3>1. DOMAIN queue \ {i} \in SUBSET (DOMAIN queue)
          /\ queue' = Compact(queue, DOMAIN queue \ {i})
      BY <1>6 DEF Removes, queue_remove_locked
    <3> QED
      BY <3>1, CompactDated
  <2> QED
    BY <1>6, <2>1, <2>2 DEF Removes, Dated
<1>7. CASE Adds
  <2>1. CASE queue' = queue
    BY <1>7, <2>1 DEF Adds, Dated, NoNewWrong
  <2>2. ASSUME NEW p \in Proc \cup {NULL}, NEW ev \in Ev, queue' = Posted(p, ev)
        PROVE  Dated'
    <3>1. \A i \in DOMAIN queue' :
             \/ i \in DOMAIN queue /\ queue'[i] = queue[i]
             \/ queue'[i].p = p /\ ~queue'[i].old
                /\ (p # NULL => queue'[i].gen = gen[p])
      BY <2>2, PostDated
    <3> QED
      BY <1>7, <3>1 DEF Adds, Dated, NoNewWrong
  <2> QED
    BY <1>7, <2>1, <2>2 DEF Adds
<1> QED
  BY <1>2, <1>3, <1>4, <1>5, <1>6, <1>7 DEF DateStep

(* As long as nobody starts a process that tiku_process_stop() took down, no *)
(* event posted to one instance of a process is delivered to a later one,    *)
(* however often the generation wraps.                                       *)
THEOREM NoStaleEverDelivered ==
  ASSUME StartParked = FALSE
  PROVE  Spec => []NoStaleDelivery
<1>1. Init => Dated
  BY DEF Init, Dated
<1>2. TypeOK /\ Dated /\ [Next]_vars => Dated'
  BY StepDates, DatedStep
<1>3. Dated => NoStaleDelivery
  BY DEF Dated, NoStaleDelivery
<1> QED
  BY <1>1, <1>2, <1>3, TypeCorrect, PTL DEF Spec

-----------------------------------------------------------------------------
(* Supervision.                                                            *)

(* The processes that the frames of the kinds K on a stack are about.        *)
Held(st, K) == {st[i].p : i \in {j \in DOMAIN st : st[j].k \in K}}

Bodies(st) == Held(st, {"body"})
Downs(st)  == Held(st, {"exited", "supervise"})

(* A push adds what the new frame is about.                                *)
LEMMA HeldAppend ==
  ASSUME NEW st \in Seq(FrameType), NEW f \in FrameType, NEW K
  PROVE  /\ f.k \in K => Held(Append(st, f), K) = Held(st, K) \cup {f.p}
         /\ f.k \notin K => Held(Append(st, f), K) = Held(st, K)
<1> DEFINE n == Len(st)
           at == Append(st, f)
<1>1. /\ n \in Nat /\ DOMAIN st = 1..n /\ DOMAIN at = 1..(n + 1)
      /\ at[n + 1] = f /\ \A i \in 1..n : at[i] = st[i]
  BY LenProperties, AppendProperties
<1>2. 1..(n + 1) = 1..n \cup {n + 1}
  BY <1>1
<1> HIDE DEF n, at
<1>3. /\ f.k \in K => Held(at, K) = Held(st, K) \cup {f.p}
      /\ f.k \notin K => Held(at, K) = Held(st, K)
  BY <1>1, <1>2 DEF Held
<1> QED
  BY <1>3 DEF at

(* A pop takes away what the top frame is about.                           *)
LEMMA HeldTop ==
  ASSUME TypeOK, stack # <<>>, NEW K
  PROVE  /\ Top.k \in K => Held(stack, K) = Held(Caller, K) \cup {Top.p}
         /\ Top.k \notin K => Held(stack, K) = Held(Caller, K)
<1>1. /\ Len(stack) \in Nat /\ Len(stack) > 0 /\ DOMAIN stack = 1..Len(stack)
      /\ stack \in Seq(FrameType)
  BY StackTop, LenProperties DEF TypeOK
<1>2. /\ DOMAIN Caller = 1..(Len(stack) - 1)
      /\ \A i \in 1..(Len(stack) - 1) : Caller[i] = stack[i]
  <2>1. \A i \in 1..(Len(stack) - 1) : stack[i] \in FrameType
    BY <1>1, ElementOfSeq
  <2> QED
    BY <1>1, <2>1, SubSeqProperties DEF Caller
<1>3. 1..Len(stack) = 1..(Len(stack) - 1) \cup {Len(stack)}
  BY <1>1
<1> QED
  BY <1>1, <1>2, <1>3 DEF Held, Top

(* The marks of an exit change no frame's kind nor its process.              *)
LEMMA HeldGone ==
  ASSUME NEW st \in Seq(FrameType), NEW p, NEW K
  PROVE  Held(Gone(st, p), K) = Held(st, K)
<1>1. \A i \in DOMAIN st : st[i] \in FrameType
  BY LenProperties, ElementOfSeq
<1>2. \A i \in DOMAIN st : /\ [st[i] EXCEPT !.due = @ \ {p}].k = st[i].k
                           /\ [st[i] EXCEPT !.due = @ \ {p}].p = st[i].p
  BY <1>1 DEF FrameType
<1> QED
  BY <1>2 DEF Held, Gone

(* Nor do the marks of a start.                                            *)
LEMMA HeldJoined ==
  ASSUME NEW st \in Seq(FrameType), NEW K
  PROVE  Held(Joined(st), K) = Held(st, K)
<1>1. \A i \in DOMAIN st : st[i] \in FrameType
  BY LenProperties, ElementOfSeq
<1>2. \A i \in DOMAIN st : /\ [st[i] EXCEPT !.seen = {}].k = st[i].k
                           /\ [st[i] EXCEPT !.seen = {}].p = st[i].p
  BY <1>1 DEF FrameType
<1> QED
  BY <1>2 DEF Held, Joined

(* Nor does the spending of a call.                                        *)
LEMMA HeldSpent ==
  ASSUME TypeOK, stack # <<>>, Top.n > 0, NEW K
  PROVE  Held(Spent, K) = Held(stack, K)
<1>1. Top \in FrameType /\ Caller \in Seq(FrameType) /\ Spent \in Seq(FrameType)
  BY TopTyped
<1> DEFINE f == [Top EXCEPT !.n = @ - 1]
<1>2. f.k = Top.k /\ f.p = Top.p
  BY <1>1 DEF FrameType
<1>3. f \in FrameType
  <2>1. Top.n - 1 \in 0..MaxOps
    BY <1>1, ProcessAssumption DEF FrameType
  <2> HIDE DEF Top
  <2> QED
    BY <1>1, <2>1 DEF FrameType
<1>4. Spent = Append(Caller, f)
  BY DEF Spent
<1> HIDE DEF f
<1>5. /\ Top.k \in K => Held(Spent, K) = Held(Caller, K) \cup {Top.p}
      /\ Top.k \notin K => Held(Spent, K) = Held(Caller, K)
  BY <1>1, <1>2, <1>3, <1>4, HeldAppend
<1>6. /\ Top.k \in K => Held(stack, K) = Held(Caller, K) \cup {Top.p}
      /\ Top.k \notin K => Held(stack, K) = Held(Caller, K)
  BY HeldTop
<1> HIDE DEF Top, Caller, Spent
<1> QED
  BY <1>5, <1>6

(* A leaf is a process whose body posts, sets policies and reports failures:  *)
(* none of its calls dispatches, starts or takes down a process.             *)
Leaf(p) == \A c \in Program : c[1] = p => c[2] \in Ev \cup RestartPolicy \cup {"fail"}

(* tiku_process_fail() is "called from inside the process on an unrecoverable *)
(* error", its caller then ends (tiku_process.h), and a process asks for its  *)
(* own restart.                                                            *)
FailsItself ==
  \A c \in Program : c[2] \in {"fail", "ON_FAILURE"} => c[3] = c[1] /\ Leaf(c[1])

LeafFree(st) == \A p \in Bodies(st) : ~Leaf(p)

(* Supervised alone is not inductive: a process could report its failure when *)
(* it no longer runs.  The body of a leaf is never interrupted by another     *)
(* frame, so that nothing takes the process down under it.                   *)
LeafInv == /\ LeafFree(Caller)
           /\ \A p \in Bodies(stack) : Leaf(p) => running[p]

(* Supervised, in terms of what the frames are about.                        *)
Failed(p) == restart[p] = "ON_FAILURE" /\ reason[p] = "FAILED" /\ ~parked[p]

Backed == \A p \in Proc : Failed(p) => running[p] \/ p \in Downs(stack)

(* The two ways to say it agree.                                           *)
LEMMA BackedSupervised == Backed <=> Supervised
BY DEF Backed, Failed, Supervised, Downs, Held

(* What stacking a frame on leaf-free ones does.                             *)
LEMMA LeafPush ==
  ASSUME NEW st \in Seq(FrameType), LeafFree(st), NEW f \in FrameType,
         stack' = Append(st, f), f.k = "body" => ~Leaf(f.p) \/ running'[f.p]
  PROVE  LeafInv'
<1>1. Caller' = st
  <2>1. /\ Len(st) \in Nat /\ DOMAIN st = 1..Len(st)
        /\ Len(stack') = Len(st) + 1 /\ \A i \in 1..Len(st) : stack'[i] = st[i]
    BY LenProperties, AppendProperties
  <2>2. Caller' = SubSeq(stack', 1, Len(st))
    BY <2>1 DEF Caller
  <2>3. \A i \in 1..Len(st) : stack'[i] \in FrameType
    BY <2>1, ElementOfSeq
  <2>4. /\ Len(SubSeq(stack', 1, Len(st))) = Len(st)
        /\ SubSeq(stack', 1, Len(st)) \in Seq(FrameType)
        /\ \A i \in 1..Len(st) : SubSeq(stack', 1, Len(st))[i] = st[i]
    BY <2>1, <2>3, SubSeqProperties
  <2> QED
    BY <2>1, <2>2, <2>4, SeqEqual
<1>2. Bodies(stack') \subseteq Bodies(st) \cup (IF f.k = "body" THEN {f.p} ELSE {})
  BY HeldAppend DEF Bodies
<1> QED
  BY <1>1, <1>2 DEF LeafInv, LeafFree

(* And what stopping at them does.                                           *)
LEMMA LeafPop ==
  ASSUME NEW st \in Seq(FrameType), LeafFree(st), stack' = st
  PROVE  LeafInv'
<1>1. LeafFree(Caller')
  <2>1. Len(st) \in Nat /\ DOMAIN st = 1..Len(st)
    BY LenProperties
  <2>2. \A i \in 1..(Len(st) - 1) : st[i] \in FrameType
    BY <2>1, ElementOfSeq
  <2>3. \A i \in DOMAIN SubSeq(st, 1, Len(st) - 1) :
          i \in DOMAIN st /\ SubSeq(st, 1, Len(st) - 1)[i] = st[i]
    BY <2>1, <2>2, SubSeqProperties
  <2>4. Bodies(Caller') \subseteq Bodies(st)
    BY <2>3 DEF Caller, Bodies, Held
  <2> QED
    BY <2>4 DEF LeafFree
<1> QED
  BY <1>1 DEF LeafInv, LeafFree

(* A start links p, or finds it running.                                   *)
LEMMA StartBacks ==
  ASSUME TypeOK, Backed, NEW p \in Proc, NEW st \in Seq(FrameType), LeafFree(st),
         Downs(stack) \subseteq Downs(st) \cup {p},
         tiku_process_start(p, st), UNCHANGED restart
  PROVE  LeafInv' /\ Backed'
<1>1. CASE running[p]
  <2>1. stack' = st /\ UNCHANGED <<running, reason, parked>>
    BY <1>1 DEF tiku_process_start
  <2> QED
    BY <1>1, <2>1, LeafPop DEF Backed, Failed
<1>2. CASE ~running[p]
  <2> DEFINE f == Frame("init", p, "INIT")
  <2>1. /\ stack' = Append(Joined(st), f)
        /\ running' = [running EXCEPT ![p] = TRUE]
        /\ reason'  = [reason EXCEPT ![p] = "NONE"]
        /\ parked'  = [parked EXCEPT ![p] = FALSE]
    BY <1>2 DEF tiku_process_start, Link
  <2>2. f \in FrameType /\ f.k = "init"
    BY FrameTyped DEF Frame, Ev
  <2> HIDE DEF f
  <2>3. Joined(st) \in Seq(FrameType) /\ LeafFree(Joined(st))
    BY GoneJoinedTyped, HeldJoined DEF LeafFree, Bodies
  <2>4. LeafInv'
    BY <2>1, <2>2, <2>3, LeafPush
  <2>5. Downs(stack') = Downs(st)
    BY <2>1, <2>2, <2>3, HeldAppend, HeldJoined DEF Downs
  <2> QED
    BY <2>1, <2>4, <2>5 DEF Backed, Failed, TypeOK
<1> QED
  BY <1>1, <1>2

(* An exit leaves the supervisor a frame, or finds the process down.         *)
LEMMA ExitBacks ==
  ASSUME TypeOK, Backed, NEW p \in Proc, NEW st \in Seq(FrameType), LeafFree(st),
         Downs(stack) \subseteq Downs(st),
         NEW why, why = "FAILED" => reason[p] = "FAILED",
         tiku_process_exit(p, why, st), UNCHANGED restart
  PROVE  LeafInv' /\ Backed'
<1>1. reason' = [reason EXCEPT ![p] = why] /\ UNCHANGED parked
  BY DEF tiku_process_exit
<1>2. CASE ~running[p]
  <2>1. stack' = st /\ UNCHANGED running
    BY <1>2 DEF tiku_process_exit
  <2> QED
    BY <1>1, <2>1, LeafPop DEF Backed, Failed, TypeOK
<1>3. CASE running[p]
  <2> DEFINE f == Frame("exited", p, "EXITED")
  <2>1. /\ stack' = Append(Gone(st, p), f)
        /\ running' = [running EXCEPT ![p] = FALSE]
    BY <1>3 DEF tiku_process_exit
  <2>2. f \in FrameType /\ f.k = "exited" /\ f.p = p
    BY FrameTyped DEF Frame, Ev
  <2> HIDE DEF f
  <2>3. Gone(st, p) \in Seq(FrameType) /\ LeafFree(Gone(st, p))
    BY GoneJoinedTyped, HeldGone DEF LeafFree, Bodies
  <2>4. LeafInv'
    BY <2>1, <2>2, <2>3, LeafPush
  <2>5. Downs(stack') = Downs(st) \cup {p}
    BY <2>1, <2>2, <2>3, HeldAppend, HeldGone DEF Downs
  <2> QED
    BY <1>1, <2>1, <2>4, <2>5 DEF Backed, Failed, TypeOK
<1> QED
  BY <1>2, <1>3

(* A dispatch takes nothing away.                                          *)
LEMMA DispatchBacks ==
  ASSUME TypeOK, Backed, NEW i \in DOMAIN queue, NEW skip \in Proc \cup {NULL},
         NEW st \in Seq(FrameType), LeafFree(st), Downs(stack) \subseteq Downs(st),
         Dispatch(i, skip, st)
  PROVE  LeafInv' /\ Backed'
<1> USE ProcessAssumption
<1> DEFINE e == queue[i]
           w == [Frame("walk", head, e.ev) EXCEPT
                   !.skip = skip, !.due = {p \in Proc : running[p]} \ {skip}]
<1>1. e \in Entry
  BY LenProperties, ElementOfSeq DEF TypeOK
<1>2. UNCHANGED <<running, restart, reason, parked>>
  BY DEF Dispatch, super
<1>3. CASE stack' = st
  BY <1>2, <1>3, LeafPop DEF Backed, Failed
<1>4. ASSUME NEW f \in FrameType, f.k \in {"call", "walk"}, stack' = Append(st, f)
      PROVE  LeafInv' /\ Backed'
  <2>1. LeafInv'
    BY <1>4, LeafPush
  <2>2. Downs(stack') = Downs(st)
    BY <1>4, HeldAppend DEF Downs
  <2> QED
    BY <1>2, <2>1, <2>2 DEF Backed, Failed
<1>5. CASE e.p # NULL /\ stack' = Append(st, Frame("call", e.p, e.ev))
  <2>1. Frame("call", e.p, e.ev) \in FrameType /\ Frame("call", e.p, e.ev).k = "call"
    BY <1>1, <1>5, FrameTyped DEF Entry, Frame
  <2> QED
    BY <1>4, <1>5, <2>1
<1>6. CASE stack' = Append(st, w)
  <2>1. w \in FrameType
    <3>1. e.ev \in Ev /\ head \in Proc \cup {NULL} /\ Shell \in Proc
      BY <1>1 DEF Entry, TypeOK
    <3>2. {p \in Proc : running[p]} \ {skip} \in SUBSET Proc
      OBVIOUS
    <3> QED
      BY <3>1, <3>2, WideFrameTyped
  <2>2. w.k = "walk"
    BY DEF Frame
  <2> HIDE DEF w
  <2> QED
    BY <1>4, <1>6, <2>1, <2>2
<1> QED
  BY <1>3, <1>5, <1>6 DEF Dispatch

(* A step that only stacks a frame, at most.                               *)
LEMMA PlainBacks ==
  ASSUME Backed, NEW st \in Seq(FrameType), LeafFree(st),
         UNCHANGED <<running, restart, reason, parked>>,
         \/ stack' = st /\ Downs(stack) \subseteq Downs(st)
         \/ \E f \in FrameType :
              /\ stack' = Append(st, f)
              /\ f.k = "body" => ~Leaf(f.p) \/ running[f.p]
              /\ \/ Downs(stack) \subseteq Downs(st)
                 \/ f.k \in {"exited", "supervise"}
                    /\ Downs(stack) \subseteq Downs(st) \cup {f.p}
  PROVE  LeafInv' /\ Backed'
<1>1. CASE stack' = st /\ Downs(stack) \subseteq Downs(st)
  BY <1>1, LeafPop DEF Backed, Failed
<1>2. ASSUME NEW f \in FrameType, stack' = Append(st, f),
             f.k = "body" => ~Leaf(f.p) \/ running[f.p],
             \/ Downs(stack) \subseteq Downs(st)
             \/ f.k \in {"exited", "supervise"}
                /\ Downs(stack) \subseteq Downs(st) \cup {f.p}
      PROVE  LeafInv' /\ Backed'
  <2>1. LeafInv'
    BY <1>2, LeafPush
  <2>2. Downs(stack) \subseteq Downs(stack')
    BY <1>2, HeldAppend DEF Downs
  <2> QED
    BY <2>1, <2>2 DEF Backed, Failed
<1> QED
  BY <1>1, <1>2

(* What is on the stack when a frame is popped.                              *)
LEMMA PopBacks ==
  ASSUME TypeOK, LeafInv, stack # <<>>, Top.k # "walk"
  PROVE  /\ Top \in FrameType /\ Top.p \in Proc
         /\ Caller \in Seq(FrameType) /\ LeafFree(Caller)
         /\ Downs(stack) \subseteq Downs(Caller) \cup {Top.p}
         /\ Top.k \notin {"exited", "supervise"} => Downs(stack) = Downs(Caller)
         /\ Top.k = "body" /\ Leaf(Top.p) => running[Top.p]
<1>1. /\ Top \in FrameType /\ Top.p \in Proc /\ Caller \in Seq(FrameType)
  BY TopTyped
<1>2. Top.k = "body" => Top.p \in Bodies(stack)
  BY HeldTop DEF Bodies
<1>3. /\ Top.k \in {"exited", "supervise"} => Downs(stack) = Downs(Caller) \cup {Top.p}
      /\ Top.k \notin {"exited", "supervise"} => Downs(stack) = Downs(Caller)
  BY HeldTop DEF Downs
<1> QED
  BY <1>1, <1>2, <1>3 DEF LeafInv

(* The calls of a body.                                                    *)
LEMMA BodyBacks ==
  ASSUME FailsItself, TypeOK, LeafInv, Backed, NEW c \in Program, Body(c)
  PROVE  LeafInv' /\ Backed'
<1> USE ProcessAssumption
<1>1. /\ c[2] \in Ev \cup {"pump"} => c[3] \in Proc \cup {NULL}
      /\ c[2] \notin Ev \cup {"pump"} => c[3] \in Proc
  OBVIOUS
<1>2. At("body") /\ Top.p = c[1] /\ Top.n > 0
  BY DEF Body, Calls, BodyPost, BodyStart, tiku_process_register, BodyExit,
         tiku_process_stop, tiku_process_resume, tiku_process_fail,
         tiku_process_set_restart, EnterPump
<1>3. /\ stack # <<>> /\ Top.k = "body" /\ Top \in FrameType /\ Top.p \in Proc
      /\ Caller \in Seq(FrameType) /\ LeafFree(Caller)
      /\ Downs(stack) = Downs(Caller)
      /\ Leaf(Top.p) => running[Top.p]
  BY <1>2, PopBacks DEF At
<1> DEFINE f == [Top EXCEPT !.n = @ - 1]
<1>4. /\ f \in FrameType /\ f.k = "body" /\ f.p = Top.p
      /\ Spent = Append(Caller, f)
  <2>1. Top.n - 1 \in 0..MaxOps
    BY <1>2, <1>3 DEF FrameType
  <2>2. Spent = Append(Caller, f)
    BY DEF Spent
  <2> HIDE DEF Top, Spent
  <2> QED
    BY <1>3, <2>1, <2>2 DEF FrameType
<1>5. Spent \in Seq(FrameType) /\ Downs(Spent) = Downs(stack)
  BY <1>2, <1>3, TopTyped, HeldSpent DEF Downs
<1> HIDE DEF f
<1>6. ASSUME stack' = Spent, UNCHANGED <<running, restart, reason, parked>>
      PROVE  LeafInv' /\ Backed'
  BY <1>3, <1>4, <1>6, PlainBacks
<1>7. c[2] \notin Ev \cup RestartPolicy \cup {"fail"} => LeafFree(Spent)
  <2>1. Bodies(Spent) = Bodies(Caller) \cup {Top.p}
    BY <1>3, <1>4, HeldAppend DEF Bodies
  <2> QED
    BY <1>2, <1>3, <2>1 DEF LeafFree, Leaf
<1>8. CASE BodyPost(c)
  BY <1>6, <1>8 DEF BodyPost, super
<1>9. CASE BodyStart(c) \/ tiku_process_register(c)
  <2>1. /\ c[3] \in Proc /\ tiku_process_start(c[3], Spent) /\ UNCHANGED restart
        /\ c[2] \in {"start", "register"}
    BY <1>1, <1>9 DEF BodyStart, tiku_process_register, Calls, Ev, super
  <2>2. LeafFree(Spent)
    BY <1>7, <2>1 DEF Ev, RestartPolicy
  <2> QED
    BY <1>5, <2>1, <2>2, StartBacks
<1>10. CASE BodyExit(c)
  <2>1. /\ c[3] \in Proc /\ tiku_process_exit(c[3], reason[c[3]], Spent)
        /\ UNCHANGED restart /\ c[2] = "exit"
    BY <1>1, <1>10 DEF BodyExit, Calls, Ev, super
  <2>2. LeafFree(Spent)
    BY <1>7, <2>1 DEF Ev, RestartPolicy
  <2> QED
    BY <1>5, <2>1, <2>2, ExitBacks
<1>11. CASE tiku_process_stop(c)
  <2>1. /\ c[3] \in Proc /\ c[2] = "stop" /\ stack' = Gone(Spent, c[3])
        /\ running' = [running EXCEPT ![c[3]] = FALSE]
        /\ parked'  = [parked EXCEPT ![c[3]] = @ \/ running[c[3]]]
        /\ UNCHANGED <<restart, reason>>
    BY <1>1, <1>11 DEF tiku_process_stop, Calls, Ev, super
  <2>2. LeafFree(Spent)
    BY <1>7, <2>1 DEF Ev, RestartPolicy
  <2>3. Gone(Spent, c[3]) \in Seq(FrameType) /\ LeafFree(Gone(Spent, c[3]))
    BY <1>5, <2>2, GoneJoinedTyped, HeldGone DEF LeafFree, Bodies
  <2>4. LeafInv'
    BY <2>1, <2>3, LeafPop
  <2>5. Downs(stack') = Downs(stack)
    BY <1>5, <2>1, HeldGone DEF Downs
  <2> QED
    BY <2>1, <2>4, <2>5 DEF Backed, Failed, TypeOK
<1>12. CASE tiku_process_resume(c)
  <2>1. /\ c[3] \in Proc /\ c[2] = "resume" /\ stack' = Joined(Spent)
        /\ running' = [running EXCEPT ![c[3]] = TRUE]
        /\ parked'  = [parked EXCEPT ![c[3]] = FALSE]
        /\ UNCHANGED <<restart, reason>>
    BY <1>1, <1>12 DEF tiku_process_resume, Calls, Ev, super
  <2>2. LeafFree(Spent)
    BY <1>7, <2>1 DEF Ev, RestartPolicy
  <2>3. Joined(Spent) \in Seq(FrameType) /\ LeafFree(Joined(Spent))
    BY <1>5, <2>2, GoneJoinedTyped, HeldJoined DEF LeafFree, Bodies
  <2>4. LeafInv'
    BY <2>1, <2>3, LeafPop
  <2>5. Downs(stack') = Downs(stack)
    BY <1>5, <2>1, HeldJoined DEF Downs
  <2> QED
    BY <2>1, <2>4, <2>5 DEF Backed, Failed, TypeOK
<1>13. CASE tiku_process_fail(c) \/ tiku_process_set_restart(c)
  <2>1. /\ stack' = Spent /\ UNCHANGED <<running, parked>> /\ c[3] \in Proc
        /\ \/ /\ UNCHANGED restart /\ c[2] = "fail"
              /\ reason' = [reason EXCEPT ![c[3]] = "FAILED"]
           \/ /\ UNCHANGED reason /\ c[2] \in RestartPolicy
              /\ restart' = [restart EXCEPT ![c[3]] = c[2]]
    BY <1>1, <1>13 DEF tiku_process_fail, tiku_process_set_restart, Calls, Ev,
                       RestartPolicy, super
  <2>2. LeafInv'
    BY <1>3, <1>4, <2>1, LeafPush
  <2>3. c[2] \in {"fail", "ON_FAILURE"} => running[c[3]]
    BY <1>2, <1>3 DEF FailsItself
  <2> QED
    BY <1>5, <2>1, <2>2, <2>3 DEF Backed, Failed, TypeOK
<1>14. CASE EnterPump(c)
  <2> DEFINE g == [Frame("pump", c[1], Top.ev) EXCEPT !.skip = current, !.n = MaxOps]
  <2>1. g \in FrameType
    <3>1. c[1] \in Proc /\ Top.ev \in Ev /\ current \in Proc \cup {NULL}
      BY <1>2, <1>3 DEF FrameType, TypeOK
    <3> HIDE DEF Top
    <3> QED
      BY <3>1, WideFrameTyped
  <2>2. g.k = "pump"
    BY DEF Frame
  <2>3. /\ stack' = Append(Spent, g) /\ c[2] = "pump"
        /\ UNCHANGED <<running, restart, reason, parked>>
    BY <1>14 DEF EnterPump, Calls, super
  <2> HIDE DEF g
  <2>4. LeafFree(Spent)
    BY <1>7, <2>3 DEF Ev, RestartPolicy
  <2> QED
    BY <1>5, <2>1, <2>2, <2>3, <2>4, PlainBacks
<1> QED
  BY <1>8, <1>9, <1>10, <1>11, <1>12, <1>13, <1>14 DEF Body

(* The steps of the kernel itself, and of interrupt handlers.               *)
LEMMA BackedStep ==
  ASSUME FailsItself, TypeOK, LeafInv, Backed, [Next]_vars
  PROVE  LeafInv' /\ Backed'
<1> USE ProcessAssumption
<1>1. CASE stack' = stack /\ UNCHANGED <<running, restart, reason, parked>>
  <2>1. UNCHANGED Caller /\ UNCHANGED Bodies(stack)
    BY <1>1 DEF Caller, Bodies, Held
  <2> QED
    BY <1>1, <2>1 DEF LeafInv, LeafFree, Backed, Failed
<1>2. CASE stack = <<>> /\ (AutostartNext \/ tiku_process_run)
  <2>1. stack \in Seq(FrameType) /\ LeafFree(stack)
    BY <1>2 DEF LeafFree, Bodies, Held, TypeOK
  <2>2. CASE AutostartNext
    <3>1. Head(boot) \in Proc /\ UNCHANGED restart
      BY <2>2, HeadTailProperties DEF AutostartNext, TypeOK, super
    <3>2. CASE tiku_process_start(Head(boot), stack)
      BY <2>1, <3>1, <3>2, StartBacks
    <3> QED
      BY <1>1, <2>2, <3>1, <3>2 DEF AutostartNext
  <2>3. CASE tiku_process_run
    <3>1. 1 \in DOMAIN queue
      BY <2>3, EmptySeq, LenProperties DEF tiku_process_run, TypeOK
    <3> QED
      BY <2>1, <2>3, <3>1, DispatchBacks DEF tiku_process_run
  <2> QED
    BY <1>2, <2>2, <2>3
<1>3. CASE Walk
  <2>1. /\ stack # <<>> /\ Top.k = "walk" /\ Top \in FrameType
        /\ Caller \in Seq(FrameType) /\ LeafFree(Caller)
        /\ UNCHANGED <<running, restart, reason, parked>>
    BY <1>3, TopTyped DEF Walk, At, LeafInv, super
  <2>2. Downs(stack) = Downs(Caller)
    BY <2>1, HeldTop DEF Downs
  <2>3. CASE Top.p = NULL
    BY <1>3, <2>1, <2>2, <2>3, PlainBacks DEF Walk
  <2>4. CASE Top.p # NULL
    <3> DEFINE over == [Top EXCEPT !.p    = next[Top.p],
                                   !.due  = @ \ {Top.p},
                                   !.seen = @ \cup {Top.p}]
               f == Frame("call", Top.p, Top.ev)
    <3>1. /\ Top.p \in Proc /\ Top.ev \in Ev /\ next[Top.p] \in Proc \cup {NULL}
      BY <2>1, <2>4 DEF FrameType, TypeOK
    <3>2. over \in FrameType /\ over.k = "walk"
      BY <2>1, <3>1 DEF FrameType
    <3>3. f \in FrameType /\ f.k = "call"
      BY <3>1, FrameTyped DEF Frame
    <3>4. \/ stack' = Append(Caller, over)
          \/ stack' = Append(Append(Caller, over), f)
      BY <1>3, <2>4 DEF Walk
    <3> HIDE DEF over, f
    <3>5. CASE stack' = Append(Caller, over)
      BY <2>1, <2>2, <3>2, <3>5, PlainBacks
    <3>6. CASE stack' = Append(Append(Caller, over), f)
      <4>1. Append(Caller, over) \in Seq(FrameType)
        BY <2>1, <3>2
      <4>2. /\ Bodies(Append(Caller, over)) = Bodies(Caller)
            /\ Downs(Append(Caller, over)) = Downs(stack)
        BY <2>1, <2>2, <3>2, HeldAppend DEF Bodies, Downs
      <4>3. LeafFree(Append(Caller, over))
        BY <2>1, <4>2 DEF LeafFree
      <4> QED
        BY <2>1, <3>3, <3>6, <4>1, <4>2, <4>3, PlainBacks
    <3> QED
      BY <3>4, <3>5, <3>6
  <2> QED
    BY <2>3, <2>4
<1>4. ASSUME stack # <<>>, Top.k \notin {"walk"}
      PROVE  /\ Top \in FrameType /\ Top.p \in Proc
             /\ Caller \in Seq(FrameType) /\ LeafFree(Caller)
             /\ Downs(stack) \subseteq Downs(Caller) \cup {Top.p}
             /\ Top.k \notin {"exited", "supervise"} => Downs(stack) = Downs(Caller)
             /\ Top.k = "body" /\ Leaf(Top.p) => running[Top.p]
  BY <1>4, PopBacks
<1>5. CASE call_process
  <2>1. stack # <<>> /\ Top.k = "call" /\ UNCHANGED restart
    BY <1>5 DEF call_process, At, super
  <2>2. CASE stack' = Caller /\ UNCHANGED <<running, reason, parked>>
    BY <1>4, <2>1, <2>2, PlainBacks
  <2>3. CASE tiku_process_exit(Top.p, "DONE", Caller)
    BY <1>4, <2>1, <2>3, ExitBacks
  <2>4. CASE /\ stack' = Append(Caller, [Top EXCEPT !.k = "body", !.n = MaxOps])
             /\ running[Top.p] /\ UNCHANGED <<running, reason, parked>>
    <3> DEFINE f == [Top EXCEPT !.k = "body", !.n = MaxOps]
    <3>1. f \in FrameType /\ f.k = "body" /\ f.p = Top.p
      <4>1. MaxOps \in 0..MaxOps /\ Top \in FrameType /\ Top.p \in Proc
        BY <1>4, <2>1
      <4> HIDE DEF Top
      <4> QED
        BY <4>1 DEF FrameType
    <3> HIDE DEF f
    <3>2. stack' = Append(Caller, f)
      BY <2>4 DEF f
    <3> QED
      BY <1>4, <2>1, <2>4, <3>1, <3>2, PlainBacks
  <2> QED
    BY <1>5, <2>2, <2>3, <2>4 DEF call_process
<1>6. CASE Yielded \/ LeavePump
  <2>1. /\ stack # <<>> /\ Top.k \in {"body", "pump"} /\ stack' = Caller
        /\ UNCHANGED <<running, restart, reason, parked>>
    BY <1>6 DEF Yielded, LeavePump, At, super
  <2> QED
    BY <1>4, <2>1, PlainBacks
<1>7. CASE Ended
  <2> DEFINE why == IF reason[Top.p] = "FAILED" THEN "FAILED" ELSE "DONE"
  <2>1. /\ stack # <<>> /\ Top.k = "body" /\ UNCHANGED restart
        /\ tiku_process_exit(Top.p, why, Caller)
    BY <1>7 DEF Ended, At, super
  <2>2. why = "FAILED" => reason[Top.p] = "FAILED"
    OBVIOUS
  <2> HIDE DEF why
  <2> QED
    BY <1>4, <2>1, <2>2, ExitBacks
<1>8. CASE PostInit
  <2> DEFINE f == Frame("call", Top.p, "INIT")
  <2>1. /\ stack # <<>> /\ Top.k = "init"
        /\ UNCHANGED <<running, restart, reason, parked>>
        /\ stack' = Caller \/ stack' = Append(Caller, f)
    BY <1>8 DEF PostInit, At, super
  <2>2. f \in FrameType /\ f.k = "call"
    BY <1>4, <2>1, FrameTyped DEF Frame, Ev
  <2> HIDE DEF f
  <2> QED
    BY <1>4, <2>1, <2>2, PlainBacks
<1>9. CASE PostExited
  <2> DEFINE f == [Top EXCEPT !.k = "supervise"]
  <2>1. /\ stack # <<>> /\ Top.k = "exited" /\ stack' = Append(Caller, f)
        /\ UNCHANGED <<running, restart, reason, parked>>
    BY <1>9 DEF PostExited, At, super
  <2>2. f \in FrameType /\ f.k = "supervise" /\ f.p = Top.p
    <3>1. Top \in FrameType /\ Top.p \in Proc
      BY <1>4, <2>1
    <3> HIDE DEF Top
    <3> QED
      BY <3>1 DEF FrameType
  <2> HIDE DEF f
  <2> QED
    BY <1>4, <2>1, <2>2, PlainBacks
<1>10. CASE supervisor_on_exit
  <2>1. stack # <<>> /\ Top.k = "supervise"
    BY <1>10 DEF supervisor_on_exit, At
  <2>2. CASE tiku_process_start(Top.p, Caller) /\ UNCHANGED restart
    BY <1>4, <2>1, <2>2, StartBacks
  <2>3. CASE /\ stack' = Caller /\ UNCHANGED <<running, reason, parked>>
             /\ \/ ~Wanted(Top.p) /\ UNCHANGED restart
                \/ restart' = [restart EXCEPT ![Top.p] = "NEVER"]
    <3>1. LeafInv'
      BY <1>4, <2>1, <2>3, LeafPop
    <3>2. PICK q \in Proc : q = Top.p
      BY <1>4, <2>1
    <3>3. ~Failed(q)'
      BY <2>3, <3>2 DEF Failed, Wanted, TypeOK
    <3>4. \A p \in Proc : p # q /\ Failed(p)' => Failed(p)
      BY <2>3, <3>2 DEF Failed, TypeOK
    <3>5. Downs(stack) \subseteq Downs(stack') \cup {q}
      BY <1>4, <2>1, <2>3, <3>2
    <3> QED
      BY <2>3, <3>1, <3>3, <3>4, <3>5 DEF Backed
  <2> QED
    BY <1>10, <2>2, <2>3 DEF supervisor_on_exit, super
<1>11. CASE tiku_process_run_except
  <2>1. stack # <<>> /\ Top.k = "pump" /\ Top.n > 0
    BY <1>11 DEF tiku_process_run_except, At
  <2>2. Spent \in Seq(FrameType) /\ Downs(Spent) = Downs(stack)
        /\ Bodies(Spent) = Bodies(Caller)
    BY <2>1, TopTyped, HeldSpent, HeldTop DEF Downs, Bodies
  <2>3. PICK i \in DOMAIN queue : Dispatch(i, Top.skip, Spent)
    BY <1>11 DEF tiku_process_run_except
  <2>4. Top.skip \in Proc \cup {NULL} /\ LeafFree(Spent)
    BY <1>4, <2>1, <2>2 DEF FrameType, LeafFree
  <2> HIDE DEF Top, Spent
  <2> QED
    BY <2>2, <2>3, <2>4, DispatchBacks
<1>12. CASE \E c \in Program : Body(c)
  BY <1>12, BodyBacks
<1>13. CASE IsrPost \/ \E p \in Proc : IsrPoll(p) \/ WindowPasses(p)
  BY <1>1, <1>13 DEF IsrPost, IsrPoll, InIsr, WindowPasses, super
<1>14. CASE UNCHANGED vars
  BY <1>1, <1>14 DEF vars, super
<1>15. AutostartNext \/ tiku_process_run => stack = <<>>
  BY DEF AutostartNext, tiku_process_run
<1> QED
  BY <1>2, <1>3, <1>5, <1>6, <1>7, <1>8, <1>9, <1>10, <1>11, <1>12, <1>13,
     <1>14, <1>15 DEF Next, Step

(* Supervised: a process that failed under ON_FAILURE runs again, is on its   *)
(* way back, or has been given up in its policy, however many frames of the   *)
(* kernel and of other processes are on the stack between its failure and    *)
(* supervisor_on_exit(), where a process reports only its own failure, from a *)
(* body that dispatches nothing (FailsItself).                               *)
THEOREM FailedAreBack ==
  ASSUME FailsItself
  PROVE  Spec => []Supervised
<1>1. Init => LeafInv /\ Backed
  <2> SUFFICES ASSUME Init PROVE LeafInv /\ Backed
    OBVIOUS
  <2>1. stack = <<>> /\ restart = [p \in Proc |-> "NEVER"]
    BY DEF Init
  <2>2. Bodies(stack) = {} /\ Bodies(Caller) = {}
    <3>1. Caller = <<>>
      BY <2>1, SubSeqProperties, EmptySeq DEF Caller
    <3> QED
      BY <2>1, <3>1 DEF Bodies, Held
  <2> QED
    BY <2>1, <2>2 DEF LeafInv, LeafFree, Backed, Failed
<1>2. TypeOK /\ (LeafInv /\ Backed) /\ [Next]_vars => (LeafInv /\ Backed)'
  BY BackedStep
<1>3. LeafInv /\ Backed => Supervised
  BY BackedSupervised
<1> QED
  BY <1>1, <1>2, <1>3, TypeCorrect, PTL DEF Spec

-----------------------------------------------------------------------------
(* Nested dispatch.                                                        *)

Pumps == \E c \in Program : c[2] = "pump"

(* The discipline under which no protothread is re-entered: bodies leave it   *)
(* to one process s to start, register and exit others and to pump; and an   *)
(* activation of s that starts or exits a process does not pump after it,     *)
(* since the INIT a full queue makes tiku_process_start() deliver itself      *)
(* leaves tiku_current_process NULL, and the pump with no name to withhold.   *)
Disciplined(s) ==
  /\ \A c \in Program :
       c[2] \in {"start", "register", "exit", "pump"} => c[1] = s /\ c[3] # s
  /\ \/ MaxOps = 1
     \/ ~Pumps
     \/ \A c \in Program : c[2] \notin {"start", "register", "exit"}

(* What keeps a frame above a body of s from calling s.                      *)
Apart(f, s) ==
  /\ f.k \in {"call", "body", "init", "exited", "supervise"} => f.p # s
  /\ f.k \in {"walk", "pump"} => Pumps /\ f.skip = s

(* NoReentry is not inductive: it says nothing of the calls still to come.    *)
(* Every frame fits the frames below it: a body with a frame above it is s's, *)
(* the frames above it keep apart from s, and where s pumps at all it has     *)
(* spent its calls when another frame than a pump is above it.               *)
Fits(st, f, s) ==
  /\ \A i \in DOMAIN st : st[i].k = "body" => st[i].p = s /\ Apart(f, s)
  /\ f.k = "pump" => Pumps
  /\ st # <<>> /\ st[Len(st)].k = "body" /\ Pumps
     => f.k = "pump" \/ (MaxOps = 1 /\ st[Len(st)].n = 0)

Nests(st, s) ==
  \A j \in DOMAIN st :
    /\ \A i \in 1..(j-1) : st[i].k = "body" => st[i].p = s /\ Apart(st[j], s)
    /\ st[j].k = "pump" => Pumps
    /\ j > 1 /\ st[j-1].k = "body" /\ Pumps
       => st[j].k = "pump" \/ (MaxOps = 1 /\ st[j-1].n = 0)

(* A body of s that may still pump finds its name in tiku_current_process.   *)
Named(st, cur, s) ==
  st # <<>> /\ st[Len(st)].k = "body" /\ st[Len(st)].p = s /\ Pumps
    /\ (st[Len(st)].n > 0 \/ MaxOps # 1)
  => cur = s

NestInv(s) == Nests(stack, s) /\ Named(stack, current, s)

(* That is enough for NoReentry.                                           *)
LEMMA NestsNoReentry ==
  ASSUME TypeOK, NEW s \in Proc, NestInv(s)
  PROVE  NoReentry
<1>1. DOMAIN stack = 1..Len(stack) /\ Len(stack) \in Nat
  BY LenProperties DEF TypeOK
<1>2. ASSUME NEW i \in DOMAIN stack, NEW j \in DOMAIN stack, i < j,
             stack[i].k = "body", stack[j].k = "body"
      PROVE  stack[i].p # stack[j].p
  <2>1. i \in 1..(j-1)
    BY <1>1, <1>2
  <2> QED
    BY <1>2, <2>1 DEF NestInv, Nests, Apart
<1>3. \A i, j \in DOMAIN stack : i = j \/ i < j \/ j < i
  BY <1>1
<1> QED
  BY <1>2, <1>3 DEF NoReentry

(* A push keeps the nesting if the frame fits.                              *)
LEMMA NestPush ==
  ASSUME NEW s, NEW st \in Seq(FrameType), NEW f \in FrameType,
         Nests(st, s), Fits(st, f, s)
  PROVE  /\ Nests(Append(st, f), s)
         /\ \A cur : (f.k = "body" => Named(<<f>>, cur, s)) => Named(Append(st, f), cur, s)
<1> DEFINE n == Len(st)
           at == Append(st, f)
<1>1. /\ n \in Nat /\ DOMAIN st = 1..n /\ DOMAIN at = 1..(n + 1) /\ Len(at) = n + 1
      /\ at[n + 1] = f /\ \A i \in 1..n : at[i] = st[i]
  BY LenProperties, AppendProperties
<1>2. n > 0 => st # <<>>
  OBVIOUS
<1>3. /\ \A i \in 1..n : st[i].k = "body" => st[i].p = s /\ Apart(f, s)
      /\ f.k = "pump" => Pumps
      /\ n > 0 /\ st[n].k = "body" /\ Pumps => f.k = "pump" \/ (MaxOps = 1 /\ st[n].n = 0)
  BY <1>1, <1>2 DEF Fits
<1>4. \A j \in 1..n :
        /\ \A i \in 1..(j-1) : st[i].k = "body" => st[i].p = s /\ Apart(st[j], s)
        /\ st[j].k = "pump" => Pumps
        /\ j > 1 /\ st[j-1].k = "body" /\ Pumps
           => st[j].k = "pump" \/ (MaxOps = 1 /\ st[j-1].n = 0)
  BY <1>1 DEF Nests
<1>5. Len(<<f>>) = 1 /\ <<f>>[1] = f /\ <<f>> # <<>>
  OBVIOUS
<1> HIDE DEF n, at
<1>6. Nests(at, s)
  <2> SUFFICES ASSUME NEW j \in 1..(n + 1)
               PROVE  /\ \A i \in 1..(j-1) :
                            at[i].k = "body" => at[i].p = s /\ Apart(at[j], s)
                      /\ at[j].k = "pump" => Pumps
                      /\ j > 1 /\ at[j-1].k = "body" /\ Pumps
                         => at[j].k = "pump" \/ (MaxOps = 1 /\ at[j-1].n = 0)
    BY <1>1 DEF Nests
  <2>1. CASE j \in 1..n
    <3>1. at[j] = st[j] /\ \A i \in 1..(j-1) : at[i] = st[i]
      BY <1>1, <2>1
    <3>2. j > 1 => j - 1 \in 1..(j-1)
      BY <1>1
    <3> QED
      BY <1>4, <2>1, <3>1, <3>2
  <2>2. CASE j = n + 1
    <3>1. at[j] = f /\ 1..(j-1) = 1..n /\ \A i \in 1..n : at[i] = st[i]
      BY <1>1, <2>2
    <3>2. j > 1 => j - 1 = n /\ n > 0 /\ n \in 1..n
      BY <1>1, <2>2
    <3> QED
      BY <1>3, <3>1, <3>2
  <2> QED
    BY <1>1, <2>1, <2>2
<1>7. ASSUME NEW cur, f.k = "body" => Named(<<f>>, cur, s)
      PROVE  Named(at, cur, s)
  BY <1>1, <1>5, <1>7 DEF Named
<1> QED
  BY <1>6, <1>7 DEF at

(* A pop keeps it, and the frame popped fitted what is left.                 *)
LEMMA NestTop ==
  ASSUME TypeOK, stack # <<>>, NEW s, Nests(stack, s)
  PROVE  Nests(Caller, s) /\ Fits(Caller, Top, s)
<1> DEFINE n == Len(stack)
<1>1. n \in Nat /\ n > 0 /\ DOMAIN stack = 1..n /\ stack \in Seq(FrameType)
  BY StackTop, LenProperties DEF TypeOK
<1>2. /\ DOMAIN Caller = 1..(n-1) /\ Len(Caller) = n - 1
      /\ \A i \in 1..(n-1) : Caller[i] = stack[i]
  <2>1. \A i \in 1..(n-1) : stack[i] \in FrameType
    BY <1>1, ElementOfSeq
  <2> QED
    BY <1>1, <2>1, SubSeqProperties DEF Caller
<1>3. Top = stack[n] /\ n \in 1..n /\ (Caller # <<>> => n > 1)
  <2>1. Caller # <<>> => Len(Caller) # 0
    <3>1. Caller \in Seq(FrameType)
      BY StackTop DEF TypeOK
    <3> QED
      BY <3>1, EmptySeq
  <2> QED
    BY <1>1, <1>2, <2>1 DEF Top
<1>4. \A j \in 1..n :
        /\ \A i \in 1..(j-1) :
             stack[i].k = "body" => stack[i].p = s /\ Apart(stack[j], s)
        /\ stack[j].k = "pump" => Pumps
        /\ j > 1 /\ stack[j-1].k = "body" /\ Pumps
           => stack[j].k = "pump" \/ (MaxOps = 1 /\ stack[j-1].n = 0)
  BY <1>1 DEF Nests
<1> HIDE DEF n, Top, Caller
<1>5. Nests(Caller, s)
  <2>1. \A j \in 1..(n-1) : /\ j \in 1..n /\ \A i \in 1..(j-1) : i \in 1..(n-1)
                            /\ j > 1 => j - 1 \in 1..(n-1)
    BY <1>1
  <2> QED
    BY <1>2, <1>4, <2>1 DEF Nests
<1>6. Fits(Caller, Top, s)
  <2>1. n > 1 => n - 1 \in 1..(n-1)
    BY <1>1
  <2> QED
    BY <1>2, <1>3, <1>4, <2>1 DEF Fits
<1> QED
  BY <1>5, <1>6

(* Stacks whose frames differ in what broadcasts owe and have seen, at most.  *)
Alike(st, su) ==
  /\ st \in Seq(FrameType) /\ Len(st) = Len(su) /\ DOMAIN st = 1..Len(su)
  /\ st = <<>> <=> su = <<>>
  /\ \A i \in 1..Len(su) : /\ st[i].k = su[i].k /\ st[i].p = su[i].p
                           /\ st[i].n = su[i].n /\ st[i].skip = su[i].skip

(* The marks of a start or an exit make no other difference.                 *)
LEMMA MarkedAlike ==
  ASSUME NEW su \in Seq(FrameType), NEW p
  PROVE  Alike(Gone(su, p), su) /\ Alike(Joined(su), su)
<1>1. Len(su) \in Nat /\ DOMAIN su = 1..Len(su) /\ \A i \in 1..Len(su) : su[i] \in FrameType
  BY LenProperties, ElementOfSeq
<1> DEFINE g == Gone(su, p)
           h == Joined(su)
<1>2. g \in Seq(FrameType) /\ h \in Seq(FrameType)
  BY GoneJoinedTyped
<1>3. DOMAIN g = 1..Len(su) /\ DOMAIN h = 1..Len(su)
  BY <1>1 DEF Gone, Joined
<1>4. Len(g) = Len(su) /\ Len(h) = Len(su)
  BY <1>1, <1>2, <1>3, LenProperties
<1>5. \A i \in 1..Len(su) :
        /\ g[i].k = su[i].k /\ g[i].p = su[i].p /\ g[i].n = su[i].n
        /\ g[i].skip = su[i].skip
        /\ h[i].k = su[i].k /\ h[i].p = su[i].p /\ h[i].n = su[i].n
        /\ h[i].skip = su[i].skip
  <2>1. \A i \in 1..Len(su) : /\ g[i] = [su[i] EXCEPT !.due = @ \ {p}]
                              /\ h[i] = [su[i] EXCEPT !.seen = {}]
    BY <1>1 DEF Gone, Joined
  <2> HIDE DEF g, h
  <2> QED
    BY <1>1, <2>1 DEF FrameType
<1> HIDE DEF g, h
<1>6. (g = <<>> <=> su = <<>>) /\ (h = <<>> <=> su = <<>>)
  BY <1>2, <1>4, EmptySeq
<1>7. Alike(g, su) /\ Alike(h, su)
  BY <1>2, <1>3, <1>4, <1>5, <1>6 DEF Alike
<1> QED
  BY <1>7 DEF g, h

(* It is none to the nesting.                                              *)
LEMMA AlikeNests ==
  ASSUME NEW s, NEW su \in Seq(FrameType), NEW st, Alike(st, su)
  PROVE  /\ Nests(su, s) => Nests(st, s)
         /\ \A f : Fits(su, f, s) => Fits(st, f, s)
         /\ \A cur : Named(su, cur, s) => Named(st, cur, s)
<1>1. Len(su) \in Nat /\ DOMAIN su = 1..Len(su)
  BY LenProperties
<1>2. su # <<>> => Len(su) \in 1..Len(su)
  BY <1>1, EmptySeq
<1>3. Nests(su, s) => Nests(st, s)
  <2>1. \A j \in 1..Len(su) : /\ \A i \in 1..(j-1) : i \in 1..Len(su)
                              /\ j > 1 => j - 1 \in 1..Len(su)
    BY <1>1
  <2>2. \A j \in 1..Len(su) : Apart(su[j], s) => Apart(st[j], s)
    BY DEF Alike, Apart
  <2> QED
    BY <1>1, <2>1, <2>2 DEF Alike, Nests
<1>4. \A f : Fits(su, f, s) => Fits(st, f, s)
  BY <1>1, <1>2 DEF Alike, Fits
<1>5. \A cur : Named(su, cur, s) => Named(st, cur, s)
  BY <1>1, <1>2 DEF Alike, Named
<1> QED
  BY <1>3, <1>4, <1>5

(* A step that pushes one frame.                                           *)
LEMMA PushNests ==
  ASSUME NEW s, NEW st \in Seq(FrameType), Nests(st, s), NEW f \in FrameType,
         Fits(st, f, s), stack' = Append(st, f),
         f.k = "body" => Named(<<f>>, current', s)
  PROVE  NestInv(s)'
<1>1. Nests(Append(st, f), s) /\ Named(Append(st, f), current', s)
  BY NestPush
<1> QED
  BY <1>1 DEF NestInv

(* A start.                                                                *)
LEMMA StartNests ==
  ASSUME NEW s, NEW p \in Proc, NEW st \in Seq(FrameType), Nests(st, s),
         Fits(st, Frame("init", p, "INIT"), s), Named(st, current', s),
         tiku_process_start(p, st)
  PROVE  NestInv(s)'
<1>1. CASE running[p]
  BY <1>1 DEF tiku_process_start, NestInv
<1>2. CASE ~running[p]
  <2> DEFINE f == Frame("init", p, "INIT")
  <2>1. stack' = Append(Joined(st), f)
    BY <1>2 DEF tiku_process_start, Link
  <2>2. f \in FrameType /\ f.k = "init"
    BY FrameTyped DEF Frame, Ev
  <2>3. Fits(st, f, s)
    OBVIOUS
  <2> HIDE DEF f
  <2>4. Alike(Joined(st), st) /\ Joined(st) \in Seq(FrameType)
    BY MarkedAlike, GoneJoinedTyped
  <2>5. Nests(Joined(st), s) /\ Fits(Joined(st), f, s)
    BY <2>3, <2>4, AlikeNests
  <2> QED
    BY <2>1, <2>2, <2>4, <2>5, PushNests
<1> QED
  BY <1>1, <1>2

(* An exit.                                                                *)
LEMMA ExitNests ==
  ASSUME NEW s, NEW p \in Proc, NEW why, NEW st \in Seq(FrameType), Nests(st, s),
         Fits(st, Frame("exited", p, "EXITED"), s), Named(st, current', s),
         tiku_process_exit(p, why, st)
  PROVE  NestInv(s)'
<1>1. CASE ~running[p]
  BY <1>1 DEF tiku_process_exit, NestInv
<1>2. CASE running[p]
  <2> DEFINE f == Frame("exited", p, "EXITED")
  <2>1. stack' = Append(Gone(st, p), f)
    BY <1>2 DEF tiku_process_exit
  <2>2. f \in FrameType /\ f.k = "exited"
    BY FrameTyped DEF Frame, Ev
  <2>3. Fits(st, f, s)
    OBVIOUS
  <2> HIDE DEF f
  <2>4. Alike(Gone(st, p), st) /\ Gone(st, p) \in Seq(FrameType)
    BY MarkedAlike, GoneJoinedTyped
  <2>5. Nests(Gone(st, p), s) /\ Fits(Gone(st, p), f, s)
    BY <2>3, <2>4, AlikeNests
  <2> QED
    BY <2>1, <2>2, <2>4, <2>5, PushNests
<1> QED
  BY <1>1, <1>2

(* A dispatch withholds from s what is queued for it, above a body of s.     *)
LEMMA DispatchNests ==
  ASSUME TypeOK, NEW s \in Proc, NEW i \in DOMAIN queue, NEW skip \in Proc \cup {NULL},
         NEW st \in Seq(FrameType), Nests(st, s),
         st # <<>> => st[Len(st)].k # "body",
         \A j \in DOMAIN st : st[j].k = "body" => st[j].p = s /\ Pumps /\ skip = s,
         Dispatch(i, skip, st)
  PROVE  NestInv(s)'
<1> USE ProcessAssumption
<1> DEFINE e == queue[i]
           w == [Frame("walk", head, e.ev) EXCEPT
                   !.skip = skip, !.due = {p \in Proc : running[p]} \ {skip}]
           f == Frame("call", e.p, e.ev)
<1>1. e \in Entry
  BY LenProperties, ElementOfSeq DEF TypeOK
<1>2. CASE stack' = st
  BY <1>2 DEF NestInv, Named
<1>3. CASE /\ e.p # NULL /\ ~(skip # NULL /\ e.p = skip)
           /\ stack' = Append(st, f)
  <2>1. f \in FrameType /\ f.k = "call" /\ f.p = e.p
    BY <1>1, <1>3, FrameTyped DEF Entry, Frame
  <2>2. (\E j \in DOMAIN st : st[j].k = "body") => f.p # s
    BY <1>3, <2>1
  <2> HIDE DEF f
  <2>3. Fits(st, f, s)
    BY <2>1, <2>2 DEF Fits, Apart
  <2> QED
    BY <1>3, <2>1, <2>3, PushNests
<1>4. CASE stack' = Append(st, w)
  <2>1. w \in FrameType
    <3>1. e.ev \in Ev /\ head \in Proc \cup {NULL} /\ Shell \in Proc
      BY <1>1 DEF Entry, TypeOK
    <3>2. {p \in Proc : running[p]} \ {skip} \in SUBSET Proc
      OBVIOUS
    <3> QED
      BY <3>1, <3>2, WideFrameTyped
  <2>2. w.k = "walk" /\ w.skip = skip
    BY DEF Frame
  <2> HIDE DEF w
  <2>3. Fits(st, w, s)
    BY <2>2 DEF Fits, Apart
  <2> QED
    BY <1>4, <2>1, <2>2, <2>3, PushNests
<1> QED
  BY <1>2, <1>3, <1>4 DEF Dispatch

(* What a frame leaves when it is popped.                                   *)
LEMMA PopNests ==
  ASSUME TypeOK, NEW s \in Proc, NestInv(s), stack # <<>>
  PROVE  /\ Caller \in Seq(FrameType) /\ Nests(Caller, s) /\ Fits(Caller, Top, s)
         /\ Top.k # "pump" => \A cur : Named(Caller, cur, s)
         /\ Top.k = "pump" => Named(Caller, Top.skip, s)
<1>1. Caller \in Seq(FrameType) /\ Nests(Caller, s) /\ Fits(Caller, Top, s)
  BY TopTyped, NestTop DEF NestInv
<1>2. Caller # <<>> => Len(Caller) \in DOMAIN Caller
  BY <1>1, LenProperties, EmptySeq
<1> HIDE DEF Top, Caller
<1> QED
  BY <1>1, <1>2 DEF Fits, Apart, Named

(* A frame of the top frame's process takes its place.                       *)
LEMMA TurnFits ==
  ASSUME NEW s, Fits(Caller, Top, s), Top.k \in {"call", "body", "init", "exited", "supervise"},
         NEW f, f.k \in {"call", "body", "init", "exited", "supervise"}, f.p = Top.p
  PROVE  Fits(Caller, f, s)
<1> HIDE DEF Top, Caller
<1> QED
  BY DEF Fits, Apart

(* A frame that spends a call stays where it is.                            *)
LEMMA SpentNests ==
  ASSUME TypeOK, NEW s \in Proc, NestInv(s), stack # <<>>, Top.n > 0
  PROVE  /\ Spent \in Seq(FrameType) /\ Nests(Spent, s) /\ Named(Spent, current, s)
         /\ DOMAIN Spent = 1..Len(Spent) /\ Spent # <<>>
         /\ Len(Spent) \in Nat /\ Len(Spent) > 0
         /\ Spent[Len(Spent)] = [Top EXCEPT !.n = @ - 1]
         /\ \A i \in 1..(Len(Spent) - 1) : Spent[i].k = "body" =>
              Spent[i].p = s /\ Apart(Top, s)
<1> DEFINE f == [Top EXCEPT !.n = @ - 1]
<1>1. /\ Top \in FrameType /\ Caller \in Seq(FrameType) /\ Nests(Caller, s)
      /\ Fits(Caller, Top, s)
  BY TopTyped, PopNests
<1>2. f \in FrameType /\ f.k = Top.k /\ f.p = Top.p /\ f.skip = Top.skip
  <2>1. Top.n - 1 \in 0..MaxOps
    BY <1>1, ProcessAssumption DEF FrameType
  <2> HIDE DEF Top
  <2> QED
    BY <1>1, <2>1 DEF FrameType
<1>3. Fits(Caller, f, s)
  <2> HIDE DEF f, Top, Caller
  <2> QED
    BY <1>1, <1>2 DEF Fits, Apart
<1>4. Named(<<f>>, current, s)
  <2>1. Len(<<f>>) = 1 /\ <<f>>[1] = f
    OBVIOUS
  <2> HIDE DEF f
  <2> QED
    BY <1>2, <2>1 DEF NestInv, Named, Top
<1>5. Spent = Append(Caller, f)
  BY DEF Spent
<1>6. /\ Len(Spent) = Len(Caller) + 1 /\ Spent[Len(Caller) + 1] = f
      /\ \A i \in 1..Len(Caller) : Spent[i] = Caller[i]
      /\ DOMAIN Caller = 1..Len(Caller) /\ Len(Caller) \in Nat
      /\ DOMAIN Spent = 1..Len(Spent)
  <2> HIDE DEF f, Caller
  <2> QED
    BY <1>1, <1>2, <1>5, LenProperties, AppendProperties
<1>7. Spent \in Seq(FrameType) /\ Nests(Spent, s) /\ Named(Spent, current, s)
  <2> HIDE DEF f
  <2> QED
    BY <1>1, <1>2, <1>3, <1>4, <1>5, NestPush
<1>8. \A i \in 1..(Len(Spent) - 1) : Spent[i].k = "body" =>
              Spent[i].p = s /\ Apart(Top, s)
  <2> HIDE DEF Spent, Caller, Top, f
  <2> QED
    BY <1>1, <1>6 DEF Fits
<1>9. Spent # <<>>
  BY <1>6, <1>7, EmptySeq
<1> HIDE DEF Spent
<1> QED
  BY <1>6, <1>7, <1>8, <1>9

(* The calls of a body.                                                    *)
LEMMA BodyNests ==
  ASSUME TypeOK, NEW s \in Proc, Disciplined(s), NestInv(s),
         NEW c \in Program, Body(c)
  PROVE  NestInv(s)'
<1> USE ProcessAssumption
<1>1. /\ c[2] \in Ev \cup {"pump"} => c[3] \in Proc \cup {NULL}
      /\ c[2] \notin Ev \cup {"pump"} => c[3] \in Proc
  OBVIOUS
<1>2. At("body") /\ Top.p = c[1] /\ Top.n > 0
  BY DEF Body, Calls, BodyPost, BodyStart, tiku_process_register, BodyExit,
         tiku_process_stop, tiku_process_resume, tiku_process_fail,
         tiku_process_set_restart, EnterPump
<1>3. /\ stack # <<>> /\ Top.k = "body" /\ Top \in FrameType /\ Top.p \in Proc
      /\ Top.n \in 0..MaxOps
  <2>1. stack # <<>> /\ Top.k = "body" /\ Top \in FrameType /\ Top.p \in Proc
    BY <1>2, TopTyped DEF At
  <2> QED
    BY <2>1 DEF FrameType
<1> DEFINE f == [Top EXCEPT !.n = @ - 1]
<1>4. f.k = "body" /\ f.p = c[1] /\ f.n = Top.n - 1
  BY <1>2, <1>3 DEF FrameType
<1>5. /\ Spent \in Seq(FrameType) /\ Nests(Spent, s) /\ Named(Spent, current, s)
      /\ DOMAIN Spent = 1..Len(Spent) /\ Spent # <<>>
      /\ Len(Spent) \in Nat /\ Len(Spent) > 0 /\ Spent[Len(Spent)] = f
      /\ \A i \in 1..(Len(Spent) - 1) : Spent[i].k = "body" => Spent[i].p = s
  BY <1>2, <1>3, SpentNests
<1> HIDE DEF f, Spent
<1>6. CASE stack' = Spent /\ UNCHANGED current
  BY <1>5, <1>6 DEF NestInv
<1>7. ASSUME NEW g, c[1] = s, Apart(g, s), g.k = "pump" => Pumps,
             Pumps => g.k = "pump" \/ MaxOps = 1
      PROVE  Fits(Spent, g, s)
  <2>1. \A i \in DOMAIN Spent : Spent[i].k = "body" => Spent[i].p = s
    BY <1>4, <1>5, <1>7
  <2>2. MaxOps = 1 => f.n = 0
    BY <1>2, <1>3, <1>4
  <2> QED
    BY <1>5, <1>7, <2>1, <2>2 DEF Fits
<1>8. c[2] \in {"start", "register", "exit"} =>
        c[1] = s /\ c[3] # s /\ (Pumps => MaxOps = 1)
  BY DEF Disciplined
<1>9. CASE BodyPost(c) \/ tiku_process_fail(c) \/ tiku_process_set_restart(c)
  BY <1>6, <1>9 DEF BodyPost, tiku_process_fail, tiku_process_set_restart
<1>10. CASE BodyStart(c) \/ tiku_process_register(c)
  <2>1. /\ c[3] \in Proc /\ tiku_process_start(c[3], Spent) /\ UNCHANGED current
        /\ c[2] \in {"start", "register"}
    BY <1>1, <1>10 DEF BodyStart, tiku_process_register, Calls, Ev
  <2> DEFINE g == Frame("init", c[3], "INIT")
  <2>2. g.k = "init" /\ g.p = c[3]
    BY DEF Frame
  <2> HIDE DEF g
  <2>3. Fits(Spent, g, s)
    BY <1>7, <1>8, <2>1, <2>2 DEF Apart
  <2> QED
    BY <1>5, <2>1, <2>3, StartNests DEF g
<1>11. CASE BodyExit(c)
  <2>1. /\ c[3] \in Proc /\ tiku_process_exit(c[3], reason[c[3]], Spent)
        /\ UNCHANGED current /\ c[2] = "exit"
    BY <1>1, <1>11 DEF BodyExit, Calls, Ev
  <2> DEFINE g == Frame("exited", c[3], "EXITED")
  <2>2. g.k = "exited" /\ g.p = c[3]
    BY DEF Frame
  <2> HIDE DEF g
  <2>3. Fits(Spent, g, s)
    BY <1>7, <1>8, <2>1, <2>2 DEF Apart
  <2> QED
    BY <1>5, <2>1, <2>3, ExitNests DEF g
<1>12. CASE tiku_process_stop(c) \/ tiku_process_resume(c)
  <2>1. /\ stack' = Gone(Spent, c[3]) \/ stack' = Joined(Spent)
        /\ UNCHANGED current
    BY <1>12 DEF tiku_process_stop, tiku_process_resume
  <2>2. Alike(Gone(Spent, c[3]), Spent) /\ Alike(Joined(Spent), Spent)
    BY <1>5, MarkedAlike
  <2>3. Alike(stack', Spent)
    BY <2>1, <2>2
  <2> QED
    BY <1>5, <2>1, <2>3, AlikeNests DEF NestInv
<1>13. CASE EnterPump(c)
  <2> DEFINE g == [Frame("pump", c[1], Top.ev) EXCEPT !.skip = current, !.n = MaxOps]
  <2>1. g \in FrameType
    <3>1. c[1] \in Proc /\ Top.ev \in Ev /\ current \in Proc \cup {NULL}
      BY <1>2, <1>3 DEF FrameType, TypeOK
    <3> HIDE DEF Top
    <3> QED
      BY <3>1, WideFrameTyped
  <2>2. g.k = "pump" /\ g.skip = current
    BY DEF Frame
  <2>3. stack' = Append(Spent, g) /\ c[2] = "pump" /\ UNCHANGED current
    BY <1>13 DEF EnterPump, Calls
  <2>4. c[1] = s /\ Pumps
    BY <2>3 DEF Disciplined, Pumps
  <2>5. current = s
    BY <1>2, <1>3, <2>4 DEF NestInv, Named, Top
  <2> HIDE DEF g
  <2>6. Fits(Spent, g, s)
    BY <1>7, <2>2, <2>4, <2>5 DEF Apart
  <2> QED
    BY <1>5, <2>1, <2>2, <2>3, <2>6, PushNests
<1> QED
  BY <1>9, <1>10, <1>11, <1>12, <1>13 DEF Body

(* The steps of the kernel itself, and of interrupt handlers.               *)
LEMMA NestStep ==
  ASSUME TypeOK, NEW s \in Proc, Disciplined(s), NestInv(s), [Next]_vars
  PROVE  NestInv(s)'
<1> USE ProcessAssumption
<1>1. CASE stack' = stack /\ UNCHANGED current
  BY <1>1 DEF NestInv
<1>2. CASE stack = <<>> /\ (AutostartNext \/ tiku_process_run)
  <2>1. stack \in Seq(FrameType) /\ Nests(stack, s) /\ \A cur : Named(stack, cur, s)
    BY <1>2 DEF NestInv, Named, TypeOK
  <2>2. CASE AutostartNext
    <3>1. Head(boot) \in Proc /\ UNCHANGED current
      BY <2>2, HeadTailProperties DEF AutostartNext, TypeOK
    <3>2. CASE tiku_process_start(Head(boot), stack)
      <4> DEFINE f == Frame("init", Head(boot), "INIT")
      <4>1. f.k = "init"
        BY DEF Frame
      <4> HIDE DEF f
      <4>2. Fits(stack, f, s)
        BY <1>2, <4>1 DEF Fits
      <4> QED
        BY <2>1, <3>1, <3>2, <4>2, StartNests DEF f
    <3> QED
      BY <1>1, <2>2, <3>1, <3>2 DEF AutostartNext
  <2>3. CASE tiku_process_run
    <3>1. 1 \in DOMAIN queue
      BY <2>3, EmptySeq, LenProperties DEF tiku_process_run, TypeOK
    <3>2. \A j \in DOMAIN stack : FALSE
      BY <1>2
    <3> QED
      BY <1>2, <2>1, <2>3, <3>1, <3>2, DispatchNests DEF tiku_process_run
  <2> QED
    BY <1>2, <2>2, <2>3
<1>3. ASSUME stack # <<>>
      PROVE  /\ Top \in FrameType /\ (Top.k # "walk" => Top.p \in Proc)
             /\ Caller \in Seq(FrameType) /\ Nests(Caller, s) /\ Fits(Caller, Top, s)
             /\ Top.k # "pump" => \A cur : Named(Caller, cur, s)
             /\ Top.k = "pump" => Named(Caller, Top.skip, s)
  BY <1>3, TopTyped, PopNests
<1>4. CASE Walk
  <2>1. stack # <<>> /\ Top.k = "walk" /\ UNCHANGED current
    BY <1>4 DEF Walk, At
  <2>2. CASE Top.p = NULL
    <3>1. stack' = Caller
      BY <1>4, <2>2 DEF Walk
    <3> QED
      BY <1>3, <2>1, <3>1 DEF NestInv
  <2>3. CASE Top.p # NULL
    <3> DEFINE over == [Top EXCEPT !.p    = next[Top.p],
                                   !.due  = @ \ {Top.p},
                                   !.seen = @ \cup {Top.p}]
               f == Frame("call", Top.p, Top.ev)
    <3>1. Top.p \in Proc /\ Top.ev \in Ev /\ next[Top.p] \in Proc \cup {NULL}
      BY <1>3, <2>1, <2>3 DEF FrameType, TypeOK
    <3>2. over \in FrameType /\ over.k = "walk" /\ over.skip = Top.skip
      BY <1>3, <2>1, <3>1 DEF FrameType
    <3>3. f \in FrameType /\ f.k = "call" /\ f.p = Top.p
      BY <3>1, FrameTyped DEF Frame
    <3>4. \/ stack' = Append(Caller, over)
          \/ Top.p # Top.skip /\ stack' = Append(Append(Caller, over), f)
      BY <1>4, <2>3 DEF Walk
    <3>5. Fits(Caller, over, s)
      <4> HIDE DEF Top, Caller, over
      <4> QED
        BY <1>3, <2>1, <3>2 DEF Fits, Apart
    <3>6. Fits(Caller, Top, s) /\ Caller \in Seq(FrameType) /\ Nests(Caller, s)
      BY <1>3, <2>1
    <3> HIDE DEF over, f, Top, Caller
    <3>7. CASE stack' = Append(Caller, over)
      BY <3>2, <3>5, <3>6, <3>7, PushNests
    <3>8. CASE Top.p # Top.skip /\ stack' = Append(Append(Caller, over), f)
      <4> DEFINE st == Append(Caller, over)
      <4>1. st \in Seq(FrameType) /\ Nests(st, s)
        <5>1. Append(Caller, over) \in Seq(FrameType)
          BY <3>2, <3>6, AppendProperties
        <5>2. Nests(Append(Caller, over), s)
          BY <3>2, <3>5, <3>6, NestPush
        <5> QED
          BY <5>1, <5>2
      <4>2. /\ DOMAIN st = 1..(Len(Caller) + 1) /\ Len(st) = Len(Caller) + 1
            /\ st[Len(Caller) + 1] = over /\ Len(Caller) \in Nat
            /\ DOMAIN Caller = 1..Len(Caller)
            /\ \A i \in 1..Len(Caller) : st[i] = Caller[i]
        BY <3>2, <3>6, LenProperties, AppendProperties
      <4> HIDE DEF st
      <4>3. \A i \in DOMAIN st : st[i].k = "body" => i \in DOMAIN Caller /\ st[i] = Caller[i]
        BY <3>2, <4>2
      <4>4. Fits(st, f, s)
        <5>1. \A i \in DOMAIN st : st[i].k = "body" => st[i].p = s /\ Apart(Top, s)
          BY <3>6, <4>3 DEF Fits
        <5>2. Apart(Top, s) => Apart(f, s)
          BY <2>1, <3>3, <3>8 DEF Apart
        <5> QED
          BY <3>2, <3>3, <4>2, <5>1, <5>2 DEF Fits
      <4> QED
        BY <3>3, <3>8, <4>1, <4>4, PushNests DEF st
    <3> QED
      BY <3>4, <3>7, <3>8
  <2> QED
    BY <2>2, <2>3
<1>5. CASE call_process
  <2>1. stack # <<>> /\ Top.k = "call"
    BY <1>5 DEF call_process, At
  <2>2. CASE stack' = Caller
    BY <1>3, <2>1, <2>2 DEF NestInv
  <2>3. CASE tiku_process_exit(Top.p, "DONE", Caller)
    <3> DEFINE f == Frame("exited", Top.p, "EXITED")
    <3>1. f.k = "exited" /\ f.p = Top.p
      BY DEF Frame
    <3> HIDE DEF f
    <3>2. Fits(Caller, f, s)
      BY <1>3, <2>1, <3>1, TurnFits
    <3> QED
      BY <1>3, <2>1, <2>3, <3>2, ExitNests DEF f
  <2>4. CASE /\ stack' = Append(Caller, [Top EXCEPT !.k = "body", !.n = MaxOps])
             /\ current' = Top.p
    <3> DEFINE f == [Top EXCEPT !.k = "body", !.n = MaxOps]
    <3>1. f \in FrameType /\ f.k = "body" /\ f.p = Top.p
      <4>1. MaxOps \in 0..MaxOps /\ Top \in FrameType /\ Top.p \in Proc
        BY <1>3, <2>1
      <4> HIDE DEF Top
      <4> QED
        BY <4>1 DEF FrameType
    <3> HIDE DEF f
    <3>2. Fits(Caller, f, s)
      BY <1>3, <2>1, <3>1, TurnFits
    <3>3. Named(<<f>>, current', s)
      <4>1. Len(<<f>>) = 1 /\ <<f>>[1] = f
        OBVIOUS
      <4> QED
        BY <2>4, <3>1, <4>1 DEF Named
    <3>4. stack' = Append(Caller, f)
      BY <2>4 DEF f
    <3> QED
      BY <1>3, <2>1, <3>1, <3>2, <3>3, <3>4, PushNests
  <2> QED
    BY <1>5, <2>2, <2>3, <2>4 DEF call_process
<1>6. CASE Yielded \/ LeavePump
  <2>1. stack # <<>> /\ stack' = Caller
    BY <1>6 DEF Yielded, LeavePump, At
  <2>2. \/ Top.k = "body"
        \/ Top.k = "pump" /\ current' = Top.skip
    BY <1>6 DEF Yielded, LeavePump, At
  <2>3. Named(Caller, current', s)
    BY <1>3, <2>1, <2>2
  <2> QED
    BY <1>3, <2>1, <2>3 DEF NestInv
<1>7. CASE Ended
  <2>1. stack # <<>> /\ Top.k = "body"
    BY <1>7 DEF Ended, At
  <2> DEFINE f == Frame("exited", Top.p, "EXITED")
  <2>2. f.k = "exited" /\ f.p = Top.p
    BY DEF Frame
  <2> HIDE DEF f
  <2>3. Fits(Caller, f, s)
    BY <1>3, <2>1, <2>2, TurnFits
  <2> QED
    BY <1>3, <1>7, <2>1, <2>3, ExitNests DEF Ended, f
<1>8. CASE PostInit
  <2> DEFINE f == Frame("call", Top.p, "INIT")
  <2>1. /\ stack # <<>> /\ Top.k = "init"
        /\ stack' = Caller \/ stack' = Append(Caller, f)
    BY <1>8 DEF PostInit, At
  <2>2. f \in FrameType /\ f.k = "call" /\ f.p = Top.p
    BY <1>3, <2>1, FrameTyped DEF Frame, Ev
  <2> HIDE DEF f
  <2>3. Fits(Caller, f, s)
    BY <1>3, <2>1, <2>2, TurnFits
  <2>4. CASE stack' = Caller
    BY <1>3, <2>1, <2>4 DEF NestInv
  <2>5. CASE stack' = Append(Caller, f)
    BY <1>3, <2>1, <2>2, <2>3, <2>5, PushNests
  <2> QED
    BY <2>1, <2>4, <2>5
<1>9. CASE PostExited
  <2> DEFINE f == [Top EXCEPT !.k = "supervise"]
  <2>1. /\ stack # <<>> /\ Top.k = "exited" /\ stack' = Append(Caller, f)
    BY <1>9 DEF PostExited, At
  <2>2. f \in FrameType /\ f.k = "supervise" /\ f.p = Top.p
    <3>1. Top \in FrameType /\ Top.p \in Proc
      BY <1>3, <2>1
    <3> HIDE DEF Top
    <3> QED
      BY <3>1 DEF FrameType
  <2> HIDE DEF f
  <2>3. Fits(Caller, f, s)
    BY <1>3, <2>1, <2>2, TurnFits
  <2> QED
    BY <1>3, <2>1, <2>2, <2>3, PushNests
<1>10. CASE supervisor_on_exit
  <2>1. stack # <<>> /\ Top.k = "supervise" /\ UNCHANGED current
    BY <1>10 DEF supervisor_on_exit, At
  <2>2. CASE stack' = Caller
    BY <1>3, <2>1, <2>2 DEF NestInv
  <2>3. CASE tiku_process_start(Top.p, Caller)
    <3> DEFINE f == Frame("init", Top.p, "INIT")
    <3>1. f.k = "init" /\ f.p = Top.p
      BY DEF Frame
    <3> HIDE DEF f
    <3>2. Fits(Caller, f, s)
      BY <1>3, <2>1, <3>1, TurnFits
    <3> QED
      BY <1>3, <2>1, <2>3, <3>2, StartNests DEF f
  <2> QED
    BY <1>10, <2>2, <2>3 DEF supervisor_on_exit
<1>11. CASE tiku_process_run_except
  <2>1. stack # <<>> /\ Top.k = "pump" /\ Top.n > 0
    BY <1>11 DEF tiku_process_run_except, At
  <2>2. Top \in FrameType /\ Top.skip \in Proc \cup {NULL} /\ Fits(Caller, Top, s)
    BY <1>3, <2>1 DEF FrameType
  <2>3. [Top EXCEPT !.n = @ - 1].k = "pump"
    BY <2>1, <2>2 DEF FrameType
  <2>4. /\ Spent \in Seq(FrameType) /\ Nests(Spent, s)
        /\ DOMAIN Spent = 1..Len(Spent) /\ Len(Spent) \in Nat
        /\ Spent[Len(Spent)].k = "pump"
        /\ \A i \in 1..(Len(Spent) - 1) : Spent[i].k = "body" =>
              Spent[i].p = s /\ Apart(Top, s)
    BY <2>1, <2>3, SpentNests
  <2>5. PICK i \in DOMAIN queue : Dispatch(i, Top.skip, Spent)
    BY <1>11 DEF tiku_process_run_except
  <2> HIDE DEF Top, Spent
  <2>6. \A j \in DOMAIN Spent : Spent[j].k = "body" =>
          Spent[j].p = s /\ Pumps /\ Top.skip = s
    <3>1. \A j \in DOMAIN Spent : Spent[j].k = "body" => j \in 1..(Len(Spent) - 1)
      BY <2>4
    <3> QED
      BY <2>1, <2>4, <3>1 DEF Apart
  <2> QED
    BY <2>2, <2>4, <2>5, <2>6, DispatchNests
<1>12. CASE \E c \in Program : Body(c)
  BY <1>12, BodyNests
<1>13. CASE IsrPost \/ \E p \in Proc : IsrPoll(p) \/ WindowPasses(p)
  BY <1>1, <1>13 DEF IsrPost, IsrPoll, InIsr, WindowPasses
<1>14. CASE UNCHANGED vars
  BY <1>1, <1>14 DEF vars
<1>15. AutostartNext \/ tiku_process_run => stack = <<>>
  BY DEF AutostartNext, tiku_process_run
<1> QED
  BY <1>2, <1>4, <1>5, <1>6, <1>7, <1>8, <1>9, <1>10, <1>11, <1>12, <1>13,
     <1>14, <1>15 DEF Next, Step

(* NoReentry: no protothread is called while a body of it is on the stack,     *)
(* however deep starts, exits, restarts and the pump nest, where one process  *)
(* does the nesting and keeps to the discipline above.                       *)
THEOREM NeverReentered ==
  ASSUME NEW s \in Proc, Disciplined(s)
  PROVE  Spec => []NoReentry
<1>1. Init => NestInv(s)
  BY DEF Init, NestInv, Nests, Named
<1>2. TypeOK /\ NestInv(s) /\ [Next]_vars => NestInv(s)'
  BY NestStep
<1>3. TypeOK /\ NestInv(s) => NoReentry
  BY NestsNoReentry
<1> QED
  BY <1>1, <1>2, <1>3, TypeCorrect, PTL DEF Spec
=============================================================================
