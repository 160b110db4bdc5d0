--------------------------- MODULE TikuTfsProofs ---------------------------
(***************************************************************************)
(* Proofs about TikuTfs: type correctness on every backend; and, on one      *)
(* whose failed writes do not land and which does not erase, that the store  *)
(* implements AtomicFiles, and the safety properties of the run tfs_atomic,  *)
(* for any names, pieces, handles and any size of the store.                *)
(***************************************************************************)
EXTENDS TikuTfs, NatOrder, FiniteSetTheorems, SequenceTheorems, TLAPS

-----------------------------------------------------------------------------
(* Picking entries and runs.                                               *)

(* The lowest of some naturals is one of them.                             *)
LEMMA LowestIn ==
  ASSUME NEW S \in SUBSET Nat, S # {}
  PROVE  Lowest(S) \in S
<1>1. \E i \in S : \A j \in S : i <= j
  BY LeastNat
<1> QED
  BY <1>1 DEF Lowest

(* So is the highest of some slots.                                        *)
LEMMA HighestIn ==
  ASSUME NEW S \in SUBSET Slot, S # {}
  PROVE  Highest(S) \in S
<1> DEFINE T == {NFiles - i : i \in S}
<1>1. NFiles \in Nat /\ \A i \in S : i \in Nat /\ i <= NFiles
  BY TfsAssumption DEF Slot
<1>2. T \in SUBSET Nat /\ T # {}
  BY <1>1
<1>3. PICK x \in T : \A y \in T : x <= y
  BY <1>2, LeastNat
<1>4. PICK i \in S : x = NFiles - i
  OBVIOUS
<1>5. \A j \in S : NFiles - i <= NFiles - j
  BY <1>3, <1>4
<1>6. \A j \in S : i >= j
  BY <1>1, <1>5
<1> QED
  BY <1>6 DEF Highest

(* Entries are numbers.                                                    *)
LEMMA Entries ==
  /\ Dirent \subseteq Nat /\ Live \subseteq Dirent /\ FreeDirents \subseteq Dirent
  /\ \A n : Found(n) \subseteq Live /\ Found(n) \subseteq Dirent
<1>1. Dirent \subseteq Nat
  BY TfsAssumption DEF Dirent
<1> QED
  BY <1>1 DEF Live, FreeDirents, Found

(* A free run lies on the medium and is free.                              *)
LEMMA FreeRun ==
  ASSUME NEW span \in Nat, FreeRuns(span) # {}
  PROVE  /\ free_run(span) \in Slot /\ free_run(span) + span <= NFiles + 1
         /\ Slots(free_run(span), span) \cap used = {}
<1>1. FreeRuns(span) \subseteq Slot /\ Slot \subseteq Nat
  BY DEF FreeRuns, Slot
<1>2. free_run(span) \in FreeRuns(span)
  BY <1>1, LowestIn, HighestIn DEF free_run
<1> QED
  BY <1>2 DEF FreeRuns

-----------------------------------------------------------------------------
(* Types.  A torn name is written nowhere but over a name.                  *)

Naming ==
  /\ \A h \in Writer : w[h].active => w[h].n \in Name
  /\ op.k \in {"create", "commit"} => op.n \in Name
  /\ op.at \in {"len", "name"} => op.k \in {"create", "commit"}

TypeInv == TypeOK /\ Naming

(* A blank medium is typed.                                                *)
LEMMA TypeInit ==
  ASSUME Init
  PROVE  TypeInv
<1>1. 0 \in Slot /\ 0 \in Dirent /\ 0 \in 0..(NFiles + 1) /\ TornLen \in 0..TornLen
  BY TfsAssumption DEF Slot, Dirent, TornLen
<1>2. Closed \in HandleType /\ ~Closed.active
  BY <1>1 DEF Closed, HandleType
<1>3. Idle \in OpType /\ Idle.k = "idle" /\ Idle.at = "none"
  BY <1>1 DEF Idle, OpType
<1>4. TypeOK
  BY <1>1, <1>2, <1>3 DEF Init, TypeOK
<1>5. Naming
  BY <1>2, <1>3 DEF Init, Naming
<1> QED
  BY <1>4, <1>5 DEF TypeInv

(* The calls keep the types up to their first write.                        *)
LEMMA CallsTyped ==
  ASSUME TypeInv,
         \/ tiku_tfs_mount \/ tiku_tfs_init
         \/ \E n \in Name : tiku_tfs_create(n) \/ tiku_tfs_delete(n)
         \/ \E h \in Writer : tiku_tfs_commit(h)
  PROVE  TypeInv'
<1>0. TypeOK /\ Naming /\ NFiles \in Nat /\ 0 \in Slot /\ 0 \in Dirent /\ 1 \in 0..(NFiles + 1)
      /\ 0 \in 0..(NFiles + 1)
  BY TfsAssumption DEF TypeInv, Slot, Dirent
<1>1. CASE tiku_tfs_mount
  <2>1. ASSUME NEW i \in Live
        PROVE  RunSlots(i) \subseteq Slot
    <3>1. run[i].first \in Nat /\ run[i].span \in Nat /\ run[i].first + run[i].span <= NFiles + 1
      BY <1>0, <1>1 DEF tiku_tfs_mount, Consistent, run_check, TypeOK, Live, Slot
    <3> QED
      BY <1>0, <3>1 DEF RunSlots, Slots, Slot
  <2>2. UNION {RunSlots(i) : i \in Live} \subseteq Slot
    BY <2>1
  <2> QED
    BY <1>0, <1>1, <2>2 DEF tiku_tfs_mount, TypeInv, TypeOK, Naming, medium
<1>2. CASE tiku_tfs_init
  <2>1. op' \in OpType /\ op'.k = "format" /\ op'.at = "clear"
    BY <1>0, <1>2 DEF tiku_tfs_init, Idle, OpType
  <2> QED
    BY <1>0, <1>2, <2>1 DEF tiku_tfs_init, TypeInv, TypeOK, Naming, medium
<1>3. ASSUME NEW n \in Name, tiku_tfs_create(n)
      PROVE  TypeInv'
  <2>1. Lowest(FreeDirents) \in Dirent
    <3>1. FreeDirents # {} /\ FreeDirents \subseteq Dirent /\ Dirent \subseteq Nat
      BY <1>3, Entries DEF tiku_tfs_create
    <3> QED
      BY <3>1, LowestIn
  <2>2. free_run(1) \in Slot
    BY <1>3, FreeRun DEF tiku_tfs_create
  <2>3. op' \in OpType /\ op'.k = "create" /\ op'.n = n /\ op'.at = "len"
    BY <1>0, <1>3, <2>1, <2>2 DEF tiku_tfs_create, Idle, OpType
  <2> QED
    BY <1>0, <1>3, <2>3 DEF tiku_tfs_create, TypeInv, TypeOK, Naming, medium, ram
<1>4. ASSUME NEW n \in Name, tiku_tfs_delete(n)
      PROVE  TypeInv'
  <2>1. Lowest(Found(n)) \in Dirent
    <3>1. Found(n) # {} /\ Found(n) \subseteq Dirent /\ Dirent \subseteq Nat
      BY <1>4, Entries DEF tiku_tfs_delete
    <3> QED
      BY <3>1, LowestIn
  <2>2. op' \in OpType /\ op'.k = "delete" /\ op'.at = "gate"
    BY <1>0, <1>4, <2>1 DEF tiku_tfs_delete, Idle, OpType
  <2> QED
    BY <1>0, <1>4, <2>2 DEF tiku_tfs_delete, TypeInv, TypeOK, Naming, medium, ram
<1>5. ASSUME NEW h \in Writer, tiku_tfs_commit(h)
      PROVE  TypeInv'
  <2>1. w[h] \in HandleType /\ w[h].n \in Name
    BY <1>0, <1>5 DEF tiku_tfs_commit, TypeOK, Naming
  <2>2. run_span_for(w[h].off) \in 0..(NFiles + 1)
    BY <1>0, <2>1 DEF run_span_for, HandleType
  <2>3. op' \in OpType /\ op'.k = "commit" /\ op'.at = "len" /\ op'.n = w[h].n
    BY <1>0, <1>5, <2>1, <2>2 DEF tiku_tfs_commit, Idle, OpType, HandleType
  <2> QED
    BY <1>0, <1>5, <2>1, <2>3 DEF tiku_tfs_commit, TypeInv, TypeOK, Naming, medium, ram
<1> QED
  BY <1>1, <1>2, <1>3, <1>4, <1>5

(* So do the calls on a stream.                                            *)
LEMMA StreamsTyped ==
  ASSUME TypeInv, NEW h \in Writer,
         \/ \E n \in Name, span \in 1..SpanMax : tiku_tfs_open_w(h, n, span)
         \/ \E v \in Val : tiku_tfs_write_chunk(h, v)
         \/ tiku_tfs_abort(h)
  PROVE  TypeInv'
<1>0. TypeOK /\ Naming /\ NFiles \in Nat /\ w[h] \in HandleType
  BY TfsAssumption DEF TypeInv, TypeOK
<1>1. ASSUME NEW n \in Name, NEW span \in 1..SpanMax, tiku_tfs_open_w(h, n, span)
      PROVE  TypeInv'
  <2> DEFINE s == free_run(span)
  <2> DEFINE new == [active |-> TRUE, first |-> s, span |-> span, off |-> 0, n |-> n]
  <2>0. span \in Nat /\ span \in 0..(NFiles + 1)
    BY <1>0, TfsAssumption
  <2>1. s \in Slot /\ s + span <= NFiles + 1
    BY <1>1, <2>0, FreeRun DEF tiku_tfs_open_w
  <2>2. /\ used' = used \cup Slots(s, span) /\ w' = [w EXCEPT ![h] = new]
        /\ wr_open' = TRUE /\ UNCHANGED <<medium, mounted, op>>
    BY <1>1 DEF tiku_tfs_open_w
  <2> HIDE DEF s
  <2>3. Slots(s, span) \subseteq Slot
    BY <1>0, <2>0, <2>1 DEF Slots, Slot
  <2>4. new \in HandleType
    BY <1>0, <2>0, <2>1 DEF HandleType
  <2>5. TypeOK'
    BY <1>0, <2>2, <2>3, <2>4 DEF TypeOK, medium
  <2>6. Naming'
    BY <1>0, <2>2 DEF Naming, TypeOK
  <2> QED
    BY <2>5, <2>6 DEF TypeInv
<1>2. ASSUME NEW v \in Val, tiku_tfs_write_chunk(h, v)
      PROVE  TypeInv'
  <2> DEFINE s == w[h].first + w[h].off
  <2>1. /\ \/ data' = [data EXCEPT ![s] = v] /\ w' = [w EXCEPT ![h].off = @ + 1]
           \/ data' = [data EXCEPT ![s] = Junk] /\ UNCHANGED w
        /\ UNCHANGED <<magic, gate, dname, run, len, mounted, wr_open, used, op>>
        /\ w[h].off < w[h].span
    BY <1>2 DEF tiku_tfs_write_chunk
  <2>2. data' \in [Slot -> Val \cup {Junk}]
    BY <1>0, <2>1 DEF TypeOK
  <2>3. w[h].off + 1 \in 0..(NFiles + 1)
    BY <1>0, <2>1 DEF HandleType
  <2>4. [w[h] EXCEPT !.off = @ + 1] \in HandleType
    BY <1>0, <2>3 DEF HandleType
  <2>5. w' \in [Writer -> HandleType]
    BY <1>0, <2>1, <2>4 DEF TypeOK
  <2>6. \A g \in Writer : w'[g].active = w[g].active /\ w'[g].n = w[g].n
    BY <1>0, <2>1 DEF TypeOK, HandleType
  <2> QED
    BY <1>0, <2>1, <2>2, <2>5, <2>6 DEF TypeInv, TypeOK, Naming
<1>3. CASE tiku_tfs_abort(h)
  <2>1. Closed \in HandleType /\ ~Closed.active
    BY <1>0 DEF Closed, HandleType, Slot
  <2>2. /\ used' \subseteq used /\ w' = [w EXCEPT ![h] = Closed] /\ wr_open' = FALSE
        /\ UNCHANGED <<medium, mounted, op>>
    BY <1>3 DEF tiku_tfs_abort
  <2>3. TypeOK'
    BY <1>0, <2>1, <2>2 DEF TypeOK, medium
  <2>4. Naming'
    BY <1>0, <2>1, <2>2 DEF Naming, TypeOK
  <2> QED
    BY <2>3, <2>4 DEF TypeInv
<1> QED
  BY <1>1, <1>2, <1>3

\* A call ends, or goes on to its next write, to an entry of its own.
Proceeds ==
  \/ op' = Idle
  \/ \E i \in Dirent, at \in {"name", "run", "gate", "gates", "sb"} :
       op' = [op EXCEPT !.at = at, !.i = i] /\ (at = "name" => op.at = "len")

(* The end of a commit keeps the types.                                    *)
LEMMA SettledTyped ==
  ASSUME TypeInv, NEW u \in SUBSET Slot, Settled(u)
  PROVE  /\ mounted' \in BOOLEAN /\ wr_open' \in BOOLEAN /\ used' \subseteq Slot
         /\ w' \in [Writer -> HandleType]
         /\ \A h \in Writer : w'[h].active => w[h].active /\ w'[h] = w[h]
<1>1. TypeOK /\ Closed \in HandleType /\ ~Closed.active
  BY TfsAssumption DEF TypeInv, Closed, HandleType, Slot
<1> QED
  BY <1>1 DEF Settled, TypeOK

(* The writes keep the types, landed or not.                               *)
LEMMA WritesTyped ==
  ASSUME TypeInv, Write
  PROVE  TypeInv'
<1>0. TypeOK /\ Naming /\ NFiles \in Nat /\ op \in OpType
  BY TfsAssumption DEF TypeInv, TypeOK
<1>1. Idle \in OpType /\ Idle.k = "idle" /\ Idle.at = "none"
  BY <1>0, TfsAssumption DEF Idle, OpType, Dirent, Slot
<1>2. ASSUME Proceeds
      PROVE  /\ op' \in OpType /\ (op'.at \in {"len", "name"} => op'.k \in {"create", "commit"})
             /\ op'.k \in {"create", "commit"} => op'.n \in Name
  <2>1. CASE op' = Idle
    BY <1>1, <2>1
  <2>2. ASSUME NEW i \in Dirent, NEW at \in {"name", "run", "gate", "gates", "sb"},
               op' = [op EXCEPT !.at = at, !.i = i], at = "name" => op.at = "len"
        PROVE  /\ op' \in OpType /\ op'.k = op.k /\ op'.n = op.n
               /\ op'.at = "name" => op.at = "len"
               /\ op'.at # "len"
    BY <1>0, <2>2 DEF OpType
  <2> QED
    BY <1>0, <1>2, <2>1, <2>2 DEF Proceeds, Naming
<1>3. ASSUME NEW at \in {"run", "gate", "gates", "sb"}
      PROVE  \E i \in Dirent : [op EXCEPT !.at = at] = [op EXCEPT !.at = at, !.i = i]
  BY <1>0 DEF OpType
<1>4. CASE WriteLen
  <2>1. PICK landed \in BOOLEAN :
          /\ Outcome(IF op.k = "create" THEN [op EXCEPT !.at = "name"] ELSE CommitTarget, landed)
          /\ len' = [len EXCEPT ![op.first] = IF landed THEN op.off ELSE @]
          /\ op.at = "len" /\ UNCHANGED <<magic, gate, dname, run, data, ram>>
    BY <1>4 DEF WriteLen
  <2>2. \E i \in Dirent : [op EXCEPT !.at = "name"] = [op EXCEPT !.at = "name", !.i = i]
    BY <1>0 DEF OpType
  <2>3. CommitTarget = Idle \/ \E i \in Dirent, at \in {"run", "name"} :
                                 CommitTarget = [op EXCEPT !.at = at, !.i = i]
    <3>1. CASE Found(op.n) # {}
      BY <3>1, Entries, LowestIn DEF CommitTarget
    <3>2. CASE Found(op.n) = {} /\ FreeDirents # {}
      BY <3>2, Entries, LowestIn DEF CommitTarget
    <3> QED
      BY <3>1, <3>2 DEF CommitTarget
  <2>4. Proceeds
    BY <2>1, <2>2, <2>3 DEF Outcome, Proceeds
  <2>5. op.off \in 0..TornLen
    BY <1>0 DEF OpType, TornLen
  <2>6. len' \in [Slot -> 0..TornLen]
    BY <1>0, <2>1, <2>5 DEF TypeOK
  <2> QED
    BY <1>0, <1>2, <2>1, <2>4, <2>6 DEF TypeInv, TypeOK, Naming, ram
<1>5. CASE WriteName
  <2>1. op.n \in Name
    BY <1>0, <1>5 DEF WriteName, Naming
  <2>2. dname' \in [Dirent -> Name \cup {Junk}]
    BY <1>0, <1>5, <2>1 DEF WriteName, TypeOK
  <2>3. Proceeds
    BY <1>3, <1>5 DEF WriteName, Proceeds
  <2> QED
    BY <1>0, <1>2, <1>5, <2>2, <2>3 DEF WriteName, TypeInv, TypeOK, Naming, ram
<1>6. ASSUME NEW landed \in BOOLEAN, RunWord(landed)
      PROVE  run' \in [Dirent -> [first : Slot, span : 0..(NFiles + 1)]]
  BY <1>0, <1>6 DEF RunWord, TypeOK, OpType
<1>7. CASE WriteRun
  <2>1. PICK landed \in BOOLEAN : RunWord(landed) /\ Outcome([op EXCEPT !.at = "gate"], landed)
    BY <1>7 DEF WriteRun
  <2>2. Proceeds
    BY <1>3, <2>1 DEF Outcome, Proceeds
  <2> QED
    BY <1>0, <1>2, <1>6, <1>7, <2>1, <2>2 DEF WriteRun, TypeInv, TypeOK, Naming, ram
<1>8. CASE FlipRun
  <2>1. \E landed \in BOOLEAN : RunWord(landed)
    BY <1>8 DEF FlipRun
  <2>2. /\ op' = Idle /\ UNCHANGED <<magic, gate, dname, len, data>>
        /\ Settled(used \ RunSlots(op.i)) \/ UNCHANGED ram
    BY <1>8 DEF FlipRun
  <2>3. used \ RunSlots(op.i) \in SUBSET Slot
    BY <1>0 DEF TypeOK
  <2>4. CASE UNCHANGED ram
    BY <1>0, <1>1, <1>6, <2>1, <2>2, <2>4 DEF TypeInv, TypeOK, Naming, ram
  <2>5. CASE Settled(used \ RunSlots(op.i))
    <3>1. /\ mounted' \in BOOLEAN /\ wr_open' \in BOOLEAN /\ used' \subseteq Slot
          /\ w' \in [Writer -> HandleType]
          /\ \A h \in Writer : w'[h].active => w[h].active /\ w'[h] = w[h]
      BY <2>3, <2>5, SettledTyped
    <3> QED
      BY <1>0, <1>1, <1>6, <2>1, <2>2, <3>1 DEF TypeInv, TypeOK, Naming
  <2> QED
    BY <2>2, <2>4, <2>5
<1>9. CASE WriteGate
  <2>1. /\ op' = Idle /\ UNCHANGED <<magic, dname, run, len, data>>
        /\ gate' \in [Dirent -> BOOLEAN]
    BY <1>0, <1>9 DEF WriteGate, TypeOK
  <2>2. CASE Settled(used)
    <3>1. /\ mounted' \in BOOLEAN /\ wr_open' \in BOOLEAN /\ used' \subseteq Slot
          /\ w' \in [Writer -> HandleType]
          /\ \A h \in Writer : w'[h].active => w[h].active /\ w'[h] = w[h]
      BY <1>0, <2>2, SettledTyped DEF TypeOK
    <3> QED
      BY <1>0, <1>1, <2>1, <3>1 DEF TypeInv, TypeOK, Naming
  <2>3. CASE UNCHANGED <<mounted, wr_open, w>> /\ used' \in {used, used \cup {op.first}}
    BY <1>0, <1>1, <2>1, <2>3 DEF TypeInv, TypeOK, Naming, OpType
  <2> QED
    BY <1>9, <2>2, <2>3 DEF WriteGate, ram
<1>10. CASE ClearGate
  <2>1. /\ op' = Idle /\ UNCHANGED <<magic, dname, run, len, data, mounted, wr_open, w>>
        /\ gate' \in [Dirent -> BOOLEAN] /\ used' \subseteq used
    BY <1>0, <1>10 DEF ClearGate, TypeOK
  <2> QED
    BY <1>0, <1>1, <2>1 DEF TypeInv, TypeOK, Naming
<1>11. CASE FormatMagic
  <2>1. PICK landed \in BOOLEAN :
          magic' = (magic /\ ~landed) /\ Outcome([op EXCEPT !.at = "gates"], landed)
    BY <1>11 DEF FormatMagic
  <2>2. Proceeds
    BY <1>3, <2>1 DEF Outcome, Proceeds
  <2> QED
    BY <1>0, <1>2, <1>11, <2>1, <2>2 DEF FormatMagic, TypeInv, TypeOK, Naming, ram
<1>12. CASE FormatGate
  <2>1. PICK landed \in BOOLEAN :
          /\ gate' = [gate EXCEPT ![op.i] = @ /\ ~landed]
          /\ Outcome(IF op.i + 1 \in Dirent THEN [op EXCEPT !.i = @ + 1]
                     ELSE [op EXCEPT !.at = "sb"], landed)
    BY <1>12 DEF FormatGate
  <2>2. op.i + 1 \in Dirent =>
          [op EXCEPT !.i = @ + 1] = [op EXCEPT !.at = "gates", !.i = op.i + 1]
    BY <1>0, <1>12 DEF FormatGate, OpType
  <2>3. Proceeds
    BY <1>3, <2>1, <2>2 DEF Outcome, Proceeds
  <2>4. gate' \in [Dirent -> BOOLEAN]
    BY <1>0, <2>1 DEF TypeOK
  <2> QED
    BY <1>0, <1>2, <1>12, <2>3, <2>4 DEF FormatGate, TypeInv, TypeOK, Naming, ram
<1>13. CASE FormatDone
  BY <1>0, <1>1, <1>13 DEF FormatDone, TypeInv, TypeOK, Naming
<1> QED
  BY <1>4, <1>5, <1>7, <1>8, <1>9, <1>10, <1>11, <1>12, <1>13 DEF Write

(* So does a power cut, whatever it tears.                                 *)
LEMMA CutTyped ==
  ASSUME TypeInv, PowerCut
  PROVE  TypeInv'
<1>0. TypeOK /\ Closed \in HandleType /\ ~Closed.active
  BY TfsAssumption DEF TypeInv, Closed, HandleType, Slot
<1>1. Idle \in OpType /\ Idle.k = "idle" /\ Idle.at = "none"
  BY TfsAssumption DEF Idle, OpType, Dirent, Slot
<1>2. /\ mounted' = FALSE /\ wr_open' = FALSE /\ used' = {}
      /\ w' = [h \in Writer |-> Closed] /\ op' = Idle /\ Torn
  BY DEF PowerCut
<1>3. /\ magic' \in BOOLEAN /\ gate' \in [Dirent -> BOOLEAN] /\ UNCHANGED run
      /\ dname' \in [Dirent -> Name \cup {Junk}]
  BY <1>0, <1>2 DEF Torn, TypeOK, medium
<1>4. len' \in [Slot -> 0..TornLen] /\ data' \in [Slot -> Val \cup {Junk}]
  <2>1. TornLen \in 0..TornLen
    BY TfsAssumption DEF TornLen
  <2> QED
    BY <1>0, <1>2, <2>1 DEF Torn, TypeOK, medium
<1> QED
  BY <1>0, <1>1, <1>2, <1>3, <1>4 DEF TypeInv, TypeOK, Naming

(* Every step does.                                                        *)
LEMMA TypeStep ==
  ASSUME TypeInv, [Next]_vars
  PROVE  TypeInv'
<1>1. CASE UNCHANGED vars
  BY <1>1 DEF vars, medium, ram, TypeInv, TypeOK, Naming
<1>2. CASE Next
  BY <1>2, CallsTyped, StreamsTyped, WritesTyped, CutTyped DEF Next, Stream
<1> QED
  BY <1>1, <1>2

(* The types of the medium, the mount state and the calls, on every backend.  *)
THEOREM TypeCorrect == Spec => []TypeOK
<1>1. Init => TypeInv
  BY TypeInit
<1>2. TypeInv /\ [Next]_vars => TypeInv'
  BY TypeStep
<1>3. TypeInv => TypeOK
  BY DEF TypeInv
<1> QED
  BY <1>1, <1>2, <1>3, PTL DEF Spec

-----------------------------------------------------------------------------
(* The invariant, on a backend whose failed writes do not land and which     *)
(* does not erase.                                                         *)

Whole == ~LandsOnFailure /\ ~SectorErase

Held(h) == Slots(w[h].first, w[h].span)

\* One stream at a time, on a run of its own, with an entry to go to.
Streams ==
  /\ \A h \in Writer : w[h].active =>
       /\ wr_open /\ mounted
       /\ w[h].span # 0 /\ w[h].first + w[h].span <= NFiles + 1
       /\ w[h].off <= w[h].span
       /\ Found(w[h].n) # {} \/ FreeDirents # {}
  /\ \A g, h \in Writer : w[g].active /\ w[h].active => g = h

\* Live entries have whole names, no two the same.
Named == \A i, j \in Live : dname[i] \in Name /\ (dname[i] = dname[j] => i = j)

Directory == (mounted => magic) /\ (magic => Consistent /\ Named)

LiveSlots == UNION {RunSlots(i) : i \in Live}
HeldSlots == UNION {Held(h) : h \in {g \in Writer : w[g].active}}

\* The map is exact all through a call.
MapOK == mounted => used = LiveSlots \cup HeldSlots

\* What the writes of a call that enters a name have left behind them.
Entering ==
  /\ op.at \in {"len", "name", "run", "gate"}
  /\ op.at \in {"name", "run", "gate"} => len[op.first] = op.off
  /\ op.at \in {"run", "gate"} /\ ~gate[op.i] => dname[op.i] = op.n
  /\ op.at = "gate" => run[op.i] = [first |-> op.first, span |-> op.span]

Creating ==
  op.k = "create" =>
    /\ mounted /\ ~wr_open /\ Entering
    /\ ~gate[op.i] /\ Found(op.n) = {}
    /\ op.first \notin used /\ op.span = 1 /\ op.off = 0

Committing ==
  op.k = "commit" =>
    /\ op.h \in Writer /\ w[op.h].active /\ Entering
    /\ op.n = w[op.h].n /\ op.first = w[op.h].first /\ op.off = w[op.h].off
    /\ op.span = run_span_for(op.off)
    /\ op.at \in {"name", "gate"} => ~gate[op.i]
    /\ op.at # "len" => IF gate[op.i] THEN op.i \in Found(op.n) ELSE Found(op.n) = {}

Deleting == op.k = "delete" => mounted /\ ~wr_open /\ op.at = "gate" /\ gate[op.i]

Formatting ==
  op.k = "format" =>
    /\ ~mounted /\ ~wr_open /\ op.at \in {"clear", "gates", "sb"}
    /\ op.at # "clear" => ~magic
    /\ op.at \in {"clear", "gates"} => \A j \in Live : op.i <= j
    /\ op.at = "sb" => Live = {}

Idling == op.k = "idle" => op.at = "none"

CallOK == Creating /\ Committing /\ Deleting /\ Formatting /\ Idling

StoreInv == Streams /\ Directory /\ MapOK /\ StagedUnseen /\ CallOK

IInv == TypeInv /\ StoreInv

-----------------------------------------------------------------------------
(* What leaves the directory as it is.                                     *)

\* Live entries keep their names and runs, and no entry becomes live or free.
SameDirectory ==
  UNCHANGED gate /\ \A i \in Live : dname'[i] = dname[i] /\ run'[i] = run[i]

(* Then nothing the directory says changes.                                *)
LEMMA StillThere ==
  ASSUME SameDirectory
  PROVE  /\ Live' = Live /\ FreeDirents' = FreeDirents
         /\ \A n : Found(n)' = Found(n)
         /\ \A i \in Live : RunSlots(i)' = RunSlots(i)
         /\ LiveSlots' = LiveSlots /\ (Named => Named')
<1>1. Live' = Live
  BY DEF SameDirectory, Live
<1>2. \A n : Found(n)' = Found(n)
  BY <1>1 DEF SameDirectory, Found
<1>3. \A i \in Live : RunSlots(i)' = RunSlots(i)
  BY DEF SameDirectory, RunSlots
<1>4. LiveSlots' = LiveSlots
  BY <1>1, <1>3 DEF LiveSlots
<1>5. Named => Named'
  BY <1>1 DEF SameDirectory, Named
<1> QED
  BY <1>1, <1>2, <1>3, <1>4, <1>5 DEF FreeDirents

(* And if the length words of live runs stay too, its consistency does.      *)
LEMMA StillConsistent ==
  ASSUME SameDirectory, \A i \in Live : len'[run[i].first] = len[run[i].first], Consistent
  PROVE  Consistent'
<1>1. Live' = Live /\ \A i \in Live : RunSlots(i)' = RunSlots(i)
  BY StillThere
<1>2. \A i \in Live : run_check(i)'
  BY DEF SameDirectory, Consistent, run_check
<1> QED
  BY <1>1, <1>2 DEF Consistent

(* The slots of a run are numbers, the first slot among them.              *)
LEMMA RunNumbers ==
  ASSUME TypeInv
  PROVE  /\ \A i \in Dirent : run[i].first \in Nat /\ run[i].span \in Nat
         /\ \A i \in Dirent : run[i].span # 0 => run[i].first \in RunSlots(i)
         /\ \A h \in Writer : w[h].first \in Nat /\ w[h].span \in Nat /\ w[h].off \in Nat
         /\ \A h \in Writer : w[h].span # 0 => w[h].first \in Held(h)
<1>1. /\ \A i \in Dirent : run[i].first \in Nat /\ run[i].span \in Nat
      /\ \A h \in Writer : w[h].first \in Nat /\ w[h].span \in Nat /\ w[h].off \in Nat
  BY TfsAssumption DEF TypeInv, TypeOK, HandleType, Slot
<1> QED
  BY <1>1 DEF RunSlots, Held, Slots

(* Initially there is no store, no stream and no call.                      *)
LEMMA StoreInit ==
  ASSUME Init
  PROVE  StoreInv
<1>1. /\ \A h \in Writer : ~w[h].active
      /\ ~magic /\ ~mounted /\ op = Idle /\ op.k = "idle" /\ op.at = "none"
  BY DEF Init, Closed, Idle
<1> QED
  BY <1>1 DEF StoreInv, Streams, Directory, MapOK, StagedUnseen, CallOK, Creating, Committing,
       Deleting, Formatting, Idling

\* The streams hold what they held, and how far they came is within it.
SameStreams ==
  /\ UNCHANGED <<mounted, wr_open, used>>
  /\ \A h \in Writer : /\ w'[h].active = w[h].active /\ w'[h].n = w[h].n
                       /\ w'[h].first = w[h].first /\ w'[h].span = w[h].span
                       /\ w[h].active => w'[h].off <= w'[h].span

(* A step that leaves the directory and the streams as they are keeps all    *)
(* but what is said of the call under way.                                 *)
LEMMA Kept ==
  ASSUME TypeInv, StoreInv, SameDirectory, SameStreams, UNCHANGED magic,
         \A i \in Live : len'[run[i].first] = len[run[i].first]
  PROVE  Streams' /\ Directory' /\ MapOK' /\ StagedUnseen'
<1>1. /\ Live' = Live /\ FreeDirents' = FreeDirents
      /\ \A n : Found(n)' = Found(n)
      /\ \A i \in Live : RunSlots(i)' = RunSlots(i)
      /\ LiveSlots' = LiveSlots /\ (Named => Named')
  BY StillThere
<1>2. \A h \in Writer : Held(h)' = Held(h) /\ w'[h].active = w[h].active
  BY DEF SameStreams, Held
<1>3. HeldSlots' = HeldSlots
  BY <1>2 DEF HeldSlots
<1>4. Streams'
  <2>1. \A h \in Writer : Found(w[h].n) # {} \/ FreeDirents # {} => (Found(w[h].n) # {} \/ FreeDirents # {})'
    BY <1>1 DEF SameStreams
  <2> QED
    BY <2>1 DEF StoreInv, Streams, SameStreams
<1>5. Directory'
  BY <1>1, StillConsistent DEF StoreInv, Directory, SameStreams
<1>6. MapOK'
  BY <1>1, <1>3 DEF StoreInv, MapOK, SameStreams
<1>7. StagedUnseen'
  <2>1. \A h \in Writer, i \in Live : w[h].active => RunSlots(i) \cap Held(h) = {}
    BY DEF StoreInv, StagedUnseen, Held
  <2>2. \A h \in Writer, i \in Live' : w'[h].active => RunSlots(i)' \cap Held(h)' = {}
    BY <1>1, <1>2, <2>1
  <2> QED
    BY <2>2 DEF StagedUnseen, Held
<1> QED
  BY <1>4, <1>5, <1>6, <1>7

(* When no call is under way, there is nothing more to say.                *)
LEMMA Ended ==
  ASSUME op' = Idle
  PROVE  CallOK'
<1>1. op'.k = "idle" /\ op'.at = "none"
  BY DEF Idle
<1> QED
  BY <1>1 DEF CallOK, Creating, Committing, Deleting, Formatting, Idling

(* A write that fails, on such a backend, changes nothing.                 *)
LEMMA Failed ==
  ASSUME TypeInv, StoreInv, UNCHANGED <<magic, gate, dname, run, len, ram>>, op' = Idle
  PROVE  StoreInv'
<1>1. SameDirectory /\ SameStreams
  BY DEF SameDirectory, SameStreams, ram, StoreInv, Streams
<1> QED
  BY <1>1, Kept, Ended DEF StoreInv

(* A free slot is in nobody's run.                                         *)
LEMMA FreeSlot ==
  ASSUME TypeInv, StoreInv, mounted, NEW s, s \notin used
  PROVE  /\ \A i \in Live : s \notin RunSlots(i) /\ run[i].first # s
         /\ \A h \in Writer : w[h].active => s \notin Held(h)
<1>1. magic /\ Consistent /\ used = LiveSlots \cup HeldSlots
  BY DEF StoreInv, Directory, MapOK
<1>2. \A i \in Live : s \notin RunSlots(i)
  BY <1>1 DEF LiveSlots
<1>3. \A i \in Live : run[i].first \in RunSlots(i)
  BY <1>1, RunNumbers, Entries DEF Consistent, run_check
<1> QED
  BY <1>1, <1>2, <1>3 DEF HeldSlots

(* A slot of a stream's run is in no live entry's.                          *)
LEMMA HeldSlot ==
  ASSUME TypeInv, StoreInv, NEW h \in Writer, w[h].active
  PROVE  /\ \A i \in Live : RunSlots(i) \cap Held(h) = {} /\ run[i].first # w[h].first
         /\ Held(h) \subseteq used /\ w[h].first \in Held(h)
<1>1. magic /\ Consistent /\ used = LiveSlots \cup HeldSlots /\ w[h].span # 0
  BY DEF StoreInv, Directory, MapOK, Streams
<1>2. w[h].first \in Held(h)
  BY <1>1, RunNumbers
<1>3. \A i \in Live : RunSlots(i) \cap Held(h) = {}
  BY DEF StoreInv, StagedUnseen, Held
<1>4. \A i \in Live : run[i].first \in RunSlots(i)
  BY <1>1, RunNumbers, Entries DEF Consistent, run_check
<1>5. Held(h) \subseteq used
  BY <1>1 DEF HeldSlots
<1> QED
  BY <1>2, <1>3, <1>4, <1>5

-----------------------------------------------------------------------------
(* The calls, up to their first write.                                     *)

(* A mount finds a consistent directory, no stream and no call.            *)
LEMMA MountKeeps ==
  ASSUME TypeInv, StoreInv, tiku_tfs_mount
  PROVE  StoreInv'
<1>1. /\ ~mounted /\ magic /\ Consistent /\ mounted' = TRUE /\ wr_open' = FALSE
      /\ used' = LiveSlots /\ op' = Idle
      /\ UNCHANGED <<magic, gate, dname, run, len, w, op>>
  BY DEF tiku_tfs_mount, medium, LiveSlots
<1>2. \A h \in Writer : ~w[h].active
  BY <1>1 DEF StoreInv, Streams
<1>3. Streams' /\ StagedUnseen'
  BY <1>1, <1>2 DEF Streams, StagedUnseen
<1>4. SameDirectory
  BY <1>1 DEF SameDirectory
<1>5. Directory'
  BY <1>1, <1>4, StillThere, StillConsistent DEF StoreInv, Directory
<1>6. MapOK'
  <2>1. HeldSlots' = {}
    BY <1>1, <1>2 DEF HeldSlots
  <2> QED
    BY <1>1, <1>4, <2>1, StillThere DEF MapOK
<1> QED
  BY <1>1, <1>3, <1>5, <1>6, Ended DEF StoreInv

(* A format starts from a store that is not in use.                        *)
LEMMA InitKeeps ==
  ASSUME TypeInv, StoreInv, tiku_tfs_init
  PROVE  StoreInv'
<1>1. /\ ~wr_open /\ mounted' = FALSE
      /\ op'.k = "format" /\ op'.at = "clear" /\ op'.i = 0
      /\ UNCHANGED <<magic, gate, dname, run, len, wr_open, used, w>>
  BY DEF tiku_tfs_init, medium, Idle
<1>2. \A h \in Writer : ~w[h].active
  BY <1>1 DEF StoreInv, Streams
<1>3. Streams' /\ StagedUnseen' /\ MapOK'
  BY <1>1, <1>2 DEF Streams, StagedUnseen, MapOK
<1>4. SameDirectory
  BY <1>1 DEF SameDirectory
<1>5. Directory'
  BY <1>1, <1>4, StillThere, StillConsistent DEF StoreInv, Directory
<1>6. CallOK'
  <2>1. \A j \in Live' : op'.i <= j
    <3>1. Live' = Live /\ \A j \in Live : j \in Nat
      BY <1>4, StillThere, Entries
    <3> QED
      BY <1>1, <3>1
  <2> QED
    BY <1>1, <2>1 DEF CallOK, Creating, Committing, Deleting, Formatting, Idling
<1> QED
  BY <1>3, <1>5, <1>6 DEF StoreInv

(* Create, delete and commit say what they are about to write.             *)
LEMMA CallsKeep ==
  ASSUME TypeInv, StoreInv,
         \/ \E n \in Name : tiku_tfs_create(n) \/ tiku_tfs_delete(n)
         \/ \E h \in Writer : tiku_tfs_commit(h)
  PROVE  StoreInv'
<1>1. UNCHANGED <<magic, gate, dname, run, len, mounted, wr_open, used, w>>
  BY DEF tiku_tfs_create, tiku_tfs_delete, tiku_tfs_commit, medium, ram
<1>2. SameDirectory /\ SameStreams
  BY <1>1 DEF SameDirectory, SameStreams, StoreInv, Streams
<1>3. Streams' /\ Directory' /\ MapOK' /\ StagedUnseen'
  BY <1>1, <1>2, Kept
<1>4. \A m : Found(m)' = Found(m)
  BY <1>2, StillThere
<1>5. CallOK'
  <2>1. ASSUME NEW n \in Name, tiku_tfs_create(n)
        PROVE  CallOK'
    <3>1. Lowest(FreeDirents) \in FreeDirents
      BY <2>1, Entries, LowestIn DEF tiku_tfs_create
    <3>2. free_run(1) \notin used
      <4>1. FreeRuns(1) # {} /\ 1 \in Nat
        BY <2>1 DEF tiku_tfs_create
      <4>2. free_run(1) \in Slot /\ Slots(free_run(1), 1) \cap used = {}
        BY <4>1, FreeRun
      <4> QED
        BY <4>2 DEF Slots, Slot
    <3>3. /\ op'.k = "create" /\ op'.at = "len" /\ op'.i = Lowest(FreeDirents) /\ op'.n = n
          /\ op'.first = free_run(1) /\ op'.span = 1 /\ op'.off = 0
          /\ mounted /\ ~wr_open /\ Found(n) = {}
      BY <2>1 DEF tiku_tfs_create, Idle
    <3>4. ~gate[op'.i]
      BY <3>1, <3>3 DEF FreeDirents, Live
    <3>5. Found(op.n)' = {}
      BY <1>4, <3>3 DEF Found, Live
    <3> QED
      BY <1>1, <3>2, <3>3, <3>4, <3>5
         DEF CallOK, Creating, Committing, Deleting, Formatting, Idling, Entering
  <2>2. ASSUME NEW n \in Name, tiku_tfs_delete(n)
        PROVE  CallOK'
    <3>1. Lowest(Found(n)) \in Found(n)
      <4>1. Found(n) # {} /\ Found(n) \subseteq Nat
        BY <2>2, Entries DEF tiku_tfs_delete
      <4> QED
        BY <4>1, LowestIn
    <3>2. /\ op'.k = "delete" /\ op'.at = "gate" /\ op'.i = Lowest(Found(n)) /\ mounted /\ ~wr_open
      BY <2>2 DEF tiku_tfs_delete, Idle
    <3>3. gate[op'.i]
      BY <3>1, <3>2 DEF Found, Live
    <3> QED
      BY <1>1, <3>2, <3>3 DEF CallOK, Creating, Committing, Deleting, Formatting, Idling
  <2>3. ASSUME NEW h \in Writer, tiku_tfs_commit(h)
        PROVE  CallOK'
    <3>1. /\ op'.k = "commit" /\ op'.at = "len" /\ op'.n = w[h].n /\ op'.first = w[h].first
          /\ op'.off = w[h].off /\ op'.h = h /\ op'.span = run_span_for(w[h].off) /\ w[h].active
      BY <2>3 DEF tiku_tfs_commit, Idle
    <3> QED
      BY <1>1, <3>1
         DEF CallOK, Creating, Committing, Deleting, Formatting, Idling, Entering, run_span_for
  <2> QED
    BY <2>1, <2>2, <2>3
<1> QED
  BY <1>3, <1>5 DEF StoreInv

-----------------------------------------------------------------------------
(* The calls on a stream.                                                  *)

(* An open reserves slots nobody holds.                                    *)
LEMMA OpenKeeps ==
  ASSUME TypeInv, StoreInv, NEW h \in Writer, NEW n \in Name, NEW span \in 1..SpanMax,
         tiku_tfs_open_w(h, n, span)
  PROVE  StoreInv'
<1> DEFINE s == free_run(span)
<1>1. span \in Nat \ {0} /\ FreeRuns(span) # {}
  BY TfsAssumption DEF tiku_tfs_open_w
<1>2. s \in Slot /\ s + span <= NFiles + 1 /\ Slots(s, span) \cap used = {}
  BY <1>1, FreeRun
<1>3. /\ op = Idle /\ mounted /\ ~wr_open /\ (Found(n) # {} \/ FreeDirents # {})
      /\ used' = used \cup Slots(s, span)
      /\ w' = [w EXCEPT ![h] = [active |-> TRUE, first |-> s, span |-> span, off |-> 0, n |-> n]]
      /\ wr_open' = TRUE
      /\ UNCHANGED <<magic, gate, dname, run, len, mounted, op>>
  BY DEF tiku_tfs_open_w, medium
<1> HIDE DEF s
<1>4. /\ \A g \in Writer : ~w[g].active
      /\ magic /\ Consistent /\ Named /\ used = LiveSlots
  <2>1. \A g \in Writer : ~w[g].active
    BY <1>3 DEF StoreInv, Streams
  <2> QED
    BY <1>3, <2>1 DEF StoreInv, Directory, MapOK, HeldSlots
<1>5. /\ w'[h] = [active |-> TRUE, first |-> s, span |-> span, off |-> 0, n |-> n]
      /\ \A g \in Writer \ {h} : ~w'[g].active
  BY <1>3, <1>4 DEF TypeInv, TypeOK
<1>6. SameDirectory
  BY <1>3 DEF SameDirectory
<1>7. /\ Live' = Live /\ FreeDirents' = FreeDirents
      /\ \A m : Found(m)' = Found(m)
      /\ \A i \in Live : RunSlots(i)' = RunSlots(i)
      /\ LiveSlots' = LiveSlots /\ Named'
  BY <1>4, <1>6, StillThere
<1>8. Streams'
  <2>1. (Found(w[h].n) # {} \/ FreeDirents # {})'
    BY <1>3, <1>5, <1>7
  <2>2. \A g \in Writer : w'[g].active => g = h
    BY <1>5
  <2> QED
    BY <1>1, <1>2, <1>3, <1>5, <2>1, <2>2 DEF Streams
<1>9. Directory'
  BY <1>3, <1>4, <1>6, <1>7, StillConsistent DEF Directory
<1>10. Held(h)' = Slots(s, span)
  BY <1>5 DEF Held
<1>11. MapOK'
  <2>1. HeldSlots' = Held(h)'
    BY <1>5 DEF HeldSlots
  <2> QED
    BY <1>3, <1>4, <1>7, <1>10, <2>1 DEF MapOK
<1>12. StagedUnseen'
  <2>1. \A i \in Live : RunSlots(i)' \cap Held(h)' = {}
    BY <1>2, <1>4, <1>7, <1>10 DEF LiveSlots
  <2>2. \A g \in Writer, i \in Live' : w'[g].active => RunSlots(i)' \cap Held(g)' = {}
    BY <1>5, <1>7, <2>1
  <2> QED
    BY <2>2 DEF StagedUnseen, Held
<1> QED
  BY <1>3, <1>8, <1>9, <1>11, <1>12, Ended DEF StoreInv

(* A chunk, written or not, stays within the stream's run.                  *)
LEMMA ChunkKeeps ==
  ASSUME TypeInv, StoreInv, NEW h \in Writer, NEW v \in Val, tiku_tfs_write_chunk(h, v)
  PROVE  StoreInv'
<1>1. /\ op = Idle /\ UNCHANGED <<magic, gate, dname, run, len, mounted, wr_open, used, op>>
      /\ w[h].off < w[h].span
      /\ w' = [w EXCEPT ![h].off = @ + 1] \/ UNCHANGED w
  BY DEF tiku_tfs_write_chunk
<1>2. SameStreams
  <2>1. /\ w \in [Writer -> HandleType] /\ w[h].off \in Nat /\ w[h].span \in Nat
        /\ \A g \in Writer : w[g].active => w[g].off <= w[g].span
    BY RunNumbers DEF TypeInv, TypeOK, StoreInv, Streams
  <2>2. CASE UNCHANGED w
    BY <1>1, <2>1, <2>2 DEF SameStreams
  <2>3. CASE w' = [w EXCEPT ![h].off = @ + 1]
    <3>1. w'[h] = [w[h] EXCEPT !.off = @ + 1] /\ \A g \in Writer \ {h} : w'[g] = w[g]
      BY <2>1, <2>3
    <3>2. /\ w'[h].off = w[h].off + 1 /\ w'[h].active = w[h].active /\ w'[h].n = w[h].n
          /\ w'[h].first = w[h].first /\ w'[h].span = w[h].span
      BY <2>1, <3>1 DEF HandleType
    <3>3. w[h].off + 1 <= w[h].span
      BY <1>1, <2>1
    <3>4. \A g \in Writer : /\ w'[g].active = w[g].active /\ w'[g].n = w[g].n
                            /\ w'[g].first = w[g].first /\ w'[g].span = w[g].span
                            /\ w[g].active => w'[g].off <= w'[g].span
      BY <2>1, <3>1, <3>2, <3>3
    <3>5. UNCHANGED <<mounted, wr_open, used>>
      BY <1>1
    <3> QED
      BY <3>4, <3>5 DEF SameStreams
  <2> QED
    BY <1>1, <2>2, <2>3
<1>3. SameDirectory
  BY <1>1 DEF SameDirectory
<1> QED
  BY <1>1, <1>2, <1>3, Kept, Ended DEF StoreInv

(* An abort gives back just what the open took.                            *)
LEMMA AbortKeeps ==
  ASSUME TypeInv, StoreInv, NEW h \in Writer, tiku_tfs_abort(h)
  PROVE  StoreInv'
<1>1. /\ op = Idle /\ w[h].active /\ used' = used \ Held(h)
      /\ w' = [w EXCEPT ![h] = Closed] /\ wr_open' = FALSE
      /\ UNCHANGED <<magic, gate, dname, run, len, mounted, op>>
  BY DEF tiku_tfs_abort, medium, Held
<1>2. \A g \in Writer : ~w'[g].active /\ (w[g].active => g = h)
  BY <1>1 DEF TypeInv, TypeOK, StoreInv, Streams, Closed
<1>3. SameDirectory
  BY <1>1 DEF SameDirectory
<1>4. Streams' /\ StagedUnseen'
  BY <1>2 DEF Streams, StagedUnseen
<1>5. Directory'
  BY <1>1, <1>3, StillThere, StillConsistent DEF StoreInv, Directory
<1>6. MapOK'
  <2>1. HeldSlots' = {} /\ HeldSlots = Held(h)
    BY <1>1, <1>2 DEF HeldSlots
  <2>2. LiveSlots \cap Held(h) = {}
    BY <1>1, HeldSlot DEF LiveSlots
  <2> QED
    BY <1>1, <1>3, <2>1, <2>2, StillThere DEF StoreInv, MapOK
<1> QED
  BY <1>1, <1>4, <1>5, <1>6, Ended DEF StoreInv

-----------------------------------------------------------------------------
(* The writes of a call that enters a name.                                *)

(* The run such a call is to publish is sound and no live entry's.         *)
LEMMA NewRun ==
  ASSUME TypeInv, StoreInv,
         op.at \in {"len", "name", "run"} \/ (op.at = "gate" /\ op.k # "delete")
  PROVE  /\ op.k \in {"create", "commit"} /\ mounted /\ Entering
         /\ op.i \in Dirent /\ op.n \in Name /\ op.first \in Slot /\ op.off \in Nat
         /\ op.span # 0 /\ op.first + op.span <= NFiles + 1 /\ op.off <= op.span
         /\ \A i \in Live : /\ RunSlots(i) \cap Slots(op.first, op.span) = {}
                            /\ run[i].first # op.first
         /\ magic /\ Consistent /\ Named
<1>1. op \in OpType /\ NFiles \in Nat
  BY TfsAssumption DEF TypeInv, TypeOK
<1>2. op.k \in {"create", "commit"}
  BY <1>1 DEF OpType, StoreInv, CallOK, Deleting, Formatting, Idling
<1>3. /\ op.i \in Dirent /\ op.first \in Slot /\ op.first \in Nat /\ op.off \in Nat
      /\ op.span \in Nat /\ op.n \in Name
  BY <1>1, <1>2 DEF OpType, TypeInv, Naming, Slot
<1>4. CASE op.k = "create"
  <2>1. /\ mounted /\ Entering /\ op.first \notin used /\ op.span = 1 /\ op.off = 0
    BY <1>4 DEF StoreInv, CallOK, Creating
  <2>2. \A i \in Live : op.first \notin RunSlots(i) /\ run[i].first # op.first
    BY <2>1, FreeSlot
  <2>3. Slots(op.first, op.span) = {op.first}
    BY <1>3, <2>1 DEF Slots
  <2>4. magic /\ Consistent /\ Named
    BY <2>1 DEF StoreInv, Directory
  <2>5. op.first + op.span <= NFiles + 1
    BY <1>1, <1>3, <2>1 DEF Slot
  <2> QED
    BY <1>2, <1>3, <2>1, <2>2, <2>3, <2>4, <2>5
<1>5. CASE op.k = "commit"
  <2>1. /\ op.h \in Writer /\ w[op.h].active /\ Entering
        /\ op.first = w[op.h].first /\ op.off = w[op.h].off /\ op.span = run_span_for(op.off)
    BY <1>5 DEF StoreInv, CallOK, Committing
  <2>2. /\ mounted /\ w[op.h].span # 0 /\ w[op.h].first + w[op.h].span <= NFiles + 1
        /\ w[op.h].off <= w[op.h].span
    BY <2>1 DEF StoreInv, Streams
  <2>3. w[op.h].span \in Nat
    BY <2>1, RunNumbers
  <2>4. op.span <= w[op.h].span /\ op.span # 0 /\ op.off <= op.span
    BY <1>3, <2>1, <2>2, <2>3 DEF run_span_for
  <2>5. Slots(op.first, op.span) \subseteq Held(op.h)
    BY <1>3, <2>1, <2>3, <2>4 DEF Held, Slots
  <2>6. \A i \in Live : RunSlots(i) \cap Held(op.h) = {} /\ run[i].first # op.first
    BY <2>1, HeldSlot
  <2>7. magic /\ Consistent /\ Named
    BY <2>2 DEF StoreInv, Directory
  <2>8. op.first + op.span <= NFiles + 1
    BY <1>1, <1>3, <2>1, <2>2, <2>3, <2>4
  <2> QED
    BY <1>2, <1>3, <2>1, <2>2, <2>4, <2>5, <2>6, <2>7, <2>8
<1> QED
  BY <1>2, <1>4, <1>5

(* On such a backend a write has landed if and only if it succeeds.         *)
LEMMA Outcomes ==
  ASSUME Whole, NEW next, NEW landed \in BOOLEAN, Outcome(next, landed)
  PROVE  (landed /\ op' = next) \/ (~landed /\ op' = Idle)
BY DEF Whole, Outcome

(* The length word is written into a run nobody reads.                     *)
LEMMA WriteLenKeeps ==
  ASSUME TypeInv, StoreInv, Whole, WriteLen
  PROVE  StoreInv'
<1> DEFINE next == IF op.k = "create" THEN [op EXCEPT !.at = "name"] ELSE CommitTarget
<1>1. op.at = "len" /\ UNCHANGED <<magic, gate, dname, run, data, ram>>
  BY DEF WriteLen
<1>2. PICK landed \in BOOLEAN :
        Outcome(next, landed) /\ len' = [len EXCEPT ![op.first] = IF landed THEN op.off ELSE @]
  BY DEF WriteLen
<1> HIDE DEF next
<1>3. (landed /\ op' = next) \/ (~landed /\ op' = Idle)
  BY <1>2, Outcomes
<1>4. /\ op \in OpType /\ len \in [Slot -> 0..TornLen]
      /\ op.k \in {"create", "commit"} /\ op.first \in Slot
      /\ \A i \in Live : run[i].first # op.first
  BY <1>1, NewRun DEF TypeInv, TypeOK
<1>5. CASE ~landed
  <2>1. len' = len
    BY <1>2, <1>4, <1>5
  <2> QED
    BY <1>1, <1>3, <1>5, <2>1, Failed
<1>6. CASE landed
  <2>1. op' = next /\ len'[op.first] = op.off
    BY <1>2, <1>3, <1>4, <1>6
  <2>2. \A i \in Live : len'[run[i].first] = len[run[i].first]
    <3>1. \A i \in Live : run[i].first \in Slot
      BY Entries DEF TypeInv, TypeOK
    <3> QED
      BY <1>2, <1>4, <1>6, <3>1
  <2>3. SameDirectory /\ SameStreams
    BY <1>1 DEF SameDirectory, SameStreams, ram, StoreInv, Streams
  <2>4. Streams' /\ Directory' /\ MapOK' /\ StagedUnseen'
    BY <1>1, <2>2, <2>3, Kept
  <2>5. \A m : Found(m)' = Found(m)
    BY <2>3, StillThere
  <2>6. UNCHANGED <<gate, dname, run, mounted, wr_open, used, w>>
    BY <1>1 DEF ram
  <2>7. CASE op.k = "create"
    <3>1. op' = [op EXCEPT !.at = "name"]
      BY <2>1, <2>7 DEF next
    <3>2. /\ op'.k = "create" /\ op'.at = "name" /\ op'.i = op.i /\ op'.n = op.n
          /\ op'.first = op.first /\ op'.span = op.span /\ op'.off = op.off
      BY <1>4, <2>7, <3>1 DEF OpType
    <3>3. Creating
      BY DEF StoreInv, CallOK
    <3>4. Found(op.n)' = {}
      BY <2>5, <2>7, <3>2, <3>3 DEF Creating, Found, Live
    <3>5. CallOK'
      BY <2>1, <2>6, <2>7, <3>2, <3>3, <3>4
         DEF CallOK, Creating, Committing, Deleting, Formatting, Idling, Entering
    <3> QED
      BY <2>4, <3>5 DEF StoreInv
  <2>8. CASE op.k = "commit" /\ Found(op.n) # {}
    <3>1. op' = [op EXCEPT !.at = "run", !.i = Lowest(Found(op.n))]
      BY <2>1, <2>8 DEF next, CommitTarget
    <3>2. /\ op'.k = "commit" /\ op'.at = "run" /\ op'.i = Lowest(Found(op.n)) /\ op'.n = op.n
          /\ op'.first = op.first /\ op'.span = op.span /\ op'.off = op.off /\ op'.h = op.h
      BY <1>4, <2>8, <3>1 DEF OpType
    <3>3. op'.i \in Found(op.n)
      <4>1. Found(op.n) \subseteq Nat
        BY Entries
      <4> QED
        BY <2>8, <3>2, <4>1, LowestIn
    <3>4. gate[op'.i] /\ op'.i \in Found(op.n)'
      BY <2>6, <3>2, <3>3 DEF Found, Live
    <3>5. Committing
      BY DEF StoreInv, CallOK
    <3>6. CallOK'
      BY <2>1, <2>6, <2>8, <3>2, <3>4, <3>5
         DEF CallOK, Creating, Committing, Deleting, Formatting, Idling, Entering
    <3> QED
      BY <2>4, <3>6 DEF StoreInv
  <2>9. CASE op.k = "commit" /\ Found(op.n) = {} /\ FreeDirents # {}
    <3>1. op' = [op EXCEPT !.at = "name", !.i = Lowest(FreeDirents)]
      BY <2>1, <2>9 DEF next, CommitTarget
    <3>2. /\ op'.k = "commit" /\ op'.at = "name" /\ op'.i = Lowest(FreeDirents) /\ op'.n = op.n
          /\ op'.first = op.first /\ op'.span = op.span /\ op'.off = op.off /\ op'.h = op.h
      BY <1>4, <2>9, <3>1 DEF OpType
    <3>3. op'.i \in FreeDirents
      <4>1. FreeDirents \subseteq Nat
        BY Entries
      <4> QED
        BY <2>9, <3>2, <4>1, LowestIn
    <3>4. ~gate[op'.i] /\ Found(op.n)' = {}
      BY <2>6, <2>9, <3>2, <3>3 DEF Found, Live, FreeDirents
    <3>5. Committing
      BY DEF StoreInv, CallOK
    <3>6. CallOK'
      BY <2>1, <2>6, <2>9, <3>2, <3>4, <3>5
         DEF CallOK, Creating, Committing, Deleting, Formatting, Idling, Entering
    <3> QED
      BY <2>4, <3>6 DEF StoreInv
  <2>10. CASE op.k = "commit" /\ Found(op.n) = {} /\ FreeDirents = {}
    <3>1. op' = Idle
      BY <2>1, <2>10 DEF next, CommitTarget
    <3> QED
      BY <2>4, <3>1, Ended DEF StoreInv
  <2> QED
    BY <1>4, <2>7, <2>8, <2>9, <2>10
<1> QED
  BY <1>5, <1>6

(* A name is written into an entry that is not in use.                     *)
LEMMA WriteNameKeeps ==
  ASSUME TypeInv, StoreInv, WriteName
  PROVE  StoreInv'
<1>1. /\ op.at = "name" /\ UNCHANGED <<magic, gate, run, len, data, ram>>
      /\ \/ dname' = [dname EXCEPT ![op.i] = op.n] /\ op' = [op EXCEPT !.at = "run"]
         \/ dname' = [dname EXCEPT ![op.i] = Junk] /\ op' = Idle
  BY DEF WriteName
<1>2. op \in OpType /\ dname \in [Dirent -> Name \cup {Junk}] /\ op.i \in Dirent
      /\ op.k \in {"create", "commit"} /\ Entering
  BY <1>1, NewRun DEF TypeInv, TypeOK
<1>3. Creating /\ Committing
  BY DEF StoreInv, CallOK
<1>4. ~gate[op.i]
  BY <1>1, <1>2, <1>3 DEF Creating, Committing
<1>5. \A j \in Dirent : j # op.i => dname'[j] = dname[j]
  BY <1>1, <1>2
<1>6. SameDirectory /\ SameStreams
  <2>1. \A i \in Live : i \in Dirent /\ i # op.i
    BY <1>4 DEF Live
  <2> QED
    BY <1>1, <1>5, <2>1 DEF SameDirectory, SameStreams, ram, StoreInv, Streams
<1>7. Streams' /\ Directory' /\ MapOK' /\ StagedUnseen'
  BY <1>1, <1>6, Kept
<1>8. \A m : Found(m)' = Found(m)
  BY <1>6, StillThere
<1>9. CASE op' = Idle
  BY <1>7, <1>9, Ended DEF StoreInv
<1>10. CASE dname' = [dname EXCEPT ![op.i] = op.n] /\ op' = [op EXCEPT !.at = "run"]
  <2>1. /\ op'.k = op.k /\ op'.at = "run" /\ op'.i = op.i /\ op'.n = op.n
        /\ op'.first = op.first /\ op'.span = op.span /\ op'.off = op.off /\ op'.h = op.h
    BY <1>2, <1>10 DEF OpType
  <2>2. dname'[op.i] = op.n
    BY <1>2, <1>10
  <2>3. UNCHANGED <<gate, run, len, mounted, wr_open, used, w>>
    BY <1>1 DEF ram
  <2>4. Entering'
    BY <1>1, <1>2, <2>1, <2>2, <2>3 DEF Entering
  <2>5. Creating'
    <3>1. op.k = "create" => Found(op.n)' = {}
      BY <1>3, <1>8, <2>1 DEF Creating, Found, Live
    <3> QED
      BY <1>3, <2>1, <2>3, <2>4, <3>1 DEF Creating
  <2>6. Committing'
    <3>1. op.k = "commit" => Found(op.n)' = {}
      BY <1>1, <1>3, <1>4, <1>8, <2>1 DEF Committing, Found, Live
    <3> QED
      BY <1>3, <1>4, <2>1, <2>3, <2>4, <3>1 DEF Committing
  <2>7. CallOK'
    BY <1>2, <2>1, <2>5, <2>6 DEF CallOK, Deleting, Formatting, Idling
  <2> QED
    BY <1>7, <2>7 DEF StoreInv
<1> QED
  BY <1>1, <1>9, <1>10

(* So is a run that a gate will publish.                                   *)
LEMMA WriteRunKeeps ==
  ASSUME TypeInv, StoreInv, Whole, WriteRun
  PROVE  StoreInv'
<1> DEFINE new == [first |-> op.first, span |-> op.span]
<1>1. op.at = "run" /\ ~gate[op.i] /\ UNCHANGED <<magic, gate, dname, len, data, ram>>
  BY DEF WriteRun
<1>2. PICK landed \in BOOLEAN :
        RunWord(landed) /\ Outcome([op EXCEPT !.at = "gate"], landed)
  BY DEF WriteRun
<1>3. (landed /\ op' = [op EXCEPT !.at = "gate"]) \/ (~landed /\ op' = Idle)
  BY <1>2, Outcomes
<1>4. /\ run' = [run EXCEPT ![op.i] = IF landed THEN new ELSE @]
      /\ op \in OpType /\ op.i \in Dirent /\ op.k \in {"create", "commit"} /\ Entering
      /\ run \in [Dirent -> [first : Slot, span : 0..(NFiles + 1)]]
  BY <1>1, <1>2, NewRun DEF RunWord, TypeInv, TypeOK
<1>5. CASE ~landed
  <2>1. run' = run
    BY <1>4, <1>5
  <2> QED
    BY <1>1, <1>3, <1>5, <2>1, Failed
<1>6. CASE landed
  <2>1. op' = [op EXCEPT !.at = "gate"] /\ run'[op.i] = new
        /\ \A j \in Dirent : j # op.i => run'[j] = run[j]
    BY <1>3, <1>4, <1>6
  <2>2. SameDirectory /\ SameStreams
    <3>1. \A i \in Live : i \in Dirent /\ i # op.i
      BY <1>1 DEF Live
    <3> QED
      BY <1>1, <2>1, <3>1 DEF SameDirectory, SameStreams, ram, StoreInv, Streams
  <2>3. Streams' /\ Directory' /\ MapOK' /\ StagedUnseen'
    BY <1>1, <2>2, Kept
  <2>4. \A m : Found(m)' = Found(m)
    BY <2>2, StillThere
  <2>5. /\ op'.k = op.k /\ op'.at = "gate" /\ op'.i = op.i /\ op'.n = op.n
        /\ op'.first = op.first /\ op'.span = op.span /\ op'.off = op.off /\ op'.h = op.h
    BY <1>4, <2>1 DEF OpType
  <2>6. UNCHANGED <<gate, dname, len, mounted, wr_open, used, w>>
    BY <1>1 DEF ram
  <2>7. Creating /\ Committing
    BY DEF StoreInv, CallOK
  <2>8. Entering'
    BY <1>1, <1>4, <2>1, <2>5, <2>6 DEF Entering
  <2>9. Creating'
    <3>1. op.k = "create" => Found(op.n)' = {}
      BY <2>4, <2>5, <2>7 DEF Creating, Found, Live
    <3> QED
      BY <2>5, <2>6, <2>7, <2>8, <3>1 DEF Creating
  <2>10. Committing'
    <3>1. op.k = "commit" => Found(op.n)' = {}
      BY <1>1, <2>4, <2>5, <2>7 DEF Committing, Found, Live
    <3> QED
      BY <1>1, <2>5, <2>6, <2>7, <2>8, <3>1 DEF Committing
  <2>11. CallOK'
    BY <1>4, <2>5, <2>9, <2>10 DEF CallOK, Deleting, Formatting, Idling
  <2> QED
    BY <2>3, <2>11 DEF StoreInv
<1> QED
  BY <1>5, <1>6

(* The end of a commit closes the only stream and frees its run's tail.     *)
LEMMA Settling ==
  ASSUME TypeInv, StoreInv, NEW u, Settled(u), op.k = "commit", op.at \in {"run", "gate"}
  PROVE  /\ \A g \in Writer : ~w'[g].active
         /\ mounted' = mounted
         /\ used = LiveSlots \cup Held(op.h) /\ LiveSlots \cap Held(op.h) = {}
         /\ Slots(op.first, op.span) \subseteq Held(op.h)
         /\ used' = (u \ Held(op.h)) \cup (u \cap Slots(op.first, op.span))
<1>1. /\ op.h \in Writer /\ w[op.h].active /\ mounted
      /\ op.first = w[op.h].first /\ op.off = w[op.h].off /\ op.span = run_span_for(op.off)
  BY DEF StoreInv, CallOK, Committing, Streams
<1>2. /\ w[op.h].span # 0 /\ w[op.h].off <= w[op.h].span
      /\ \A g \in Writer : w[g].active => g = op.h
  BY <1>1 DEF StoreInv, Streams
<1>3. w[op.h].span \in Nat /\ w[op.h].off \in Nat /\ w[op.h].first \in Nat
  BY <1>1, RunNumbers
<1>4. op.span \in Nat /\ op.span <= w[op.h].span
  BY <1>1, <1>2, <1>3 DEF run_span_for
<1> DEFINE tail == Slots(op.first + op.span, w[op.h].span - op.span)
<1>5. \A x : x \in Held(op.h) <=> x \in tail \/ x \in Slots(op.first, op.span)
  BY <1>1, <1>3, <1>4 DEF Held, Slots
<1>6. \A x : ~(x \in tail /\ x \in Slots(op.first, op.span))
  BY <1>1, <1>3, <1>4 DEF Slots
<1>7. used' = u \ tail /\ w' = [w EXCEPT ![op.h] = Closed] /\ mounted' = mounted
  BY DEF Settled
<1>8. \A g \in Writer : ~w'[g].active
  BY <1>1, <1>2, <1>7 DEF TypeInv, TypeOK, Closed
<1>9. HeldSlots = Held(op.h)
  BY <1>1, <1>2 DEF HeldSlots
<1>10. used = LiveSlots \cup Held(op.h)
  BY <1>1, <1>9 DEF StoreInv, MapOK
<1>11. LiveSlots \cap Held(op.h) = {}
  BY <1>1, HeldSlot DEF LiveSlots
<1> HIDE DEF tail
<1> QED
  BY <1>5, <1>6, <1>7, <1>8, <1>10, <1>11

(* A commit that replaces a file takes its new run for the old one.         *)
LEMMA FlipRunKeeps ==
  ASSUME TypeInv, StoreInv, Whole, FlipRun
  PROVE  StoreInv'
<1> DEFINE new == Slots(op.first, op.span)
<1>0. PICK i : i = op.i
  OBVIOUS
<1>1. /\ op.at = "run" /\ gate[i] /\ op' = Idle
      /\ UNCHANGED <<magic, gate, dname, len, data>>
  BY <1>0 DEF FlipRun
<1>2. /\ op.k = "commit" /\ mounted /\ magic /\ Consistent /\ Named /\ i \in Live
      /\ op.span # 0 /\ op.first + op.span <= NFiles + 1 /\ len[op.first] <= op.span
      /\ \A j \in Live : RunSlots(j) \cap new = {}
      /\ run \in [Dirent -> [first : Slot, span : 0..(NFiles + 1)]]
  <2>1. op.k = "commit" /\ i \in Live
    BY <1>0, <1>1, NewRun DEF StoreInv, CallOK, Creating, Live
  <2> QED
    BY <1>0, <1>1, <2>1, NewRun DEF TypeInv, TypeOK, Entering
<1>3. CASE run' = run /\ UNCHANGED ram
  BY <1>1, <1>3, Failed
<1>4. CASE RunWord(TRUE) /\ Settled(used \ RunSlots(i))
  <2>1. /\ run'[i] = [first |-> op.first, span |-> op.span]
        /\ \A j \in Dirent : j # i => run'[j] = run[j]
    BY <1>0, <1>2, <1>4 DEF RunWord, Live
  <2>2. /\ RunSlots(i)' = new /\ run'[i].first = op.first /\ run'[i].span = op.span
        /\ \A j \in Live : j # i => run'[j] = run[j] /\ RunSlots(j)' = RunSlots(j)
    BY <2>1, Entries DEF RunSlots
  <2>3. Live' = Live /\ UNCHANGED <<magic, gate, dname, len>>
    BY <1>1 DEF Live
  <2>4. /\ \A g \in Writer : ~w'[g].active
        /\ mounted' = mounted
        /\ used = LiveSlots \cup Held(op.h) /\ LiveSlots \cap Held(op.h) = {}
        /\ new \subseteq Held(op.h)
        /\ used' = ((used \ RunSlots(i)) \ Held(op.h)) \cup ((used \ RunSlots(i)) \cap new)
    BY <1>1, <1>2, <1>4, Settling
  <2>5. Streams' /\ StagedUnseen'
    BY <2>4 DEF Streams, StagedUnseen
  <2>6. Consistent'
    <3>1. \A j \in Live : run_check(j)'
      BY <1>2, <2>2, <2>3 DEF Consistent, run_check
    <3>2. \A j, k \in Live : j # k => RunSlots(j)' \cap RunSlots(k)' = {}
      BY <1>2, <2>2 DEF Consistent
    <3> QED
      BY <2>3, <3>1, <3>2 DEF Consistent
  <2>7. Directory'
    BY <1>2, <2>3, <2>4, <2>6 DEF Directory, Named
  <2>8. MapOK'
    <3>1. HeldSlots' = {}
      BY <2>4 DEF HeldSlots
    <3>2. \A x : x \in LiveSlots' <=> x \in new \/ (x \in LiveSlots /\ x \notin RunSlots(i))
      <4>1. \A x : x \in LiveSlots' <=> \E j \in Live : x \in RunSlots(j)'
        BY <2>3 DEF LiveSlots
      <4>2. \A j \in Live : j # i => RunSlots(j) \cap RunSlots(i) = {}
        BY <1>2 DEF Consistent
      <4> QED
        BY <1>2, <2>2, <4>1, <4>2 DEF LiveSlots
    <3>3. \A x \in new : x \in used /\ x \notin RunSlots(i)
      BY <1>2, <2>4
    <3>4. used' = LiveSlots'
      BY <2>4, <3>2, <3>3
    <3> QED
      BY <3>1, <3>4 DEF MapOK
  <2> QED
    BY <1>1, <2>5, <2>7, <2>8, Ended DEF StoreInv
<1>5. RunWord(FALSE) => run' = run
  BY <1>0, <1>2 DEF RunWord, Live
<1> QED
  BY <1>0, <1>3, <1>4, <1>5 DEF FlipRun, Whole

(* The gate of a new entry publishes a run that was reserved, or free.     *)
LEMMA WriteGateKeeps ==
  ASSUME TypeInv, StoreInv, Whole, WriteGate
  PROVE  StoreInv'
<1> DEFINE i == op.i
           new == Slots(op.first, op.span)
<1>1. /\ op.at = "gate" /\ op.k # "delete" /\ op' = Idle
      /\ UNCHANGED <<magic, dname, run, len, data>>
  BY DEF WriteGate
<1>2. /\ op.k \in {"create", "commit"} /\ mounted /\ magic /\ Consistent /\ Named
      /\ i \in Dirent /\ op.n \in Name /\ op.first \in Nat
      /\ op.span # 0 /\ op.first + op.span <= NFiles + 1 /\ len[op.first] <= op.span
      /\ \A j \in Live : RunSlots(j) \cap new = {}
      /\ Entering /\ gate \in [Dirent -> BOOLEAN]
  BY <1>1, NewRun DEF TypeInv, TypeOK, Entering, Slot
<1>3. ~gate[i] /\ Found(op.n) = {}
  BY <1>1, <1>2 DEF StoreInv, CallOK, Creating, Committing
<1>4. /\ RunSlots(i) = new /\ run[i].first = op.first /\ run[i].span = op.span
      /\ dname[i] = op.n
  BY <1>1, <1>2, <1>3 DEF Entering, RunSlots
<1>5. CASE gate' = [gate EXCEPT ![i] = FALSE] /\ UNCHANGED ram
  <2>1. gate' = gate
    BY <1>2, <1>3, <1>5
  <2> QED
    BY <1>1, <1>5, <2>1, Failed
<1>6. CASE /\ gate' = [gate EXCEPT ![i] = TRUE]
           /\ IF op.k = "create"
              THEN used' = used \cup {op.first} /\ UNCHANGED <<mounted, wr_open, w>>
              ELSE Settled(used)
  <2>1. Live' = Live \cup {i} /\ i \notin Live
    BY <1>2, <1>3, <1>6 DEF Live
  <2>2. \A j : RunSlots(j)' = RunSlots(j)
    BY <1>1 DEF RunSlots
  <2>3. Consistent'
    <3>1. \A j \in Live \cup {i} : run_check(j)'
      BY <1>1, <1>2, <1>4 DEF Consistent, run_check
    <3>2. \A j, k \in Live \cup {i} : j # k => RunSlots(j)' \cap RunSlots(k)' = {}
      BY <1>2, <1>4, <2>2 DEF Consistent
    <3> QED
      BY <2>1, <3>1, <3>2 DEF Consistent
  <2>4. Named'
    <3>1. \A j \in Live : dname[j] # op.n
      BY <1>3 DEF Found
    <3> QED
      BY <1>1, <1>2, <1>4, <2>1, <3>1 DEF Named
  <2>5. \A x : x \in LiveSlots' <=> x \in LiveSlots \/ x \in new
    BY <1>4, <2>1, <2>2 DEF LiveSlots
  <2>6. CASE op.k = "create"
    <3>1. /\ used' = used \cup {op.first} /\ UNCHANGED <<mounted, wr_open, w>>
          /\ ~wr_open /\ op.span = 1
      BY <1>6, <2>6 DEF StoreInv, CallOK, Creating
    <3>2. \A g \in Writer : ~w'[g].active /\ ~w[g].active
      BY <3>1 DEF StoreInv, Streams
    <3>3. new = {op.first}
      BY <1>2, <3>1 DEF Slots
    <3>4. used = LiveSlots /\ HeldSlots' = {}
      BY <1>2, <3>2 DEF StoreInv, MapOK, HeldSlots
    <3>5. used' = LiveSlots'
      BY <2>5, <3>1, <3>3, <3>4
    <3>6. Streams' /\ StagedUnseen' /\ MapOK'
      BY <3>2, <3>4, <3>5 DEF Streams, StagedUnseen, MapOK
    <3>7. Directory'
      BY <1>1, <1>2, <2>3, <2>4 DEF Directory
    <3> QED
      BY <1>1, <3>6, <3>7, Ended DEF StoreInv
  <2>7. CASE op.k = "commit"
    <3>1. Settled(used)
      BY <1>6, <2>7
    <3>2. /\ \A g \in Writer : ~w'[g].active
          /\ mounted' = mounted
          /\ used = LiveSlots \cup Held(op.h) /\ LiveSlots \cap Held(op.h) = {}
          /\ new \subseteq Held(op.h)
          /\ used' = (used \ Held(op.h)) \cup (used \cap new)
      BY <1>1, <2>7, <3>1, Settling
    <3>3. HeldSlots' = {} /\ used' = LiveSlots'
      BY <2>5, <3>2 DEF HeldSlots
    <3>4. Streams' /\ StagedUnseen' /\ MapOK'
      BY <3>2, <3>3 DEF Streams, StagedUnseen, MapOK
    <3>5. Directory'
      BY <1>1, <1>2, <2>3, <2>4, <3>2 DEF Directory
    <3> QED
      BY <1>1, <3>4, <3>5, Ended DEF StoreInv
  <2> QED
    BY <1>2, <2>6, <2>7
<1> QED
  BY <1>5, <1>6 DEF WriteGate, Whole

(* The gate of a deleted entry frees its run.                              *)
LEMMA ClearGateKeeps ==
  ASSUME TypeInv, StoreInv, Whole, ClearGate
  PROVE  StoreInv'
<1> DEFINE i == op.i
<1>1. /\ op.at = "gate" /\ op.k = "delete" /\ op' = Idle
      /\ UNCHANGED <<magic, dname, run, len, data, mounted, wr_open, w>>
  BY DEF ClearGate
<1>2. /\ mounted /\ ~wr_open /\ gate[i] /\ i \in Dirent /\ gate \in [Dirent -> BOOLEAN]
      /\ magic /\ Consistent /\ Named
  BY <1>1 DEF StoreInv, CallOK, Deleting, Directory, TypeInv, TypeOK, OpType
<1>3. CASE gate' = [gate EXCEPT ![i] = ~FALSE] /\ UNCHANGED used
  <2>1. gate' = gate
    BY <1>2, <1>3
  <2> QED
    BY <1>1, <1>3, <2>1, Failed DEF ram
<1>4. CASE gate' = [gate EXCEPT ![i] = FALSE] /\ used' = used \ RunSlots(i)
  <2>1. Live' = Live \ {i} /\ i \in Live
    BY <1>2, <1>4 DEF Live
  <2>2. \A j : RunSlots(j)' = RunSlots(j)
    BY <1>1 DEF RunSlots
  <2>3. Consistent' /\ Named'
    <3>1. \A j \in Live' : run_check(j)'
      BY <1>1, <1>2, <2>1 DEF Consistent, run_check
    <3> QED
      BY <1>1, <1>2, <2>1, <2>2, <3>1 DEF Consistent, Named
  <2>4. \A g \in Writer : ~w[g].active /\ ~w'[g].active
    BY <1>1, <1>2 DEF StoreInv, Streams
  <2>5. used = LiveSlots /\ HeldSlots' = {}
    BY <1>2, <2>4 DEF StoreInv, MapOK, HeldSlots
  <2>6. \A x : x \in LiveSlots' <=> x \in LiveSlots /\ x \notin RunSlots(i)
    BY <1>2, <2>1, <2>2 DEF LiveSlots, Consistent
  <2>7. MapOK'
    BY <1>4, <2>5, <2>6 DEF MapOK
  <2>8. Streams' /\ StagedUnseen'
    BY <2>4 DEF Streams, StagedUnseen
  <2>9. Directory'
    BY <1>1, <1>2, <2>3 DEF Directory
  <2> QED
    BY <1>1, <2>7, <2>8, <2>9, Ended DEF StoreInv
<1> QED
  BY <1>3, <1>4 DEF ClearGate, Whole

-----------------------------------------------------------------------------
(* Formatting, and power cuts.                                             *)

(* While a store is formatted it has no magic, and nobody uses it.         *)
LEMMA FormatKeeps ==
  ASSUME TypeInv, StoreInv, Whole, FormatMagic \/ FormatGate \/ FormatDone
  PROVE  StoreInv'
<1>1. op.at \in {"clear", "gates", "sb"} /\ op \in OpType /\ gate \in [Dirent -> BOOLEAN]
      /\ UNCHANGED <<dname, run, len, wr_open, w>>
  BY DEF FormatMagic, FormatGate, FormatDone, ram, TypeInv, TypeOK
<1>2. op.k = "format"
  BY <1>1 DEF OpType, StoreInv, CallOK, Creating, Committing, Deleting, Idling, Entering
<1>3. /\ ~mounted /\ ~wr_open
      /\ op.at # "clear" => ~magic
      /\ op.at \in {"clear", "gates"} => \A j \in Live : op.i <= j
      /\ op.at = "sb" => Live = {}
  BY <1>2 DEF StoreInv, CallOK, Formatting
<1>4. Streams' /\ StagedUnseen' /\ HeldSlots' = {}
  <2>1. \A h \in Writer : ~w[h].active
    BY <1>3 DEF StoreInv, Streams
  <2> QED
    BY <1>1, <2>1 DEF Streams, StagedUnseen, HeldSlots
<1>5. CASE FormatMagic
  <2>1. PICK landed \in BOOLEAN :
          magic' = (magic /\ ~landed) /\ Outcome([op EXCEPT !.at = "gates"], landed)
    BY <1>5 DEF FormatMagic
  <2>2. (landed /\ op' = [op EXCEPT !.at = "gates"]) \/ (~landed /\ op' = Idle)
    BY <2>1, Outcomes
  <2>3. op.at = "clear" /\ UNCHANGED <<gate, dname, run, len, data, ram>>
    BY <1>5 DEF FormatMagic
  <2>4. CASE ~landed
    <3>1. magic' = magic
      BY <2>1, <2>4 DEF TypeInv, TypeOK
    <3> QED
      BY <2>2, <2>3, <2>4, <3>1, Failed
  <2>5. CASE landed
    <3>0. /\ op'.k = "format" /\ op'.at = "gates" /\ op'.i = op.i
      BY <1>1, <1>2, <2>2, <2>5 DEF OpType
    <3>1. ~magic' /\ Live' = Live /\ ~mounted' /\ ~wr_open'
      BY <1>3, <2>1, <2>3, <2>5 DEF Live, ram
    <3>2. Directory' /\ MapOK'
      BY <3>1 DEF Directory, MapOK
    <3>3. CallOK'
      BY <1>3, <2>3, <3>0, <3>1 DEF CallOK, Creating, Committing, Deleting, Formatting, Idling
    <3> QED
      BY <1>4, <3>2, <3>3 DEF StoreInv
  <2> QED
    BY <2>4, <2>5
<1>6. CASE FormatGate
  <2>0. PICK i \in Dirent : i = op.i
    BY <1>1 DEF OpType
  <2>1. PICK landed \in BOOLEAN :
          /\ gate' = [gate EXCEPT ![i] = @ /\ ~landed]
          /\ Outcome(IF i + 1 \in Dirent THEN [op EXCEPT !.i = @ + 1]
                     ELSE [op EXCEPT !.at = "sb"], landed)
    BY <1>6, <2>0 DEF FormatGate
  <2>2. \/ landed /\ op' = IF i + 1 \in Dirent THEN [op EXCEPT !.i = @ + 1]
                           ELSE [op EXCEPT !.at = "sb"]
        \/ ~landed /\ op' = Idle
    BY <2>1, Outcomes
  <2>3. op.at = "gates" /\ UNCHANGED <<magic, dname, run, len, data, ram>>
    BY <1>6 DEF FormatGate
  <2>4. CASE ~landed
    <3>1. gate' = gate
      BY <1>1, <2>0, <2>1, <2>4
    <3> QED
      BY <2>2, <2>3, <2>4, <3>1, Failed
  <2>5. CASE landed
    <3>1. Live' = Live \ {i} /\ \A j \in Live' : j \in Dirent /\ i + 1 <= j
      <4>1. Live' = Live \ {i}
        BY <1>1, <2>0, <2>1, <2>5 DEF Live
      <4>2. \A j \in Live : j \in Nat /\ j \in Dirent /\ i <= j
        BY <1>3, <2>0, <2>3, Entries
      <4>3. i \in Nat
        BY Entries
      <4> QED
        BY <4>1, <4>2, <4>3
    <3>2. ~magic' /\ ~mounted' /\ ~wr_open'
      BY <1>3, <2>3 DEF ram
    <3>3. Directory' /\ MapOK'
      BY <3>2 DEF Directory, MapOK
    <3>4. CASE i + 1 \in Dirent
      <4>1. op'.k = "format" /\ op'.at = "gates" /\ op'.i = i + 1
        BY <1>1, <1>2, <2>0, <2>2, <2>3, <2>5, <3>4 DEF OpType
      <4>2. CallOK'
        BY <3>1, <3>2, <4>1 DEF CallOK, Creating, Committing, Deleting, Formatting, Idling
      <4> QED
        BY <1>4, <3>3, <4>2 DEF StoreInv
    <3>5. CASE i + 1 \notin Dirent
      <4>1. op'.k = "format" /\ op'.at = "sb"
        BY <1>1, <1>2, <2>0, <2>2, <2>3, <2>5, <3>5 DEF OpType
      <4>2. Live' = {}
        BY <3>1, <3>5, TfsAssumption DEF Dirent
      <4>3. CallOK'
        BY <3>2, <4>1, <4>2 DEF CallOK, Creating, Committing, Deleting, Formatting, Idling
      <4> QED
        BY <1>4, <3>3, <4>3 DEF StoreInv
    <3> QED
      BY <3>4, <3>5
  <2> QED
    BY <2>4, <2>5
<1>7. CASE FormatDone
  <2>1. /\ op.at = "sb" /\ op' = Idle /\ Live = {} /\ ~magic
        /\ UNCHANGED <<gate, dname, run, len, data, wr_open, w>>
    BY <1>3, <1>7 DEF FormatDone
  <2>2. CASE magic' = FALSE /\ UNCHANGED <<used, mounted>>
    <3>1. magic' = magic
      BY <2>1, <2>2 DEF TypeInv, TypeOK
    <3> QED
      BY <2>1, <2>2, <3>1, Failed DEF ram
  <2>3. CASE used' = {}
    <3>1. Live' = {}
      BY <2>1 DEF Live
    <3>2. Directory' /\ MapOK'
      BY <1>3, <1>4, <1>7, <2>1, <2>3, <3>1
         DEF FormatDone, Directory, MapOK, Consistent, Named, LiveSlots
    <3> QED
      BY <1>4, <2>1, <3>2, Ended DEF StoreInv
  <2> QED
    BY <1>7, <2>2, <2>3 DEF FormatDone, Whole
<1> QED
  BY <1>5, <1>6, <1>7

(* A power cut tears at most a name that is not in use, or a piece.         *)
LEMMA CutSpares ==
  ASSUME TypeInv, StoreInv, Whole, PowerCut
  PROVE  SameDirectory /\ UNCHANGED <<magic, len>>
<1>1. CASE op.at = "name" /\ dname' = [dname EXCEPT ![op.i] = Junk]
           /\ UNCHANGED <<magic, gate, run, len>>
  <2>1. op.k \in {"create", "commit"} /\ op.i \in Dirent
    BY <1>1, NewRun
  <2>2. ~gate[op.i]
    BY <1>1, <2>1 DEF StoreInv, CallOK, Creating, Committing
  <2> QED
    BY <1>1, <2>1, <2>2 DEF SameDirectory, Live, TypeInv, TypeOK
<1>2. CASE UNCHANGED <<magic, gate, dname, run, len>>
  BY <1>2 DEF SameDirectory
<1> QED
  BY <1>1, <1>2 DEF PowerCut, Torn, medium, Whole

(* So the store mounts after it.                                           *)
LEMMA CutKeeps ==
  ASSUME TypeInv, StoreInv, Whole, PowerCut
  PROVE  StoreInv'
<1>1. mounted' = FALSE /\ w' = [h \in Writer |-> Closed] /\ op' = Idle
  BY DEF PowerCut
<1>2. SameDirectory /\ UNCHANGED <<magic, len>>
  BY CutSpares
<1>3. \A h \in Writer : ~w'[h].active
  BY <1>1 DEF Closed
<1>4. Streams' /\ StagedUnseen' /\ MapOK'
  BY <1>1, <1>3 DEF Streams, StagedUnseen, MapOK
<1>5. Directory'
  BY <1>1, <1>2, StillThere, StillConsistent DEF StoreInv, Directory
<1> QED
  BY <1>1, <1>4, <1>5, Ended DEF StoreInv

(* The invariant is inductive.                                             *)
LEMMA StoreStep ==
  ASSUME IInv, Whole, [Next]_vars
  PROVE  IInv'
<1>1. TypeInv' /\ TypeInv /\ StoreInv
  BY TypeStep DEF IInv
<1>2. CASE UNCHANGED vars
  <2>1. UNCHANGED <<magic, gate, dname, run, len, mounted, wr_open, used, w, op>>
    BY <1>2 DEF vars, medium, ram
  <2>2. SameDirectory /\ SameStreams
    BY <1>1, <2>1 DEF SameDirectory, SameStreams, StoreInv, Streams
  <2>3. Streams' /\ Directory' /\ MapOK' /\ StagedUnseen'
    BY <1>1, <2>1, <2>2, Kept
  <2>4. Live' = Live /\ Found(op.n)' = Found(op.n)
    BY <2>1 DEF Live, Found
  <2>5. CallOK'
    BY <1>1, <2>1, <2>4 DEF StoreInv, CallOK, Creating, Committing, Deleting, Formatting,
       Idling, Entering
  <2> QED
    BY <1>1, <2>3, <2>5 DEF IInv, StoreInv
<1>3. CASE Next
  BY <1>1, <1>3, MountKeeps, InitKeeps, CallsKeep, OpenKeeps, ChunkKeeps, AbortKeeps,
     WriteLenKeeps, WriteNameKeeps, WriteRunKeeps, FlipRunKeeps, WriteGateKeeps,
     ClearGateKeeps, FormatKeeps, CutKeeps DEF Next, Stream, Write, IInv
<1> QED
  BY <1>2, <1>3

(* On a backend whose failed writes do not land and which does not erase,   *)
(* every reachable state has the invariant.                                *)
THEOREM Inductive == Whole => (Spec => []IInv)
<1> SUFFICES ASSUME Whole PROVE Spec => []IInv
  OBVIOUS
<1>1. Init => IInv
  BY TypeInit, StoreInit DEF IInv
<1>2. IInv /\ [Next]_vars => IInv'
  BY StoreStep
<1> QED
  BY <1>1, <1>2, PTL DEF Spec

-----------------------------------------------------------------------------
(* The safety properties.                                                  *)

(* A store of one-slot files never holds all the slots: there is one more   *)
(* of them than of entries.                                                *)
LEMMA OneSlotMore ==
  ASSUME TypeInv, \A s \in Slot : \E i \in Live : s \in RunSlots(i),
         \A i \in Live : run[i].span = 1
  PROVE  FALSE
<1>1. NFiles \in Nat /\ Live \subseteq Dirent
  BY TfsAssumption, Entries
<1>2. \A i \in Live : run[i].first \in Nat /\ RunSlots(i) = {run[i].first}
  <2>1. \A i \in Live : run[i].first \in Nat
    BY <1>1, RunNumbers
  <2> QED
    BY <2>1 DEF RunSlots, Slots
<1> DEFINE firsts == {run[i].first : i \in Live}
<1>3. Slot \subseteq firsts
  BY <1>2
<1>4. /\ IsFiniteSet(Dirent) /\ Cardinality(Dirent) = NFiles
      /\ IsFiniteSet(Slot) /\ Cardinality(Slot) = NFiles + 1
  <2>1. /\ 0 \in Int /\ NFiles \in Int /\ NFiles - 1 \in Int
        /\ ~(0 > NFiles) /\ NFiles - 0 + 1 = NFiles + 1
        /\ (IF 0 > NFiles - 1 THEN 0 ELSE (NFiles - 1) - 0 + 1) = NFiles
    BY <1>1
  <2>2. IsFiniteSet(Dirent) /\ Cardinality(Dirent) = NFiles
    BY <2>1, FS_Interval DEF Dirent
  <2>3. IsFiniteSet(Slot) /\ Cardinality(Slot) = NFiles + 1
    BY <2>1, FS_Interval DEF Slot
  <2> QED
    BY <2>2, <2>3
<1>5. IsFiniteSet(Live) /\ Cardinality(Live) <= NFiles /\ Cardinality(Live) \in Nat
  BY <1>1, <1>4, FS_Subset, FS_CardinalityType
<1>6. IsFiniteSet(firsts) /\ Cardinality(firsts) <= Cardinality(Live)
  <2> DEFINE f == [i \in Live |-> run[i].first]
  <2>1. f \in Surjection(Live, firsts)
    BY DEF Surjection
  <2> QED
    BY <1>5, <2>1, FS_Surjection
<1>7. Cardinality(Slot) <= Cardinality(firsts) /\ Cardinality(firsts) \in Nat
  BY <1>3, <1>6, FS_Subset, FS_CardinalityType
<1> QED
  BY <1>1, <1>4, <1>5, <1>6, <1>7

(* What the invariant says between calls is what the properties ask.       *)
LEMMA Consequences ==
  ASSUME IInv
  PROVE  MapExact /\ Mountable /\ CommitFits /\ StagedUnseen /\ ShadowSlot
<1>1. TypeInv /\ StoreInv
  BY DEF IInv
<1>2. MapExact
  <2>1. mounted => used = LiveSlots \cup HeldSlots
    BY <1>1 DEF StoreInv, MapOK
  <2>2. LiveSlots = UNION {RunSlots(i) : i \in Live}
    BY DEF LiveSlots
  <2>3. HeldSlots = UNION {Slots(w[h].first, w[h].span) : h \in {g \in Writer : w[g].active}}
    BY DEF HeldSlots, Held
  <2> QED
    BY <2>1, <2>2, <2>3, Zenon DEF MapExact
<1>3. Mountable /\ StagedUnseen
  BY <1>1 DEF StoreInv, Directory, Mountable
<1>4. CommitFits
  BY <1>1 DEF StoreInv, Streams, CommitFits
<1>5. ShadowSlot
  <2> SUFFICES ASSUME mounted, ~wr_open, \A i \in Live : run[i].span = 1, FreeRuns(1) = {}
               PROVE  FALSE
    BY DEF ShadowSlot
  <2>1. used = LiveSlots
    <3>1. HeldSlots = {}
      BY <1>1 DEF StoreInv, Streams, HeldSlots
    <3> QED
      BY <1>1, <3>1 DEF StoreInv, MapOK
  <2>2. \A s \in Slot : s \in used
    <3>1. \A s \in Slot : s \in Nat /\ s + 1 <= NFiles + 1 /\ Slots(s, 1) = {s}
      BY TfsAssumption DEF Slot, Slots
    <3> QED
      BY <3>1 DEF FreeRuns
  <2>3. \A s \in Slot : \E i \in Live : s \in RunSlots(i)
    BY <2>1, <2>2 DEF LiveSlots
  <2> QED
    BY <1>1, <2>3, OneSlotMore
<1> QED
  BY <1>2, <1>3, <1>4, <1>5

(* Between calls a slot is taken if and only if a live entry or an open     *)
(* stream holds it (tiku_tfs.c, slot_used), whatever has failed or been cut. *)
THEOREM MapAlwaysExact == Whole => (Spec => []MapExact)
BY Inductive, Consequences, PTL

(* A medium with a magic passes the checks of tiku_tfs_mount() at every     *)
(* point of every call.                                                    *)
THEOREM AlwaysMountable == Whole => (Spec => []Mountable)
BY Inductive, Consequences, PTL

(* An open stream finds a directory entry when it commits.                 *)
THEOREM CommitAlwaysFits == Whole => (Spec => []CommitFits)
BY Inductive, Consequences, PTL

(* No directory entry names a slot of what a stream has staged, until the   *)
(* commit that publishes it.                                               *)
THEOREM StagedNeverSeen == Whole => (Spec => []StagedUnseen)
BY Inductive, Consequences, PTL

(* A store of one-slot files always has the slot that replacing one takes.  *)
THEOREM ShadowSlotKept == Whole => (Spec => []ShadowSlot)
BY Inductive, Consequences, PTL

-----------------------------------------------------------------------------
(* The store implements AtomicFiles: what a step leaves to be read.        *)

(* The lowest of one is that one.                                          *)
LEMMA LowestOne ==
  ASSUME NEW i \in Nat
  PROVE  Lowest({i}) = i
<1>1. Lowest({i}) \in {i}
  BY LowestIn
<1> QED
  BY <1>1

\* The slots with no part in a file keep nothing a file shows.
SameContent == \A i \in Live : /\ len'[run[i].first] = len[run[i].first]
                               /\ \A s \in RunSlots(i) : s \in Slot => data'[s] = data[s]

(* A step that leaves the directory as it is, and what is in the runs of    *)
(* live entries, changes no file.                                          *)
LEMMA SameFiles ==
  ASSUME TypeInv, StoreInv, SameDirectory, SameContent, magic' = magic
  PROVE  Files' = Files
<1>1. ASSUME NEW n \in Name
      PROVE  File(n)' = File(n)
  <2>1. Found(n)' = Found(n)
    BY StillThere
  <2>2. CASE ~magic \/ Found(n) = {}
    BY <2>1, <2>2 DEF File
  <2>3. CASE magic /\ Found(n) # {}
    <3>1. PICK i \in Dirent : i = Lowest(Found(n)) /\ i \in Live
      <4>1. Lowest(Found(n)) \in Found(n)
        BY <2>3, Entries, LowestIn
      <4> QED
        BY <4>1, Entries
    <3>2. /\ run'[i] = run[i] /\ len'[run[i].first] = len[run[i].first]
          /\ \A s \in RunSlots(i) : s \in Slot => data'[s] = data[s]
      BY <3>1 DEF SameDirectory, SameContent
    <3>3. \A k \in 1..len[run[i].first] : run[i].first + k - 1 \in RunSlots(i)
      <4>1. /\ run[i].first \in Nat /\ run[i].span \in Nat /\ len[run[i].first] \in Nat
            /\ len[run[i].first] <= run[i].span
        BY <2>3, <3>1, RunNumbers DEF StoreInv, Directory, Consistent, run_check, TypeInv, TypeOK
      <4> QED
        BY <4>1 DEF RunSlots, Slots
    <3>4. \A k \in 1..len[run[i].first] :
            Piece(run[i].first + k - 1)' = Piece(run[i].first + k - 1)
      BY <3>2, <3>3 DEF Piece
    <3>5. File(n) = [k \in 1..len[run[i].first] |-> Piece(run[i].first + k - 1)]
      BY <2>3, <3>1 DEF File
    <3>6. File(n)' = [k \in 1..len'[run'[i].first] |-> Piece(run[i].first + k - 1)']
      BY <2>1, <2>3, <3>1, <3>2 DEF File
    <3> QED
      BY <3>2, <3>4, <3>5, <3>6
  <2> QED
    BY <2>2, <2>3
<1> QED
  BY <1>1 DEF Files

(* A step that leaves the streams, and what they have staged, changes no    *)
(* draft.                                                                  *)
LEMMA SameDrafts ==
  ASSUME \A h \in Writer : UNCHANGED <<w[h].active, w[h].n, w[h].first, w[h].off>>,
         \A h \in Writer : w[h].active =>
            \A k \in 1..w[h].off : UNCHANGED Piece(w[h].first + k - 1)
  PROVE  Drafts' = Drafts
<1>1. \A h \in Writer : Draft(h)' = Draft(h)
  BY DEF Draft
<1> QED
  BY <1>1 DEF Drafts

(* Without a stream there is no draft.                                     *)
LEMMA NoStream ==
  /\ (\A h \in Writer : ~w[h].active) => Drafts = A!NoDraft
  /\ (\A h \in Writer : ~w'[h].active) => Drafts' = A!NoDraft
BY DEF Drafts, Draft, A!NoDraft

(* Without a magic, or without live entries, there is no file.             *)
LEMMA NoStore ==
  /\ (~magic \/ Live = {}) => Files = A!NoFile
  /\ (~magic' \/ Live' = {}) => Files' = A!NoFile
<1>1. /\ \A n : Live = {} => Found(n) = {}
      /\ \A n : Live' = {} => Found(n)' = {}
  BY DEF Found
<1> QED
  BY <1>1 DEF Files, File, A!NoFile

(* A staged content is a sequence, and a draft is not none.                *)
LEMMA DraftThere ==
  ASSUME TypeInv, NEW h \in Writer, w[h].active
  PROVE  /\ Drafts[h] # None /\ Drafts[h].name = w[h].n
         /\ Drafts[h] = [name |-> w[h].n, content |-> [k \in 1..w[h].off |-> Piece(w[h].first + k - 1)]]
         /\ Drafts[h].content = [k \in 1..w[h].off |-> Piece(w[h].first + k - 1)]
         /\ Drafts[h].content \in Seq(Val \cup {Junk}) /\ Len(Drafts[h].content) = w[h].off
<1> DEFINE c == [k \in 1..w[h].off |-> Piece(w[h].first + k - 1)]
<1>1. Drafts[h] = [name |-> w[h].n, content |-> c]
  BY DEF Drafts, Draft
<1>2. w[h].off \in Nat /\ w[h].n \in Name
  BY RunNumbers DEF TypeInv, Naming
<1>3. \A s : Piece(s) \in Val \cup {Junk}
  BY DEF TypeInv, TypeOK, Piece
<1>4. c \in Seq(Val \cup {Junk}) /\ Len(c) = w[h].off
  BY <1>2, <1>3
<1>5. Drafts[h] \in [name : Name, content : Seq(Val \cup {Junk})]
  BY <1>1, <1>2, <1>4
<1>6. Drafts[h] # None
  BY <1>5, TfsAssumption
<1>7. Drafts[h].name = w[h].n /\ Drafts[h].content = c
  BY <1>1
<1>8. Drafts[h].content \in Seq(Val \cup {Junk}) /\ Len(Drafts[h].content) = w[h].off
  BY <1>4, <1>7
<1> QED
  BY <1>1, <1>6, <1>7, <1>8

(* What appending gives.                                                   *)
LEMMA AppendIs ==
  ASSUME NEW S, NEW c \in Seq(S), NEW v \in S
  PROVE  Append(c, v) = [k \in 1..(Len(c) + 1) |-> IF k = Len(c) + 1 THEN v ELSE c[k]]
<1>1. /\ Append(c, v) \in Seq(S) /\ Len(Append(c, v)) = Len(c) + 1 /\ Len(c) \in Nat
      /\ \A k \in 1..Len(c) : Append(c, v)[k] = c[k]
      /\ Append(c, v)[Len(c) + 1] = v
  BY AppendProperties, LenProperties
<1>2. Append(c, v) = [k \in 1..(Len(c) + 1) |-> Append(c, v)[k]]
  BY <1>1, LenProperties
<1>3. \A k \in 1..(Len(c) + 1) : Append(c, v)[k] = IF k = Len(c) + 1 THEN v ELSE c[k]
  BY <1>1
<1> QED
  BY <1>2, <1>3

\* What the abstract map may do meanwhile.
Simulated == A!Next \/ (Files' = Files /\ Drafts' = Drafts)

(* A call begins, or writes where nobody reads, and nothing is seen of it.  *)
LEMMA UnseenSteps ==
  ASSUME TypeInv, StoreInv,
         \/ tiku_tfs_mount \/ tiku_tfs_init
         \/ \E n \in Name : tiku_tfs_create(n) \/ tiku_tfs_delete(n)
         \/ \E h \in Writer : tiku_tfs_commit(h)
         \/ WriteLen \/ WriteName \/ WriteRun
  PROVE  Files' = Files /\ Drafts' = Drafts
<1>1. UNCHANGED <<magic, data, w>>
  BY DEF tiku_tfs_mount, tiku_tfs_init, tiku_tfs_create, tiku_tfs_delete, tiku_tfs_commit,
     WriteLen, WriteName, WriteRun, medium, ram
<1>2. SameDirectory /\ \A i \in Live : len'[run[i].first] = len[run[i].first]
  <2>1. CASE WriteLen
    <3>1. PICK x : len' = [len EXCEPT ![op.first] = x]
      BY <2>1 DEF WriteLen
    <3>2. \A i \in Live : run[i].first # op.first
      BY <2>1, NewRun DEF WriteLen
    <3>3. \A i \in Live : run[i].first \in Slot
      BY Entries DEF TypeInv, TypeOK
    <3>4. len \in [Slot -> 0..TornLen]
      BY DEF TypeInv, TypeOK
    <3>5. \A i \in Live : len'[run[i].first] = len[run[i].first]
      BY <3>1, <3>2, <3>3, <3>4
    <3> QED
      BY <2>1, <3>5 DEF WriteLen, SameDirectory
  <2>2. CASE WriteName
    <3>1. /\ op.at = "name" /\ UNCHANGED <<gate, run, len>>
          /\ \E x : dname' = [dname EXCEPT ![op.i] = x]
      BY <2>2 DEF WriteName
    <3>2. ~gate[op.i]
      BY <3>1, NewRun DEF StoreInv, CallOK, Creating, Committing
    <3> QED
      BY <3>1, <3>2 DEF SameDirectory, Live, TypeInv, TypeOK
  <2>3. CASE WriteRun
    <3>1. /\ ~gate[op.i] /\ UNCHANGED <<gate, dname, len>>
          /\ \E x : run' = [run EXCEPT ![op.i] = x]
      BY <2>3 DEF WriteRun, RunWord
    <3> QED
      BY <3>1 DEF SameDirectory, Live, TypeInv, TypeOK
  <2>4. CASE UNCHANGED <<gate, dname, run, len>>
    BY <2>4 DEF SameDirectory
  <2> QED
    BY <2>1, <2>2, <2>3, <2>4 DEF tiku_tfs_mount, tiku_tfs_init, tiku_tfs_create,
       tiku_tfs_delete, tiku_tfs_commit, medium
<1>3. Files' = Files
  BY <1>1, <1>2, SameFiles DEF SameContent
<1>4. Drafts' = Drafts
  BY <1>1, SameDrafts DEF Piece
<1> QED
  BY <1>3, <1>4

(* A write that fails shows nothing either.                                *)
LEMMA FailureUnseen ==
  ASSUME UNCHANGED <<medium, w>>
  PROVE  Files' = Files /\ Drafts' = Drafts
<1>1. UNCHANGED <<magic, gate, dname, run, len, data, w>>
  BY DEF medium
<1>2. \A n : File(n)' = File(n)
  BY <1>1 DEF File, Found, Live, Piece
<1>3. \A h : Draft(h)' = Draft(h)
  BY <1>1 DEF Draft, Piece
<1> QED
  BY <1>2, <1>3 DEF Files, Drafts

(* An open starts an empty draft.                                          *)
LEMMA OpenSimulated ==
  ASSUME TypeInv, StoreInv, NEW h \in Writer, NEW n \in Name, NEW span \in 1..SpanMax,
         tiku_tfs_open_w(h, n, span)
  PROVE  A!Open(h, n)
<1>1. /\ ~wr_open /\ UNCHANGED <<magic, gate, dname, run, len, data>>
      /\ \E s : w' = [w EXCEPT ![h] = [active |-> TRUE, first |-> s, span |-> span,
                                       off |-> 0, n |-> n]]
  BY DEF tiku_tfs_open_w, medium
<1>2. PICK s : w' = [w EXCEPT ![h] = [active |-> TRUE, first |-> s, span |-> span,
                                      off |-> 0, n |-> n]]
  BY <1>1
<1>3. \A g \in Writer : ~w[g].active
  BY <1>1 DEF StoreInv, Streams
<1>4. /\ w'[h].active /\ w'[h].off = 0 /\ w'[h].n = n
      /\ \A g \in Writer : g # h => ~w'[g].active
  BY <1>2, <1>3 DEF TypeInv, TypeOK
<1>5. Draft(h)' = [name |-> n, content |-> <<>>]
  <2>1. Draft(h)' = [name |-> n, content |-> [k \in 1..0 |-> Piece(w[h].first + k - 1)']]
    BY <1>4 DEF Draft
  <2>2. [k \in 1..0 |-> Piece(w[h].first + k - 1)'] = <<>>
    OBVIOUS
  <2> QED
    BY <2>1, <2>2
<1>6. Drafts' = [Drafts EXCEPT ![h] = [name |-> n, content |-> <<>>]]
  BY <1>3, <1>4, <1>5 DEF Drafts, Draft
<1>7. Files' = Files
  BY <1>1, SameFiles DEF SameDirectory, SameContent
<1> QED
  BY <1>3, <1>6, <1>7, NoStream DEF A!Open

(* An abort discards it.                                                   *)
LEMMA AbortSimulated ==
  ASSUME TypeInv, StoreInv, NEW h \in Writer, tiku_tfs_abort(h)
  PROVE  A!Discard(h)
<1>1. UNCHANGED <<magic, gate, dname, run, len, data>> /\ w' = [w EXCEPT ![h] = Closed]
  BY DEF tiku_tfs_abort, medium
<1>2. ~w'[h].active /\ \A g \in Writer : g # h => w'[g] = w[g]
  BY <1>1 DEF TypeInv, TypeOK, Closed
<1>3. \A s : Piece(s)' = Piece(s)
  BY <1>1 DEF Piece
<1>4. /\ Draft(h)' = None
      /\ \A g \in Writer : g # h => Draft(g)' = Draft(g)
  BY <1>2, <1>3 DEF Draft
<1>5. Drafts' = [Drafts EXCEPT ![h] = None]
  BY <1>4 DEF Drafts
<1>6. Files' = Files
  BY <1>1, SameFiles DEF SameDirectory, SameContent
<1> QED
  BY <1>5, <1>6 DEF A!Discard

(* A slot of a stream's run holds no piece of a file.                      *)
LEMMA StagedApart ==
  ASSUME TypeInv, StoreInv, NEW h \in Writer, w[h].active, w[h].off < w[h].span,
         UNCHANGED <<magic, gate, run, len>>, SameDirectory,
         NEW v \in Val \cup {Junk}, data' = [data EXCEPT ![w[h].first + w[h].off] = v]
  PROVE  Files' = Files
<1> DEFINE s == w[h].first + w[h].off
<1>1. s \in Held(h)
  BY RunNumbers DEF Held, Slots
<1>2. \A i \in Live : s \notin RunSlots(i)
  BY <1>1, HeldSlot
<1>3. \A r \in Slot : r # s => data'[r] = data[r]
  BY DEF TypeInv, TypeOK
<1>4. SameContent
  BY <1>2, <1>3 DEF SameContent
<1> QED
  BY <1>4, SameFiles

(* A chunk adds its piece to the draft, or fails and shows nothing.         *)
LEMMA ChunkSimulated ==
  ASSUME TypeInv, StoreInv, NEW h \in Writer, NEW v \in Val, tiku_tfs_write_chunk(h, v)
  PROVE  A!Add(h, v) \/ (Files' = Files /\ Drafts' = Drafts)
<1>0. PICK a, m, s : a = w[h].first /\ m = w[h].off /\ s = a + m
  OBVIOUS
<1>1. /\ w[h].active /\ w[h].off < w[h].span
      /\ UNCHANGED <<magic, gate, dname, run, len>>
      /\ \/ data' = [data EXCEPT ![s] = v] /\ w' = [w EXCEPT ![h].off = @ + 1]
         \/ data' = [data EXCEPT ![s] = Junk] /\ UNCHANGED w
  BY <1>0 DEF tiku_tfs_write_chunk
<1>2. Files' = Files
  <2>1. SameDirectory
    BY <1>1 DEF SameDirectory
  <2>2. \E x \in Val \cup {Junk} : data' = [data EXCEPT ![w[h].first + w[h].off] = x]
    BY <1>0, <1>1
  <2> QED
    BY <1>1, <2>1, <2>2, StagedApart
<1>3. /\ m \in Nat /\ a \in Nat /\ w[h].span \in Nat /\ w \in [Writer -> HandleType]
      /\ \A g \in Writer : w[g].active => g = h
      /\ a + w[h].span <= NFiles + 1 /\ NFiles \in Nat
      /\ data \in [Slot -> Val \cup {Junk}]
  BY <1>0, <1>1, RunNumbers, TfsAssumption DEF TypeInv, TypeOK, StoreInv, Streams
<1>4. s \in Slot
  BY <1>0, <1>1, <1>3 DEF Slot
<1>5. \A k \in 1..m : Piece(a + k - 1)' = Piece(a + k - 1)
  <2>1. \A k \in 1..m : a + k - 1 # s
    BY <1>0, <1>3
  <2>2. \A r \in Slot : r # s => data'[r] = data[r]
    BY <1>1, <1>3
  <2>3. \A r : r # s => Piece(r)' = Piece(r)
    BY <2>2 DEF Piece
  <2> QED
    BY <2>1, <2>3
<1>6. CASE UNCHANGED w
  <2>1. \A k \in 1..w[h].off : UNCHANGED Piece(w[h].first + k - 1)
    BY <1>0, <1>5, <1>6
  <2>2. Drafts' = Drafts
    BY <1>3, <1>6, <2>1, SameDrafts
  <2> QED
    BY <1>2, <2>2
<1>7. CASE data' = [data EXCEPT ![s] = v] /\ w' = [w EXCEPT ![h].off = @ + 1]
  <2>2. /\ w'[h].active /\ w'[h].n = w[h].n /\ w'[h].first = a /\ w'[h].off = m + 1
        /\ \A g \in Writer : g # h => ~w[g].active /\ ~w'[g].active
    <3>1. w'[h] = [w[h] EXCEPT !.off = @ + 1] /\ \A g \in Writer : g # h => w'[g] = w[g]
      BY <1>3, <1>7
    <3> QED
      BY <1>0, <1>1, <1>3, <3>1 DEF HandleType
  <2> DEFINE c == [k \in 1..m |-> Piece(a + k - 1)]
             d == [k \in 1..(m + 1) |-> IF k = m + 1 THEN v ELSE c[k]]
  <2>3. /\ Drafts[h] # None /\ Drafts[h] = [name |-> w[h].n, content |-> c]
        /\ c \in Seq(Val \cup {Junk}) /\ Len(c) = m
    <3>1. /\ Drafts[h] # None /\ Drafts[h].content = c
          /\ Drafts[h] = [name |-> w[h].n, content |-> c]
          /\ Drafts[h].content \in Seq(Val \cup {Junk}) /\ Len(Drafts[h].content) = m
      BY <1>0, <1>1, DraftThere
    <3> QED
      BY <3>1
  <2>4. Draft(h)' = [name |-> w[h].n, content |-> d]
    <3>1. Draft(h)' = [name |-> w[h].n, content |-> [k \in 1..(m + 1) |-> Piece(a + k - 1)']]
      BY <2>2 DEF Draft
    <3>2. \A k \in 1..(m + 1) : Piece(a + k - 1)' = d[k]
      <4>1. \A k \in 1..m : Piece(a + k - 1)' = c[k]
        BY <1>5
      <4>2. Piece(s)' = v
        BY <1>3, <1>4, <1>7 DEF Piece
      <4>3. a + (m + 1) - 1 = s /\ \A k \in 1..(m + 1) : k # m + 1 => k \in 1..m
        BY <1>0, <1>3
      <4> QED
        BY <4>1, <4>2, <4>3
    <3> QED
      BY <3>1, <3>2
  <2> HIDE DEF c
  <2>5. Append(c, v) = d
    BY <1>3, <2>3, AppendIs
  <2> HIDE DEF d
  <2>6. [Drafts[h] EXCEPT !.content = Append(@, v)] = [name |-> w[h].n, content |-> d]
    <3>1. \A n, x, y : [[name |-> n, content |-> x] EXCEPT !.content = y]
                          = [name |-> n, content |-> y]
      OBVIOUS
    <3>2. Drafts[h].content = c
      BY <2>3
    <3>3. Append(Drafts[h].content, v) = d
      BY <2>5, <3>2
    <3>4. Drafts[h] = [name |-> w[h].n, content |-> c]
      BY <2>3
    <3>5. [Drafts[h] EXCEPT !.content = d] = [name |-> w[h].n, content |-> d]
      BY <3>1, <3>4
    <3> QED
      BY <3>3, <3>5
  <2>7. Drafts' = [Drafts EXCEPT ![h].content = Append(@, v)]
    <3>1. Drafts' = [Drafts EXCEPT ![h] = [name |-> w[h].n, content |-> d]]
      BY <2>2, <2>4 DEF Drafts, Draft
    <3>2. [Drafts EXCEPT ![h].content = Append(@, v)]
            = [Drafts EXCEPT ![h] = [Drafts[h] EXCEPT !.content = Append(@, v)]]
      BY DEF Drafts
    <3> QED
      BY <2>6, <3>1, <3>2
  <2> QED
    BY <1>2, <2>3, <2>7 DEF A!Add
<1> QED
  BY <1>1, <1>6, <1>7

(* What a name reads as once one entry has it.                             *)
LEMMA EntryRead ==
  ASSUME TypeInv, NEW i \in Dirent, NEW n, Found(n)' = {i}, magic', NEW f, NEW m,
         run'[i].first = f, len'[f] = m, data' = data
  PROVE  File(n)' = [k \in 1..m |-> Piece(f + k - 1)]
<1>1. Lowest({i}) = i
  BY Entries, LowestOne
<1>2. File(n)' = [k \in 1..m |-> Piece(f + k - 1)']
  BY <1>1 DEF File
<1>3. \A s : Piece(s)' = Piece(s)
  BY DEF Piece
<1> QED
  BY <1>2, <1>3

(* And if its entries are as they were.                                    *)
LEMMA OthersRead ==
  ASSUME NEW n, Found(n)' = Found(n), \A i \in Found(n) : run'[i] = run[i],
         UNCHANGED <<magic, len, data>>
  PROVE  File(n)' = File(n)
<1>1. CASE ~magic \/ Found(n) = {}
  BY <1>1 DEF File
<1>2. CASE magic /\ Found(n) # {}
  <2>1. PICK i : i = Lowest(Found(n))
    OBVIOUS
  <2>2. run'[i] = run[i]
    <3>1. Lowest(Found(n)) \in Found(n)
      BY <1>2, Entries, LowestIn
    <3> QED
      BY <2>1, <3>1
  <2>3. /\ File(n) = [k \in 1..len[run[i].first] |-> Piece(run[i].first + k - 1)]
        /\ File(n)' = [k \in 1..len[run[i].first] |-> Piece(run[i].first + k - 1)']
    BY <1>2, <2>1, <2>2 DEF File
  <2>4. \A k \in 1..len[run[i].first] :
          Piece(run[i].first + k - 1)' = Piece(run[i].first + k - 1)
    BY <2>2 DEF Piece
  <2> QED
    BY <2>3, <2>4
<1> QED
  BY <1>1, <1>2

(* The step that ends a commit well publishes the draft.                   *)
LEMMA PublishSimulated ==
  ASSUME TypeInv, StoreInv, op.k = "commit", op.at \in {"run", "gate"},
         NEW u, Settled(u), UNCHANGED <<magic, dname, len, data>>,
         NEW i \in Dirent, i = op.i, gate' = [gate EXCEPT ![i] = TRUE],
         run'[i].first = op.first, \A j \in Dirent : j # i => run'[j] = run[j]
  PROVE  A!Publish(op.h)
<1>0. PICK h, n, f, m : h = op.h /\ n = op.n /\ f = op.first /\ m = op.off
  OBVIOUS
<1>1. /\ h \in Writer /\ w[h].active /\ n = w[h].n /\ f = w[h].first /\ m = w[h].off
      /\ len[f] = m
      /\ op.at = "gate" => ~gate[i]
      /\ IF gate[i] THEN i \in Found(n) ELSE Found(n) = {} /\ dname[i] = n
  BY <1>0 DEF StoreInv, CallOK, Committing, Entering
<1>2. magic /\ Named /\ n \in Name
  BY <1>0, NewRun
<1>3. Live' = Live \cup {i} /\ dname[i] = n
  BY <1>1 DEF Live, Found, TypeInv, TypeOK
<1>4. Found(n)' = {i}
  <2>1. \A j \in Found(n) : j = i
    BY <1>1, <1>2, <1>3 DEF Named, Found, Live
  <2> QED
    BY <1>3, <2>1 DEF Found
<1>5. File(n)' = [k \in 1..m |-> Piece(f + k - 1)]
  <2>1. magic' /\ run'[i].first = f /\ len'[f] = m /\ data' = data
    BY <1>0, <1>1, <1>2
  <2> QED
    BY <1>4, <2>1, EntryRead
<1>6. ASSUME NEW x \in Name, x # n
      PROVE  File(x)' = File(x)
  <2>1. Found(x)' = Found(x) /\ i \notin Found(x)
    BY <1>3, <1>6 DEF Found
  <2>2. \A j \in Found(x) : run'[j] = run[j]
    BY <2>1, Entries
  <2> QED
    BY <2>1, <2>2, OthersRead
<1>7. /\ Drafts[h] # None /\ Drafts[h].name = n
      /\ Drafts[h].content = [k \in 1..m |-> Piece(f + k - 1)]
  <2>1. h \in Writer /\ w[h].active /\ n = w[h].n /\ f = w[h].first /\ m = w[h].off
    BY <1>1
  <2> QED
    BY <2>1, DraftThere
<1>8. Files' = [Files EXCEPT ![Drafts[h].name] = Drafts[h].content]
  BY <1>2, <1>5, <1>6, <1>7 DEF Files
<1>9. Drafts' = [Drafts EXCEPT ![h] = None]
  <2>1. \A g \in Writer : ~w'[g].active
    BY Settling
  <2>2. \A g \in Writer : g # h => ~w[g].active
    BY <1>1 DEF StoreInv, Streams
  <2> QED
    BY <2>1, <2>2 DEF Drafts, Draft
<1> QED
  BY <1>0, <1>7, <1>8, <1>9 DEF A!Publish

(* Replacing a file publishes the draft in one word, or nothing is seen.    *)
LEMMA FlipSimulated ==
  ASSUME TypeInv, StoreInv, Whole, FlipRun
  PROVE  Simulated
<1>1. /\ op.at = "run" /\ gate[op.i] /\ UNCHANGED <<magic, gate, dname, len, data>>
      /\ \/ RunWord(TRUE) /\ Settled(used \ RunSlots(op.i))
         \/ RunWord(FALSE) /\ UNCHANGED w
  BY DEF FlipRun, Whole, ram
<1>2. PICK i \in Dirent : i = op.i
  BY <1>1, NewRun
<1>3. op.k = "commit" /\ op.h \in Writer
  BY <1>1, NewRun DEF StoreInv, CallOK, Creating, Committing
<1>4. run \in [Dirent -> [first : Slot, span : 0..(NFiles + 1)]] /\ gate \in [Dirent -> BOOLEAN]
  BY DEF TypeInv, TypeOK
<1>5. CASE RunWord(FALSE) /\ UNCHANGED w
  <2>1. run' = run
    BY <1>2, <1>4, <1>5 DEF RunWord
  <2> QED
    BY <1>1, <1>5, <2>1, FailureUnseen DEF medium, Simulated
<1>6. CASE RunWord(TRUE) /\ Settled(used \ RunSlots(op.i))
  <2>1. run'[i].first = op.first /\ \A j \in Dirent : j # i => run'[j] = run[j]
    BY <1>2, <1>4, <1>6 DEF RunWord
  <2>2. gate' = [gate EXCEPT ![i] = TRUE]
    BY <1>1, <1>2, <1>4
  <2>3. A!Publish(op.h)
    BY <1>1, <1>2, <1>3, <1>6, <2>1, <2>2, PublishSimulated
  <2> QED
    BY <1>3, <2>3 DEF Simulated, A!Next
<1> QED
  BY <1>1, <1>5, <1>6

(* A gate creates an empty file, or publishes the draft, or does not land.  *)
LEMMA GateSimulated ==
  ASSUME TypeInv, StoreInv, Whole, WriteGate
  PROVE  Simulated
<1>1. /\ op.at = "gate" /\ op.k # "delete" /\ UNCHANGED <<magic, dname, run, len, data>>
      /\ \/ /\ gate' = [gate EXCEPT ![op.i] = TRUE]
            /\ IF op.k = "create" THEN UNCHANGED w ELSE Settled(used)
         \/ gate' = [gate EXCEPT ![op.i] = FALSE] /\ UNCHANGED w
  BY DEF WriteGate, Whole, ram
<1>2. PICK i \in Dirent : i = op.i
  BY <1>1, NewRun
<1>3. /\ op.k \in {"create", "commit"} /\ Entering /\ magic /\ op.n \in Name
      /\ gate \in [Dirent -> BOOLEAN]
  BY <1>1, NewRun DEF TypeInv, TypeOK
<1>4. ~gate[i] /\ Found(op.n) = {}
  BY <1>1, <1>2, <1>3 DEF StoreInv, CallOK, Creating, Committing
<1>5. dname[i] = op.n /\ run[i].first = op.first /\ len[op.first] = op.off
  BY <1>1, <1>2, <1>3, <1>4 DEF Entering
<1>6. CASE gate' = [gate EXCEPT ![i] = FALSE] /\ UNCHANGED w
  <2>1. gate' = gate
    BY <1>3, <1>4, <1>6
  <2> QED
    BY <1>1, <1>6, <2>1, FailureUnseen DEF medium, Simulated
<1>7. CASE gate' = [gate EXCEPT ![i] = TRUE] /\ op.k = "commit" /\ Settled(used)
  <2>1. A!Publish(op.h) /\ op.h \in Writer
    BY <1>1, <1>2, <1>5, <1>7, PublishSimulated DEF StoreInv, CallOK, Committing
  <2> QED
    BY <2>1 DEF Simulated, A!Next
<1>8. CASE gate' = [gate EXCEPT ![i] = TRUE] /\ op.k = "create" /\ UNCHANGED w
  <2>0. PICK n \in Name : n = op.n
    BY <1>3
  <2>1. ~wr_open /\ op.off = 0
    BY <1>8 DEF StoreInv, CallOK, Creating
  <2>2. \A h \in Writer : ~w[h].active /\ ~w'[h].active
    BY <1>8, <2>1 DEF StoreInv, Streams
  <2>3. Live' = Live \cup {i}
    BY <1>3, <1>8 DEF Live
  <2>4. Found(n)' = {i} /\ Found(n) = {}
    BY <1>1, <1>4, <1>5, <2>0, <2>3 DEF Found
  <2>5. File(n)' = <<>>
    <3>1. File(n)' = [k \in 1..0 |-> Piece(op.first + k - 1)]
      BY <1>1, <1>3, <1>5, <2>1, <2>4, EntryRead
    <3> QED
      BY <3>1
  <2>6. File(n) = None
    BY <2>4 DEF File
  <2>7. ASSUME NEW x \in Name, x # n
        PROVE  File(x)' = File(x)
    <3>1. Found(x)' = Found(x)
      BY <1>1, <1>5, <2>0, <2>3, <2>7 DEF Found
    <3> QED
      BY <1>1, <3>1, OthersRead
  <2>8. Files[n] = None /\ Files' = [Files EXCEPT ![n] = <<>>]
    BY <2>5, <2>6, <2>7 DEF Files
  <2>9. Drafts = A!NoDraft /\ Drafts' = A!NoDraft
    BY <2>2, NoStream
  <2>10. A!Create(n)
    BY <2>8, <2>9 DEF A!Create
  <2> QED
    BY <2>10 DEF Simulated, A!Next
<1> QED
  BY <1>1, <1>2, <1>3, <1>6, <1>7, <1>8

(* The gate of a delete takes the file away, or does not land.             *)
LEMMA ClearSimulated ==
  ASSUME TypeInv, StoreInv, Whole, ClearGate
  PROVE  Simulated
<1>1. /\ op.at = "gate" /\ op.k = "delete" /\ UNCHANGED <<magic, dname, run, len, data, w>>
      /\ gate' = [gate EXCEPT ![op.i] = FALSE] \/ gate' = [gate EXCEPT ![op.i] = ~FALSE]
  BY DEF ClearGate, Whole
<1>2. /\ mounted /\ ~wr_open /\ gate[op.i] /\ op.i \in Dirent /\ gate \in [Dirent -> BOOLEAN]
      /\ magic /\ Named
  BY <1>1 DEF StoreInv, CallOK, Deleting, Directory, TypeInv, TypeOK, OpType
<1>3. PICK i \in Dirent : i = op.i /\ gate[i]
  BY <1>2
<1>4. CASE gate' = [gate EXCEPT ![i] = ~FALSE]
  <2>1. gate' = gate
    BY <1>2, <1>3, <1>4
  <2> QED
    BY <1>1, <2>1, FailureUnseen DEF medium, Simulated
<1>5. CASE gate' = [gate EXCEPT ![i] = FALSE]
  <2>1. Live' = Live \ {i} /\ i \in Live
    BY <1>2, <1>3, <1>5 DEF Live
  <2>2. PICK n \in Name : n = dname[i]
    BY <1>2, <2>1 DEF Named
  <2>3. Found(n)' = {}
    BY <1>1, <1>2, <2>1, <2>2 DEF Found, Named
  <2>4. File(n)' = None
    BY <2>3 DEF File
  <2>5. ASSUME NEW x \in Name, x # n
        PROVE  File(x)' = File(x)
    <3>1. Found(x)' = Found(x)
      BY <1>1, <2>1, <2>2, <2>5 DEF Found
    <3> QED
      BY <1>1, <3>1, OthersRead
  <2>6. Files' = [Files EXCEPT ![n] = None]
    BY <2>4, <2>5 DEF Files
  <2>7. \A h \in Writer : ~w[h].active /\ ~w'[h].active
    BY <1>1, <1>2 DEF StoreInv, Streams
  <2>8. Drafts = A!NoDraft /\ Drafts' = A!NoDraft
    BY <2>7, NoStream
  <2>9. A!Delete(n)
    BY <2>6, <2>8 DEF A!Delete
  <2> QED
    BY <2>9 DEF Simulated, A!Next
<1> QED
  BY <1>1, <1>3, <1>4, <1>5

(* A format empties the map when the magic goes, and while it is gone       *)
(* nothing more is seen.                                                   *)
LEMMA FormatSimulated ==
  ASSUME TypeInv, StoreInv, Whole, FormatMagic \/ FormatGate \/ FormatDone
  PROVE  Simulated
<1>1. op.at \in {"clear", "gates", "sb"} /\ op \in OpType /\ magic \in BOOLEAN
      /\ UNCHANGED <<dname, run, len, data, w>>
  BY DEF FormatMagic, FormatGate, FormatDone, ram, TypeInv, TypeOK
<1>2. op.k = "format"
  BY <1>1 DEF OpType, StoreInv, CallOK, Creating, Committing, Deleting, Idling, Entering
<1>3. /\ ~wr_open
      /\ op.at # "clear" => ~magic
      /\ op.at = "sb" => Live = {}
  BY <1>2 DEF StoreInv, CallOK, Formatting
<1>4. Drafts = A!NoDraft /\ Drafts' = A!NoDraft
  <2>1. \A h \in Writer : ~w[h].active /\ ~w'[h].active
    BY <1>1, <1>3 DEF StoreInv, Streams
  <2> QED
    BY <2>1, NoStream
<1>5. CASE Files' = A!NoFile
  <2>1. A!Format
    BY <1>4, <1>5 DEF A!Format
  <2> QED
    BY <2>1 DEF Simulated, A!Next
<1>6. CASE FormatMagic
  <2>1. PICK landed \in BOOLEAN :
          magic' = (magic /\ ~landed) /\ UNCHANGED <<gate, dname, run, len, data, ram>>
    BY <1>6 DEF FormatMagic
  <2>2. CASE landed
    <3>1. ~magic'
      BY <2>1, <2>2
    <3> QED
      BY <1>5, <3>1, NoStore
  <2>3. CASE ~landed
    <3>1. magic' = magic
      BY <1>1, <2>1, <2>3
    <3> QED
      BY <2>1, <3>1, FailureUnseen DEF medium, ram, Simulated
  <2> QED
    BY <2>2, <2>3
<1>7. CASE FormatGate
  <2>1. ~magic'
    BY <1>3, <1>7 DEF FormatGate
  <2> QED
    BY <1>5, <2>1, NoStore
<1>8. CASE FormatDone
  <2>1. Live' = {}
    BY <1>3, <1>8 DEF FormatDone, Live
  <2> QED
    BY <1>5, <2>1, NoStore
<1> QED
  BY <1>6, <1>7, <1>8

(* A power cut loses the draft and spares every file, wherever in a call it *)
(* comes and whatever it tears.                                            *)
LEMMA CutSimulated ==
  ASSUME TypeInv, StoreInv, Whole, PowerCut
  PROVE  A!PowerCut
<1>1. SameDirectory /\ UNCHANGED <<magic, len>>
  BY CutSpares
<1>2. w' = [h \in Writer |-> Closed] /\ Torn /\ ~SectorErase
  BY DEF PowerCut, Whole
<1>3. Drafts' = A!NoDraft
  <2>1. \A h \in Writer : ~w'[h].active
    BY <1>2 DEF Closed
  <2> QED
    BY <2>1, NoStream
<1>4. Files' = Files
  <2>1. CASE data' = data
    BY <1>1, <2>1, SameFiles DEF SameContent
  <2>2. ASSUME NEW h \in Writer, w[h].active, w[h].off < w[h].span, UNCHANGED <<gate, run>>,
               data' = [data EXCEPT ![w[h].first + w[h].off] = Junk]
        PROVE  Files' = Files
    BY <1>1, <2>2, StagedApart
  <2> QED
    BY <1>2, <2>1, <2>2 DEF Torn, medium
<1> QED
  BY <1>3, <1>4 DEF A!PowerCut

(* Every step of the store is a step of the atomic map, or is not seen.     *)
LEMMA StepSimulated ==
  ASSUME IInv, Whole, [Next]_vars
  PROVE  Simulated
<1>1. TypeInv /\ StoreInv
  BY DEF IInv
<1>2. CASE UNCHANGED vars
  BY <1>2, FailureUnseen DEF vars, ram, Simulated
<1>3. CASE \/ tiku_tfs_mount \/ tiku_tfs_init
           \/ \E n \in Name : tiku_tfs_create(n) \/ tiku_tfs_delete(n)
           \/ \E h \in Writer : tiku_tfs_commit(h)
           \/ WriteLen \/ WriteName \/ WriteRun
  BY <1>1, <1>3, UnseenSteps DEF Simulated
<1>4. ASSUME NEW h \in Writer, NEW n \in Name, NEW span \in 1..SpanMax, tiku_tfs_open_w(h, n, span)
      PROVE  Simulated
  BY <1>1, <1>4, OpenSimulated DEF Simulated, A!Next
<1>5. ASSUME NEW h \in Writer, NEW v \in Val, tiku_tfs_write_chunk(h, v)
      PROVE  Simulated
  BY <1>1, <1>5, ChunkSimulated DEF Simulated, A!Next
<1>6. ASSUME NEW h \in Writer, tiku_tfs_abort(h)
      PROVE  Simulated
  BY <1>1, <1>6, AbortSimulated DEF Simulated, A!Next
<1>7. CASE FlipRun \/ WriteGate \/ ClearGate \/ FormatMagic \/ FormatGate \/ FormatDone
  BY <1>1, <1>7, FlipSimulated, GateSimulated, ClearSimulated, FormatSimulated
<1>8. CASE PowerCut
  BY <1>1, <1>8, CutSimulated DEF Simulated, A!Next
<1> QED
  BY <1>2, <1>3, <1>4, <1>5, <1>6, <1>7, <1>8 DEF Next, Stream, Write

(* The store implements the atomic map: for any names, pieces, handles and  *)
(* any size of the store, on a backend whose failed writes do not land and  *)
(* which does not erase, a name always reads as what some completed call    *)
(* left there, whatever fails and whenever power goes (tiku_tfs.c).         *)
THEOREM ImplementsAtomicFiles == Whole => (Spec => Atomic)
<1> SUFFICES ASSUME Whole PROVE Spec => Atomic
  OBVIOUS
<1>1. Init => A!Init
  BY NoStream, NoStore DEF Init, Closed, A!Init
<1>2. IInv /\ [Next]_vars => [A!Next]_(A!vars)
  BY StepSimulated DEF Simulated, A!vars
<1> QED
  BY <1>1, <1>2, Inductive, PTL DEF Spec, Atomic, A!Spec

(* A power cut changes no file.                                            *)
THEOREM CutsKeepFiles == Whole => (Spec => CutKeepsFiles)
<1> SUFFICES ASSUME Whole PROVE Spec => CutKeepsFiles
  OBVIOUS
<1>1. IInv /\ [Next]_vars => [PowerCut => Files' = Files]_vars
  BY CutSimulated DEF A!PowerCut, IInv
<1> QED
  BY <1>1, Inductive, PTL DEF Spec, CutKeepsFiles
=============================================================================
