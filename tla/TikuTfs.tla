------------------------------ MODULE TikuTfs ------------------------------
(***************************************************************************)
(* The Tiku File Store (kernel/fs/tiku_tfs.c): a superblock, a directory    *)
(* and data slots on a non-volatile medium, and an allocation map in RAM.   *)
(*                                                                         *)
(* A call that changes the medium is a sequence of backend writes, each of  *)
(* which may fail, and between which, or during which, power may be lost.   *)
(* "op" is the call under way: which write it does next ("at") and to what. *)
(* A word is written whole or not at all; a name or a piece of content may  *)
(* be torn.  What a call does to the RAM state after its last write happens *)
(* with that write: nothing can come between but a power cut, which loses   *)
(* the RAM.                                                                 *)
(*                                                                         *)
(* Content is a sequence of pieces, each the part of it one slot holds.     *)
(***************************************************************************)
EXTENDS Naturals, Sequences, FiniteSets

CONSTANTS
  Name,      \* file names
  Val,       \* pieces of content
  Writer,    \* the callers' stream handles (tiku_tfs_wr_t)
  None,      \* no name, no content, no writer
  Junk,      \* a torn name or piece
  NFiles,    \* fs->nfiles, the directory entries
  SpanMax,   \* slots of the largest file (TIKU_TFS_FILE_MAX; MSP430: 1)
  LandsOnFailure, \* may a backend write report failure and have landed?
  SectorErase     \* does the backend erase a sector to change a word in it?

ASSUME TfsAssumption ==
  /\ NFiles \in Nat \ {0} /\ SpanMax \in 1..(NFiles + 1)
  /\ None \notin Name \cup Writer /\ Junk \notin Name \cup Val
  /\ None \notin [name : Name, content : Seq(Val \cup {Junk})]
  /\ LandsOnFailure \in BOOLEAN /\ SectorErase \in BOOLEAN

VARIABLES
  (* the medium *)
  magic,     \* the superblock says a store is here
  gate,      \* per directory entry: in use?
  dname,     \* per directory entry: its name
  run,       \* per directory entry: first slot and span
  len,       \* per slot: the length word
  data,      \* per slot: the content it holds
  (* the mount state, in RAM *)
  mounted, wr_open, used, \* of tiku_tfs_t; used is slot_used[]
  w,         \* the handles
  op         \* the call under way

medium == <<magic, gate, dname, run, len, data>>
ram    == <<mounted, wr_open, used, w>>
vars   == <<medium, ram, op>>

Dirent == 0..(NFiles - 1)
Slot   == 0..NFiles          \* fs->nslots = nfiles + 1
TornLen == NFiles + 2        \* an erased length word: above every capacity

Closed == [active |-> FALSE, first |-> 0, span |-> 0, off |-> 0, n |-> None]
Idle   == [k |-> "idle", at |-> "none", i |-> 0, n |-> None, first |-> 0,
           span |-> 0, off |-> 0, h |-> None]

Lowest(S)  == CHOOSE i \in S : \A j \in S : i <= j
Highest(S) == CHOOSE i \in S : \A j \in S : i >= j

-----------------------------------------------------------------------------
(* The directory and the allocation map.                                   *)

Slots(first, span) == first..(first + span - 1)

Live == {i \in Dirent : gate[i]}

Found(n) == {i \in Live : dname[i] = n}

FreeDirents == Dirent \ Live

FreeRuns(span) ==
  {s \in Slot : s + span <= NFiles + 1 /\ Slots(s, span) \cap used = {}}

(* One slot is taken from the bottom up, a longer run from the top down. *)
free_run(span) == IF span = 1 THEN Lowest(FreeRuns(1)) ELSE Highest(FreeRuns(span))

(* Mutant: an empty file needs no slot.                                      *)
run_span_None(n) == n

(* Slots needed for n pieces. *)
run_span_for(n) == IF n = 0 THEN 1 ELSE n

run_check(i) ==
  /\ run[i].span # 0 /\ run[i].first + run[i].span <= NFiles + 1
  /\ len[run[i].first] <= run[i].span

RunSlots(i) == Slots(run[i].first, run[i].span)

(* The checks of tiku_tfs_mount() on the directory. *)
Consistent ==
  /\ \A i \in Live : run_check(i)
  /\ \A i, j \in Live : i # j => RunSlots(i) \cap RunSlots(j) = {}

-----------------------------------------------------------------------------
(* A blank medium.                                                         *)
Init ==
  /\ magic = FALSE /\ gate = [i \in Dirent |-> FALSE]
  /\ dname = [i \in Dirent |-> Junk]
  /\ run = [i \in Dirent |-> [first |-> 0, span |-> 0]]
  /\ len = [s \in Slot |-> TornLen] /\ data = [s \in Slot |-> Junk]
  /\ mounted = FALSE /\ wr_open = FALSE /\ used = {}
  /\ w = [h \in Writer |-> Closed] /\ op = Idle

tiku_tfs_mount ==
  /\ op = Idle /\ ~mounted /\ magic /\ Consistent
  /\ mounted' = TRUE /\ wr_open' = FALSE
  /\ used' = UNION {RunSlots(i) : i \in Live}
  /\ UNCHANGED <<medium, w, op>>

(* tiku_tfs_init(), which mkfs calls unless a stream is open. *)
tiku_tfs_init ==
  /\ op = Idle /\ ~wr_open
  /\ mounted' = FALSE
  /\ op' = [Idle EXCEPT !.k = "format", !.at = "clear"]
  /\ UNCHANGED <<medium, wr_open, used, w>>

-----------------------------------------------------------------------------
(* The calls, up to their first write.                                     *)

(* Mutant: create does not look at wr_open.                                  *)
tiku_tfs_create_Anytime(n) ==
  /\ op = Idle /\ mounted
  /\ Found(n) = {} /\ FreeDirents # {} /\ FreeRuns(1) # {}
  /\ op' = [Idle EXCEPT !.k = "create", !.at = "len", !.i = Lowest(FreeDirents),
                        !.n = n, !.first = free_run(1), !.span = 1]
  /\ UNCHANGED <<medium, ram>>

tiku_tfs_create(n) ==
  /\ op = Idle /\ mounted /\ ~wr_open
  /\ Found(n) = {} /\ FreeDirents # {} /\ FreeRuns(1) # {}
  /\ op' = [Idle EXCEPT !.k = "create", !.at = "len", !.i = Lowest(FreeDirents),
                        !.n = n, !.first = free_run(1), !.span = 1]
  /\ UNCHANGED <<medium, ram>>

(* Mutant: a file that is long enough already is rewritten in place.        *)
tiku_tfs_open_w_InPlace(h, n, span) ==
  /\ op = Idle /\ mounted /\ ~wr_open /\ ~w[h].active
  /\ Found(n) # {} \/ FreeDirents # {}
  /\ FreeRuns(span) # {}
  /\ LET old == {i \in Found(n) : run[i].span = span}
         s   == IF old # {} THEN run[Lowest(old)].first ELSE free_run(span) IN
     /\ used' = used \cup Slots(s, span)
     /\ w' = [w EXCEPT ![h] = [active |-> TRUE, first |-> s, span |-> span,
                               off |-> 0, n |-> n]]
  /\ wr_open' = TRUE
  /\ UNCHANGED <<medium, mounted, op>>

(* max_len asks for span slots; the run is reserved in the RAM map only. *)
tiku_tfs_open_w(h, n, span) ==
  /\ op = Idle /\ mounted /\ ~wr_open /\ ~w[h].active
  /\ Found(n) # {} \/ FreeDirents # {}
  /\ FreeRuns(span) # {}
  /\ LET s == free_run(span) IN
     /\ used' = used \cup Slots(s, span)
     /\ w' = [w EXCEPT ![h] = [active |-> TRUE, first |-> s, span |-> span,
                               off |-> 0, n |-> n]]
  /\ wr_open' = TRUE
  /\ UNCHANGED <<medium, mounted, op>>

(* A chunk whose write fails leaves the stream as it was, what it wrote     *)
(* beyond its end included.                                                 *)
tiku_tfs_write_chunk(h, v) ==
  /\ op = Idle /\ w[h].active /\ w[h].off < w[h].span
  /\ LET s == w[h].first + w[h].off IN
     \/ data' = [data EXCEPT ![s] = v] /\ w' = [w EXCEPT ![h].off = @ + 1]
     \/ data' = [data EXCEPT ![s] = Junk] /\ UNCHANGED w
  /\ UNCHANGED <<magic, gate, dname, run, len, mounted, wr_open, used, op>>

tiku_tfs_commit(h) ==
  /\ op = Idle /\ w[h].active
  /\ op' = [Idle EXCEPT !.k = "commit", !.at = "len", !.n = w[h].n,
                        !.first = w[h].first, !.off = w[h].off, !.h = h,
                        !.span = run_span_for(w[h].off)]
  /\ UNCHANGED <<medium, ram>>

tiku_tfs_abort(h) ==
  /\ op = Idle /\ w[h].active
  /\ used' = used \ Slots(w[h].first, w[h].span)
  /\ w' = [w EXCEPT ![h] = Closed]
  /\ wr_open' = FALSE
  /\ UNCHANGED <<medium, mounted, op>>

tiku_tfs_delete(n) ==
  /\ op = Idle /\ mounted /\ ~wr_open /\ Found(n) # {}
  /\ op' = [Idle EXCEPT !.k = "delete", !.at = "gate", !.i = Lowest(Found(n))]
  /\ UNCHANGED <<medium, ram>>

-----------------------------------------------------------------------------
(* The writes.  One that fails ends the call; it may have landed.          *)

Outcome(next, landed) ==
  \/ landed /\ op' = next
  \/ (landed => LandsOnFailure) /\ op' = Idle

(* Where a commit goes once the length word is down. *)
CommitTarget ==
  IF Found(op.n) # {} THEN [op EXCEPT !.at = "run", !.i = Lowest(Found(op.n))]
  ELSE IF FreeDirents # {} THEN [op EXCEPT !.at = "name", !.i = Lowest(FreeDirents)]
  ELSE Idle

WriteLen ==
  /\ op.at = "len"
  /\ \E landed \in BOOLEAN :
       /\ Outcome(IF op.k = "create" THEN [op EXCEPT !.at = "name"] ELSE CommitTarget, landed)
       /\ len' = [len EXCEPT ![op.first] = IF landed THEN op.off ELSE @]
  /\ UNCHANGED <<magic, gate, dname, run, data, ram>>

WriteName ==
  /\ op.at = "name"
  /\ \/ dname' = [dname EXCEPT ![op.i] = op.n] /\ op' = [op EXCEPT !.at = "run"]
     \/ dname' = [dname EXCEPT ![op.i] = Junk] /\ op' = Idle
  /\ UNCHANGED <<magic, gate, run, len, data, ram>>

RunWord(landed) ==
  run' = [run EXCEPT ![op.i] = IF landed THEN [first |-> op.first, span |-> op.span] ELSE @]

(* The run of a new entry, which its gate will publish. *)
WriteRun ==
  /\ op.at = "run" /\ ~gate[op.i]
  /\ \E landed \in BOOLEAN : RunWord(landed) /\ Outcome([op EXCEPT !.at = "gate"], landed)
  /\ UNCHANGED <<magic, gate, dname, len, data, ram>>

(* Mutants: the tail stays taken; the stream stays open.                     *)
Settled_KeepsTail(u) ==
  used' = u /\ w' = [w EXCEPT ![op.h] = Closed] /\ wr_open' = FALSE /\ UNCHANGED mounted

Settled_StaysOpen(u) ==
  /\ used' = u \ Slots(op.first + op.span, w[op.h].span - op.span)
  /\ wr_open' = FALSE
  /\ UNCHANGED <<mounted, w>>

(* The end of a commit: the reservation's tail is freed, the stream closed. *)
Settled(u) ==
  /\ used' = u \ Slots(op.first + op.span, w[op.h].span - op.span)
  /\ w' = [w EXCEPT ![op.h] = Closed]
  /\ wr_open' = FALSE
  /\ UNCHANGED mounted

(* Mutant: the old run is not reclaimed.                                     *)
FlipRun_NoReclaim ==
  /\ op.at = "run" /\ gate[op.i]
  /\ RunWord(TRUE) /\ Settled(used) /\ op' = Idle
  /\ UNCHANGED <<magic, gate, dname, len, data>>

(* Replacing a file: its entry is pointed at the new run, the old one freed. *)
FlipRun ==
  /\ op.at = "run" /\ gate[op.i]
  /\ \/ RunWord(TRUE) /\ Settled(used \ RunSlots(op.i)) /\ op' = Idle
     \/ \E landed \in BOOLEAN :
          RunWord(landed) /\ (landed => LandsOnFailure) /\ op' = Idle /\ UNCHANGED ram
  /\ UNCHANGED <<magic, gate, dname, len, data>>

(* The gate of a new entry: the file exists from here on. *)
WriteGate ==
  /\ op.at = "gate" /\ op.k # "delete"
  /\ \/ /\ gate' = [gate EXCEPT ![op.i] = TRUE]
        /\ IF op.k = "create"
           THEN used' = used \cup {op.first} /\ UNCHANGED <<mounted, wr_open, w>>
           ELSE Settled(used)
     \/ \E landed \in BOOLEAN :
          /\ gate' = [gate EXCEPT ![op.i] = landed]
          /\ (landed => LandsOnFailure) /\ UNCHANGED ram
  /\ op' = Idle
  /\ UNCHANGED <<magic, dname, run, len, data>>

(* The gate of a deleted entry, and the run it frees. *)
ClearGate ==
  /\ op.at = "gate" /\ op.k = "delete"
  /\ \/ gate' = [gate EXCEPT ![op.i] = FALSE] /\ used' = used \ RunSlots(op.i)
     \/ \E landed \in BOOLEAN :
          /\ gate' = [gate EXCEPT ![op.i] = ~landed]
          /\ (landed => LandsOnFailure) /\ UNCHANGED used
  /\ op' = Idle
  /\ UNCHANGED <<magic, dname, run, len, data, mounted, wr_open, w>>

(* tiku_tfs_format(): the magic goes first and comes back last. *)
FormatMagic ==
  /\ op.at = "clear"
  /\ \E landed \in BOOLEAN :
       magic' = (magic /\ ~landed) /\ Outcome([op EXCEPT !.at = "gates"], landed)
  /\ UNCHANGED <<gate, dname, run, len, data, ram>>

(* Mutant: one entry too many.                                               *)
FormatGate_OneMore ==
  /\ op.at = "gates"
  /\ \E landed \in BOOLEAN :
       /\ gate' = [gate EXCEPT ![op.i] = @ /\ ~landed]
       /\ Outcome(IF op.i \in Dirent THEN [op EXCEPT !.i = @ + 1]
                  ELSE [op EXCEPT !.at = "sb"], landed)
  /\ UNCHANGED <<magic, dname, run, len, data, ram>>

FormatGate ==
  /\ op.at = "gates"
  /\ \E landed \in BOOLEAN :
       /\ gate' = [gate EXCEPT ![op.i] = @ /\ ~landed]
       /\ Outcome(IF op.i + 1 \in Dirent THEN [op EXCEPT !.i = @ + 1]
                  ELSE [op EXCEPT !.at = "sb"], landed)
  /\ UNCHANGED <<magic, dname, run, len, data, ram>>

FormatDone ==
  /\ op.at = "sb"
  /\ \/ magic' = TRUE /\ used' = {} /\ mounted' = TRUE
     \/ \E landed \in BOOLEAN :
          magic' = landed /\ (landed => LandsOnFailure) /\ UNCHANGED <<used, mounted>>
  /\ op' = Idle
  /\ UNCHANGED <<gate, dname, run, len, data, wr_open, w>>

-----------------------------------------------------------------------------
(* Power is lost.  The write under way may have been torn: a name or a      *)
(* piece of content anywhere; on a backend that erases, the whole sector,   *)
(* which for a write of the directory holds the superblock too.             *)

Torn ==
  \/ UNCHANGED medium
  \/ /\ op.at = "name"
     /\ dname' = [dname EXCEPT ![op.i] = Junk]
     /\ UNCHANGED <<magic, gate, run, len, data>>
  \/ /\ op = Idle
     /\ \E h \in Writer :
          /\ w[h].active /\ w[h].off < w[h].span
          /\ data' = [data EXCEPT ![w[h].first + w[h].off] = Junk]
     /\ UNCHANGED <<magic, gate, dname, run, len>>
  \/ /\ SectorErase /\ op.at = "len"
     /\ len'  = [len EXCEPT ![op.first] = TornLen]
     /\ data' = [data EXCEPT ![op.first] = Junk]
     /\ UNCHANGED <<magic, gate, dname, run>>
  \/ /\ SectorErase /\ op.at \in {"name", "run", "gate", "clear", "gates", "sb"}
     /\ magic' = FALSE
     /\ gate'  = [i \in Dirent |-> FALSE]
     /\ dname' = [i \in Dirent |-> Junk]
     /\ UNCHANGED <<run, len, data>>

PowerCut ==
  /\ Torn
  /\ mounted' = FALSE /\ wr_open' = FALSE /\ used' = {}
  /\ w' = [h \in Writer |-> Closed] /\ op' = Idle

-----------------------------------------------------------------------------

Write == WriteLen \/ WriteName \/ WriteRun \/ FlipRun \/ WriteGate \/ ClearGate
         \/ FormatMagic \/ FormatGate \/ FormatDone

Stream(h) == \/ \E n \in Name, span \in 1..SpanMax : tiku_tfs_open_w(h, n, span)
             \/ \E v \in Val : tiku_tfs_write_chunk(h, v)
             \/ tiku_tfs_commit(h) \/ tiku_tfs_abort(h)

Next == \/ tiku_tfs_mount \/ tiku_tfs_init
        \/ \E n \in Name : tiku_tfs_create(n) \/ tiku_tfs_delete(n)
        \/ \E h \in Writer : Stream(h)
        \/ Write \/ PowerCut

Spec == Init /\ [][Next]_vars
-----------------------------------------------------------------------------
(* What the medium holds, and what the open streams have staged.           *)

Piece(s) == IF s \in Slot THEN data[s] ELSE Junk

File(n) ==
  IF ~magic \/ Found(n) = {} THEN None
  ELSE LET first == run[Lowest(Found(n))].first
       IN  [k \in 1..len[first] |-> Piece(first + k - 1)]

Files == [n \in Name |-> File(n)]

Draft(h) ==
  IF ~w[h].active THEN None
  ELSE [name |-> w[h].n,
        content |-> [k \in 1..w[h].off |-> Piece(w[h].first + k - 1)]]

Drafts == [h \in Writer |-> Draft(h)]

A == INSTANCE AtomicFiles WITH file <- Files, draft <- Drafts

-----------------------------------------------------------------------------
(* Properties.                                                             *)

HandleType ==
  [active : BOOLEAN, first : Slot, span : 0..(NFiles + 1), off : 0..(NFiles + 1),
   n : Name \cup {None}]

OpType ==
  [k : {"idle", "format", "create", "commit", "delete"},
   at : {"none", "len", "name", "run", "gate", "clear", "gates", "sb"},
   i : Dirent, n : Name \cup {None}, first : Slot, span : 0..(NFiles + 1),
   off : 0..(NFiles + 1), h : Writer \cup {None}]

(* The types of the medium, of tiku_tfs_t and of the handles.               *)
TypeOK ==
  /\ magic \in BOOLEAN /\ gate \in [Dirent -> BOOLEAN]
  /\ dname \in [Dirent -> Name \cup {Junk}]
  /\ run \in [Dirent -> [first : Slot, span : 0..(NFiles + 1)]]
  /\ len \in [Slot -> 0..TornLen] /\ data \in [Slot -> Val \cup {Junk}]
  /\ mounted \in BOOLEAN /\ wr_open \in BOOLEAN /\ used \subseteq Slot
  /\ w \in [Writer -> HandleType] /\ op \in OpType

(* The store implements the atomic map: whatever fails and whenever power    *)
(* goes, a name reads as what some completed call left there, and a commit   *)
(* publishes exactly the pieces its stream appended (tiku_tfs.c, all of it). *)
Atomic == A!Spec

(* The allocation map is exact between calls: a slot is taken if and only if *)
(* a live entry's run or an open stream's reservation holds it, so that no   *)
(* sequence of failures leaks a slot or hands one out twice.                 *)
MapExact ==
  mounted /\ op = Idle =>
    used = (UNION {RunSlots(i) : i \in Live})
           \cup (UNION {Slots(w[h].first, w[h].span) : h \in {g \in Writer : w[g].active}})

(* A medium with a magic mounts: at no point of any call does a power cut     *)
(* leave a run out of bounds, a length above its run's capacity, or a slot   *)
(* with two names (the checks of tiku_tfs_mount()).                          *)
Mountable == magic => Consistent

(* A stream that was opened finds a directory entry when it commits: nothing *)
(* takes the last one meanwhile (tiku_tfs_create() and the wr_open check).   *)
CommitFits ==
  \A h \in Writer : w[h].active /\ op = Idle =>
    Found(w[h].n) # {} \/ FreeDirents # {}

(* Until its commit has succeeded, no directory entry names a slot of what a *)
(* stream has staged: abort may free it, and a remount forgets it            *)
(* (tiku_tfs.h: "the live directory, which never referenced the staged run"; *)
(* tiku_tfs_abort(): "the file keeps its previous content").                 *)
StagedUnseen ==
  \A h \in Writer, i \in Live :
    w[h].active => RunSlots(i) \cap Slots(w[h].first, w[h].span) = {}

(* A store of one-slot files always has the slot that replacing one takes    *)
(* (tiku_tfs.h: the data slot beyond the file count is the shadow for that). *)
ShadowSlot ==
  mounted /\ op = Idle /\ ~wr_open /\ (\A i \in Live : run[i].span = 1)
  => FreeRuns(1) # {}

(* A power cut changes no file (tiku_tfs.h: every commit is one word, and a  *)
(* power cut before it leaves the previous contents).                        *)
CutKeepsFiles == [][PowerCut => Files' = Files]_vars
=============================================================================
