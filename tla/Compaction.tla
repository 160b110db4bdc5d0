----------------------------- MODULE Compaction -----------------------------
(***************************************************************************)
(* What the loops that take entries out of a queue or a list leave, defined *)
(* without recursion: the purge and the removal of the event queue           *)
(* (process/tiku_process.c), and the unlinking of timers (timers/           *)
(* tiku_timer.c).  Also the cells of a table that one loop of the boot move  *)
(* handles (memory/tiku_persist_move.c).                                   *)
(***************************************************************************)
EXTENDS Integers, Sequences, FiniteSets

(* The entries of q at the positions in keep, in their order.  A kept entry *)
(* moves to the count of kept entries up to it.                             *)
KeptUpTo(keep, i) == Cardinality({j \in keep : j <= i})

Compact(q, keep) ==
  [n \in 1..Cardinality(keep) |-> q[CHOOSE i \in keep : KeptUpTo(keep, i) = n]]
=============================================================================
