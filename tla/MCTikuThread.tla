---------------------------- MODULE MCTikuThread ----------------------------
(* Small instances of TikuThread. *)
EXTENDS TikuThread

CONSTANTS a, b

(* a has a budget and waits without limit, b waits with a deadline. *)
OneTimed == [t \in {a, b, Kernel} |-> IF t = a THEN {0} ELSE {1}]
=============================================================================
