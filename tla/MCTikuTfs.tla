----------------------------- MODULE MCTikuTfs -----------------------------
(* Small instances of TikuTfs. *)
EXTENDS TikuTfs, TLC

CONSTANTS n1, n2, n3, x, y, h1, h2

(* Names, pieces and writers are interchangeable: slots and entries are taken *)
(* by their positions alone.                                                  *)
Symmetry == Permutations({n1, n2, n3}) \cup Permutations({x, y}) \cup Permutations({h1, h2})
=============================================================================
