---------------------------- MODULE AtomicCells ----------------------------
(***************************************************************************)
(* What persistent cells promise: a cell shows a whole value, the last one  *)
(* given to it, or nothing.  Only a restart takes a value away, and then    *)
(* the cell is given a value anew, its default if programs prime it.  A     *)
(* frail cell can besides be left torn, until it is given the next value.   *)
(***************************************************************************)
CONSTANTS Cell, Value, Default, Unset, Torn,
  Frail,  \* the cells a loss of power can tear
  Primed  \* the cells that are primed before they are written

VARIABLE shown

Init == shown = [c \in Cell |-> Unset]

Write(c, v) ==
  /\ c \in Primed => shown[c] # Unset
  /\ shown' = [shown EXCEPT ![c] = v]

Prime(c) == shown[c] = Unset /\ shown' = [shown EXCEPT ![c] = Default]

Tear(c) == shown[c] # Unset /\ shown' = [shown EXCEPT ![c] = Torn]

Restart == shown' \in {kept \in [Cell -> Value \cup {Unset, Torn}] :
                         \A c \in Cell : kept[c] \in {shown[c], Unset}}

Next ==
  \/ \E c \in Cell : (\E v \in Value : Write(c, v)) \/ Prime(c)
  \/ \E c \in Frail : Tear(c)
  \/ Restart

Spec == Init /\ [][Next]_shown
=============================================================================
