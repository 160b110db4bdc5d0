---------------------------- MODULE AtomicFiles ----------------------------
(***************************************************************************)
(* What the file store promises its callers (tiku_tfs.h): a map from names  *)
(* to contents in which every change happens at once, survives power cuts,  *)
(* and is what its writer appended; an open write is seen by nobody.        *)
(***************************************************************************)
EXTENDS Sequences

CONSTANTS Name, Val, Writer, None

VARIABLES
  file,   \* the content of each name, or None
  draft   \* the open write of each writer, or None

vars == <<file, draft>>

NoFile  == [n \in Name |-> None]
NoDraft == [h \in Writer |-> None]

Init == file = NoFile /\ draft = NoDraft

(* One stream at a time, and no other change while it is open. *)
Create(n) ==
  /\ draft = NoDraft /\ file[n] = None
  /\ file' = [file EXCEPT ![n] = <<>>]
  /\ UNCHANGED draft

Delete(n) ==
  /\ draft = NoDraft
  /\ file' = [file EXCEPT ![n] = None]
  /\ UNCHANGED draft

Open(h, n) ==
  /\ draft = NoDraft
  /\ draft' = [draft EXCEPT ![h] = [name |-> n, content |-> <<>>]]
  /\ UNCHANGED file

Add(h, v) ==
  /\ draft[h] # None
  /\ draft' = [draft EXCEPT ![h].content = Append(@, v)]
  /\ UNCHANGED file

Publish(h) ==
  /\ draft[h] # None
  /\ file'  = [file EXCEPT ![draft[h].name] = draft[h].content]
  /\ draft' = [draft EXCEPT ![h] = None]

Discard(h) ==
  /\ draft' = [draft EXCEPT ![h] = None]
  /\ UNCHANGED file

Format == draft = NoDraft /\ file' = NoFile /\ UNCHANGED draft

PowerCut == draft' = NoDraft /\ UNCHANGED file

Next ==
  \/ Format \/ PowerCut
  \/ \E n \in Name : Create(n) \/ Delete(n)
  \/ \E h \in Writer : Publish(h) \/ Discard(h)
  \/ \E h \in Writer, n \in Name : Open(h, n)
  \/ \E h \in Writer, v \in Val : Add(h, v)

Spec == Init /\ [][Next]_vars
=============================================================================
