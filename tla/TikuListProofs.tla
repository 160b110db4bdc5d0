--------------------------- MODULE TikuListProofs ---------------------------
(***************************************************************************)
(* Proofs about the list of started processes in TikuProcess and about the  *)
(* broadcasts that walk it: the list stays sound while it is edited under a  *)
(* walk, and a broadcast reaches every process it is due to, none twice.    *)
(*                                                                         *)
(* The list is reasoned about without recursion.  What can be reached from   *)
(* a pointer is what every set holds that contains the pointer's target and  *)
(* is closed under next; a pointer graph has no cycle when no nonempty set   *)
(* of nodes keeps all its pointers inside.                                  *)
(***************************************************************************)
EXTENDS TikuProcessProofs

(* In what follows h is a pointer, nx the next pointers and L a set of nodes.*)
Closed(S, nx) == \A x \in S : nx[x] \in S \cup {NULL}

Reach(h, nx) ==
  {q \in Proc : \A S \in SUBSET Proc :
                  Closed(S, nx) /\ h \in S \cup {NULL} => q \in S}

Acyclic(nx) == \A S \in SUBSET Proc : S # {} => \E x \in S : nx[x] \notin S

(* h heads a list of exactly the nodes L: the list does not leave L, it       *)
(* reaches all of L, and no node of it is pointed at twice.                  *)
Heads(h, nx, L) ==
  /\ h \in L \cup {NULL}
  /\ Closed(L, nx)
  /\ L \subseteq Reach(h, nx)
  /\ \A x, y \in L : nx[x] = nx[y] /\ nx[x] # NULL => x = y
  /\ \A x \in L : nx[x] # NULL => nx[x] # h

-----------------------------------------------------------------------------
(* Reachability.                                                           *)

(* What can be reached is closed under next and contains its start.          *)
LEMMA ReachClosed ==
  ASSUME NEW h \in Proc \cup {NULL}, NEW nx \in [Proc -> Proc \cup {NULL}]
  PROVE  /\ Reach(h, nx) \in SUBSET Proc
         /\ Closed(Reach(h, nx), nx)
         /\ h \in Reach(h, nx) \cup {NULL}
<1>1. ASSUME NEW q \in Reach(h, nx)
      PROVE  nx[q] \in Reach(h, nx) \cup {NULL}
  <2>1. q \in Proc /\ nx[q] \in Proc \cup {NULL}
    BY DEF Reach
  <2>2. ASSUME NEW S \in SUBSET Proc, Closed(S, nx), h \in S \cup {NULL}, nx[q] # NULL
        PROVE  nx[q] \in S
    <3>1. q \in S
      BY <2>2 DEF Reach
    <3> QED
      BY <2>2, <3>1 DEF Closed
  <2> QED
    BY <2>1, <2>2 DEF Reach
<1>2. h \in Reach(h, nx) \cup {NULL}
  BY DEF Reach
<1> QED
  BY <1>1, <1>2 DEF Closed, Reach

(* It is the smallest such set.                                            *)
LEMMA ReachLeast ==
  ASSUME NEW h, NEW nx, NEW S \in SUBSET Proc,
         Closed(S, nx), h \in S \cup {NULL}
  PROVE  Reach(h, nx) \subseteq S
BY DEF Reach

(* From the null pointer nothing is reached.                               *)
LEMMA ReachNull ==
  ASSUME NEW nx
  PROVE  Reach(NULL, nx) = {}
<1>1. Closed({}, nx)
  BY DEF Closed
<1> QED
  BY <1>1, ReachLeast

(* From a node one reaches the node, and what its next pointer reaches.      *)
LEMMA ReachStep ==
  ASSUME NEW p \in Proc, NEW nx \in [Proc -> Proc \cup {NULL}]
  PROVE  Reach(p, nx) = {p} \cup Reach(nx[p], nx)
<1>0. NULL \notin Proc
  BY ProcessAssumption
<1>1. nx[p] \in Proc \cup {NULL}
  OBVIOUS
<1> DEFINE R == Reach(nx[p], nx)
<1>2. R \in SUBSET Proc /\ Closed(R, nx) /\ nx[p] \in R \cup {NULL}
  BY <1>1, ReachClosed
<1>3. Reach(p, nx) \subseteq {p} \cup R
  <2>1. Closed({p} \cup R, nx)
    BY <1>2 DEF Closed
  <2> QED
    BY <1>2, <2>1, ReachLeast
<1>4. Reach(p, nx) \in SUBSET Proc /\ Closed(Reach(p, nx), nx) /\ p \in Reach(p, nx)
  BY <1>0, ReachClosed
<1>5. R \subseteq Reach(p, nx)
  BY <1>4, ReachLeast DEF Closed
<1> QED
  BY <1>3, <1>4, <1>5

(* Without a cycle, no node is reached from its own next pointer.            *)
LEMMA ReachForward ==
  ASSUME NEW p \in Proc, NEW nx \in [Proc -> Proc \cup {NULL}], Acyclic(nx)
  PROVE  p \notin Reach(nx[p], nx)
<1> SUFFICES ASSUME p \in Reach(nx[p], nx) PROVE FALSE
  OBVIOUS
<1> DEFINE T == {x \in Proc : p \in Reach(nx[x], nx)}
<1>1. p \in T /\ T \in SUBSET Proc
  OBVIOUS
<1>2. PICK x \in T : nx[x] \notin T
  BY <1>1 DEF Acyclic
<1>3. nx[x] \in Proc
  <2>1. nx[x] # NULL
    BY ReachNull
  <2> QED
    BY <2>1
<1>4. Reach(nx[x], nx) = {nx[x]} \cup Reach(nx[nx[x]], nx)
  BY <1>3, ReachStep
<1>5. nx[x] = p
  BY <1>2, <1>3, <1>4
<1> QED
  BY <1>1, <1>2, <1>5

-----------------------------------------------------------------------------
(* Linking a node that is not on the list at its head.                       *)

Linked(p, h, nx) == [nx EXCEPT ![p] = h]

(* A set closed under the new pointers holds all of the list if it holds the *)
(* new node, since the list does not lead back to that node.                 *)
LEMMA LinkedHolds ==
  ASSUME NEW h \in Proc \cup {NULL}, NEW nx \in [Proc -> Proc \cup {NULL}],
         NEW L \in SUBSET Proc, Heads(h, nx, L), NEW p \in Proc \ L,
         NEW S \in SUBSET Proc, Closed(S, Linked(p, h, nx)), p \in S
  PROVE  L \subseteq S
<1> DEFINE T == S \cap L
<1>1. ASSUME NEW x \in T
      PROVE  nx[x] \in T \cup {NULL}
  BY DEF Closed, Heads, Linked
<1>2. h \in T \cup {NULL}
  BY DEF Closed, Heads, Linked
<1>3. Reach(h, nx) \subseteq T
  BY <1>1, <1>2, ReachLeast DEF Closed
<1> QED
  BY <1>3 DEF Heads

(* The list grows by the node.                                             *)
LEMMA LinkHeads ==
  ASSUME NEW h \in Proc \cup {NULL}, NEW nx \in [Proc -> Proc \cup {NULL}],
         NEW L \in SUBSET Proc, Heads(h, nx, L), NEW p \in Proc \ L
  PROVE  Heads(p, Linked(p, h, nx), L \cup {p})
<1> USE ProcessAssumption
<1> DEFINE nn == Linked(p, h, nx)
<1>1. nn \in [Proc -> Proc \cup {NULL}] /\ nn[p] = h
      /\ \A x \in L : nn[x] = nx[x]
  BY DEF Linked
<1>2. Closed(L \cup {p}, nn)
  BY <1>1 DEF Closed, Heads
<1>3. L \cup {p} \subseteq Reach(p, nn)
  <2>1. ASSUME NEW S \in SUBSET Proc, Closed(S, nn), p \in S \cup {NULL}
        PROVE  L \cup {p} \subseteq S
    BY <2>1, LinkedHolds
  <2> QED
    BY <2>1 DEF Reach
<1>4. ASSUME NEW x \in L \cup {p}, NEW y \in L \cup {p}, nn[x] = nn[y], nn[x] # NULL
      PROVE  x = y
  BY <1>1, <1>4 DEF Heads
<1>5. ASSUME NEW x \in L \cup {p}, nn[x] # NULL
      PROVE  nn[x] # p
  BY <1>1, <1>5 DEF Heads, Closed
<1> QED
  BY <1>2, <1>3, <1>4, <1>5 DEF Heads

(* No cycle arises, not even among nodes that have left the list.            *)
LEMMA LinkAcyclic ==
  ASSUME NEW h \in Proc \cup {NULL}, NEW nx \in [Proc -> Proc \cup {NULL}],
         NEW L \in SUBSET Proc, Heads(h, nx, L), Acyclic(nx), NEW p \in Proc \ L
  PROVE  Acyclic(Linked(p, h, nx))
<1> USE ProcessAssumption
<1> DEFINE nn == Linked(p, h, nx)
<1>1. nn[p] = h /\ \A x \in Proc \ {p} : nn[x] = nx[x]
  BY DEF Linked
<1>2. ASSUME NEW S \in SUBSET Proc, S # {}, \A x \in S : nn[x] \in S
      PROVE  FALSE
  <2>1. CASE p \notin S
    <3>1. \A x \in S : nx[x] \in S
      BY <1>1, <1>2, <2>1
    <3> QED
      BY <1>2, <3>1 DEF Acyclic
  <2>2. CASE p \in S
    <3> DEFINE T == S \cap L
    <3>1. h \in T
      BY <1>1, <1>2, <2>2 DEF Heads
    <3>2. \A x \in T : nx[x] \in T
      BY <1>1, <1>2 DEF Heads, Closed
    <3> QED
      BY <3>1, <3>2 DEF Acyclic
  <2> QED
    BY <2>1, <2>2
<1> QED
  BY <1>2 DEF Acyclic

(* Whoever walks from pointer f still meets the nodes of the list it was to  *)
(* meet.                                                                   *)
LEMMA LinkReach ==
  ASSUME NEW h \in Proc \cup {NULL}, NEW nx \in [Proc -> Proc \cup {NULL}],
         NEW L \in SUBSET Proc, Heads(h, nx, L), NEW p \in Proc \ L,
         NEW f \in Proc \cup {NULL}
  PROVE  L \cap Reach(f, nx) \subseteq Reach(f, Linked(p, h, nx))
<1> DEFINE nn == Linked(p, h, nx)
<1>1. ASSUME NEW S \in SUBSET Proc, Closed(S, nn), f \in S \cup {NULL}
      PROVE  L \cap Reach(f, nx) \subseteq S
  <2>1. CASE p \in S
    BY <1>1, <2>1, LinkedHolds
  <2>2. CASE p \notin S
    <3>1. Closed(S, nx)
      BY <1>1, <2>2 DEF Closed, Linked
    <3> QED
      BY <1>1, <3>1, ReachLeast
  <2> QED
    BY <2>1, <2>2
<1> QED
  BY <1>1 DEF Reach

-----------------------------------------------------------------------------
(* Unlinking a node p of the list: b is the node that points at p, and h the *)
(* head, when p is not the head.                                            *)

Unlinked(b, p, nx) == [nx EXCEPT ![b] = nx[p]]

(* A node of the list that is not its head is pointed at by one that is.     *)
LEMMA Pointed ==
  ASSUME NEW h \in Proc \cup {NULL}, NEW nx \in [Proc -> Proc \cup {NULL}],
         NEW L \in SUBSET Proc, Heads(h, nx, L), NEW p \in L, p # h
  PROVE  \E b \in L : nx[b] = p
<1> SUFFICES ASSUME \A b \in L : nx[b] # p PROVE FALSE
  OBVIOUS
<1>1. Closed(L \ {p}, nx) /\ h \in (L \ {p}) \cup {NULL}
  BY DEF Closed, Heads
<1>2. Reach(h, nx) \subseteq L \ {p}
  BY <1>1, ReachLeast
<1> QED
  BY <1>2 DEF Heads

(* The list without its head is headed by the next node; the pointers stay.  *)
LEMMA UnlinkFirst ==
  ASSUME NEW nx \in [Proc -> Proc \cup {NULL}], Acyclic(nx),
         NEW L \in SUBSET Proc, NEW p \in L, Heads(p, nx, L)
  PROVE  Heads(nx[p], nx, L \ {p})
<1> USE ProcessAssumption
<1>1. \A x \in L : nx[x] # p
  BY DEF Heads
<1>2. Closed(L \ {p}, nx) /\ nx[p] \in (L \ {p}) \cup {NULL}
  BY <1>1 DEF Heads, Closed
<1>3. L \ {p} \subseteq Reach(nx[p], nx)
  BY ReachStep DEF Heads
<1> QED
  BY <1>2, <1>3 DEF Heads

(* A set closed under the new pointers, with p if it holds b, is closed       *)
(* under the old ones.                                                     *)
LEMMA UnlinkedHolds ==
  ASSUME NEW nx \in [Proc -> Proc \cup {NULL}], NEW p \in Proc, NEW b \in Proc,
         nx[b] = p, b # p, NEW f \in Proc \cup {NULL},
         NEW S \in SUBSET Proc, Closed(S, Unlinked(b, p, nx)), f \in S \cup {NULL}
  PROVE  Reach(f, nx) \ {p} \subseteq S
<1> DEFINE T == IF b \in S THEN S \cup {p} ELSE S
<1>1. Closed(T, nx)
  BY DEF Closed, Unlinked
<1>2. Reach(f, nx) \subseteq T
  BY <1>1, ReachLeast
<1> QED
  BY <1>2

(* Whoever walks from f still meets all it was to meet but p.                *)
LEMMA UnlinkReach ==
  ASSUME NEW nx \in [Proc -> Proc \cup {NULL}], NEW p \in Proc, NEW b \in Proc,
         nx[b] = p, b # p, NEW f \in Proc \cup {NULL}
  PROVE  Reach(f, nx) \ {p} \subseteq Reach(f, Unlinked(b, p, nx))
BY UnlinkedHolds DEF Reach

(* And meets no node it was not to meet.                                   *)
LEMMA UnlinkReachNoMore ==
  ASSUME NEW nx \in [Proc -> Proc \cup {NULL}], NEW p \in Proc, NEW b \in Proc,
         nx[b] = p, NEW f \in Proc \cup {NULL}
  PROVE  Reach(f, Unlinked(b, p, nx)) \subseteq Reach(f, nx)
<1> DEFINE R == Reach(f, nx)
<1>1. R \in SUBSET Proc /\ Closed(R, nx) /\ f \in R \cup {NULL}
  BY ReachClosed
<1>2. Closed(R, Unlinked(b, p, nx))
  <2>1. ASSUME NEW x \in R
        PROVE  Unlinked(b, p, nx)[x] \in R \cup {NULL}
    <3>1. CASE x = b
      <4>1. p \in R
        BY <1>1, <3>1, ProcessAssumption DEF Closed
      <4> QED
        BY <1>1, <3>1, <4>1 DEF Closed, Unlinked
    <3>2. CASE x # b
      BY <1>1, <3>2 DEF Closed, Unlinked
    <3> QED
      BY <3>1, <3>2
  <2> QED
    BY <2>1 DEF Closed
<1> QED
  BY <1>1, <1>2, ReachLeast

(* The list shrinks by p.                                                  *)
LEMMA UnlinkHeads ==
  ASSUME NEW h \in Proc \cup {NULL}, NEW nx \in [Proc -> Proc \cup {NULL}],
         NEW L \in SUBSET Proc, Heads(h, nx, L), Acyclic(nx),
         NEW p \in L, p # h, NEW b \in L, nx[b] = p
  PROVE  /\ b # p
         /\ Heads(h, Unlinked(b, p, nx), L \ {p})
<1> USE ProcessAssumption
<1> DEFINE nn == Unlinked(b, p, nx)
<1>1. b # p
  BY {p} \in SUBSET Proc DEF Acyclic
<1>2. nn[b] = nx[p] /\ \A x \in Proc \ {b} : nn[x] = nx[x]
  BY DEF Unlinked
<1>3. \A x \in L : nx[x] = p => x = b
  BY DEF Heads
<1>4. nx[p] # p
  BY <1>1, <1>3
<1>5. h \in (L \ {p}) \cup {NULL} /\ Closed(L \ {p}, nn)
  BY <1>2, <1>3, <1>4 DEF Heads, Closed
<1>6. L \ {p} \subseteq Reach(h, nn)
  BY <1>1, UnlinkReach DEF Heads
<1>7. ASSUME NEW x \in L \ {p}, NEW y \in L \ {p}, nn[x] = nn[y], nn[x] # NULL
      PROVE  x = y
  BY <1>2, <1>7 DEF Heads
<1>8. ASSUME NEW x \in L \ {p}, nn[x] # NULL
      PROVE  nn[x] # h
  BY <1>2, <1>8 DEF Heads
<1> QED
  BY <1>1, <1>5, <1>6, <1>7, <1>8 DEF Heads

(* No cycle arises.                                                        *)
LEMMA UnlinkAcyclic ==
  ASSUME NEW nx \in [Proc -> Proc \cup {NULL}], Acyclic(nx),
         NEW p \in Proc, NEW b \in Proc, nx[b] = p
  PROVE  Acyclic(Unlinked(b, p, nx))
<1> DEFINE nn == Unlinked(b, p, nx)
<1>1. nn[b] = nx[p] /\ \A x \in Proc \ {b} : nn[x] = nx[x]
  BY DEF Unlinked
<1>2. ASSUME NEW S \in SUBSET Proc, S # {}, \A x \in S : nn[x] \in S
      PROVE  FALSE
  <2> DEFINE T == IF b \in S THEN S \cup {p} ELSE S
  <2>1. \A x \in T : nx[x] \in T
    BY <1>1, <1>2
  <2>2. T \in SUBSET Proc /\ T # {}
    BY <1>2
  <2> HIDE DEF T
  <2> QED
    BY <2>1, <2>2 DEF Acyclic
<1> QED
  BY <1>2 DEF Acyclic

-----------------------------------------------------------------------------
(* The nodes of the list by number.                                        *)

(* What Node's equation makes of a function g.                             *)
Follow(h, nx, n, g) ==
  [k \in 0..n |-> IF k = 0 THEN h ELSE IF g[k-1] = NULL THEN NULL ELSE nx[g[k-1]]]

(* The equation has a solution.                                            *)
LEMMA FollowExists ==
  ASSUME NEW h, NEW nx, NEW n \in Nat
  PROVE  \E g : g = Follow(h, nx, n, g)
<1> DEFINE Bad == {m \in Nat : ~\E g : g = Follow(h, nx, m, g)}
<1> SUFFICES ASSUME Bad # {} PROVE FALSE
  OBVIOUS
<1>1. PICK m \in Bad : \A y \in Bad : m <= y
  <2>1. Bad \in SUBSET Nat
    OBVIOUS
  <2> HIDE DEF Bad
  <2> QED
    BY <2>1, LeastNat
<1>2. CASE m = 0
  <2> DEFINE g == [k \in 0..0 |-> h]
  <2>1. g = Follow(h, nx, 0, g)
    BY DEF Follow
  <2> QED
    BY <1>2, <2>1
<1>3. CASE m # 0
  <2>1. m - 1 \in Nat /\ ~(m <= m - 1)
    BY <1>3
  <2>2. m - 1 \notin Bad
    BY <1>1, <2>1
  <2>3. PICK g0 : g0 = Follow(h, nx, m - 1, g0)
    BY <2>1, <2>2
  <2>4. \A k \in 0..(m - 1) :
          g0[k] = IF k = 0 THEN h ELSE IF g0[k-1] = NULL THEN NULL ELSE nx[g0[k-1]]
    BY <2>3 DEF Follow
  <2> DEFINE last == IF g0[m-1] = NULL THEN NULL ELSE nx[g0[m-1]]
  <2> DEFINE g == [k \in 0..m |-> IF k < m THEN g0[k] ELSE last]
  <2>5. ASSUME NEW k \in 0..m
        PROVE  g[k] = IF k = 0 THEN h ELSE IF g[k-1] = NULL THEN NULL ELSE nx[g[k-1]]
    <3>1. CASE k = m
      <4>1. g[k] = last /\ g[k-1] = g0[m-1] /\ k # 0
        BY <1>3, <2>1, <3>1
      <4> QED
        BY <3>1, <4>1
    <3>2. CASE k # m
      <4>1. k \in 0..(m - 1) /\ k < m
        BY <2>1, <3>2
      <4>2. g[k] = g0[k]
        BY <4>1
      <4>3. k # 0 => g[k-1] = g0[k-1]
        BY <2>1, <4>1
      <4> HIDE DEF g
      <4> QED
        BY <2>4, <4>1, <4>2, <4>3
    <3> QED
      BY <3>1, <3>2
  <2>6. g = [k \in 0..m |-> g[k]]
    OBVIOUS
  <2> HIDE DEF g
  <2>7. g = Follow(h, nx, m, g)
    BY <2>5, <2>6 DEF Follow
  <2> QED
    BY <2>7
<1> QED
  BY <1>2, <1>3

(* So each node is the one its predecessor points at.                        *)
LEMMA NodeFollows == Node = Follow(head, next, Cardinality(Proc), Node)
<1>1. Cardinality(Proc) \in Nat
  BY ProcessAssumption, FS_CardinalityType
<1>2. \E g : g = Follow(head, next, Cardinality(Proc), g)
  BY <1>1, FollowExists
<1>3. Node = CHOOSE g : g = Follow(head, next, Cardinality(Proc), g)
  BY DEF Node, Follow
<1> QED
  BY <1>2, <1>3

(* The numbered nodes are those of the list, and the list ends within as many *)
(* steps as there are processes.                                           *)
LEMMA NodesListed ==
  ASSUME NEW nx \in [Proc -> Proc \cup {NULL}], NEW h \in Proc \cup {NULL},
         NEW L \in SUBSET Proc, Heads(h, nx, L), Acyclic(nx),
         NEW f, f = Follow(h, nx, Cardinality(Proc), f)
  PROVE  /\ DOMAIN f = 0..Cardinality(Proc)
         /\ f[Cardinality(Proc)] = NULL
         /\ \A k \in DOMAIN f : f[k] \in L \cup {NULL}
         /\ \A p \in L : \E k \in DOMAIN f : f[k] = p
<1> USE ProcessAssumption
<1> DEFINE N == Cardinality(Proc)
<1>1. N \in Nat
  BY FS_CardinalityType
<1>2. /\ DOMAIN f = 0..N
      /\ \A k \in 0..N :
           f[k] = IF k = 0 THEN h ELSE IF f[k-1] = NULL THEN NULL ELSE nx[f[k-1]]
  BY DEF Follow
<1>3. \A k \in 0..N : f[k] \in L \cup {NULL}
  <2> DEFINE Bad == {k \in 0..N : f[k] \notin L \cup {NULL}}
  <2> SUFFICES ASSUME Bad # {} PROVE FALSE
    OBVIOUS
  <2>1. PICK k \in Bad : \A y \in Bad : k <= y
    <3>1. Bad \in SUBSET Nat
      OBVIOUS
    <3> HIDE DEF Bad
    <3> QED
      BY <3>1, LeastNat
  <2>2. k # 0
    BY <1>1, <1>2 DEF Heads
  <2>3. k - 1 \in 0..N /\ k - 1 \notin Bad
    BY <1>1, <2>1, <2>2
  <2>4. f[k-1] \in L \cup {NULL}
    BY <2>3
  <2>5. f[k] \in L \cup {NULL}
    BY <1>2, <2>2, <2>4 DEF Heads, Closed
  <2> QED
    BY <2>5
<1>4. f[N] = NULL
  <2> SUFFICES ASSUME f[N] # NULL PROVE FALSE
    OBVIOUS
  <2>1. \A k \in 0..N : f[k] # NULL
    <3> DEFINE Late == {k \in 0..N : f[N - k] = NULL}
    <3>1. Late = {}
      <4> SUFFICES ASSUME Late # {} PROVE FALSE
        OBVIOUS
      <4>1. PICK k \in Late : \A y \in Late : k <= y
        <5>1. Late \in SUBSET Nat
          OBVIOUS
        <5> HIDE DEF Late
        <5> QED
          BY <5>1, LeastNat
      <4>2. k # 0
        BY <1>1
      <4>3. k - 1 \in 0..N /\ k - 1 \notin Late
        BY <1>1, <4>1, <4>2
      <4>4. N - (k - 1) \in 0..N /\ N - (k - 1) # 0 /\ (N - (k - 1)) - 1 = N - k
        BY <1>1, <4>2
      <4>5. f[N - (k - 1)] # NULL
        BY <4>3
      <4>6. f[N - (k - 1)] = NULL
        BY <1>2, <4>4, f[N - k] = NULL
      <4> QED
        BY <4>5, <4>6
    <3>2. ASSUME NEW k \in 0..N
          PROVE  f[k] # NULL
      <4>1. N - k \in 0..N /\ N - (N - k) = k
        BY <1>1
      <4> QED
        BY <3>1, <4>1
    <3> QED
      BY <3>2
  <2>2. f \in [0..N -> Proc]
    <3>1. f = [k \in 0..N |-> f[k]]
      BY <1>2 DEF Follow
    <3> QED
      BY <1>3, <2>1, <3>1
  <2>3. IsFiniteSet(0..N) /\ Cardinality(0..N) = N + 1
    BY <1>1, FS_Interval
  <2>4. PICK i \in 0..N, j \in 0..N : i # j /\ f[i] = f[j]
    <3> DEFINE D == 0..N
    <3>1. Cardinality(Proc) < Cardinality(D) /\ IsFiniteSet(D) /\ f \in [D -> Proc]
      BY <1>1, <2>2, <2>3
    <3>2. IsFiniteSet(Proc)
      OBVIOUS
    <3> HIDE DEF D
    <3>3. \E x, y \in D : x # y /\ f[x] = f[y]
      BY <3>1, <3>2, FS_PigeonHole
    <3> QED
      BY <3>3 DEF D
  <2>5. ASSUME NEW a \in 0..N, NEW b \in 0..N, a < b, f[a] = f[b]
        PROVE  FALSE
    <3> DEFINE S == {f[k] : k \in a..(b - 1)}
    <3>1. S \in SUBSET Proc /\ f[a] \in S
      BY <1>1, <2>2, <2>5
    <3>2. ASSUME NEW k \in a..(b - 1)
          PROVE  nx[f[k]] \in S
      <4>1. k + 1 \in 0..N /\ k + 1 # 0 /\ (k + 1) - 1 = k /\ k \in 0..N
        BY <1>1, <2>5
      <4>2. nx[f[k]] = f[k + 1]
        BY <1>2, <2>1, <4>1
      <4>3. CASE k + 1 = b
        BY <2>5, <3>1, <4>2, <4>3
      <4>4. CASE k + 1 # b
        <5>1. k + 1 \in a..(b - 1)
          BY <1>1, <4>4
        <5> QED
          BY <4>2, <5>1
      <4> QED
        BY <4>3, <4>4
    <3>3. \A x \in S : nx[x] \in S
      BY <3>2
    <3> HIDE DEF S
    <3> QED
      BY <3>1, <3>3 DEF Acyclic
  <2> QED
    BY <1>1, <2>4, <2>5
<1>5. ASSUME NEW p \in L
      PROVE  \E k \in 0..N : f[k] = p
  <2> DEFINE S == {q \in Proc : \E k \in 0..N : f[k] = q}
  <2>1. Closed(S, nx)
    <3>1. ASSUME NEW q \in S
          PROVE  nx[q] \in S \cup {NULL}
      <4>1. PICK k \in 0..N : f[k] = q
        OBVIOUS
      <4>2. q # NULL /\ nx[q] \in Proc \cup {NULL}
        OBVIOUS
      <4>3. k # N
        BY <1>4, <4>1, <4>2
      <4>4. k + 1 \in 0..N /\ k + 1 # 0 /\ (k + 1) - 1 = k
        BY <1>1, <4>3
      <4>5. f[k + 1] = nx[q]
        BY <1>2, <4>1, <4>2, <4>4
      <4> QED
        BY <4>2, <4>4, <4>5
    <3> QED
      BY <3>1 DEF Closed
  <2>2. h \in S \cup {NULL}
    <3>1. 0 \in 0..N /\ f[0] = h
      BY <1>1, <1>2
    <3> QED
      BY <3>1
  <2>3. Reach(h, nx) \subseteq S
    BY <2>1, <2>2, ReachLeast
  <2> QED
    BY <2>3 DEF Heads
<1> QED
  BY <1>2, <1>3, <1>4, <1>5

-----------------------------------------------------------------------------
(* The invariant.                                                          *)

Running == {p \in Proc : running[p]}
Live    == {p \in Proc : running[p] \/ parked[p]}

(* The broadcasts under way on a stack.                                    *)
Walks(st) == {st[i] : i \in {j \in DOMAIN st : st[j].k = "walk"}}

(* ListSound, BroadcastComplete and BroadcastOnce are not inductive: they say *)
(* nothing of where the walks under way stand.  What the steps preserve is   *)
(* that from a walk's next node, which may have left the list meanwhile, the *)
(* pointers still lead to every process the walk owes a visit and to none it *)
(* has visited.  That takes that no pointer of any node, on the list or off  *)
(* it, is on a cycle.                                                      *)
ListInv ==
  /\ Heads(head, next, Live) /\ Acyclic(next)
  /\ \A p \in Proc : parked[p] => ~running[p]
  /\ \A w \in Walks(stack) :
       /\ w.due \subseteq Running \cap Reach(w.p, next)
       /\ Running \cap Reach(w.p, next) \cap w.seen = {}
  /\ "missed" \notin wrong /\ "twice" \notin wrong

(* The invariant gives the list's soundness.                               *)
LEMMA ListInvSound ==
  ASSUME TypeOK, ListInv
  PROVE  ListSound
<1> USE ProcessAssumption
<1>1. /\ DOMAIN Node = 0..Cardinality(Proc)
      /\ Node[Cardinality(Proc)] = NULL
      /\ \A k \in DOMAIN Node : Node[k] \in Live \cup {NULL}
      /\ \A p \in Live : \E k \in DOMAIN Node : Node[k] = p
  <2>1. /\ head \in Proc \cup {NULL} /\ next \in [Proc -> Proc \cup {NULL}]
        /\ Live \in SUBSET Proc
    BY DEF TypeOK, Live
  <2>2. \A f : f = Node => f = Follow(head, next, Cardinality(Proc), f)
    BY NodeFollows
  <2> QED
    BY <2>1, <2>2, NodesListed DEF ListInv
<1> HIDE DEF Node
<1>2. \A p \in Proc : Listed(p) <=> p \in Live
  BY <1>1 DEF Listed
<1> QED
  BY <1>1, <1>2 DEF ListSound, Live

(* A process is found on the list when it runs or was stopped.               *)
LEMMA ListedLive ==
  ASSUME TypeOK, ListInv, NEW p \in Proc
  PROVE  Listed(p) <=> p \in Live
BY ListInvSound DEF ListSound, Live

(* The unlinking of exit takes the node that points at p past it.            *)
LEMMA UnlinkedNextFinds ==
  ASSUME TypeOK, ListInv, NEW p \in Live, head # p
  PROVE  \E b \in Live : next[b] = p /\ UnlinkedNext(p) = Unlinked(b, p, next)
<1> USE ProcessAssumption
<1>1. /\ head \in Proc \cup {NULL} /\ next \in [Proc -> Proc \cup {NULL}]
      /\ Live \in SUBSET Proc /\ Heads(head, next, Live) /\ Acyclic(next)
  BY DEF TypeOK, Live, ListInv
<1>2. /\ DOMAIN Node = 0..Cardinality(Proc)
      /\ \A k \in DOMAIN Node : Node[k] \in Live \cup {NULL}
      /\ \A q \in Live : \E k \in DOMAIN Node : Node[k] = q
  <2>1. \A f : f = Node => f = Follow(head, next, Cardinality(Proc), f)
    BY NodeFollows
  <2> QED
    BY <1>1, <2>1, NodesListed
<1> HIDE DEF Node
<1> DEFINE before == {k \in DOMAIN Node : Node[k] # NULL /\ next[Node[k]] = p}
<1>3. before # {} /\ before \in SUBSET Nat
  <2>1. PICK b \in Live : next[b] = p
    BY <1>1, Pointed
  <2>2. PICK k \in DOMAIN Node : Node[k] = b
    BY <1>2
  <2>3. k \in before
    BY <1>1, <2>1, <2>2
  <2>4. 0..Cardinality(Proc) \in SUBSET Nat
    OBVIOUS
  <2> QED
    BY <1>2, <2>3, <2>4
<1> DEFINE k == CHOOSE i \in before : \A j \in before : i <= j
<1>4. k \in before
  <2> HIDE DEF before
  <2>1. \E i \in before : \A j \in before : i <= j
    BY <1>3, LeastNat
  <2> QED
    BY <2>1
<1>5. Node[k] \in Live /\ next[Node[k]] = p
  BY <1>2, <1>4
<1>6. UnlinkedNext(p) = [next EXCEPT ![Node[k]] = next[p]]
  BY <1>3 DEF UnlinkedNext
<1> HIDE DEF k
<1> QED
  BY <1>5, <1>6 DEF Unlinked

-----------------------------------------------------------------------------
(* What pushing, popping and marking frames does to the broadcasts under way. *)

(* A frame on top adds itself, if it is a broadcast's.                      *)
LEMMA WalksAppend ==
  ASSUME NEW st \in Seq(FrameType), NEW f \in FrameType
  PROVE  Walks(Append(st, f)) = Walks(st) \cup (IF f.k = "walk" THEN {f} ELSE {})
<1> DEFINE n == Len(st)
<1> DEFINE at == Append(st, f)
<1>1. /\ n \in Nat /\ DOMAIN st = 1..n /\ DOMAIN at = 1..(n + 1)
      /\ at[n + 1] = f /\ \A i \in 1..n : at[i] = st[i]
  BY LenProperties, AppendProperties
<1>2. 1..(n + 1) = 1..n \cup {n + 1}
  BY <1>1
<1> HIDE DEF n, at
<1>3. Walks(at) = Walks(st) \cup (IF f.k = "walk" THEN {f} ELSE {})
  BY <1>1, <1>2 DEF Walks
<1> QED
  BY <1>3 DEF at

(* The top frame is a broadcast under way if it is a walk, and the rest are   *)
(* those of its caller.                                                    *)
LEMMA WalksTop ==
  ASSUME stack \in Seq(FrameType), stack # <<>>
  PROVE  /\ Walks(Caller) \subseteq Walks(stack)
         /\ Top.k = "walk" => Top \in Walks(stack)
         /\ Top.k # "walk" => Walks(Caller) = Walks(stack)
<1>1. Len(stack) \in Nat /\ Len(stack) > 0 /\ DOMAIN stack = 1..Len(stack)
  BY StackTop, LenProperties
<1>2. /\ DOMAIN Caller = 1..(Len(stack) - 1)
      /\ \A i \in 1..(Len(stack) - 1) : Caller[i] = stack[i]
  <2>1. \A i \in 1..(Len(stack) - 1) : stack[i] \in FrameType
    BY <1>1, ElementOfSeq
  <2> QED
    BY <1>1, <2>1, SubSeqProperties DEF Caller
<1>3. 1..Len(stack) = 1..(Len(stack) - 1) \cup {Len(stack)}
  BY <1>1
<1>4. Walks(Caller) \subseteq Walks(stack)
  BY <1>1, <1>2, <1>3 DEF Walks
<1>5. Top.k = "walk" => Top \in Walks(stack)
  BY <1>1, <1>3 DEF Walks, Top
<1>6. Top.k # "walk" => Walks(stack) \subseteq Walks(Caller)
  BY <1>1, <1>2, <1>3 DEF Walks, Top
<1> QED
  BY <1>4, <1>5, <1>6

(* A body that spends one of its calls leaves them as they are.              *)
LEMMA WalksSpent ==
  ASSUME TypeOK, stack # <<>>, Top.k # "walk", Top.n > 0
  PROVE  Spent \in Seq(FrameType) /\ Walks(Spent) = Walks(stack)
<1>1. Top \in FrameType /\ Caller \in Seq(FrameType) /\ Spent \in Seq(FrameType)
  BY TopTyped
<1>2. [Top EXCEPT !.n = @ - 1].k = Top.k
  BY <1>1 DEF FrameType
<1>3. [Top EXCEPT !.n = @ - 1] \in FrameType
  <2>1. Top.n - 1 \in 0..MaxOps
    BY <1>1, ProcessAssumption DEF FrameType
  <2> HIDE DEF Top
  <2> QED
    BY <1>1, <2>1 DEF FrameType
<1>4. Walks(Caller) = Walks(stack)
  BY WalksTop DEF TypeOK
<1> QED
  BY <1>1, <1>2, <1>3, <1>4, WalksAppend DEF Spent

(* p's leaving the list excuses every broadcast from visiting it.            *)
LEMMA WalksGone ==
  ASSUME NEW st \in Seq(FrameType), NEW p
  PROVE  \A w \in Walks(Gone(st, p)) :
           \E v \in Walks(st) : w = [v EXCEPT !.due = @ \ {p}]
<1>1. \A i \in DOMAIN st : st[i] \in FrameType
  BY LenProperties, ElementOfSeq
<1>2. \A i \in DOMAIN st : [st[i] EXCEPT !.due = @ \ {p}].k = st[i].k
  BY <1>1 DEF FrameType
<1> SUFFICES ASSUME NEW w \in Walks(Gone(st, p))
             PROVE  \E v \in Walks(st) : w = [v EXCEPT !.due = @ \ {p}]
  OBVIOUS
<1>3. PICK i \in DOMAIN st : w = [st[i] EXCEPT !.due = @ \ {p}] /\ w.k = "walk"
  BY DEF Walks, Gone
<1>4. st[i] \in Walks(st)
  BY <1>2, <1>3 DEF Walks
<1> QED
  BY <1>3, <1>4

(* Its joining forgives every broadcast its repeats.                         *)
LEMMA WalksJoined ==
  ASSUME NEW st \in Seq(FrameType)
  PROVE  \A w \in Walks(Joined(st)) :
           \E v \in Walks(st) : w = [v EXCEPT !.seen = {}]
<1>1. \A i \in DOMAIN st : st[i] \in FrameType
  BY LenProperties, ElementOfSeq
<1>2. \A i \in DOMAIN st : [st[i] EXCEPT !.seen = {}].k = st[i].k
  BY <1>1 DEF FrameType
<1> SUFFICES ASSUME NEW w \in Walks(Joined(st))
             PROVE  \E v \in Walks(st) : w = [v EXCEPT !.seen = {}]
  OBVIOUS
<1>3. PICK i \in DOMAIN st : w = [st[i] EXCEPT !.seen = {}] /\ w.k = "walk"
  BY DEF Walks, Joined
<1>4. st[i] \in Walks(st)
  BY <1>2, <1>3 DEF Walks
<1> QED
  BY <1>3, <1>4

-----------------------------------------------------------------------------
(* A step, as far as the invariant can tell: a process is linked, unlinked,   *)
(* stopped where it stands or resumed where it stands; a walk goes on or     *)
(* ends; or at most a broadcast begins at the head of the list.              *)
Excuses(p) ==
  \A w \in Walks(stack') : \E v \in Walks(stack) : w = [v EXCEPT !.due = @ \ {p}]

Forgives ==
  \A w \in Walks(stack') : \E v \in Walks(stack) : w = [v EXCEPT !.seen = {}]

Links(p) ==
  /\ p \notin Live /\ head' = p /\ next' = Linked(p, head, next)
  /\ running' = [running EXCEPT ![p] = TRUE]
  /\ parked'  = [parked EXCEPT ![p] = FALSE]
  /\ Forgives /\ UNCHANGED wrong

Unlinks(p) ==
  /\ running[p] /\ head' = UnlinkedHead(p) /\ next' = UnlinkedNext(p)
  /\ running' = [running EXCEPT ![p] = FALSE]
  /\ Excuses(p) /\ UNCHANGED <<parked, wrong>>

Parks(p) ==
  /\ running' = [running EXCEPT ![p] = FALSE]
  /\ parked'  = [parked EXCEPT ![p] = @ \/ running[p]]
  /\ Excuses(p) /\ UNCHANGED <<head, next, wrong>>

Unparks(p) ==
  /\ p \in Live
  /\ running' = [running EXCEPT ![p] = TRUE]
  /\ parked'  = [parked EXCEPT ![p] = FALSE]
  /\ Forgives /\ UNCHANGED <<head, next, wrong>>

WalksOn ==
  /\ At("walk") /\ Top.p \in Proc
  /\ \A w \in Walks(stack') :
       \/ w \in Walks(stack)
       \/ w = [Top EXCEPT !.p    = next[Top.p],
                          !.due  = @ \ {Top.p},
                          !.seen = @ \cup {Top.p}]
  /\ wrong' \in {wrong, wrong \cup {"twice"}}
  /\ "twice" \in wrong' => \/ "twice" \in wrong
                           \/ Top.p \in Top.seen /\ running[Top.p]
  /\ UNCHANGED <<head, next, running, parked>>

WalkEnds ==
  /\ At("walk") /\ Top.p = NULL
  /\ Walks(stack') \subseteq Walks(stack)
  /\ wrong' \in {wrong, wrong \cup {"missed"}}
  /\ "missed" \in wrong' => "missed" \in wrong \/ Top.due # {}
  /\ UNCHANGED <<head, next, running, parked>>

Begins ==
  /\ \A w \in Walks(stack') :
       \/ w \in Walks(stack)
       \/ w.p = head /\ w.due \subseteq Running /\ w.seen = {}
  /\ wrong' \in {wrong, wrong \cup {"stale"}}
  /\ UNCHANGED <<head, next, running, parked>>

ListStep ==
  \/ \E p \in Proc : Links(p) \/ Unlinks(p) \/ Parks(p) \/ Unparks(p)
  \/ WalksOn \/ WalkEnds \/ Begins

(* A broadcast under way is typed as its frame is.                         *)
LEMMA WalksTyped ==
  ASSUME TypeOK, NEW w \in Walks(stack)
  PROVE  /\ w \in FrameType /\ w.p \in Proc \cup {NULL}
         /\ w.due \in SUBSET Proc /\ w.seen \in SUBSET Proc
<1>1. w \in FrameType
  BY LenProperties, ElementOfSeq DEF Walks, TypeOK
<1> QED
  BY <1>1 DEF FrameType

(* A broadcast finds its way and repeats no visit, as in ListInv.            *)
OnItsWay(w) ==
  /\ w.due \subseteq Running \cap Reach(w.p, next)
  /\ Running \cap Reach(w.p, next) \cap w.seen = {}

(* Linking keeps the invariant.                                            *)
LEMMA LinksKeep ==
  ASSUME TypeOK, ListInv, NEW p \in Proc, Links(p)
  PROVE  ListInv'
<1>1. /\ head \in Proc \cup {NULL} /\ next \in [Proc -> Proc \cup {NULL}]
      /\ Live \in SUBSET Proc /\ Heads(head, next, Live) /\ Acyclic(next)
      /\ running \in [Proc -> BOOLEAN] /\ parked \in [Proc -> BOOLEAN]
      /\ p \in Proc \ Live
  BY DEF TypeOK, Live, ListInv, Links
<1>2. Live' = Live \cup {p} /\ Running \subseteq Running'
  BY <1>1 DEF Links, Live, Running
<1>3. Heads(head', next', Live') /\ Acyclic(next')
  BY <1>1, <1>2, LinkHeads, LinkAcyclic DEF Links
<1>4. \A q \in Proc : parked'[q] => ~running'[q]
  BY <1>1 DEF Links, ListInv
<1>5. ASSUME NEW w \in Walks(stack')
      PROVE  OnItsWay(w)'
  <2>1. PICK v \in Walks(stack) : w = [v EXCEPT !.seen = {}]
    BY DEF Links, Forgives
  <2>2. /\ v \in FrameType /\ v.p \in Proc \cup {NULL}
        /\ v.due \subseteq Running \cap Reach(v.p, next)
    BY WalksTyped DEF ListInv
  <2>3. w.p = v.p /\ w.due = v.due /\ w.seen = {}
    BY <2>1, <2>2 DEF FrameType
  <2>4. Live \cap Reach(v.p, next) \subseteq Reach(v.p, next')
    BY <1>1, <2>2, LinkReach DEF Links
  <2>5. Running \subseteq Live
    BY DEF Running, Live
  <2> QED
    BY <1>2, <2>2, <2>3, <2>4, <2>5 DEF OnItsWay
<1> QED
  BY <1>3, <1>4, <1>5 DEF ListInv, Links, OnItsWay

(* Unlinking does, although walks may stand at the node or behind it.        *)
LEMMA UnlinksKeep ==
  ASSUME TypeOK, ListInv, NEW p \in Proc, Unlinks(p)
  PROVE  ListInv'
<1> USE ProcessAssumption
<1>1. /\ head \in Proc \cup {NULL} /\ next \in [Proc -> Proc \cup {NULL}]
      /\ Live \in SUBSET Proc /\ Heads(head, next, Live) /\ Acyclic(next)
      /\ running \in [Proc -> BOOLEAN] /\ parked \in [Proc -> BOOLEAN]
      /\ p \in Live
  BY DEF TypeOK, Live, ListInv, Unlinks
<1>2. Live' = Live \ {p} /\ Running' = Running \ {p}
  BY <1>1 DEF Unlinks, Live, Running, ListInv
<1>3. /\ Heads(head', next', Live') /\ Acyclic(next')
      /\ \A f \in Proc \cup {NULL} :
           /\ Reach(f, next) \ {p} \subseteq Reach(f, next')
           /\ Reach(f, next') \subseteq Reach(f, next)
  <2>1. CASE head = p
    <3>1. head' = next[p] /\ next' = next
      BY <2>1 DEF Unlinks, UnlinkedHead, UnlinkedNext
    <3> QED
      BY <1>1, <1>2, <2>1, <3>1, UnlinkFirst
  <2>2. CASE head # p
    <3>1. PICK b \in Live : next[b] = p /\ next' = Unlinked(b, p, next)
      BY <1>1, <2>2, UnlinkedNextFinds DEF Unlinks
    <3>2. head' = head
      BY <2>2 DEF Unlinks, UnlinkedHead
    <3>3. b \in Proc /\ b # p /\ Heads(head, next', Live \ {p})
      BY <1>1, <2>2, <3>1, UnlinkHeads
    <3>4. Acyclic(next')
      BY <1>1, <3>1, <3>3, UnlinkAcyclic
    <3>5. \A f \in Proc \cup {NULL} :
            /\ Reach(f, next) \ {p} \subseteq Reach(f, next')
            /\ Reach(f, next') \subseteq Reach(f, next)
      BY <1>1, <3>1, <3>3, UnlinkReach, UnlinkReachNoMore
    <3> QED
      BY <1>2, <3>2, <3>3, <3>4, <3>5
  <2> QED
    BY <2>1, <2>2
<1>4. \A q \in Proc : parked'[q] => ~running'[q]
  BY <1>1 DEF Unlinks, ListInv
<1>5. ASSUME NEW w \in Walks(stack')
      PROVE  OnItsWay(w)'
  <2>1. PICK v \in Walks(stack) : w = [v EXCEPT !.due = @ \ {p}]
    BY DEF Unlinks, Excuses
  <2>2. /\ v \in FrameType /\ v.p \in Proc \cup {NULL} /\ OnItsWay(v)
    BY WalksTyped DEF ListInv, OnItsWay
  <2>3. w.p = v.p /\ w.due = v.due \ {p} /\ w.seen = v.seen
    BY <2>1, <2>2 DEF FrameType
  <2>4. /\ Reach(v.p, next) \ {p} \subseteq Reach(v.p, next')
        /\ Reach(v.p, next') \subseteq Reach(v.p, next)
    BY <1>3, <2>2
  <2> QED
    BY <1>2, <2>2, <2>3, <2>4 DEF OnItsWay
<1> QED
  BY <1>3, <1>4, <1>5 DEF ListInv, Unlinks, OnItsWay

(* So do stopping a process and resuming it where it stands on the list.     *)
LEMMA ParksKeep ==
  ASSUME TypeOK, ListInv, NEW p \in Proc, Parks(p) \/ Unparks(p)
  PROVE  ListInv'
<1>1. /\ running \in [Proc -> BOOLEAN] /\ parked \in [Proc -> BOOLEAN]
      /\ UNCHANGED <<head, next, wrong>>
  BY DEF TypeOK, Parks, Unparks
<1>2. Live' = Live
  <2>1. \A q \in Proc : running'[q] \/ parked'[q] <=> running[q] \/ parked[q]
    BY <1>1 DEF Parks, Unparks, Live
  <2> QED
    BY <2>1 DEF Live
<1>3. \A q \in Proc : parked'[q] => ~running'[q]
  BY <1>1 DEF Parks, Unparks, ListInv
<1>4. ASSUME NEW w \in Walks(stack')
      PROVE  OnItsWay(w)'
  <2>1. CASE Parks(p)
    <3>1. PICK v \in Walks(stack) : w = [v EXCEPT !.due = @ \ {p}]
      BY <2>1 DEF Parks, Excuses
    <3>2. v \in FrameType /\ OnItsWay(v)
      BY WalksTyped DEF ListInv, OnItsWay
    <3>3. w.p = v.p /\ w.due = v.due \ {p} /\ w.seen = v.seen
      BY <3>1, <3>2 DEF FrameType
    <3>4. Running' = Running \ {p}
      BY <1>1, <2>1 DEF Parks, Running
    <3> QED
      BY <1>1, <3>2, <3>3, <3>4 DEF OnItsWay
  <2>2. CASE Unparks(p)
    <3>1. PICK v \in Walks(stack) : w = [v EXCEPT !.seen = {}]
      BY <2>2 DEF Unparks, Forgives
    <3>2. v \in FrameType /\ OnItsWay(v)
      BY WalksTyped DEF ListInv, OnItsWay
    <3>3. w.p = v.p /\ w.due = v.due /\ w.seen = {}
      BY <3>1, <3>2 DEF FrameType
    <3>4. Running \subseteq Running'
      BY <1>1, <2>2 DEF Unparks, Running
    <3> QED
      BY <1>1, <3>2, <3>3, <3>4 DEF OnItsWay
  <2> QED
    BY <2>1, <2>2
<1> QED
  BY <1>1, <1>2, <1>3, <1>4 DEF ListInv, OnItsWay

(* A walk that goes on has visited its node, and does not come back to it.   *)
LEMMA WalksOnKeeps ==
  ASSUME TypeOK, ListInv, WalksOn
  PROVE  ListInv'
<1> USE ProcessAssumption
<1>1. /\ next \in [Proc -> Proc \cup {NULL}] /\ Acyclic(next)
      /\ UNCHANGED <<head, next, running, parked>> /\ Top.p \in Proc
      /\ Live' = Live /\ Running' = Running
  BY DEF TypeOK, ListInv, WalksOn, Live, Running
<1>2. Top \in Walks(stack) /\ Top \in FrameType /\ OnItsWay(Top)
  <2>1. stack # <<>> /\ Top.k = "walk"
    BY DEF WalksOn, At
  <2>2. Top \in Walks(stack)
    BY <2>1, WalksTop DEF TypeOK
  <2> QED
    BY <2>2, WalksTyped DEF ListInv, OnItsWay
<1> DEFINE over == [Top EXCEPT !.p    = next[Top.p],
                               !.due  = @ \ {Top.p},
                               !.seen = @ \cup {Top.p}]
<1>3. OnItsWay(over)
  <2>1. /\ over.p = next[Top.p] /\ over.due = Top.due \ {Top.p}
        /\ over.seen = Top.seen \cup {Top.p}
    BY <1>2 DEF FrameType
  <2>2. /\ Reach(Top.p, next) = {Top.p} \cup Reach(next[Top.p], next)
        /\ Top.p \notin Reach(next[Top.p], next)
    BY <1>1, ReachStep, ReachForward
  <2> QED
    BY <1>2, <2>1, <2>2 DEF OnItsWay
<1>4. ASSUME NEW w \in Walks(stack')
      PROVE  OnItsWay(w)
  <2>1. w \in Walks(stack) \/ w = over
    BY DEF WalksOn
  <2> QED
    BY <1>3, <2>1 DEF ListInv, OnItsWay
<1>5. ~(Top.p \in Top.seen /\ running[Top.p])
  <2>1. Top.p \in Reach(Top.p, next)
    BY <1>1, ReachStep
  <2> QED
    BY <1>1, <1>2, <2>1 DEF OnItsWay, Running
<1>6. "missed" \notin wrong' /\ "twice" \notin wrong'
  BY <1>5 DEF WalksOn, ListInv
<1> QED
  BY <1>1, <1>4, <1>6 DEF ListInv, OnItsWay

(* A walk that ends owes no visit.                                         *)
LEMMA WalkEndsKeeps ==
  ASSUME TypeOK, ListInv, WalkEnds
  PROVE  ListInv'
<1>1. /\ UNCHANGED <<head, next, running, parked>>
      /\ Live' = Live /\ Running' = Running
  BY DEF WalkEnds, Live, Running
<1>2. Top.due = {}
  <2>1. stack # <<>> /\ Top.k = "walk" /\ Top.p = NULL
    BY DEF WalkEnds, At
  <2>2. Top \in Walks(stack)
    BY <2>1, WalksTop DEF TypeOK
  <2>3. Top.due \subseteq Reach(NULL, next)
    BY <2>1, <2>2 DEF ListInv
  <2> QED
    BY <2>3, ReachNull
<1>3. "missed" \notin wrong' /\ "twice" \notin wrong'
  BY <1>2 DEF WalkEnds, ListInv
<1>4. \A w \in Walks(stack') : w \in Walks(stack)
  BY DEF WalkEnds
<1> QED
  BY <1>1, <1>3, <1>4 DEF ListInv

(* A broadcast that begins can reach the whole list.                       *)
LEMMA BeginsKeeps ==
  ASSUME ListInv, Begins
  PROVE  ListInv'
<1>1. /\ UNCHANGED <<head, next, running, parked>>
      /\ Live' = Live /\ Running' = Running
  BY DEF Begins, Live, Running
<1>2. Running \subseteq Reach(head, next)
  BY DEF Running, Live, ListInv, Heads
<1>3. ASSUME NEW w \in Walks(stack')
      PROVE  OnItsWay(w)
  BY <1>2 DEF Begins, ListInv, OnItsWay
<1>4. "missed" \notin wrong' /\ "twice" \notin wrong'
  BY DEF Begins, ListInv
<1> QED
  BY <1>1, <1>3, <1>4 DEF ListInv, OnItsWay

(* Every such step preserves the invariant.                                 *)
LEMMA ListInvStep ==
  ASSUME TypeOK, ListInv, ListStep
  PROVE  ListInv'
BY LinksKeep, UnlinksKeep, ParksKeep, WalksOnKeeps, WalkEndsKeeps, BeginsKeeps
   DEF ListStep

-----------------------------------------------------------------------------
(* Every step of the process layer is such a step, where callers leave        *)
(* stopped processes alone.                                                *)

(* A step that leaves the list and the run flags alone, pushes no broadcast   *)
(* and records no wrong delivery.                                          *)
Quiet == /\ Walks(stack') \subseteq Walks(stack)
         /\ UNCHANGED <<head, next, running, parked, wrong>>

(* It is one of the steps above.                                            *)
LEMMA QuietLists == ASSUME Quiet PROVE ListStep
BY DEF Quiet, ListStep, Begins

(* A start links a process that is not on the list, or does nothing.         *)
LEMMA StartLists ==
  ASSUME StartParked = FALSE, TypeOK, NEW p \in Proc, NEW st \in Seq(FrameType),
         Walks(st) \subseteq Walks(stack),
         tiku_process_start(p, st), UNCHANGED wrong
  PROVE  ListStep
<1>1. CASE running[p]
  BY <1>1, QuietLists DEF tiku_process_start, Quiet, list
<1>2. CASE ~running[p]
  <2>1. ~parked[p] /\ Link(p, st)
    BY <1>2 DEF tiku_process_start
  <2> DEFINE f == Frame("init", p, "INIT")
  <2>2. f \in FrameType /\ f.k # "walk"
    BY FrameTyped DEF Frame, Ev
  <2>3. Joined(st) \in Seq(FrameType)
    BY GoneJoinedTyped
  <2> HIDE DEF f
  <2>4. Walks(Append(Joined(st), f)) = Walks(Joined(st))
    BY <2>2, <2>3, WalksAppend
  <2>5. Forgives
    <3>1. stack' = Append(Joined(st), f)
      BY <2>1 DEF Link, f
    <3>2. \A w \in Walks(Joined(st)) : \E v \in Walks(st) : w = [v EXCEPT !.seen = {}]
      BY WalksJoined
    <3> QED
      BY <2>4, <3>1, <3>2 DEF Forgives
  <2>6. Links(p)
    BY <1>2, <2>1, <2>5 DEF Link, Links, Live, Linked
  <2> QED
    BY <2>6 DEF ListStep
<1> QED
  BY <1>1, <1>2

(* An exit unlinks a process that runs, or does nothing.                     *)
LEMMA ExitLists ==
  ASSUME TypeOK, NEW p \in Proc, NEW why, NEW st \in Seq(FrameType),
         Walks(st) \subseteq Walks(stack),
         tiku_process_exit(p, why, st), UNCHANGED wrong
  PROVE  ListStep
<1>1. CASE ~running[p]
  BY <1>1, QuietLists DEF tiku_process_exit, Quiet, list
<1>2. CASE running[p]
  <2> DEFINE f == Frame("exited", p, "EXITED")
  <2>1. f \in FrameType /\ f.k # "walk"
    BY FrameTyped DEF Frame, Ev
  <2>2. Gone(st, p) \in Seq(FrameType) /\ stack' = Append(Gone(st, p), f)
    BY <1>2, GoneJoinedTyped DEF tiku_process_exit
  <2> HIDE DEF f
  <2>3. Walks(stack') = Walks(Gone(st, p))
    BY <2>1, <2>2, WalksAppend
  <2>4. Excuses(p)
    <3>1. \A w \in Walks(Gone(st, p)) :
            \E v \in Walks(st) : w = [v EXCEPT !.due = @ \ {p}]
      BY WalksGone
    <3> QED
      BY <2>3, <3>1 DEF Excuses
  <2>5. Unlinks(p)
    BY <1>2, <2>4 DEF tiku_process_exit, Unlinks
  <2> QED
    BY <2>5 DEF ListStep
<1> QED
  BY <1>1, <1>2

(* A dispatch begins a broadcast at the head of the list, or none.           *)
LEMMA DispatchLists ==
  ASSUME TypeOK, NEW i \in DOMAIN queue, NEW skip \in Proc \cup {NULL},
         NEW st \in Seq(FrameType), Walks(st) \subseteq Walks(stack),
         Dispatch(i, skip, st)
  PROVE  ListStep
<1> USE ProcessAssumption
<1> DEFINE e == queue[i]
<1>1. e \in Entry
  BY LenProperties, ElementOfSeq DEF TypeOK
<1>2. UNCHANGED <<head, next, running, parked>> /\ wrong' \in {wrong, wrong \cup {"stale"}}
  BY DEF Dispatch, list
<1>3. CASE stack' = st
  BY <1>2, <1>3 DEF ListStep, Begins
<1>4. CASE e.p # NULL /\ stack' = Append(st, Frame("call", e.p, e.ev))
  <2> DEFINE f == Frame("call", e.p, e.ev)
  <2>1. f \in FrameType /\ f.k # "walk"
    BY <1>1, <1>4, FrameTyped DEF Entry, Frame
  <2> HIDE DEF f
  <2>2. Walks(stack') = Walks(st)
    BY <1>4, <2>1, WalksAppend DEF f
  <2> QED
    BY <1>2, <2>2 DEF ListStep, Begins
<1>5. CASE stack' = Append(st, [Frame("walk", head, e.ev) EXCEPT
                 !.skip = skip, !.due = {p \in Proc : running[p]} \ {skip}])
  <2> DEFINE f == [Frame("walk", head, e.ev) EXCEPT
                 !.skip = skip, !.due = {p \in Proc : running[p]} \ {skip}]
  <2>1. f \in FrameType
    <3>1. e.ev \in Ev /\ head \in Proc \cup {NULL} /\ Shell \in Proc
      BY <1>1 DEF Entry, TypeOK
    <3>2. {p \in Proc : running[p]} \ {skip} \in SUBSET Proc
      OBVIOUS
    <3> QED
      BY <3>1, <3>2, WideFrameTyped
  <2>2. f.p = head /\ f.due \subseteq Running /\ f.seen = {}
    BY DEF Frame, Running
  <2> HIDE DEF f
  <2>3. Walks(stack') \subseteq Walks(st) \cup {f}
    BY <1>5, <2>1, WalksAppend DEF f
  <2>4. \A w \in Walks(stack') :
          \/ w \in Walks(stack)
          \/ w.p = head /\ w.due \subseteq Running /\ w.seen = {}
    BY <2>2, <2>3
  <2> QED
    BY <1>2, <2>4 DEF ListStep, Begins
<1> QED
  BY <1>3, <1>4, <1>5 DEF Dispatch

(* A walk visits its next node, or ends.                                   *)
LEMMA WalkLists ==
  ASSUME TypeOK, Walk
  PROVE  ListStep
<1> USE ProcessAssumption
<1>1. /\ stack # <<>> /\ Top.k = "walk" /\ Top \in FrameType
      /\ Caller \in Seq(FrameType) /\ Walks(Caller) \subseteq Walks(stack)
      /\ UNCHANGED <<head, next, running, parked>>
  BY TopTyped, WalksTop DEF Walk, At, list, TypeOK
<1>2. CASE Top.p = NULL
  <2>1. WalkEnds
    BY <1>1, <1>2 DEF Walk, WalkEnds, At
  <2> QED
    BY <2>1 DEF ListStep
<1>3. CASE Top.p # NULL
  <2> DEFINE over == [Top EXCEPT !.p    = next[Top.p],
                                 !.due  = @ \ {Top.p},
                                 !.seen = @ \cup {Top.p}]
             f == Frame("call", Top.p, Top.ev)
  <2>1. Top.p \in Proc /\ Top.ev \in Ev /\ next[Top.p] \in Proc \cup {NULL}
    BY <1>1, <1>3 DEF FrameType, TypeOK
  <2>2. over \in FrameType
    BY <1>1, <2>1 DEF FrameType
  <2>3. f \in FrameType /\ f.k # "walk"
    BY <2>1, FrameTyped DEF Frame
  <2>4. \/ stack' = Append(Caller, over)
        \/ stack' = Append(Append(Caller, over), f)
    BY <1>3 DEF Walk
  <2> HIDE DEF over, f
  <2>5. Append(Caller, over) \in Seq(FrameType)
    BY <1>1, <2>2
  <2>6. Walks(stack') \subseteq Walks(Caller) \cup {over}
    <3>1. Walks(Append(Caller, over)) \subseteq Walks(Caller) \cup {over}
      BY <1>1, <2>2, WalksAppend
    <3>2. Walks(Append(Append(Caller, over), f)) = Walks(Append(Caller, over))
      BY <2>3, <2>5, WalksAppend
    <3> QED
      BY <2>4, <3>1, <3>2
  <2>7. /\ wrong' \in {wrong, wrong \cup {"twice"}}
        /\ "twice" \in wrong' => \/ "twice" \in wrong
                                 \/ Top.p \in Top.seen /\ running[Top.p]
    <3>1. wrong' = IF Top.p \in Top.seen /\ running[Top.p]
                   THEN wrong \cup {"twice"} ELSE wrong
      BY <1>3 DEF Walk
    <3> HIDE DEF Top
    <3> QED
      BY <3>1
  <2>8. WalksOn
    BY <1>1, <2>1, <2>6, <2>7 DEF WalksOn, At, over
  <2> QED
    BY <2>8 DEF ListStep
<1> QED
  BY <1>2, <1>3

(* What a frame other than a broadcast's does to the broadcasts when it goes   *)
(* or makes room for another one.                                          *)
LEMMA TopOff ==
  ASSUME TypeOK, stack # <<>>, Top.k # "walk"
  PROVE  /\ Caller \in Seq(FrameType) /\ Walks(Caller) = Walks(stack)
         /\ Top \in FrameType /\ Top.p \in Proc
         /\ \A f \in FrameType :
              f.k # "walk" => Walks(Append(Caller, f)) = Walks(stack)
<1>1. /\ Caller \in Seq(FrameType) /\ Walks(Caller) = Walks(stack)
      /\ Top \in FrameType /\ Top.p \in Proc
  BY TopTyped, WalksTop DEF TypeOK
<1> QED
  BY <1>1, WalksAppend

(* The calls of a body.                                                    *)
LEMMA BodyLists ==
  ASSUME StartParked = FALSE, TypeOK, ListInv, NEW c \in Program, Body(c)
  PROVE  ListStep
<1> USE ProcessAssumption
<1>1. /\ c[2] \in Ev \cup {"pump"} => c[3] \in Proc \cup {NULL}
      /\ c[2] \notin Ev \cup {"pump"} => c[3] \in Proc
  OBVIOUS
<1>2. /\ stack # <<>> /\ Top.k = "body" /\ Top.n > 0 /\ Top.p = c[1]
      /\ Top \in FrameType /\ Top.p \in Proc
  <2>1. At("body") /\ Top.p = c[1] /\ Top.n > 0
    BY DEF Body, Calls, BodyPost, BodyStart, tiku_process_register, BodyExit,
           tiku_process_stop, tiku_process_resume, tiku_process_fail,
           tiku_process_set_restart, EnterPump
  <2> QED
    BY <2>1, TopOff DEF At
<1>3. Spent \in Seq(FrameType) /\ Walks(Spent) = Walks(stack)
  BY <1>2, WalksSpent
<1>4. CASE BodyPost(c) \/ tiku_process_fail(c) \/ tiku_process_set_restart(c)
  <2>1. stack' = Spent /\ UNCHANGED <<head, next, running, parked, wrong>>
    BY <1>4 DEF BodyPost, tiku_process_fail, tiku_process_set_restart, list
  <2> QED
    BY <1>3, <2>1, QuietLists DEF Quiet
<1>5. CASE BodyStart(c) \/ tiku_process_register(c)
  <2>1. c[3] \in Proc /\ tiku_process_start(c[3], Spent) /\ UNCHANGED wrong
    BY <1>1, <1>5 DEF BodyStart, tiku_process_register, Calls, Ev
  <2> QED
    BY <1>3, <2>1, StartLists
<1>6. CASE BodyExit(c)
  <2>1. /\ c[3] \in Proc /\ tiku_process_exit(c[3], reason[c[3]], Spent)
        /\ UNCHANGED wrong
    BY <1>1, <1>6 DEF BodyExit, Calls, Ev
  <2> QED
    BY <1>3, <2>1, ExitLists
<1>7. CASE tiku_process_stop(c)
  <2>1. /\ c[3] \in Proc /\ stack' = Gone(Spent, c[3])
        /\ running' = [running EXCEPT ![c[3]] = FALSE]
        /\ parked'  = [parked EXCEPT ![c[3]] = @ \/ running[c[3]]]
        /\ UNCHANGED <<head, next, wrong>>
    BY <1>1, <1>7 DEF tiku_process_stop, Calls, Ev, list
  <2>2. Excuses(c[3])
    BY <1>3, <2>1, WalksGone DEF Excuses
  <2> QED
    BY <2>1, <2>2 DEF ListStep, Parks
<1>8. CASE tiku_process_resume(c)
  <2>1. /\ c[3] \in Proc /\ stack' = Joined(Spent)
        /\ running' = [running EXCEPT ![c[3]] = TRUE]
        /\ parked'  = [parked EXCEPT ![c[3]] = FALSE]
        /\ UNCHANGED wrong
    BY <1>1, <1>8 DEF tiku_process_resume, Calls, Ev
  <2>2. Forgives
    BY <1>3, <2>1, WalksJoined DEF Forgives
  <2>3. CASE Listed(c[3])
    <3>1. UNCHANGED <<head, next>> /\ c[3] \in Live
      BY <1>8, <2>1, <2>3, ListedLive DEF tiku_process_resume, list
    <3> QED
      BY <2>1, <2>2, <3>1 DEF ListStep, Unparks
  <2>4. CASE ~Listed(c[3])
    <3>1. /\ next' = Linked(c[3], head, next) /\ head' = c[3]
          /\ c[3] \notin Live
      BY <1>8, <2>1, <2>4, ListedLive DEF tiku_process_resume, Linked
    <3> QED
      BY <2>1, <2>2, <3>1 DEF ListStep, Links
  <2> QED
    BY <2>3, <2>4
<1>9. CASE EnterPump(c)
  <2> DEFINE f == [Frame("pump", c[1], Top.ev) EXCEPT !.skip = current, !.n = MaxOps]
  <2>1. f \in FrameType
    <3>1. c[1] \in Proc /\ Top.ev \in Ev /\ current \in Proc \cup {NULL}
      BY <1>2 DEF FrameType, TypeOK
    <3> HIDE DEF Top
    <3> QED
      BY <3>1, WideFrameTyped
  <2>2. f.k # "walk"
    BY DEF Frame
  <2>3. /\ stack' = Append(Spent, f)
        /\ UNCHANGED <<head, next, running, parked, wrong>>
    BY <1>9 DEF EnterPump, list
  <2> HIDE DEF f
  <2>4. Walks(stack') = Walks(stack)
    BY <1>3, <2>1, <2>2, <2>3, WalksAppend
  <2> QED
    BY <2>3, <2>4, QuietLists DEF Quiet
<1> QED
  BY <1>4, <1>5, <1>6, <1>7, <1>8, <1>9 DEF Body

(* The steps of the kernel itself, and of interrupt handlers.               *)
LEMMA StepLists ==
  ASSUME StartParked = FALSE, TypeOK, ListInv, [Next]_vars
  PROVE  ListStep
<1> USE ProcessAssumption
<1>1. CASE AutostartNext
  <2>1. Head(boot) \in Proc /\ stack \in Seq(FrameType) /\ UNCHANGED wrong
    BY <1>1, HeadTailProperties DEF AutostartNext, TypeOK
  <2>2. CASE tiku_process_start(Head(boot), stack)
    BY <2>1, <2>2, StartLists
  <2>3. CASE UNCHANGED <<list, running, parked, stack>>
    BY <2>1, <2>3, QuietLists DEF Quiet, list
  <2> QED
    BY <1>1, <2>2, <2>3 DEF AutostartNext
<1>2. CASE tiku_process_run
  <2>1. 1 \in DOMAIN queue /\ stack \in Seq(FrameType)
    BY <1>2, EmptySeq, LenProperties DEF tiku_process_run, TypeOK
  <2> QED
    BY <1>2, <2>1, DispatchLists DEF tiku_process_run
<1>3. CASE Walk
  BY <1>3, WalkLists
<1>4. CASE call_process
  <2>1. stack # <<>> /\ Top.k = "call" /\ UNCHANGED wrong
    BY <1>4 DEF call_process, At
  <2>2. /\ Caller \in Seq(FrameType) /\ Walks(Caller) = Walks(stack)
        /\ Top \in FrameType /\ Top.p \in Proc
        /\ \A f \in FrameType :
             f.k # "walk" => Walks(Append(Caller, f)) = Walks(stack)
    BY <2>1, TopOff
  <2>3. CASE stack' = Caller /\ UNCHANGED <<list, running, parked>>
    BY <2>1, <2>2, <2>3, QuietLists DEF Quiet, list
  <2>4. CASE tiku_process_exit(Top.p, "DONE", Caller)
    BY <2>1, <2>2, <2>4, ExitLists
  <2>5. CASE /\ stack' = Append(Caller, [Top EXCEPT !.k = "body", !.n = MaxOps])
             /\ UNCHANGED <<list, running, parked>>
    <3> DEFINE f == [Top EXCEPT !.k = "body", !.n = MaxOps]
    <3>1. f \in FrameType /\ f.k # "walk"
      <4>1. MaxOps \in 0..MaxOps
        OBVIOUS
      <4> HIDE DEF Top
      <4> QED
        BY <2>2, <4>1 DEF FrameType
    <3> HIDE DEF f
    <3>2. Walks(stack') = Walks(stack)
      BY <2>2, <2>5, <3>1 DEF f
    <3> QED
      BY <2>1, <2>5, <3>2, QuietLists DEF Quiet, list
  <2> QED
    BY <1>4, <2>3, <2>4, <2>5 DEF call_process
<1>5. CASE Yielded \/ LeavePump
  <2>1. /\ stack # <<>> /\ Top.k # "walk" /\ stack' = Caller
        /\ UNCHANGED <<head, next, running, parked, wrong>>
    BY <1>5 DEF Yielded, LeavePump, At, list
  <2> QED
    BY <2>1, TopOff, QuietLists DEF Quiet
<1>6. CASE Ended
  <2>1. stack # <<>> /\ Top.k # "walk" /\ UNCHANGED wrong
    BY <1>6 DEF Ended, At
  <2> QED
    BY <1>6, <2>1, TopOff, ExitLists DEF Ended
<1>7. CASE PostInit
  <2> DEFINE f == Frame("call", Top.p, "INIT")
  <2>1. /\ stack # <<>> /\ Top.k # "walk"
        /\ UNCHANGED <<head, next, running, parked, wrong>>
        /\ stack' = Caller \/ stack' = Append(Caller, f)
    BY <1>7 DEF PostInit, At, list
  <2>2. f \in FrameType /\ f.k # "walk"
    BY <2>1, TopOff, FrameTyped DEF Frame, Ev
  <2> HIDE DEF f
  <2>3. Walks(Caller) = Walks(stack) /\ Walks(Append(Caller, f)) = Walks(stack)
    BY <2>1, <2>2, TopOff
  <2>4. Walks(stack') = Walks(stack)
    BY <2>1, <2>3
  <2> QED
    BY <2>1, <2>4, QuietLists DEF Quiet
<1>8. CASE PostExited
  <2> DEFINE f == [Top EXCEPT !.k = "supervise"]
  <2>1. /\ stack # <<>> /\ Top.k # "walk" /\ stack' = Append(Caller, f)
        /\ UNCHANGED <<head, next, running, parked, wrong>>
    BY <1>8 DEF PostExited, At, list
  <2>2. Top \in FrameType /\ Top.p \in Proc
    BY <2>1, TopOff
  <2>3. f \in FrameType /\ f.k # "walk"
    <3> HIDE DEF Top
    <3> QED
      BY <2>2 DEF FrameType
  <2> HIDE DEF f
  <2>4. Walks(stack') = Walks(stack)
    BY <2>1, <2>3, TopOff
  <2> QED
    BY <2>1, <2>4, QuietLists DEF Quiet
<1>9. CASE supervisor_on_exit
  <2>1. stack # <<>> /\ Top.k # "walk" /\ UNCHANGED wrong
    BY <1>9 DEF supervisor_on_exit, At
  <2>2. CASE stack' = Caller /\ UNCHANGED <<list, running, parked>>
    BY <2>1, <2>2, TopOff, QuietLists DEF Quiet, list
  <2>3. CASE tiku_process_start(Top.p, Caller)
    BY <2>1, <2>3, TopOff, StartLists
  <2> QED
    BY <1>9, <2>2, <2>3 DEF supervisor_on_exit
<1>10. CASE tiku_process_run_except
  <2>1. stack # <<>> /\ Top.k # "walk" /\ Top.n > 0
    BY <1>10 DEF tiku_process_run_except, At
  <2>2. Spent \in Seq(FrameType) /\ Walks(Spent) = Walks(stack)
    BY <2>1, WalksSpent
  <2>3. PICK i \in DOMAIN queue : Dispatch(i, Top.skip, Spent)
    BY <1>10 DEF tiku_process_run_except
  <2>4. Top.skip \in Proc \cup {NULL}
    BY <2>1, TopOff DEF FrameType
  <2> HIDE DEF Top, Spent
  <2> QED
    BY <2>2, <2>3, <2>4, DispatchLists
<1>11. CASE \E c \in Program : Body(c)
  BY <1>11, BodyLists
<1>12. CASE IsrPost \/ \E p \in Proc : IsrPoll(p) \/ WindowPasses(p)
  BY <1>12, QuietLists DEF IsrPost, IsrPoll, InIsr, WindowPasses, Quiet, list
<1>13. CASE UNCHANGED vars
  BY <1>13, QuietLists DEF vars, Quiet, list
<1> QED
  BY <1>1, <1>2, <1>3, <1>4, <1>5, <1>6, <1>7, <1>8, <1>9, <1>10, <1>11,
     <1>12, <1>13 DEF Next, Step

-----------------------------------------------------------------------------
(* An empty list is sound.                                                 *)
LEMMA ListInit == Init => ListInv
<1> SUFFICES ASSUME Init PROVE ListInv
  OBVIOUS
<1> USE ProcessAssumption
<1>1. /\ head = NULL /\ next = [p \in Proc |-> NULL] /\ stack = <<>>
      /\ \A p \in Proc : ~running[p] /\ ~parked[p]
      /\ wrong = {}
  BY DEF Init
<1>2. Live = {} /\ Heads(head, next, Live)
  BY <1>1 DEF Heads, Closed, Live
<1>3. Acyclic(next)
  BY <1>1 DEF Acyclic
<1>4. Walks(stack) = {}
  BY <1>1 DEF Walks
<1> QED
  BY <1>1, <1>2, <1>3, <1>4 DEF ListInv

(* Whatever bodies and handlers do, the list and the broadcasts under way     *)
(* fit each other.                                                         *)
LEMMA ListInvariant ==
  ASSUME StartParked = FALSE
  PROVE  Spec => [](TypeOK /\ ListInv)
<1>1. TypeOK /\ ListInv /\ [Next]_vars => TypeOK' /\ ListInv'
  BY TypeStep, StepLists, ListInvStep
<1> QED
  BY <1>1, TypeInit, ListInit, PTL DEF Spec

(* ListSound: tiku_process_list_head leads, with no cycle, to exactly the     *)
(* processes that run and those tiku_process_stop() took down, where callers *)
(* leave a stopped process to tiku_process_resume() (StartParked is FALSE:    *)
(* tiku_process_start() would link it a second time).                        *)
THEOREM ListAlwaysSound ==
  ASSUME StartParked = FALSE
  PROVE  Spec => []ListSound
<1>1. TypeOK /\ ListInv => ListSound
  BY ListInvSound
<1> QED
  BY <1>1, ListInvariant, PTL

(* BroadcastComplete: a broadcast reaches every process that runs all the     *)
(* while it is under way, under the same condition.                          *)
THEOREM BroadcastReachesAll ==
  ASSUME StartParked = FALSE
  PROVE  Spec => []BroadcastComplete
<1>1. ListInv => BroadcastComplete
  BY DEF ListInv, BroadcastComplete
<1> QED
  BY <1>1, ListInvariant, PTL

(* BroadcastOnce: it reaches none of them twice unless a process was linked   *)
(* meanwhile, under the same condition.                                      *)
THEOREM BroadcastReachesOnce ==
  ASSUME StartParked = FALSE
  PROVE  Spec => []BroadcastOnce
<1>1. ListInv => BroadcastOnce
  BY DEF ListInv, BroadcastOnce
<1> QED
  BY <1>1, ListInvariant, PTL
=============================================================================
