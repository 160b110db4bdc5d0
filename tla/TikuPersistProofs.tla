------------------------- MODULE TikuPersistProofs -------------------------
(***************************************************************************)
(* Proofs about TikuPersist: type correctness, that one record at a time     *)
(* vouches for memory, that the cells implement AtomicCells, and that a boot  *)
(* loses nothing but for want of room or by a cut, for any cells and values, *)
(* any images, and any layouts that keep an image's own objects apart.  The  *)
(* layouts of different images may overlap in any way.                     *)
(***************************************************************************)
EXTENDS TikuPersist, CompactionProofs

\* The cells of a sequence.
In(s) == {s[k] : k \in 1..Len(s)}

\* The words there are, and that none is zero, torn or the magic but these.
LEMMA WordsKnown ==
  /\ \A c \in Cell : Key(c) \in Word /\ Key(c) # Zero /\ Key(c) # Torn /\ Key(c) # Magic
  /\ \A c \in Cell, v \in Held :
       Part(c, v) \in Word /\ Part(c, v) # Zero /\ Part(c, v) # Magic
  /\ \A i \in Image : Record(i) \in Word /\ Record(i) # Zero /\ Record(i) # Torn /\ Record(i) # Magic
  /\ Zero \in Word /\ Torn \in Word /\ Magic \in Word
  /\ Zero # Torn /\ Zero # Magic /\ Torn # Magic
BY PersistAssumption DEF Key, Part, Record, Word, Held

\* A word says whose it is.
LEMMA WordsDiffer ==
  /\ \A c, d \in Cell : Key(c) = Key(d) => c = d
  /\ \A c \in Cell, v, w \in Held : Part(c, v) = Part(c, w) => v = w
  /\ \A i, j \in Image : Record(i) = Record(j) => i = j
  /\ \A c, d \in Cell, v \in Held : Key(c) # Part(d, v)
  /\ \A c \in Cell, i \in Image : Key(c) # Record(i)
  /\ \A c \in Cell, v \in Held, i \in Image : Part(c, v) # Record(i)
<1>1. \A c \in Cell, v, w \in Held : Part(c, v) = Part(c, w) => v = w
  <2>1. \A c \in Cell, v \in Value : <<"part", c, v>> # Torn
    BY PersistAssumption
  <2> QED
    BY <2>1, PersistAssumption DEF Part, Held
<1>2. /\ \A c, d \in Cell, v \in Held : Key(c) # Part(d, v)
      /\ \A c \in Cell, v \in Held, i \in Image : Part(c, v) # Record(i)
  <2>1. /\ \A c, d \in Cell, v \in Value : <<"key", c>> # <<"part", d, v>>
        /\ \A c \in Cell, v \in Value, i \in Image : <<"part", c, v>> # <<"record", i>>
    OBVIOUS
  <2>2. (\A c \in Cell : Key(c) # Torn) /\ (\A i \in Image : Record(i) # Torn)
    BY WordsKnown
  <2> QED
    BY <2>1, <2>2 DEF Key, Part, Record, Held
<1>3. /\ \A c, d \in Cell : Key(c) = Key(d) => c = d
      /\ \A i, j \in Image : Record(i) = Record(j) => i = j
      /\ \A c \in Cell, i \in Image : Key(c) # Record(i)
  BY DEF Key, Record
<1> QED
  BY <1>1, <1>2, <1>3

\* The types of an image's table and addresses.
LEMMA Layouts ==
  ASSUME NEW i \in Image
  PROVE  /\ Table[i] \in Seq(Cell) /\ CellsOf(i) \subseteq Cell
         /\ CellsOf(i) = In(Table[i])
         /\ \A c \in CellsOf(i) :
              /\ GateAt[i][c] \in Address /\ DataAt[i][c] \in Seq(Address)
              /\ Len(DataAt[i][c]) \in Nat \ {0}
              /\ DOMAIN DataAt[i][c] = 1..Len(DataAt[i][c])
              /\ \A k \in 1..Len(DataAt[i][c]) : DataAt[i][c][k] \in Address
         /\ ManifestAt[i] \in Seq(Address) /\ Len(ManifestAt[i]) \in Nat
         /\ Len(ManifestAt[i]) >= 2
         /\ DOMAIN ManifestAt[i] = 1..Len(ManifestAt[i])
         /\ \A k \in 1..Len(ManifestAt[i]) : ManifestAt[i][k] \in Address
<1>1. /\ Table[i] \in Seq(Cell)
      /\ \A c \in CellsOf(i) :
           GateAt[i][c] \in Address /\ DataAt[i][c] \in Seq(Address) /\ DataAt[i][c] # <<>>
      /\ ManifestAt[i] \in Seq(Address) /\ Len(ManifestAt[i]) >= 2
  BY PersistAssumption
<1>2. CellsOf(i) = In(Table[i]) /\ CellsOf(i) \subseteq Cell
  <2>1. \A k \in 1..Len(Table[i]) : Table[i][k] \in Cell
    BY <1>1, ElementOfSeq
  <2> QED
    BY <2>1 DEF CellsOf, In
<1>3. ASSUME NEW c \in CellsOf(i)
      PROVE  /\ Len(DataAt[i][c]) \in Nat \ {0}
             /\ DOMAIN DataAt[i][c] = 1..Len(DataAt[i][c])
             /\ \A k \in 1..Len(DataAt[i][c]) : DataAt[i][c][k] \in Address
  BY <1>1, LenProperties, ElementOfSeq, EmptySeq
<1>4. /\ Len(ManifestAt[i]) \in Nat /\ DOMAIN ManifestAt[i] = 1..Len(ManifestAt[i])
      /\ \A k \in 1..Len(ManifestAt[i]) : ManifestAt[i][k] \in Address
  BY <1>1, LenProperties, ElementOfSeq
<1> QED
  BY <1>1, <1>2, <1>3, <1>4

\* Apart, over positions: no two objects of an image share a word.
LEMMA Places ==
  ASSUME NEW i \in Image
  PROVE  /\ \A c, d \in CellsOf(i) :
              /\ GateAt[i][c] = GateAt[i][d] => c = d
              /\ \A k \in 1..Len(DataAt[i][c]) :
                   /\ DataAt[i][c][k] # GateAt[i][d]
                   /\ \A l \in 1..Len(DataAt[i][d]) :
                        DataAt[i][c][k] = DataAt[i][d][l] => c = d /\ k = l
         /\ \A m \in 1..Len(ManifestAt[i]) :
              /\ \A n \in 1..Len(ManifestAt[i]) :
                   ManifestAt[i][m] = ManifestAt[i][n] => m = n
              /\ \A c \in CellsOf(i) :
                   /\ ManifestAt[i][m] # GateAt[i][c]
                   /\ \A k \in 1..Len(DataAt[i][c]) : ManifestAt[i][m] # DataAt[i][c][k]
<1>1. Apart(i)
  BY PersistAssumption
<1> QED
  BY <1>1, Layouts DEF Apart

\* The cells of a table that are in a set, in a sequence.
LEMMA InTableKeeps ==
  ASSUME NEW i \in Image, NEW S
  PROVE  InTable(i, S) \in Seq(Cell) /\ In(InTable(i, S)) = CellsOf(i) \cap S
<1> DEFINE q == Table[i]
<1> DEFINE keep == {k \in 1..Len(Table[i]) : Table[i][k] \in S}
<1> DEFINE r == InTable(i, S)
<1>1. q \in Seq(Cell) /\ DOMAIN q = 1..Len(q) /\ keep \in SUBSET (DOMAIN q)
  BY Layouts, LenProperties
<1>2. r = Compact(q, keep)
  BY DEF InTable
<1>3. r \in Seq(Cell) /\ \A n \in DOMAIN r : Kept(keep, n) \in keep /\ r[n] = q[Kept(keep, n)]
  <2> HIDE DEF q, keep
  <2> QED
    BY <1>1, <1>2, CompactKeeps
<1>4. \A k \in keep : \E n \in DOMAIN r : r[n] = q[k]
  <2> HIDE DEF q, keep
  <2> QED
    BY <1>1, <1>2, CompactAll
<1>5. DOMAIN r = 1..Len(r)
  BY <1>3, LenProperties
<1>6. ASSUME NEW c \in In(r) PROVE c \in CellsOf(i) \cap S
  <2>1. PICK n \in 1..Len(r) : c = r[n]
    BY DEF In
  <2>2. Kept(keep, n) \in keep /\ c = q[Kept(keep, n)]
    BY <1>3, <1>5, <2>1
  <2> QED
    BY <2>2 DEF CellsOf
<1>7. ASSUME NEW c \in CellsOf(i) \cap S PROVE c \in In(r)
  <2>1. PICK k \in 1..Len(q) : c = q[k]
    BY DEF CellsOf
  <2>2. k \in keep
    BY <2>1
  <2>3. PICK n \in DOMAIN r : r[n] = q[k]
    BY <1>4, <2>2
  <2> QED
    BY <1>5, <2>1, <2>3 DEF In
<1>8. In(r) = CellsOf(i) \cap S
  BY <1>6, <1>7
<1> QED
  BY <1>3, <1>8

\* The head and the tail of what is to be done.
LEMMA HeadTail ==
  ASSUME NEW S, NEW s \in Seq(S), s # <<>>
  PROVE  /\ Head(s) \in S /\ Tail(s) \in Seq(S) /\ Head(s) = s[1]
         /\ Len(s) \in Nat \ {0} /\ Len(Tail(s)) = Len(s) - 1
         /\ \A k \in 1..Len(Tail(s)) : Tail(s)[k] = s[k + 1]
         /\ Head(s) \in In(s)
         /\ In(Tail(s)) \subseteq In(s) /\ In(s) = {Head(s)} \cup In(Tail(s))
<1>1. /\ Head(s) \in S /\ Tail(s) \in Seq(S) /\ Head(s) = s[1]
      /\ Len(s) \in Nat \ {0} /\ Len(Tail(s)) = Len(s) - 1
      /\ \A k \in 1..Len(Tail(s)) : Tail(s)[k] = s[k + 1]
  BY HeadTailProperties, LenProperties, EmptySeq
<1>2. 1 \in 1..Len(s) /\ Head(s) \in In(s)
  BY <1>1 DEF In
<1>3. ASSUME NEW e \in In(Tail(s)) PROVE e \in In(s)
  <2>1. PICK k \in 1..Len(Tail(s)) : e = Tail(s)[k]
    BY DEF In
  <2>2. e = s[k + 1] /\ k + 1 \in 1..Len(s)
    BY <1>1, <2>1
  <2> QED
    BY <2>2 DEF In
<1>4. ASSUME NEW e \in In(s) PROVE e \in {Head(s)} \cup In(Tail(s))
  <2>1. PICK k \in 1..Len(s) : e = s[k]
    BY DEF In
  <2>2. CASE k = 1
    BY <1>1, <2>1, <2>2
  <2>3. CASE k # 1
    <3>1. k - 1 \in 1..Len(Tail(s)) /\ Tail(s)[k - 1] = s[k]
      BY <1>1, <2>3
    <3> QED
      BY <2>1, <3>1 DEF In
  <2> QED
    BY <2>2, <2>3
<1> QED
  BY <1>1, <1>2, <1>3, <1>4

\* What a cell shows.
LEMMA Reading ==
  ASSUME NEW mem, NEW i \in Image, NEW c
  PROVE  /\ ~Valid(mem, i, c) => ReadCell(mem, i, c) = Unset
         /\ Valid(mem, i, c) => /\ c \in CellsOf(i) /\ ReadCell(mem, i, c) \in Held \cup {Mixed}
                                /\ ReadCell(mem, i, c) # Unset
         /\ \A v \in Held :
              Valid(mem, i, c) =>
                (ReadCell(mem, i, c) = v <=> Words(mem, i, c) = Parts(i, c, v))
<1> DEFINE whole == {v \in Held : Words(mem, i, c) = Parts(i, c, v)}
<1>1. Unset \notin Held /\ Mixed \notin Held /\ Unset # Mixed
  BY PersistAssumption
<1>2. ReadCell(mem, i, c) = IF ~Valid(mem, i, c) THEN Unset
                            ELSE IF whole = {} THEN Mixed ELSE CHOOSE v \in whole : TRUE
  BY DEF ReadCell
<1>3. whole # {} => (CHOOSE v \in whole : TRUE) \in whole
  OBVIOUS
<1>4. Valid(mem, i, c) => c \in CellsOf(i)
  BY DEF Valid
<1>5. ASSUME Valid(mem, i, c), NEW v \in whole, NEW w \in whole
      PROVE  v = w
  <2>1. c \in Cell /\ 1 \in 1..Len(DataAt[i][c])
    BY <1>4, <1>5, Layouts
  <2>2. Parts(i, c, v) = Parts(i, c, w)
    OBVIOUS
  <2>3. Parts(i, c, v)[1] = Part(c, v) /\ Parts(i, c, w)[1] = Part(c, w)
    BY <2>1 DEF Parts
  <2> QED
    BY <2>1, <2>2, <2>3, WordsDiffer
<1>6. ASSUME Valid(mem, i, c), NEW v \in Held
      PROVE  ReadCell(mem, i, c) = v <=> v \in whole
  <2> HIDE DEF whole
  <2> QED
    BY <1>1, <1>2, <1>3, <1>5, <1>6
<1>7. Valid(mem, i, c) => ReadCell(mem, i, c) \in Held \cup {Mixed}
  <2>1. whole \subseteq Held
    OBVIOUS
  <2> HIDE DEF whole
  <2> QED
    BY <1>2, <1>3, <2>1
<1> QED
  BY <1>1, <1>2, <1>4, <1>6, <1>7

\* The words of a cell, and those of an image's record.
Home(i, c) == {GateAt[i][c]} \cup In(DataAt[i][c])

\* Memory after a store.
Put(mem, a, w) == [mem EXCEPT ![a] = w]

\* A store elsewhere leaves a cell as it is.
LEMMA Undisturbed ==
  ASSUME NEW mem \in [Address -> Word], NEW i \in Image, NEW c, NEW a, NEW w,
         c \in CellsOf(i) => a \notin Home(i, c)
  PROVE  /\ Valid(Put(mem, a, w), i, c) <=> Valid(mem, i, c)
         /\ c \in CellsOf(i) => Words(Put(mem, a, w), i, c) = Words(mem, i, c)
         /\ ReadCell(Put(mem, a, w), i, c) = ReadCell(mem, i, c)
<1>1. CASE c \notin CellsOf(i)
  BY <1>1, Reading DEF Valid
<1>2. CASE c \in CellsOf(i)
  <2>1. a # GateAt[i][c] /\ \A k \in 1..Len(DataAt[i][c]) : a # DataAt[i][c][k]
    BY <1>2 DEF Home, In
  <2>2. GateAt[i][c] \in Address /\ \A k \in 1..Len(DataAt[i][c]) : DataAt[i][c][k] \in Address
    BY <1>2, Layouts
  <2>3. Put(mem, a, w)[GateAt[i][c]] = mem[GateAt[i][c]]
    BY <2>1, <2>2 DEF Put
  <2>4. \A k \in 1..Len(DataAt[i][c]) : Put(mem, a, w)[DataAt[i][c][k]] = mem[DataAt[i][c][k]]
    BY <2>1, <2>2 DEF Put
  <2>5. Valid(Put(mem, a, w), i, c) <=> Valid(mem, i, c)
    BY <2>3 DEF Valid
  <2>6. Words(Put(mem, a, w), i, c) = Words(mem, i, c)
    BY <2>4 DEF Words
  <2> QED
    BY <2>5, <2>6 DEF ReadCell
<1> QED
  BY <1>1, <1>2

\* Two cells of an image have no word in common, and none with its record.
LEMMA Homes ==
  ASSUME NEW i \in Image, NEW c \in CellsOf(i)
  PROVE  /\ \A d \in CellsOf(i) : d # c => Home(i, c) \cap Home(i, d) = {}
         /\ Home(i, c) \cap In(ManifestAt[i]) = {}
<1>1. ASSUME NEW d \in CellsOf(i), d # c, NEW a \in Home(i, c), a \in Home(i, d)
      PROVE  FALSE
  BY <1>1, Places DEF Home, In
<1>2. ASSUME NEW a \in Home(i, c), a \in In(ManifestAt[i])
      PROVE  FALSE
  BY <1>2, Places DEF Home, In
<1> QED
  BY <1>1, <1>2

\* The images whose record checks.
Sound(mem) == {i \in Image : ManifestOk(mem, i)}

\* A store brings no record back unless it is its magic or a word of it.
LEMMA NoNewRecord ==
  ASSUME NEW mem \in [Address -> Word], NEW a \in Address, NEW w,
         NEW j \in Image, ManifestOk(Put(mem, a, w), j)
  PROVE  \/ ManifestOk(mem, j)
         \/ a = ManifestAt[j][1] /\ w = Magic
         \/ w = Record(j) /\ \E k \in 2..Len(ManifestAt[j]) : a = ManifestAt[j][k]
<1> SUFFICES ASSUME ~(a = ManifestAt[j][1] /\ w = Magic),
                    ~(w = Record(j) /\ \E k \in 2..Len(ManifestAt[j]) : a = ManifestAt[j][k])
             PROVE  ManifestOk(mem, j)
  OBVIOUS
<1>1. /\ ManifestAt[j][1] \in Address
      /\ \A k \in 2..Len(ManifestAt[j]) : ManifestAt[j][k] \in Address
  BY Layouts
<1>2. /\ Put(mem, a, w)[ManifestAt[j][1]] = Magic
      /\ \A k \in 2..Len(ManifestAt[j]) : Put(mem, a, w)[ManifestAt[j][k]] = Record(j)
  BY DEF ManifestOk
<1>3. mem[ManifestAt[j][1]] = Magic
  BY <1>1, <1>2 DEF Put
<1>4. ASSUME NEW k \in 2..Len(ManifestAt[j])
      PROVE  mem[ManifestAt[j][k]] = Record(j)
  BY <1>1, <1>2 DEF Put
<1> QED
  BY <1>3, <1>4 DEF ManifestOk

\* A store outside a record leaves it as it is.
LEMMA RecordUndisturbed ==
  ASSUME NEW mem \in [Address -> Word], NEW a, NEW w, NEW j \in Image,
         a \notin In(ManifestAt[j])
  PROVE  ManifestOk(Put(mem, a, w), j) <=> ManifestOk(mem, j)
<1>1. \A k \in 1..Len(ManifestAt[j]) : ManifestAt[j][k] \in Address /\ a # ManifestAt[j][k]
  BY Layouts DEF In
<1>2. \A k \in 1..Len(ManifestAt[j]) : Put(mem, a, w)[ManifestAt[j][k]] = mem[ManifestAt[j][k]]
  BY <1>1 DEF Put
<1>3. Len(ManifestAt[j]) \in Nat /\ Len(ManifestAt[j]) >= 2
  BY Layouts
<1> QED
  BY <1>2, <1>3 DEF ManifestOk

(***************************************************************************)
(* A list of stores is what is left of a plan, from its p-th store on.      *)
(***************************************************************************)
Stores == [at : Address, word : Word, tears : BOOLEAN]

Ahead(s, at, word, n, p) ==
  /\ Len(s) = n + 1 - p
  /\ \A j \in 1..Len(s) : s[j].at = at[p - 1 + j] /\ s[j].word = word[p - 1 + j]

\* The next store is the plan's p-th, and what is left goes on behind it.
LEMMA NextAhead ==
  ASSUME NEW s \in Seq(Stores), NEW at, NEW word, NEW n \in Nat, NEW p \in 1..n,
         Ahead(s, at, word, n, p)
  PROVE  /\ s # <<>> /\ Head(s) \in Stores /\ Tail(s) \in Seq(Stores)
         /\ Head(s).at = at[p] /\ Head(s).word = word[p]
         /\ Ahead(Tail(s), at, word, n, p + 1)
         /\ p = n => Tail(s) = <<>>
         /\ p = n => Len(s) = 1
         /\ Len(s) = 1 => p = n
<1>1. Len(s) = n + 1 - p
  BY DEF Ahead
<1>2. s # <<>>
  BY <1>1, EmptySeq
<1>3. /\ Head(s) \in Stores /\ Tail(s) \in Seq(Stores) /\ Head(s) = s[1]
      /\ Len(Tail(s)) = Len(s) - 1
      /\ \A k \in 1..Len(Tail(s)) : Tail(s)[k] = s[k + 1]
  BY <1>2, HeadTail
<1>4. Head(s).at = at[p] /\ Head(s).word = word[p]
  <2>1. 1 \in 1..Len(s) /\ p - 1 + 1 = p
    BY <1>1
  <2>2. s[1].at = at[p - 1 + 1] /\ s[1].word = word[p - 1 + 1]
    BY <2>1 DEF Ahead
  <2> QED
    BY <1>3, <2>1, <2>2
<1>5. Ahead(Tail(s), at, word, n, p + 1)
  <2>1. ASSUME NEW j \in 1..Len(Tail(s))
        PROVE  Tail(s)[j].at = at[p + 1 - 1 + j] /\ Tail(s)[j].word = word[p + 1 - 1 + j]
    <3>1. j + 1 \in 1..Len(s) /\ p - 1 + (j + 1) = p + 1 - 1 + j
      BY <1>1, <1>3
    <3>2. s[j + 1].at = at[p - 1 + (j + 1)] /\ s[j + 1].word = word[p - 1 + (j + 1)]
      BY <3>1 DEF Ahead
    <3> QED
      BY <1>3, <3>1, <3>2
  <2>2. Len(Tail(s)) = n + 1 - (p + 1)
    BY <1>1, <1>3
  <2> QED
    BY <2>1, <2>2 DEF Ahead
<1>6. ASSUME p = n PROVE Tail(s) = <<>>
  <2>1. Len(Tail(s)) = 0
    BY <1>1, <1>3, <1>6
  <2> QED
    BY <1>3, <2>1, EmptySeq
<1> QED
  BY <1>1, <1>2, <1>3, <1>4, <1>5, <1>6

\* The plan that gives cell c of image i the value v: its gate cleared, its
\* words stored, its gate keyed.
CellAt(i, c) ==
  [q \in 1..(Len(DataAt[i][c]) + 2) |->
     IF q = 1 \/ q = Len(DataAt[i][c]) + 2 THEN GateAt[i][c] ELSE DataAt[i][c][q - 1]]

CellWord(i, c, v) ==
  [q \in 1..(Len(DataAt[i][c]) + 2) |->
     IF q = 1 THEN Zero ELSE IF q = Len(DataAt[i][c]) + 2 THEN Key(c) ELSE Part(c, v)]

\* It has come to its p-th store.
Underway(mem, s, i, c, v, p) ==
  /\ Ahead(s, CellAt(i, c), CellWord(i, c, v), Len(DataAt[i][c]) + 2, p)
  /\ p > 1 => ~Valid(mem, i, c)
  /\ \A k \in 1..Len(DataAt[i][c]) : k + 1 < p => mem[DataAt[i][c][k]] = Part(c, v)

\* What CarryCell and Gated list is the plan from its first store, and what
\* CellInit lists is the plan from its second.
LEMMA CellPlans ==
  ASSUME NEW i \in Image, NEW c \in CellsOf(i), NEW v \in Held,
         NEW w, w = Parts(i, c, v),
         NEW data, data = HalAll(DataAt[i][c], w) \/ data = DirectAll(DataAt[i][c], w),
         NEW first \in Stores, NEW last \in Stores,
         first.at = GateAt[i][c], first.word = Zero,
         last.at = GateAt[i][c], last.word = Key(c)
  PROVE  LET n == Len(DataAt[i][c])
         IN /\ data \o <<last>> \in Seq(Stores)
            /\ <<first>> \o data \o <<last>> \in Seq(Stores)
            /\ Ahead(data \o <<last>>, CellAt(i, c), CellWord(i, c, v), n + 2, 2)
            /\ Ahead(<<first>> \o data \o <<last>>, CellAt(i, c), CellWord(i, c, v), n + 2, 1)
<1> DEFINE n == Len(DataAt[i][c])
<1>1. n \in Nat \ {0} /\ \A k \in 1..n : DataAt[i][c][k] \in Address
  BY Layouts
<1>2. c \in Cell /\ Part(c, v) \in Word
  BY Layouts, WordsKnown
<1>3. PICK tears \in BOOLEAN :
        data = [k \in 1..n |-> [at |-> DataAt[i][c][k], word |-> Part(c, v), tears |-> tears]]
  BY DEF HalAll, Hal, DirectAll, Direct, Parts
<1>4. data \in [1..n -> Stores]
  BY <1>1, <1>2, <1>3 DEF Stores
<1>5. data \in Seq(Stores) /\ Len(data) = n
  BY <1>1, <1>4, SeqDef, LenProperties
<1>6. <<first>> \in Seq(Stores) /\ <<last>> \in Seq(Stores)
      /\ Len(<<first>>) = 1 /\ Len(<<last>>) = 1
      /\ <<first>>[1] = first /\ <<last>>[1] = last
  OBVIOUS
<1>7. /\ \A k \in 1..n : data[k].at = DataAt[i][c][k] /\ data[k].word = Part(c, v)
  BY <1>3
<1> HIDE DEF n
<1>8. /\ data \o <<last>> \in Seq(Stores) /\ Len(data \o <<last>>) = n + 1
      /\ \A j \in 1..(n + 1) :
           (data \o <<last>>)[j] = IF j <= n THEN data[j] ELSE last
  BY <1>1, <1>5, <1>6, ConcatProperties
<1> DEFINE all == <<first>> \o data \o <<last>>
<1>9. /\ all \in Seq(Stores) /\ Len(all) = n + 2
      /\ \A j \in 1..(n + 2) : all[j] = IF j = 1 THEN first
                                         ELSE IF j <= n + 1 THEN data[j - 1] ELSE last
  <2>1. /\ <<first>> \o data \in Seq(Stores) /\ Len(<<first>> \o data) = n + 1
        /\ \A j \in 1..(n + 1) :
             (<<first>> \o data)[j] = IF j <= 1 THEN <<first>>[j] ELSE data[j - 1]
    BY <1>1, <1>5, <1>6, ConcatProperties
  <2>2. /\ all \in Seq(Stores) /\ Len(all) = n + 2
        /\ \A j \in 1..(n + 2) :
             all[j] = IF j <= n + 1 THEN (<<first>> \o data)[j] ELSE <<last>>[j - (n + 1)]
    BY <1>1, <1>6, <2>1, ConcatProperties
  <2>3. ASSUME NEW j \in 1..(n + 2)
        PROVE  all[j] = IF j = 1 THEN first ELSE IF j <= n + 1 THEN data[j - 1] ELSE last
    <3> HIDE DEF all
    <3>0. j <= n + 1 \/ j = n + 2
      BY <1>1
    <3>1. CASE j = 1
      <4>1. all[j] = (<<first>> \o data)[j] /\ (<<first>> \o data)[j] = <<first>>[j]
        BY <1>1, <2>1, <2>2, <3>1
      <4> QED
        BY <1>6, <3>1, <4>1
    <3>2. CASE j # 1 /\ j <= n + 1
      <4>1. all[j] = (<<first>> \o data)[j]
        BY <1>1, <2>2, <3>2
      <4>2. (<<first>> \o data)[j] = data[j - 1]
        BY <1>1, <2>1, <3>2
      <4> QED
        BY <3>2, <4>1, <4>2
    <3>3. CASE j = n + 2
      <4>1. all[j] = <<last>>[1] /\ j # 1 /\ ~(j <= n + 1)
        BY <1>1, <2>2, <3>3
      <4> QED
        BY <1>6, <4>1
    <3> QED
      BY <3>0, <3>1, <3>2, <3>3
  <2> QED
    BY <2>2, <2>3
<1>10. /\ \A q \in 1..(n + 2) :
            /\ CellAt(i, c)[q] = IF q = 1 \/ q = n + 2 THEN GateAt[i][c] ELSE DataAt[i][c][q - 1]
            /\ CellWord(i, c, v)[q] = IF q = 1 THEN Zero
                                       ELSE IF q = n + 2 THEN Key(c) ELSE Part(c, v)
  BY <1>1 DEF CellAt, CellWord, n
<1> HIDE DEF all
<1>11. Ahead(data \o <<last>>, CellAt(i, c), CellWord(i, c, v), n + 2, 2)
  <2>1. ASSUME NEW j \in 1..(n + 1)
        PROVE  /\ (data \o <<last>>)[j].at = CellAt(i, c)[2 - 1 + j]
               /\ (data \o <<last>>)[j].word = CellWord(i, c, v)[2 - 1 + j]
    <3>1. 2 - 1 + j \in 1..(n + 2) /\ 2 - 1 + j = j + 1
      BY <1>1
    <3>2. CASE j <= n
      <4>1. (data \o <<last>>)[j] = data[j] /\ j \in 1..n
        BY <1>8, <3>2
      <4>2. CellAt(i, c)[j + 1] = DataAt[i][c][j] /\ CellWord(i, c, v)[j + 1] = Part(c, v)
        BY <1>1, <1>10, <3>1, <3>2
      <4> QED
        BY <1>7, <3>1, <4>1, <4>2
    <3>3. CASE j = n + 1
      <4>1. (data \o <<last>>)[j] = last
        BY <1>1, <1>8, <3>3
      <4>2. CellAt(i, c)[j + 1] = GateAt[i][c] /\ CellWord(i, c, v)[j + 1] = Key(c)
        BY <1>1, <1>10, <3>1, <3>3
      <4> QED
        BY <3>1, <4>1, <4>2
    <3>4. j <= n \/ j = n + 1
      BY <1>1
    <3> QED
      BY <3>2, <3>3, <3>4
  <2> QED
    BY <1>1, <1>8, <2>1 DEF Ahead
<1>12. Ahead(all, CellAt(i, c), CellWord(i, c, v), n + 2, 1)
  <2>1. ASSUME NEW j \in 1..(n + 2)
        PROVE  all[j].at = CellAt(i, c)[1 - 1 + j] /\ all[j].word = CellWord(i, c, v)[1 - 1 + j]
    <3>1. 1 - 1 + j = j
      OBVIOUS
    <3>2. CASE j = 1
      BY <1>9, <1>10, <3>1, <3>2
    <3>3. CASE j # 1 /\ j <= n + 1
      <4>1. all[j] = data[j - 1] /\ j - 1 \in 1..n
        BY <1>1, <1>9, <3>3
      <4>2. CellAt(i, c)[j] = DataAt[i][c][j - 1] /\ CellWord(i, c, v)[j] = Part(c, v)
        BY <1>1, <1>10, <3>3
      <4> QED
        BY <1>7, <3>1, <4>1, <4>2
    <3>4. CASE j = n + 2
      <4>1. all[j] = last
        BY <1>1, <1>9, <3>4
      <4>2. CellAt(i, c)[j] = GateAt[i][c] /\ CellWord(i, c, v)[j] = Key(c)
        BY <1>1, <1>10, <3>4
      <4> QED
        BY <3>1, <4>1, <4>2
    <3> QED
      BY <1>1, <3>2, <3>3, <3>4
  <2> QED
    BY <1>1, <1>9, <2>1 DEF Ahead
<1> QED
  BY <1>8, <1>9, <1>11, <1>12 DEF n, all

\* Its next store moves it on, and the last one leaves the cell with the value.
LEMMA CellStore ==
  ASSUME NEW mem \in [Address -> Word], NEW s \in Seq(Stores), NEW i \in Image,
         NEW c \in CellsOf(i), NEW v \in Held, NEW p \in 1..(Len(DataAt[i][c]) + 2),
         Underway(mem, s, i, c, v, p)
  PROVE  LET after == Put(mem, Head(s).at, Head(s).word)
             n == Len(DataAt[i][c])
         IN /\ s # <<>> /\ Head(s) \in Stores /\ Tail(s) \in Seq(Stores)
            /\ Head(s).at \in Home(i, c)
            /\ Head(s).word # Magic /\ \A j \in Image : Head(s).word # Record(j)
            /\ p < n + 2 => Underway(after, Tail(s), i, c, v, p + 1)
            /\ p = n + 2 => /\ Tail(s) = <<>> /\ Valid(after, i, c)
                            /\ Words(after, i, c) = Parts(i, c, v)
                            /\ ReadCell(after, i, c) = v
            /\ p = n + 2 => Len(s) = 1
            /\ Len(s) = 1 => p = n + 2
            /\ ~Valid(Put(mem, Head(s).at, Torn), i, c)
<1> DEFINE n == Len(DataAt[i][c])
<1> DEFINE after == Put(mem, Head(s).at, Head(s).word)
<1>1. /\ n \in Nat \ {0} /\ \A k \in 1..n : DataAt[i][c][k] \in Address
      /\ GateAt[i][c] \in Address /\ c \in Cell
  BY Layouts
<1>2. p \in 1..(n + 2)
  OBVIOUS
<1>3. /\ s # <<>> /\ Head(s) \in Stores /\ Tail(s) \in Seq(Stores)
      /\ Head(s).at = CellAt(i, c)[p] /\ Head(s).word = CellWord(i, c, v)[p]
      /\ Ahead(Tail(s), CellAt(i, c), CellWord(i, c, v), n + 2, p + 1)
      /\ p = n + 2 => Tail(s) = <<>>
      /\ p = n + 2 => Len(s) = 1
      /\ Len(s) = 1 => p = n + 2
  <2> DEFINE N == n + 2
  <2>1. Ahead(s, CellAt(i, c), CellWord(i, c, v), N, p) /\ N \in Nat /\ p \in 1..N
    BY <1>1 DEF Underway
  <2> HIDE DEF N
  <2>2. /\ s # <<>> /\ Head(s) \in Stores /\ Tail(s) \in Seq(Stores)
        /\ Head(s).at = CellAt(i, c)[p] /\ Head(s).word = CellWord(i, c, v)[p]
        /\ Ahead(Tail(s), CellAt(i, c), CellWord(i, c, v), N, p + 1)
        /\ p = N => Tail(s) = <<>>
        /\ p = N => Len(s) = 1
        /\ Len(s) = 1 => p = N
    BY <2>1, NextAhead
  <2> QED
    BY <2>2 DEF N
<1>4. /\ Head(s).at = IF p = 1 \/ p = n + 2 THEN GateAt[i][c] ELSE DataAt[i][c][p - 1]
      /\ Head(s).word = IF p = 1 THEN Zero ELSE IF p = n + 2 THEN Key(c) ELSE Part(c, v)
  BY <1>1, <1>2, <1>3 DEF CellAt, CellWord
<1>5. p > 1 => ~Valid(mem, i, c)
  BY DEF Underway
<1>6. \A k \in 1..n : k + 1 < p => mem[DataAt[i][c][k]] = Part(c, v)
  BY DEF Underway
<1>7. /\ \A k \in 1..n : DataAt[i][c][k] # GateAt[i][c]
      /\ \A k, l \in 1..n : DataAt[i][c][k] = DataAt[i][c][l] => k = l
  BY Places
<1> HIDE DEF n
<1>8. Head(s).at \in Home(i, c)
  <2>1. CASE p = 1 \/ p = n + 2
    BY <1>4, <2>1 DEF Home
  <2>2. CASE ~(p = 1 \/ p = n + 2)
    <3>1. p - 1 \in 1..n /\ Head(s).at = DataAt[i][c][p - 1]
      BY <1>1, <1>2, <1>4, <2>2
    <3> QED
      BY <3>1 DEF Home, In, n
  <2> QED
    BY <2>1, <2>2
<1>9. Head(s).word # Magic /\ \A j \in Image : Head(s).word # Record(j)
  BY <1>1, <1>4, WordsKnown, WordsDiffer
<1>10. CASE p = 1
  <2>1. Head(s).at = GateAt[i][c] /\ Head(s).word = Zero /\ p < n + 2 /\ p # n + 2
    BY <1>1, <1>4, <1>10
  <2>2. after[GateAt[i][c]] = Zero /\ Put(mem, Head(s).at, Torn)[GateAt[i][c]] = Torn
    BY <1>1, <2>1 DEF Put
  <2>3. ~Valid(after, i, c) /\ ~Valid(Put(mem, Head(s).at, Torn), i, c)
    BY <1>1, <2>2, WordsKnown DEF Valid
  <2>4. \A k \in 1..n : ~(k + 1 < p + 1)
    BY <1>1, <1>10
  <2>5. Underway(after, Tail(s), i, c, v, p + 1)
    BY <1>3, <2>3, <2>4 DEF Underway, n
  <2> QED
    BY <1>3, <1>8, <1>9, <2>1, <2>3, <2>5 DEF n
<1>11. CASE p # 1 /\ p # n + 2
  <2>1. /\ p - 1 \in 1..n /\ Head(s).at = DataAt[i][c][p - 1] /\ Head(s).word = Part(c, v)
        /\ p > 1 /\ p < n + 2
    BY <1>1, <1>2, <1>4, <1>11
  <2>2. \A w : Put(mem, Head(s).at, w)[GateAt[i][c]] = mem[GateAt[i][c]]
    BY <1>1, <1>7, <2>1 DEF Put
  <2>3. \A w : ~Valid(Put(mem, Head(s).at, w), i, c)
    BY <1>5, <2>1, <2>2 DEF Valid
  <2>4. ASSUME NEW k \in 1..n, k + 1 < p + 1
        PROVE  after[DataAt[i][c][k]] = Part(c, v)
    <3>1. CASE k = p - 1
      BY <1>1, <2>1, <3>1 DEF Put
    <3>2. CASE k # p - 1
      <4>1. k + 1 < p /\ DataAt[i][c][k] # Head(s).at
        BY <1>1, <1>2, <1>7, <2>1, <2>4, <3>2
      <4> QED
        BY <1>1, <1>6, <4>1 DEF Put
    <3> QED
      BY <3>1, <3>2
  <2>5. Underway(after, Tail(s), i, c, v, p + 1)
    <3> HIDE DEF after
    <3> QED
      BY <1>3, <2>3, <2>4 DEF Underway, n, after
  <2> QED
    BY <1>3, <1>8, <1>9, <1>11, <2>1, <2>3, <2>5 DEF n
<1>12. CASE p # 1 /\ p = n + 2
  <2>1. Head(s).at = GateAt[i][c] /\ Head(s).word = Key(c) /\ ~(p < n + 2)
    BY <1>1, <1>4, <1>12
  <2>2. after[GateAt[i][c]] = Key(c) /\ Put(mem, Head(s).at, Torn)[GateAt[i][c]] = Torn
    BY <1>1, <2>1 DEF Put
  <2>3. ~Valid(Put(mem, Head(s).at, Torn), i, c) /\ Valid(after, i, c)
    BY <1>1, <2>2, WordsKnown DEF Valid
  <2>4. ASSUME NEW k \in 1..n
        PROVE  after[DataAt[i][c][k]] = Part(c, v)
    <3>1. k + 1 < p /\ DataAt[i][c][k] # Head(s).at
      BY <1>1, <1>7, <1>12, <2>1
    <3> QED
      BY <1>1, <1>6, <3>1 DEF Put
  <2>5. Words(after, i, c) = Parts(i, c, v)
    <3> HIDE DEF after
    <3> QED
      BY <2>4 DEF Words, Parts, n
  <2>6. ReadCell(after, i, c) = v
    BY <2>3, <2>5, Reading
  <2> QED
    BY <1>3, <1>8, <1>9, <1>12, <2>1, <2>3, <2>5, <2>6 DEF n
<1> QED
  BY <1>10, <1>11, <1>12 DEF n

\* The plan that leaves the record of image i: no magic, its words, its magic.
RecordAt(i) ==
  [q \in 1..(Len(ManifestAt[i]) + 1) |->
     IF q = Len(ManifestAt[i]) + 1 THEN ManifestAt[i][1] ELSE ManifestAt[i][q]]

RecordWord(i) ==
  [q \in 1..(Len(ManifestAt[i]) + 1) |->
     IF q = 1 THEN Zero ELSE IF q = Len(ManifestAt[i]) + 1 THEN Magic ELSE Record(i)]

\* It has come to its p-th store.
Recording(mem, s, i, p) ==
  /\ Ahead(s, RecordAt(i), RecordWord(i), Len(ManifestAt[i]) + 1, p)
  /\ p > 1 /\ p < Len(ManifestAt[i]) + 2 => mem[ManifestAt[i][1]] # Magic
  /\ \A k \in 2..Len(ManifestAt[i]) : k < p => mem[ManifestAt[i][k]] = Record(i)

\* What RecordLayout lists is that plan.
LEMMA RecordPlan ==
  ASSUME NEW i \in Image, NEW mem
  PROVE  LET at == ManifestAt[i]
             s == [k \in 1..Len(at) |-> Hal(at[k], IF k = 1 THEN Zero ELSE Record(i))]
                    \o <<Hal(at[1], Magic)>>
         IN s \in Seq(Stores) /\ Recording(mem, s, i, 1)
<1> DEFINE L == Len(ManifestAt[i])
<1> DEFINE at == ManifestAt[i]
<1> DEFINE words == [k \in 1..L |-> Hal(at[k], IF k = 1 THEN Zero ELSE Record(i))]
<1> DEFINE last == Hal(at[1], Magic)
<1> DEFINE s == words \o <<last>>
<1>1. L \in Nat /\ L >= 2 /\ \A k \in 1..L : at[k] \in Address
  BY Layouts
<1>2. \A k \in 1..L : /\ words[k] \in Stores /\ words[k].at = at[k]
                      /\ words[k].word = IF k = 1 THEN Zero ELSE Record(i)
  BY <1>1, WordsKnown DEF Hal, Stores
<1>3. last \in Stores /\ last.at = at[1] /\ last.word = Magic
  BY <1>1, WordsKnown DEF Hal, Stores
<1>4. words \in [1..L -> Stores]
  BY <1>2
<1>5. words \in Seq(Stores) /\ Len(words) = L
  BY <1>1, <1>4, SeqDef, LenProperties
<1>7. <<last>> \in Seq(Stores) /\ Len(<<last>>) = 1 /\ <<last>>[1] = last
  BY <1>3
<1>8. RecordAt(i) = [q \in 1..(L + 1) |-> IF q = L + 1 THEN at[1] ELSE at[q]]
  BY DEF RecordAt
<1>9. RecordWord(i) = [q \in 1..(L + 1) |->
        IF q = 1 THEN Zero ELSE IF q = L + 1 THEN Magic ELSE Record(i)]
  BY DEF RecordWord
<1> HIDE DEF words, last, L, at
<1>10. /\ s \in Seq(Stores) /\ Len(s) = L + 1
       /\ \A j \in 1..(L + 1) : s[j] = IF j <= L THEN words[j] ELSE <<last>>[j - L]
  BY <1>1, <1>5, <1>7, ConcatProperties
<1> HIDE DEF s
<1>11. ASSUME NEW j \in 1..(L + 1)
       PROVE  s[j].at = RecordAt(i)[1 - 1 + j] /\ s[j].word = RecordWord(i)[1 - 1 + j]
  <2>1. 1 - 1 + j = j /\ (j <= L \/ j = L + 1)
    BY <1>1
  <2>2. CASE j <= L
    <3>1. s[j] = words[j] /\ j \in 1..L
      BY <1>10, <2>2
    <3> QED
      BY <1>1, <1>2, <1>8, <1>9, <2>1, <2>2, <3>1
  <2>3. CASE j = L + 1
    <3>1. s[j] = last
      BY <1>1, <1>7, <1>10, <2>3
    <3> QED
      BY <1>1, <1>3, <1>8, <1>9, <2>1, <2>3, <3>1
  <2> QED
    BY <2>1, <2>2, <2>3
<1>12. Ahead(s, RecordAt(i), RecordWord(i), L + 1, 1)
  BY <1>1, <1>10, <1>11 DEF Ahead
<1>13. \A k \in 2..L : ~(k < 1)
  BY <1>1
<1> QED
  BY <1>10, <1>12, <1>13 DEF Recording, L, at, s, words, last

\* NextAhead, for a record.
LEMMA NextRecord ==
  ASSUME NEW i, NEW s \in Seq(Stores), NEW n \in Nat, NEW p \in 1..n,
         Ahead(s, RecordAt(i), RecordWord(i), n, p)
  PROVE  /\ s # <<>> /\ Head(s) \in Stores /\ Tail(s) \in Seq(Stores)
         /\ Head(s).at = RecordAt(i)[p] /\ Head(s).word = RecordWord(i)[p]
         /\ Ahead(Tail(s), RecordAt(i), RecordWord(i), n, p + 1)
BY NextAhead

\* While it is under way no record is sound, and after it this one is alone.
LEMMA RecordStore ==
  ASSUME NEW mem \in [Address -> Word], NEW s \in Seq(Stores), NEW i \in Image,
         NEW p \in 1..(Len(ManifestAt[i]) + 1), Recording(mem, s, i, p), Sound(mem) = {}
  PROVE  LET after == Put(mem, Head(s).at, Head(s).word)
             n == Len(ManifestAt[i])
         IN /\ s # <<>> /\ Head(s) \in Stores /\ Tail(s) \in Seq(Stores)
            /\ Head(s).at \in In(ManifestAt[i])
            /\ Recording(after, Tail(s), i, p + 1)
            /\ p < n + 1 => Sound(after) = {}
            /\ p = n + 1 => Sound(after) = {i}
            /\ Sound(Put(mem, Head(s).at, Torn)) = {}
<1> DEFINE n == Len(ManifestAt[i])
<1> DEFINE at == ManifestAt[i]
<1> DEFINE after == Put(mem, Head(s).at, Head(s).word)
<1>1. n \in Nat /\ n >= 2 /\ p \in 1..(n + 1) /\ \A k \in 1..n : at[k] \in Address
  BY Layouts
<1>2. /\ s # <<>> /\ Head(s) \in Stores /\ Tail(s) \in Seq(Stores)
      /\ Head(s).at = RecordAt(i)[p] /\ Head(s).word = RecordWord(i)[p]
      /\ Ahead(Tail(s), RecordAt(i), RecordWord(i), n + 1, p + 1)
  <2> DEFINE N == n + 1
  <2>1. Ahead(s, RecordAt(i), RecordWord(i), N, p) /\ N \in Nat /\ p \in 1..N
    BY <1>1 DEF Recording
  <2> HIDE DEF N
  <2> QED
    BY <2>1, NextRecord DEF N
<1>3. /\ Head(s).at = IF p = n + 1 THEN at[1] ELSE at[p]
      /\ Head(s).word = IF p = 1 THEN Zero ELSE IF p = n + 1 THEN Magic ELSE Record(i)
  BY <1>1, <1>2 DEF RecordAt, RecordWord
<1>4. p > 1 => mem[at[1]] # Magic
  BY <1>1 DEF Recording
<1>5. \A k \in 2..n : k < p => mem[at[k]] = Record(i)
  BY DEF Recording
<1>6. \A k, l \in 1..n : at[k] = at[l] => k = l
  BY Places
<1> HIDE DEF n, at
<1>7. Head(s).at \in In(ManifestAt[i]) /\ Head(s).at \in Address
  <2>1. \E k \in 1..n : Head(s).at = at[k]
    <3>1. CASE p = n + 1
      BY <1>1, <1>3, <3>1, 1 \in 1..n
    <3>2. CASE p # n + 1
      BY <1>1, <1>3, <3>2, p \in 1..n
    <3> QED
      BY <3>1, <3>2
  <2> QED
    BY <1>1, <2>1 DEF In, n, at
<1>8. Recording(after, Tail(s), i, p + 1)
  <2>1. ASSUME p + 1 < n + 2 PROVE after[at[1]] # Magic
    <3>1. p # n + 1 /\ 1 \in 1..n /\ p \in 1..n /\ at[1] \in Address
      BY <1>1, <2>1
    <3>2. CASE p = 1
      <4>1. after[at[1]] = Zero
        BY <1>1, <1>3, <3>1, <3>2 DEF Put
      <4> QED
        BY <4>1, WordsKnown
    <3>3. CASE p # 1
      <4>1. after[at[1]] = mem[at[1]]
        BY <1>3, <1>6, <3>1, <3>3 DEF Put
      <4> QED
        BY <1>1, <1>4, <3>3, <4>1
    <3> QED
      BY <3>2, <3>3
  <2>2. ASSUME NEW k \in 2..n, k < p + 1 PROVE after[at[k]] = Record(i)
    <3>1. k \in 1..n /\ at[k] \in Address
      BY <1>1
    <3>2. CASE k = p
      BY <1>1, <1>3, <3>1, <3>2 DEF Put
    <3>3. CASE k # p
      <4>1. k < p /\ mem[at[k]] = Record(i)
        BY <1>1, <1>5, <2>2, <3>3
      <4>2. Head(s).at # at[k]
        BY <1>1, <1>3, <1>6, <3>1, <3>3
      <4> QED
        BY <3>1, <4>1, <4>2 DEF Put
    <3> QED
      BY <3>2, <3>3
  <2> HIDE DEF after
  <2> QED
    BY <1>1, <1>2, <2>1, <2>2 DEF Recording, n, at
<1>9. ASSUME NEW j \in Image, ManifestOk(after, j)
      PROVE  p = n + 1 /\ j = i
  <2>1. ~ManifestOk(mem, j)
    BY DEF Sound
  <2>2. \/ Head(s).at = ManifestAt[j][1] /\ Head(s).word = Magic
        \/ Head(s).word = Record(j) /\ \E k \in 2..Len(ManifestAt[j]) : Head(s).at = ManifestAt[j][k]
    BY <1>7, <1>9, <2>1, NoNewRecord
  <2>3. CASE Head(s).at = ManifestAt[j][1] /\ Head(s).word = Magic
    <3>1. p = n + 1
      BY <1>3, <2>3, WordsKnown
    <3>2. at[1] = ManifestAt[j][1]
      BY <1>3, <2>3, <3>1
    <3>3. at[2] = ManifestAt[j][2]
      BY <3>2, PersistAssumption DEF at
    <3>4. 1 \in 1..n /\ 2 \in 1..n /\ 2 \in 2..n /\ 2 < p
      BY <1>1, <3>1
    <3>5. after[at[2]] = Record(i)
      <4>1. Head(s).at # at[2] /\ at[2] \in Address
        BY <1>1, <1>3, <1>6, <3>1, <3>4
      <4>2. mem[at[2]] = Record(i)
        BY <1>5, <3>4
      <4> QED
        BY <4>1, <4>2 DEF Put
    <3>6. after[ManifestAt[j][2]] = Record(j)
      <4>1. 2 \in 2..Len(ManifestAt[j])
        BY Layouts
      <4> QED
        BY <1>9, <4>1 DEF ManifestOk
    <3>7. j = i
      BY <3>3, <3>5, <3>6, WordsDiffer
    <3> QED
      BY <3>1, <3>7
  <2>4. ASSUME Head(s).word = Record(j)
        PROVE  FALSE
    <3>1. p # 1 /\ p # n + 1 /\ Head(s).word = Record(i)
      BY <1>3, <2>4, WordsKnown
    <3>2. j = i
      BY <2>4, <3>1, WordsDiffer
    <3>3. after[ManifestAt[j][1]] = Magic
      BY <1>9 DEF ManifestOk
    <3>4. after[at[1]] = mem[at[1]] /\ mem[at[1]] # Magic
      <4>1. p \in 1..n /\ 1 \in 1..n /\ at[1] # Head(s).at /\ at[1] \in Address /\ p > 1
        BY <1>1, <1>3, <1>6, <3>1
      <4> QED
        BY <1>4, <4>1 DEF Put
    <3> QED
      BY <3>2, <3>3, <3>4 DEF at
  <2> QED
    BY <2>2, <2>3, <2>4
<1>10. ASSUME p = n + 1 PROVE ManifestOk(after, i)
  <2>1. after[at[1]] = Magic
    <3>1. Head(s).at = at[1] /\ Head(s).word = Magic /\ at[1] \in Address
      BY <1>1, <1>3, <1>10
    <3> QED
      BY <3>1 DEF Put
  <2>2. ASSUME NEW k \in 2..n PROVE after[at[k]] = Record(i)
    <3>1. k \in 1..n /\ 1 \in 1..n /\ k # 1 /\ k < p
      BY <1>1, <1>10
    <3>2. Head(s).at # at[k] /\ at[k] \in Address
      BY <1>1, <1>3, <1>6, <1>10, <3>1
    <3> QED
      BY <1>5, <3>1, <3>2 DEF Put
  <2> HIDE DEF after
  <2> QED
    BY <2>1, <2>2 DEF ManifestOk, n, at
<1>11. ASSUME NEW j \in Image, ManifestOk(Put(mem, Head(s).at, Torn), j)
       PROVE  FALSE
  BY <1>7, <1>11, NoNewRecord, WordsKnown DEF Sound
<1>12. Sound(Put(mem, Head(s).at, Torn)) = {}
  BY <1>11 DEF Sound
<1>13. p < n + 1 => Sound(after) = {}
  <2> HIDE DEF after
  <2> QED
    BY <1>1, <1>9 DEF Sound
<1>14. p = n + 1 => Sound(after) = {i}
  <2> HIDE DEF after
  <2> QED
    BY <1>9, <1>10 DEF Sound
<1> QED
  BY <1>2, <1>7, <1>8, <1>12, <1>13, <1>14 DEF n

(***************************************************************************)
(* The inductive invariant, by phase.                                      *)
(***************************************************************************)
\* An image finds in each of its cells what the cells show, or nothing.
Faithful(mem, i) ==
  \A c \in CellsOf(i) : ReadCell(mem, i, c) \in {shown[c], Unset}

\* The copy holds what the moving cells show.
CopySound ==
  \A c \in moving : /\ c \in CellsOf(image) /\ shown[c] \in Held
                    /\ snap[c] = Parts(image, c, shown[c])

\* A cell that does not move is invalid.
RestInvalid == \A c \in CellsOf(image) \ moving : ~Valid(memory, image, c)

InPlaceAll(cells) ==
  \A c \in cells : /\ Valid(memory, image, c)
                   /\ Words(memory, image, c) = Parts(image, c, shown[c])

InvOff ==
  /\ stores = <<>>
  /\ \A i, j \in Sound(memory) : i = j
  /\ \A i \in Sound(memory) : Faithful(memory, i)

InvRetire ==
  /\ CopySound
  /\ \/ stores = <<>> /\ Sound(memory) = {}
     \/ \E m \in Image : /\ Sound(memory) = {m} /\ Faithful(memory, m)
                         /\ Len(stores) = 1
                         /\ stores[1] = Hal(ManifestAt[m][1], Zero)

InvClear ==
  /\ CopySound /\ Sound(memory) = {}
  /\ \A j \in 1..Len(stores) : stores[j].word = Zero
  /\ \A c \in CellsOf(image) \ moving : Valid(memory, image, c) =>
       \E j \in 1..Len(stores) : stores[j].at = GateAt[image][c]

Carrying(c, p) ==
  /\ Underway(memory, stores, image, c, shown[c], p)
  /\ InPlaceAll(moving \ (In(todo) \cup {c}))

InvCarry ==
  /\ CopySound /\ Sound(memory) = {} /\ RestInvalid /\ In(todo) \subseteq moving
  /\ \/ stores = <<>> /\ InPlaceAll(moving \ In(todo))
     \/ \E c \in moving : \E p \in 1..(Len(DataAt[image][c]) + 2) : Carrying(c, p)

InvRecord ==
  /\ CopySound /\ RestInvalid /\ InPlaceAll(moving)
  /\ \/ stores = <<>> /\ Sound(memory) = {image}
     \/ /\ Sound(memory) = {}
        /\ \E p \in 1..(Len(ManifestAt[image]) + 1) : Recording(memory, stores, image, p)

\* In use: a cell is as it shows unless it is being primed or written, and the
\* cells the program primes show something once they are.
Quiet ==
  /\ stores = <<>> /\ shown = ReadAll(memory, image)
  /\ \A c \in Primes(image) : shown[c] = Unset => phase = "init" /\ c \in In(todo)

Priming(c, p) ==
  /\ phase = "init" /\ shown = ReadAll(memory, image)
  /\ Underway(memory, stores, image, c, Default, p)
  /\ \A d \in Primes(image) : shown[d] = Unset => d \in In(todo) \cup {c}

Writing(c, v, p) ==
  /\ phase = "run"
  /\ Underway(memory, stores, image, c, v, p)
  /\ p = 1 => ReadCell(memory, image, c) = shown[c]
  /\ \A d \in Cell \ {c} : ReadCell(memory, image, d) = shown[d]
  /\ \A d \in Primes(image) : shown[d] # Unset

\* The word of a cell is stored under the gate as it is; only a frail cell's
\* can tear.
WritingWord(c, v) ==
  /\ phase = "run" /\ shown = ReadAll(memory, image)
  /\ Len(DataAt[image][c]) = 1
  /\ stores # <<>> /\ stores[1].at = DataAt[image][c][1] /\ stores[1].word = Part(c, v)
  /\ stores[1].tears => c \in Frail
  /\ Tail(stores) = <<>> \/ Tail(stores) = <<Direct(GateAt[image][c], Key(c))>>
  /\ \A d \in Primes(image) : shown[d] # Unset

\* Behind it a commit stamps the gate.
Stamping(c, v) ==
  /\ phase = "run" /\ shown = ReadAll(memory, image)
  /\ Words(memory, image, c) = Parts(image, c, v)
  /\ stores = <<Direct(GateAt[image][c], Key(c))>>
  /\ \A d \in Primes(image) : shown[d] # Unset

InUse ==
  \/ Quiet
  \/ \E c \in Primes(image) : \E p \in 2..(Len(DataAt[image][c]) + 2) : Priming(c, p)
  \/ \E c \in CellsOf(image), v \in Value :
       \/ \E p \in 1..(Len(DataAt[image][c]) + 2) : Writing(c, v, p)
       \/ WritingWord(c, v)
       \/ Stamping(c, v)

InvUse == Sound(memory) = {image} /\ In(todo) \subseteq Primes(image) /\ InUse

Inv ==
  /\ TypeOK
  /\ shown \in [Cell -> Held \cup {Unset}]
  /\ phase = "off" => InvOff
  /\ phase = "retire" => InvRetire
  /\ phase = "clear" => InvClear
  /\ phase = "carry" => InvCarry
  /\ phase = "record" => InvRecord
  /\ phase \in {"init", "run"} => InvUse

(***************************************************************************)
(* The boot: what its own steps leave.                                     *)
(***************************************************************************)
\* Nothing is left to do in the empty sequence.
LEMMA Empties ==
  /\ \A S : <<>> \in Seq(S)
  /\ Len(<<>>) = 0 /\ In(<<>>) = {} /\ DOMAIN <<>> = {}
<1>1. \A S : <<>> \in Seq(S)
  OBVIOUS
<1>2. Len(<<>>) = 0 /\ DOMAIN <<>> = 1..0
  OBVIOUS
<1>3. 1..0 = {}
  OBVIOUS
<1> QED
  BY <1>1, <1>2, <1>3 DEF In

\* Virgin memory holds no record.
LEMMA InvInit == Init => Inv
<1> SUFFICES ASSUME Init PROVE Inv
  OBVIOUS
<1>1. memory \in [Address -> Word] /\ \A a \in Address : memory[a] = Zero
  BY WordsKnown DEF Init
<1>2. Sound(memory) = {}
  <2>1. ASSUME NEW i \in Image, ManifestOk(memory, i) PROVE FALSE
    <3>1. ManifestAt[i][1] \in Address
      BY Layouts
    <3> QED
      BY <1>1, <2>1, <3>1, WordsKnown DEF ManifestOk
  <2> QED
    BY <2>1 DEF Sound
<1>3. InvOff
  BY <1>2 DEF InvOff, Init
<1>4. shown \in [Cell -> Held \cup {Unset}] /\ shown \in [Cell -> Held \cup {Unset, Mixed}]
  BY DEF Init
<1>5. TypeOK
  BY <1>1, <1>4, Empties DEF TypeOK, Init
<1> QED
  BY <1>3, <1>4, <1>5 DEF Inv, Init

\* What an image reads of cells it does not have, or has faithfully.
LEMMA ReadsFaithful ==
  ASSUME NEW mem, NEW i \in Image, shown \in [Cell -> Held \cup {Unset}], Faithful(mem, i)
  PROVE  /\ ReadAll(mem, i) \in [Cell -> Held \cup {Unset}]
         /\ \A c \in Cell : /\ ReadAll(mem, i)[c] = ReadCell(mem, i, c)
                            /\ ReadAll(mem, i)[c] \in {shown[c], Unset}
                            /\ c \notin CellsOf(i) => ReadAll(mem, i)[c] = Unset
<1>1. ASSUME NEW c \in Cell
      PROVE  /\ ReadCell(mem, i, c) \in {shown[c], Unset}
             /\ c \notin CellsOf(i) => ReadCell(mem, i, c) = Unset
  <2>1. CASE c \in CellsOf(i)
    BY <2>1 DEF Faithful
  <2>2. CASE c \notin CellsOf(i)
    BY <2>2, Reading DEF Valid
  <2> QED
    BY <2>1, <2>2
<1>2. \A c \in Cell : shown[c] \in Held \cup {Unset}
  OBVIOUS
<1> QED
  BY <1>1, <1>2 DEF ReadAll

\* What the move carries was valid in the old layout, in the same size.
LEMMA CarriedMovable ==
  ASSUME NEW i, NEW old, NEW c \in Carried(i, old)
  PROVE  /\ c \in CellsOf(i) /\ Valid(memory, old, c)
         /\ Len(DataAt[old][c]) = Len(DataAt[i][c])
BY DEF Carried, Takes, SameSize, CellsOf

\* A boot finds at most one record, whose image's cells are faithful: what it
\* shows at once, or copies out, is what the cells show.
LEMMA BootKeeps ==
  ASSUME Inv, NEW i \in Image, NEW preserve \in BOOLEAN, Boot(i, preserve)
  PROVE  Inv' /\ [Atomic!Next]_shown
<1>1. phase = "off" /\ image' = i /\ memory' = memory /\ cut' = cut
  BY DEF Boot
<1>2. InvOff /\ TypeOK /\ shown \in [Cell -> Held \cup {Unset}]
  BY <1>1 DEF Inv
<1>3. Manifests = Sound(memory)
  BY DEF Manifests, Sound
<1>4. memory' \in [Address -> Word] /\ cut' \in BOOLEAN
  BY <1>1, <1>2 DEF TypeOK
<1>5. CASE ManifestOk(memory, i) /\ ~preserve
  <2>1. /\ phase' = "init" /\ todo' = InTable(i, Primes(i)) /\ shown' = ReadAll(memory, i)
        /\ stores' = <<>> /\ moving' = moving /\ snap' = snap
    BY <1>2, <1>5 DEF Boot, InvOff
  <2>2. Sound(memory) = {i} /\ Faithful(memory, i)
    BY <1>2, <1>5 DEF InvOff, Sound
  <2>3. /\ shown' \in [Cell -> Held \cup {Unset}]
        /\ \A c \in Cell : shown'[c] \in {shown[c], Unset}
    BY <1>2, <2>1, <2>2, ReadsFaithful
  <2>4. In(todo') = Primes(i) /\ todo' \in Seq(Cell)
    BY <2>1, InTableKeeps DEF Primes
  <2>5. Quiet'
    BY <1>1, <2>1, <2>4 DEF Quiet
  <2>6. InvUse'
    BY <1>1, <2>2, <2>4, <2>5 DEF InvUse, InUse
  <2>7. TypeOK'
    <3>1. stores' \in Seq([at : Address, word : Word, tears : BOOLEAN])
      BY <2>1, Empties
    <3>2. moving' \subseteq Cell /\ DOMAIN snap' = moving' /\ \A c \in moving' : snap'[c] \in Seq(Word)
      BY <1>2, <2>1 DEF TypeOK
    <3>3. shown' \in [Cell -> Held \cup {Unset, Mixed}]
      BY <2>3
    <3> QED
      BY <1>1, <1>4, <2>1, <2>4, <3>1, <3>2, <3>3 DEF TypeOK
  <2>8. Inv'
    BY <2>1, <2>3, <2>6, <2>7 DEF Inv
  <2>9. Atomic!Restart
    BY <2>3 DEF Atomic!Restart, Held
  <2> QED
    BY <2>8, <2>9 DEF Atomic!Next
<1>6. CASE ~(ManifestOk(memory, i) /\ ~preserve)
  <2>1. /\ phase' = "retire" /\ shown' = shown /\ todo' = todo
        /\ moving' = UNION {Carried(i, old) : old \in Found}
        /\ snap' = [c \in moving' |-> Words(memory, CHOOSE old \in Found : TRUE, c)]
        /\ stores' = [k \in 1..Cardinality(Manifests) |->
                        Hal(ManifestAt[SetToSeq(Manifests)[k]][1], Zero)]
    BY <1>6 DEF Boot
  <2>2. /\ todo' \in Seq(Cell) /\ shown' \in [Cell -> Held \cup {Unset}]
        /\ shown' \in [Cell -> Held \cup {Unset, Mixed}]
    BY <1>2, <2>1 DEF TypeOK
  <2>3. SUFFICES /\ stores' \in Seq(Stores) /\ moving' \subseteq Cell
                 /\ DOMAIN snap' = moving' /\ \A c \in moving' : snap'[c] \in Seq(Word)
                 /\ InvRetire'
    <3>1. TypeOK'
      BY <1>1, <1>4, <2>1, <2>2, <2>3 DEF TypeOK, Stores
    <3> QED
      BY <2>1, <2>2, <2>3, <3>1 DEF Inv
  <2>4. CASE Sound(memory) = {}
    <3>1. Cardinality(Manifests) = 0 /\ Found = {}
      BY <1>3, <2>4, FS_EmptySet DEF Found
    <3>2. moving' = {}
      BY <2>1, <3>1
    <3>3. stores' = <<>>
      <4>1. stores' = [k \in 1..0 |-> Hal(ManifestAt[SetToSeq(Manifests)[k]][1], Zero)]
        BY <2>1, <3>1
      <4>2. 1..0 = {}
        OBVIOUS
      <4> QED
        BY <4>1, <4>2
    <3>4. DOMAIN snap' = {}
      BY <2>1, <3>2
    <3> QED
      BY <1>1, <2>4, <3>2, <3>3, <3>4, Empties DEF InvRetire, CopySound
  <2>5. CASE Sound(memory) # {}
    <3>1. PICK m \in Image : Sound(memory) = {m}
      BY <1>2, <2>5 DEF InvOff, Sound
    <3>2. Faithful(memory, m)
      BY <1>2, <3>1 DEF InvOff
    <3>3. Cardinality(Manifests) = 1 /\ Found = {m}
      BY <1>3, <3>1, FS_Singleton DEF Found
    <3>4. moving' = Carried(i, m) /\ (CHOOSE old \in Found : TRUE) = m
      BY <2>1, <3>3
    <3>5. ASSUME NEW c \in moving'
          PROVE  /\ c \in CellsOf(i) /\ c \in Cell /\ shown[c] \in Held
                 /\ snap'[c] = Parts(i, c, shown[c]) /\ snap'[c] \in Seq(Word)
      <4>1. c \in CellsOf(i) /\ Valid(memory, m, c) /\ Len(DataAt[m][c]) = Len(DataAt[i][c])
        BY <3>4, CarriedMovable
      <4>2. /\ ReadCell(memory, m, c) \in {shown[c], Unset} /\ ReadCell(memory, m, c) # Unset
            /\ c \in Cell
        BY <3>2, <4>1, Reading, Layouts DEF Faithful
      <4>3. ReadCell(memory, m, c) = shown[c] /\ shown[c] \in Held
        BY <1>2, <4>2
      <4>4. Words(memory, m, c) = Parts(m, c, shown[c])
        BY <4>1, <4>3, Reading
      <4>5. Parts(m, c, shown[c]) = Parts(i, c, shown[c])
        BY <4>1 DEF Parts
      <4>6. snap'[c] = Words(memory, m, c)
        BY <2>1, <3>4
      <4>7. Parts(i, c, shown[c]) \in Seq(Word)
        <5>1. Len(DataAt[i][c]) \in Nat /\ Part(c, shown[c]) \in Word
          BY <4>1, <4>2, <4>3, Layouts, WordsKnown
        <5>2. Parts(i, c, shown[c]) \in [1..Len(DataAt[i][c]) -> Word]
          BY <5>1 DEF Parts
        <5> QED
          BY <5>1, <5>2, SeqDef
      <4> QED
        BY <4>1, <4>2, <4>3, <4>4, <4>5, <4>6, <4>7
    <3>6. SetToSeq({m})[1] = m
      <4> DEFINE good(f) == f \in [1..1 -> {m}] /\ IsInjective(f)
      <4>1. Cardinality({m}) = 1
        BY FS_Singleton
      <4>2. [k \in 1..1 |-> m] \in [1..1 -> {m}] /\ IsInjective([k \in 1..1 |-> m])
        BY DEF IsInjective
      <4>3. SetToSeq({m}) = CHOOSE f \in [1..1 -> {m}] : IsInjective(f)
        BY <4>1 DEF SetToSeq
      <4>4. SetToSeq({m}) \in [1..1 -> {m}]
        BY <4>2, <4>3
      <4> QED
        BY <4>4
    <3>7. stores' = [k \in 1..1 |-> Hal(ManifestAt[SetToSeq({m})[k]][1], Zero)]
      BY <1>3, <2>1, <3>1, <3>3
    <3>8. Hal(ManifestAt[m][1], Zero) \in Stores
      BY Layouts, WordsKnown DEF Hal, Stores
    <3>9. \A k \in 1..1 : k = 1
      OBVIOUS
    <3>10. stores' = [k \in 1..1 |-> Hal(ManifestAt[m][1], Zero)]
      BY <3>6, <3>7, <3>9
    <3>11. stores' \in Seq(Stores) /\ Len(stores') = 1 /\ stores'[1] = Hal(ManifestAt[m][1], Zero)
      <4>1. stores' \in [1..1 -> Stores]
        BY <3>8, <3>10
      <4> QED
        BY <3>10, <4>1, SeqDef, LenProperties
    <3>12. DOMAIN snap' = moving'
      BY <2>1
    <3>13. CopySound'
      BY <1>1, <2>1, <3>5 DEF CopySound
    <3>14. InvRetire'
      BY <1>1, <2>1, <3>1, <3>2, <3>11, <3>13 DEF InvRetire, Faithful
    <3> QED
      BY <3>5, <3>11, <3>12, <3>14
  <2> QED
    BY <2>4, <2>5
<1> QED
  BY <1>5, <1>6

\* Every gate that does not move and holds its key is in the list.
LEMMA ClearKeeps ==
  ASSUME Inv, Clear
  PROVE  Inv' /\ UNCHANGED shown
<1> DEFINE rest == {c \in Cell \ moving : Valid(memory, image, c)}
<1> DEFINE stale == InTable(image, rest)
<1>1. /\ phase = "retire" /\ stores = <<>> /\ phase' = "clear"
      /\ stores' = [k \in 1..Len(stale) |-> Hal(GateAt[image][stale[k]], Zero)]
      /\ memory' = memory /\ image' = image /\ moving' = moving /\ snap' = snap
      /\ todo' = todo /\ shown' = shown /\ cut' = cut
  BY DEF Clear, Idle, move
<1>2. TypeOK /\ image \in Image /\ InvRetire
  BY <1>1 DEF Inv, TypeOK
<1>3. CopySound /\ Sound(memory) = {}
  <2>1. Len(stores) # 1
    BY <1>1, Empties
  <2> QED
    BY <1>2, <2>1 DEF InvRetire
<1>4. stale \in Seq(Cell) /\ In(stale) = CellsOf(image) \cap rest
  BY <1>2, InTableKeeps
<1> HIDE DEF stale
<1>5. Len(stale) \in Nat
  BY <1>4, LenProperties
<1>6. ASSUME NEW k \in 1..Len(stale)
      PROVE  stores'[k] \in Stores /\ stores'[k].word = Zero
             /\ stores'[k].at = GateAt[image][stale[k]]
  <2>1. stale[k] \in CellsOf(image)
    BY <1>4 DEF In
  <2>2. GateAt[image][stale[k]] \in Address
    BY <1>2, <2>1, Layouts
  <2> QED
    BY <1>1, <2>2, WordsKnown DEF Hal, Stores
<1>7. stores' \in Seq(Stores) /\ Len(stores') = Len(stale)
  <2>1. stores' \in [1..Len(stale) -> Stores]
    BY <1>1, <1>6
  <2> QED
    BY <1>5, <2>1, SeqDef, LenProperties
<1>8. ASSUME NEW c \in CellsOf(image) \ moving, Valid(memory, image, c)
      PROVE  \E j \in 1..Len(stores') : stores'[j].at = GateAt[image][c]
  <2>1. c \in In(stale)
    BY <1>2, <1>4, <1>8, Layouts
  <2>2. PICK j \in 1..Len(stale) : stale[j] = c
    BY <2>1 DEF In
  <2> QED
    BY <1>6, <1>7, <2>2
<1>9. InvClear'
  BY <1>1, <1>3, <1>6, <1>7, <1>8 DEF InvClear, CopySound
<1>10. TypeOK'
  BY <1>1, <1>2, <1>7 DEF TypeOK, Stores
<1> QED
  BY <1>1, <1>9, <1>10 DEF Inv

\* Once the list is done no such gate holds its key.
LEMMA CarryFirstKeeps ==
  ASSUME Inv, CarryFirst
  PROVE  Inv' /\ UNCHANGED shown
<1>1. /\ phase = "clear" /\ stores = <<>> /\ phase' = "carry"
      /\ todo' = InTable(image, moving)
      /\ memory' = memory /\ image' = image /\ moving' = moving /\ snap' = snap
      /\ stores' = stores /\ shown' = shown /\ cut' = cut
  BY DEF CarryFirst, Idle, move
<1>2. TypeOK /\ image \in Image /\ InvClear
  BY <1>1 DEF Inv, TypeOK
<1>3. CopySound /\ Sound(memory) = {} /\ moving \subseteq CellsOf(image)
  BY <1>2 DEF InvClear, CopySound
<1>4. ASSUME NEW c \in CellsOf(image) \ moving PROVE ~Valid(memory, image, c)
  <2>1. \A j \in 1..Len(stores) : FALSE
    BY <1>1, Empties
  <2> QED
    BY <1>2, <2>1 DEF InvClear
<1>5. todo' \in Seq(Cell) /\ In(todo') = moving
  BY <1>1, <1>2, <1>3, InTableKeeps
<1>6. InvCarry'
  BY <1>1, <1>3, <1>4, <1>5 DEF InvCarry, CopySound, RestInvalid, InPlaceAll
<1>7. TypeOK'
  BY <1>1, <1>2, <1>5 DEF TypeOK
<1> QED
  BY <1>1, <1>6, <1>7 DEF Inv

\* A cell is in place already, or is under way from its first store.
LEMMA CarryCellKeeps ==
  ASSUME Inv, CarryCell
  PROVE  Inv' /\ UNCHANGED shown
<1> DEFINE c == Head(todo)
<1>1. /\ phase = "carry" /\ stores = <<>> /\ todo # <<>> /\ phase' = "carry"
      /\ todo' = Tail(todo)
      /\ stores' = IF InPlace(c) THEN <<>>
                   ELSE <<Hal(GateAt[image][c], Zero)>> \o HalAll(DataAt[image][c], snap[c])
                          \o <<Hal(GateAt[image][c], Key(c))>>
      /\ memory' = memory /\ image' = image /\ moving' = moving /\ snap' = snap
      /\ shown' = shown /\ cut' = cut
  BY DEF CarryCell, Idle
<1>2. TypeOK /\ image \in Image /\ InvCarry /\ todo \in Seq(Cell)
  BY <1>1 DEF Inv, TypeOK
<1>3. /\ c \in In(todo) /\ In(todo') \subseteq In(todo) /\ In(todo) = {c} \cup In(todo')
      /\ todo' \in Seq(Cell)
  BY <1>1, <1>2, HeadTail
<1> HIDE DEF c
<1>4. /\ CopySound /\ Sound(memory) = {} /\ RestInvalid /\ In(todo) \subseteq moving
  BY <1>2 DEF InvCarry
<1>5. InPlaceAll(moving \ In(todo))
  <2>1. ASSUME NEW d \in moving, NEW p \in 1..(Len(DataAt[image][d]) + 2), Carrying(d, p)
        PROVE  FALSE
    <3>1. d \in CellsOf(image)
      BY <1>4 DEF CopySound
    <3>2. Len(stores) = Len(DataAt[image][d]) + 2 + 1 - p
      BY <2>1 DEF Carrying, Underway, Ahead
    <3>3. Len(DataAt[image][d]) \in Nat /\ Len(stores) = 0
      BY <1>1, <1>2, <3>1, Layouts, Empties
    <3> QED
      BY <3>2, <3>3
  <2> QED
    BY <1>2, <2>1 DEF InvCarry
<1>6. c \in moving /\ c \in CellsOf(image) /\ shown[c] \in Held
      /\ snap[c] = Parts(image, c, shown[c]) /\ c \in Cell
  BY <1>2, <1>3, <1>4, Layouts DEF CopySound
<1>7. stores' \in Seq(Stores)
      /\ \/ stores' = <<>> /\ InPlace(c)
         \/ Underway(memory, stores', image, c, shown[c], 1)
  <2>1. CASE InPlace(c)
    BY <1>1, <2>1, Empties
  <2>2. CASE ~InPlace(c)
    <3>1. Hal(GateAt[image][c], Zero) \in Stores /\ Hal(GateAt[image][c], Key(c)) \in Stores
      BY <1>2, <1>6, Layouts, WordsKnown DEF Hal, Stores
    <3>2. /\ Hal(GateAt[image][c], Zero).at = GateAt[image][c]
          /\ Hal(GateAt[image][c], Zero).word = Zero
          /\ Hal(GateAt[image][c], Key(c)).at = GateAt[image][c]
          /\ Hal(GateAt[image][c], Key(c)).word = Key(c)
      BY DEF Hal
    <3>3. /\ stores' \in Seq(Stores)
          /\ Ahead(stores', CellAt(image, c), CellWord(image, c, shown[c]),
                   Len(DataAt[image][c]) + 2, 1)
      BY <1>1, <1>2, <1>6, <2>2, <3>1, <3>2, CellPlans
    <3>4. \A k \in 1..Len(DataAt[image][c]) : ~(k + 1 < 1)
      OBVIOUS
    <3> QED
      BY <3>3, <3>4 DEF Underway
  <2> QED
    BY <2>1, <2>2
<1>8. InvCarry'
  <2>1. CASE stores' = <<>> /\ InPlace(c)
    <3>1. Valid(memory, image, c) /\ Words(memory, image, c) = Parts(image, c, shown[c])
      BY <1>6, <2>1 DEF InPlace
    <3>2. InPlaceAll(moving \ In(todo'))
      BY <1>3, <1>5, <3>1 DEF InPlaceAll
    <3> QED
      BY <1>1, <1>3, <1>4, <2>1, <3>2 DEF InvCarry, CopySound, RestInvalid, InPlaceAll
  <2>2. CASE Underway(memory, stores', image, c, shown[c], 1)
    <3>1. PICK d : d = c
      OBVIOUS
    <3>2. InPlaceAll(moving \ (In(todo') \cup {d}))
      BY <1>3, <1>5, <3>1 DEF InPlaceAll
    <3>3. 1 \in 1..(Len(DataAt[image][d]) + 2)
      BY <1>2, <1>6, <3>1, Layouts
    <3>4. Underway(memory, stores', image, d, shown[d], 1)
      BY <2>2, <3>1
    <3>5. Carrying(d, 1)'
      BY <1>1, <3>2, <3>4 DEF Carrying, InPlaceAll
    <3>6. d \in moving' /\ 1 \in 1..(Len(DataAt[image'][d]) + 2)
      BY <1>1, <1>6, <3>1, <3>3
    <3>7. CopySound' /\ RestInvalid' /\ Sound(memory') = {} /\ In(todo') \subseteq moving'
      BY <1>1, <1>3, <1>4 DEF CopySound, RestInvalid
    <3> QED
      BY <3>5, <3>6, <3>7 DEF InvCarry
  <2> QED
    BY <1>7, <2>1, <2>2
<1>9. TypeOK'
  BY <1>1, <1>2, <1>3, <1>7 DEF TypeOK, Stores
<1> QED
  BY <1>1, <1>8, <1>9 DEF Inv

\* The record is stored only when every moving cell is in place.
LEMMA RecordLayoutKeeps ==
  ASSUME Inv, RecordLayout
  PROVE  Inv' /\ UNCHANGED shown
<1> DEFINE at == ManifestAt[image]
<1>1. /\ phase = "carry" /\ stores = <<>> /\ todo = <<>> /\ phase' = "record"
      /\ stores' = [k \in 1..Len(at) |-> Hal(at[k], IF k = 1 THEN Zero ELSE Record(image))]
                      \o <<Hal(at[1], Magic)>>
      /\ memory' = memory /\ image' = image /\ moving' = moving /\ snap' = snap
      /\ todo' = todo /\ shown' = shown /\ cut' = cut
  BY DEF RecordLayout, Idle, move
<1>2. TypeOK /\ image \in Image /\ InvCarry
  BY <1>1 DEF Inv, TypeOK
<1>3. CopySound /\ Sound(memory) = {} /\ RestInvalid
  BY <1>2 DEF InvCarry
<1>4. InPlaceAll(moving)
  <2>1. ASSUME NEW d \in moving, NEW p \in 1..(Len(DataAt[image][d]) + 2), Carrying(d, p)
        PROVE  FALSE
    <3>1. d \in CellsOf(image)
      BY <1>3 DEF CopySound
    <3>2. Len(stores) = Len(DataAt[image][d]) + 2 + 1 - p
      BY <2>1 DEF Carrying, Underway, Ahead
    <3>3. Len(DataAt[image][d]) \in Nat /\ Len(stores) = 0
      BY <1>1, <1>2, <3>1, Layouts, Empties
    <3> QED
      BY <3>2, <3>3
  <2>2. InPlaceAll(moving \ In(todo))
    BY <1>2, <2>1 DEF InvCarry
  <2>3. In(todo) = {}
    BY <1>1, Empties
  <2> QED
    BY <2>2, <2>3 DEF InPlaceAll
<1>5. stores' \in Seq(Stores) /\ Recording(memory, stores', image, 1)
  BY <1>1, <1>2, RecordPlan
<1>6. 1 \in 1..(Len(ManifestAt[image]) + 1)
  BY <1>2, Layouts
<1>7. InvRecord'
  BY <1>1, <1>3, <1>4, <1>5, <1>6 DEF InvRecord, CopySound, RestInvalid, InPlaceAll
<1>8. TypeOK'
  BY <1>1, <1>2, <1>5 DEF TypeOK, Stores
<1> QED
  BY <1>1, <1>7, <1>8 DEF Inv

\* Once the record is down an image finds every cell it carried, and no other.
LEMMA RecordedFaithful ==
  ASSUME image \in Image, CopySound, RestInvalid, InPlaceAll(moving)
  PROVE  Faithful(memory, image)
<1>1. ASSUME NEW c \in CellsOf(image), c \in moving
      PROVE  ReadCell(memory, image, c) = shown[c]
  BY <1>1, Reading DEF CopySound, InPlaceAll
<1>2. ASSUME NEW c \in CellsOf(image), c \notin moving
      PROVE  ReadCell(memory, image, c) = Unset
  BY <1>2, Reading DEF RestInvalid
<1> QED
  BY <1>1, <1>2 DEF Faithful

\* When its stores are done the record is sound.
LEMMA RecordIdle ==
  ASSUME image \in Image, InvRecord, stores = <<>>
  PROVE  Sound(memory) = {image}
<1>1. ASSUME NEW p \in 1..(Len(ManifestAt[image]) + 1), Recording(memory, stores, image, p)
      PROVE  FALSE
  <2>1. Len(stores) = Len(ManifestAt[image]) + 1 + 1 - p
    BY <1>1 DEF Recording, Ahead
  <2>2. Len(ManifestAt[image]) \in Nat /\ Len(stores) = 0
    BY Layouts, Empties
  <2> QED
    BY <2>1, <2>2
<1> QED
  BY <1>1 DEF InvRecord

\* The moved cells show what they showed, and the others nothing.
LEMMA MoveDoneKeeps ==
  ASSUME Inv, MoveDone
  PROVE  Inv' /\ [Atomic!Next]_shown
<1>1. /\ phase = "record" /\ stores = <<>> /\ phase' = "init"
      /\ todo' = InTable(image, Primes(image)) /\ moving' = {} /\ snap' = <<>>
      /\ shown' = ReadAll(memory, image)
      /\ memory' = memory /\ image' = image /\ stores' = stores /\ cut' = cut
  BY DEF MoveDone, Idle
<1>2. TypeOK /\ image \in Image /\ InvRecord /\ shown \in [Cell -> Held \cup {Unset}]
  BY <1>1 DEF Inv, TypeOK
<1>3. Sound(memory) = {image} /\ Faithful(memory, image)
  BY <1>1, <1>2, RecordIdle, RecordedFaithful DEF InvRecord
<1>4. /\ shown' \in [Cell -> Held \cup {Unset}]
      /\ \A c \in Cell : shown'[c] \in {shown[c], Unset}
  BY <1>1, <1>2, <1>3, ReadsFaithful
<1>5. In(todo') = Primes(image) /\ todo' \in Seq(Cell)
  BY <1>1, <1>2, InTableKeeps DEF Primes
<1>6. Quiet'
  BY <1>1, <1>5 DEF Quiet
<1>7. InvUse'
  BY <1>1, <1>3, <1>5, <1>6 DEF InvUse, InUse
<1>8. TypeOK'
  <2>1. moving' \subseteq Cell /\ DOMAIN snap' = moving' /\ \A c \in moving' : snap'[c] \in Seq(Word)
    BY <1>1, Empties
  <2>2. shown' \in [Cell -> Held \cup {Unset, Mixed}]
    BY <1>4
  <2> QED
    BY <1>1, <1>2, <1>5, <2>1, <2>2 DEF TypeOK
<1>9. Inv'
  BY <1>1, <1>4, <1>7, <1>8 DEF Inv
<1>10. Atomic!Restart
  BY <1>4 DEF Atomic!Restart, Held
<1> QED
  BY <1>9, <1>10 DEF Atomic!Next

(***************************************************************************)
(* The cells' operations.                                                  *)
(***************************************************************************)
\* Between operations the cells are as they show.
LEMMA UseIdle ==
  ASSUME TypeOK, InvUse, stores = <<>>
  PROVE  Quiet
<1>1. Len(stores) = 0 /\ image \in Image
  BY Empties DEF TypeOK
<1>2. ASSUME NEW c \in CellsOf(image), NEW at, NEW word, NEW p \in 1..(Len(DataAt[image][c]) + 2),
             Ahead(stores, at, word, Len(DataAt[image][c]) + 2, p)
      PROVE  FALSE
  <2>1. Len(stores) = Len(DataAt[image][c]) + 2 + 1 - p
    BY <1>2 DEF Ahead
  <2> QED
    BY <1>1, <2>1, Layouts
<1>3. ASSUME NEW c \in Primes(image), NEW p \in 2..(Len(DataAt[image][c]) + 2), Priming(c, p)
      PROVE  FALSE
  <2>1. c \in CellsOf(image) /\ p \in 1..(Len(DataAt[image][c]) + 2)
    BY <1>1, Layouts DEF Primes
  <2>2. Ahead(stores, CellAt(image, c), CellWord(image, c, Default), Len(DataAt[image][c]) + 2, p)
    BY <1>3 DEF Priming, Underway
  <2> QED
    BY <1>2, <2>1, <2>2
<1>4. ASSUME NEW c \in CellsOf(image), NEW v, NEW p \in 1..(Len(DataAt[image][c]) + 2),
             Writing(c, v, p)
      PROVE  FALSE
  BY <1>2, <1>4 DEF Writing, Underway
<1>5. ASSUME NEW c, NEW v, WritingWord(c, v) \/ Stamping(c, v)
      PROVE  FALSE
  BY <1>5 DEF WritingWord, Stamping
<1> QED
  BY <1>3, <1>4, <1>5 DEF InvUse, InUse

\* A cell without its key is under way from its second store.
LEMMA CellInitKeeps ==
  ASSUME Inv, CellInit
  PROVE  Inv' /\ UNCHANGED shown
<1>1. PICK c : c = Head(todo)
  OBVIOUS
<1>2. /\ phase = "init" /\ stores = <<>> /\ todo # <<>> /\ phase' = "init"
      /\ todo' = Tail(todo)
      /\ stores' = IF Valid(memory, image, c) THEN <<>>
                   ELSE HalAll(DataAt[image][c], Parts(image, c, Default))
                          \o <<Direct(GateAt[image][c], Key(c))>>
      /\ memory' = memory /\ image' = image /\ moving' = moving /\ snap' = snap
      /\ shown' = shown /\ cut' = cut
  BY <1>1 DEF CellInit, Idle
<1>3. TypeOK /\ image \in Image /\ InvUse /\ todo \in Seq(Cell)
      /\ shown \in [Cell -> Held \cup {Unset}]
  BY <1>2 DEF Inv, TypeOK
<1>4. Quiet
  BY <1>2, <1>3, UseIdle
<1>5. /\ In(todo') \subseteq In(todo) /\ In(todo) = {c} \cup In(todo')
      /\ todo' \in Seq(Cell) /\ In(todo) \subseteq Primes(image)
  BY <1>1, <1>2, <1>3, HeadTail DEF InvUse
<1>6. c \in Primes(image) /\ c \in CellsOf(image) /\ c \in Cell /\ Default \in Held
  BY <1>3, <1>5, Layouts, PersistAssumption DEF Primes, Held
<1>7. /\ shown = ReadAll(memory, image)
      /\ \A d \in Primes(image) : shown[d] = Unset => d \in In(todo') \cup {c}
  BY <1>4, <1>5 DEF Quiet
<1>8. CASE Valid(memory, image, c)
  <2>1. shown[c] # Unset
    <3>1. ReadCell(memory, image, c) # Unset
      BY <1>3, <1>8, Reading
    <3> QED
      BY <1>6, <1>7, <3>1 DEF ReadAll
  <2>2. stores' = <<>> /\ stores' \in Seq(Stores)
    BY <1>2, <1>8, Empties
  <2>3. Quiet'
    BY <1>2, <1>7, <2>1, <2>2 DEF Quiet
  <2>4. InvUse'
    BY <1>2, <1>3, <1>5, <2>3 DEF InvUse, InUse
  <2>5. TypeOK'
    BY <1>2, <1>3, <1>5, <2>2 DEF TypeOK, Stores
  <2> QED
    BY <1>2, <1>3, <2>4, <2>5 DEF Inv
<1>9. CASE ~Valid(memory, image, c)
  <2> DEFINE last == Direct(GateAt[image][c], Key(c))
  <2> DEFINE first == Direct(GateAt[image][c], Zero)
  <2>1. /\ last \in Stores /\ last.at = GateAt[image][c] /\ last.word = Key(c)
        /\ first \in Stores /\ first.at = GateAt[image][c] /\ first.word = Zero
    BY <1>3, <1>6, Layouts, WordsKnown DEF Direct, Stores
  <2>2. stores' = HalAll(DataAt[image][c], Parts(image, c, Default)) \o <<last>>
    BY <1>2, <1>9
  <2> HIDE DEF first, last
  <2>3. /\ stores' \in Seq(Stores)
        /\ Ahead(stores', CellAt(image, c), CellWord(image, c, Default),
                 Len(DataAt[image][c]) + 2, 2)
    BY <1>3, <1>6, <2>1, <2>2, CellPlans
  <2>4. \A k \in 1..Len(DataAt[image][c]) : ~(k + 1 < 2)
    OBVIOUS
  <2>5. Underway(memory, stores', image, c, Default, 2)
    BY <1>9, <2>3, <2>4 DEF Underway
  <2>6. Priming(c, 2)'
    BY <1>2, <1>7, <2>5 DEF Priming
  <2>7. c \in Primes(image') /\ 2 \in 2..(Len(DataAt[image'][c]) + 2)
    BY <1>2, <1>3, <1>6, Layouts
  <2>8. InvUse'
    BY <1>2, <1>3, <1>5, <2>6, <2>7 DEF InvUse, InUse
  <2>9. TypeOK'
    BY <1>2, <1>3, <1>5, <2>3 DEF TypeOK, Stores
  <2> QED
    BY <1>2, <1>3, <2>8, <2>9 DEF Inv
<1> QED
  BY <1>2, <1>8, <1>9

\* When the program runs every cell it primes shows something.
LEMMA RunKeeps ==
  ASSUME Inv, Run
  PROVE  Inv' /\ UNCHANGED shown
<1>1. /\ phase = "init" /\ stores = <<>> /\ todo = <<>> /\ phase' = "run" /\ cut' = FALSE
      /\ memory' = memory /\ image' = image /\ stores' = stores
      /\ moving' = moving /\ snap' = snap /\ todo' = todo /\ shown' = shown
  BY DEF Run, Idle, move
<1>2. TypeOK /\ InvUse /\ shown \in [Cell -> Held \cup {Unset}]
  BY <1>1 DEF Inv
<1>3. Quiet
  BY <1>1, <1>2, UseIdle
<1>4. In(todo) = {}
  BY <1>1, Empties
<1>5. Quiet'
  BY <1>1, <1>3, <1>4 DEF Quiet
<1>6. InvUse'
  BY <1>1, <1>2, <1>5 DEF InvUse, InUse
<1>7. TypeOK'
  BY <1>1, <1>2 DEF TypeOK
<1> QED
  BY <1>1, <1>2, <1>6, <1>7 DEF Inv

\* What every call of an operation does; the program's stores are then the
\* operation's, and what is left to show is how far that has come.
LEMMA Called ==
  ASSUME Inv, NEW op, NEW c \in Cell, NEW value, Calling(op, c, value)
  PROVE  /\ phase = "run" /\ stores = <<>> /\ stores' = value
         /\ memory' = memory /\ image' = image /\ phase' = phase /\ shown' = shown
         /\ image \in Image /\ memory \in [Address -> Word]
         /\ c \in CellsOf(image) /\ op \in Calls[image][c]
         /\ shown = ReadAll(memory, image)
         /\ \A d \in Primes(image) : shown[d] # Unset
         /\ value \in Seq(Stores) /\ InUse' => Inv'
<1>1. /\ phase = "run" /\ stores = <<>> /\ stores' = value
      /\ c \in CellsOf(image) /\ op \in Calls[image][c]
      /\ memory' = memory /\ image' = image /\ phase' = phase /\ moving' = moving
      /\ snap' = snap /\ todo' = todo /\ shown' = shown /\ cut' = cut
  BY DEF Calling, Idle, move
<1>2. TypeOK /\ image \in Image /\ memory \in [Address -> Word] /\ InvUse
      /\ shown \in [Cell -> Held \cup {Unset}]
  BY <1>1 DEF Inv, TypeOK
<1>3. Quiet
  BY <1>1, <1>2, UseIdle
<1>4. ASSUME value \in Seq(Stores), InUse'
      PROVE  Inv'
  <2>1. InvUse'
    BY <1>1, <1>2, <1>4 DEF InvUse
  <2>2. TypeOK'
    BY <1>1, <1>2, <1>4 DEF TypeOK, Stores
  <2> QED
    BY <1>1, <1>2, <2>1, <2>2 DEF Inv
<1> QED
  BY <1>1, <1>2, <1>3, <1>4 DEF Quiet

\* A gated value is under way from its first store.
LEMMA GatedKeeps ==
  ASSUME Inv, NEW op, NEW c \in Cell, NEW v \in Value, NEW data,
         \/ data = HalAll(DataAt[image][c], Parts(image, c, v))
         \/ data = DirectAll(DataAt[image][c], Parts(image, c, v)),
         CanTear(c), Calling(op, c, Gated(c, data))
  PROVE  Inv' /\ UNCHANGED shown
<1> DEFINE first == Direct(GateAt[image][c], Zero)
<1> DEFINE last == Direct(GateAt[image][c], Key(c))
<1>1. /\ phase = "run" /\ stores' = Gated(c, data)
      /\ memory' = memory /\ image' = image /\ phase' = phase /\ shown' = shown
      /\ image \in Image /\ c \in CellsOf(image) /\ shown = ReadAll(memory, image)
      /\ \A d \in Primes(image) : shown[d] # Unset
      /\ Gated(c, data) \in Seq(Stores) /\ InUse' => Inv'
  BY Called
<1>2. stores' = <<first>> \o data \o <<last>>
  BY <1>1 DEF Gated
<1>3. /\ last \in Stores /\ last.at = GateAt[image][c] /\ last.word = Key(c)
      /\ first \in Stores /\ first.at = GateAt[image][c] /\ first.word = Zero
  BY <1>1, Layouts, WordsKnown DEF Direct, Stores
<1>4. v \in Held
  BY DEF Held
<1> HIDE DEF first, last
<1>5. /\ stores' \in Seq(Stores)
      /\ Ahead(stores', CellAt(image, c), CellWord(image, c, v), Len(DataAt[image][c]) + 2, 1)
  BY <1>1, <1>2, <1>3, <1>4, CellPlans
<1>6. \A k \in 1..Len(DataAt[image][c]) : ~(k + 1 < 1)
  OBVIOUS
<1>7. Underway(memory, stores', image, c, v, 1)
  BY <1>5, <1>6 DEF Underway
<1>8. \A d \in Cell : ReadCell(memory, image, d) = shown[d]
  BY <1>1 DEF ReadAll
<1>9. Writing(c, v, 1)'
  BY <1>1, <1>7, <1>8 DEF Writing
<1>10. c \in CellsOf(image') /\ 1 \in 1..(Len(DataAt[image'][c]) + 2)
  BY <1>1, Layouts
<1>11. InUse'
  BY <1>9, <1>10 DEF InUse
<1> QED
  BY <1>1, <1>5, <1>11

\* A value of one word is one store, and a commit's stamp behind it.
LEMMA WordKeeps ==
  ASSUME Inv, NEW op, NEW c \in Cell, NEW v \in Value, NEW s \in Stores, NEW value,
         Len(DataAt[image][c]) = 1,
         s.at = DataAt[image][c][1], s.word = Part(c, v), s.tears => c \in Frail,
         value = <<s>> \/ value = <<s>> \o <<Direct(GateAt[image][c], Key(c))>>,
         Calling(op, c, value)
  PROVE  Inv' /\ UNCHANGED shown
<1> DEFINE last == Direct(GateAt[image][c], Key(c))
<1>1. /\ phase = "run" /\ stores' = value
      /\ memory' = memory /\ image' = image /\ phase' = phase /\ shown' = shown
      /\ image \in Image /\ c \in CellsOf(image) /\ shown = ReadAll(memory, image)
      /\ \A d \in Primes(image) : shown[d] # Unset
      /\ value \in Seq(Stores) /\ InUse' => Inv'
  BY Called
<1>2. last \in Stores
  BY <1>1, Layouts, WordsKnown DEF Direct, Stores
<1>3. value = <<s>> \/ value = <<s, last>>
  OBVIOUS
<1> HIDE DEF last
<1>4. /\ value \in Seq(Stores) /\ value # <<>> /\ value[1] = s
      /\ Tail(value) = <<>> \/ Tail(value) = <<last>>
  <2>1. CASE value = <<s>>
    BY <2>1
  <2>2. CASE value = <<s, last>>
    BY <1>2, <2>2
  <2> QED
    BY <1>3, <2>1, <2>2
<1>5. WritingWord(c, v)'
  BY <1>1, <1>4 DEF WritingWord, last
<1>6. InUse'
  BY <1>1, <1>5 DEF InUse
<1> QED
  BY <1>1, <1>4, <1>6

\* A value is of one word or of more.
LEMMA OneOrMore ==
  ASSUME NEW i \in Image, NEW c \in CellsOf(i)
  PROVE  Len(DataAt[i][c]) = 1 \/ Len(DataAt[i][c]) > 1
<1> DEFINE n == Len(DataAt[i][c])
<1>1. n \in Nat /\ n # 0
  BY Layouts
<1> HIDE DEF n
<1>2. n = 1 \/ n > 1
  BY <1>1
<1> QED
  BY <1>2 DEF n

\* The stores of a value of one word.
LEMMA OneWord ==
  ASSUME NEW i \in Image, NEW c \in CellsOf(i), NEW v \in Value, Len(DataAt[i][c]) = 1
  PROVE  /\ HalAll(DataAt[i][c], Parts(i, c, v)) = <<Hal(DataAt[i][c][1], Part(c, v))>>
         /\ DirectAll(DataAt[i][c], Parts(i, c, v)) = <<Direct(DataAt[i][c][1], Part(c, v))>>
         /\ Hal(DataAt[i][c][1], Part(c, v)) \in Stores
         /\ Direct(DataAt[i][c][1], Part(c, v)) \in Stores
<1>1. 1 \in 1..1 /\ \A k \in 1..1 : k = 1
  OBVIOUS
<1>2. HalAll(DataAt[i][c], Parts(i, c, v)) = [k \in 1..1 |-> Hal(DataAt[i][c][1], Part(c, v))]
  BY <1>1 DEF HalAll, Parts
<1>3. DirectAll(DataAt[i][c], Parts(i, c, v)) = [k \in 1..1 |-> Direct(DataAt[i][c][1], Part(c, v))]
  BY <1>1 DEF DirectAll, Parts
<1>4. DataAt[i][c][1] \in Address /\ Part(c, v) \in Word
  BY Layouts, WordsKnown DEF Held
<1>5. \A w : [k \in 1..1 |-> w] = <<w>>
  OBVIOUS
<1>6. /\ Hal(DataAt[i][c][1], Part(c, v)) \in Stores
      /\ Direct(DataAt[i][c][1], Part(c, v)) \in Stores
  BY <1>4 DEF Hal, Direct, Stores
<1> QED
  BY <1>2, <1>3, <1>5, <1>6

\* write, of a value that can tear and of one word.
LEMMA CellWriteKeeps ==
  ASSUME Inv, NEW c \in Cell, NEW v \in Value, CellWrite(c, v)
  PROVE  Inv' /\ UNCHANGED shown
<1> DEFINE data == HalAll(DataAt[image][c], Parts(image, c, v))
<1>1. Calling("write", c, Gated(c, data))
  BY DEF CellWrite, ThroughHal
<1>2. image \in Image /\ c \in CellsOf(image) /\ "write" \in Calls[image][c]
  BY <1>1, Called
<1>3. CASE CanTear(c)
  BY <1>1, <1>3, GatedKeeps
<1>4. CASE ~CanTear(c)
  <2>1. Len(DataAt[image][c]) = 1
    BY <1>2, <1>4, OneOrMore DEF CanTear
  <2>2. /\ data = <<Hal(DataAt[image][c][1], Part(c, v))>>
        /\ Hal(DataAt[image][c][1], Part(c, v)) \in Stores
    BY <1>2, <2>1, OneWord
  <2>3. c \in Frail
    BY <1>2, <2>1 DEF Frail
  <2>4. PICK s \in Stores : s = Hal(DataAt[image][c][1], Part(c, v))
    BY <2>2
  <2>5. s.at = DataAt[image][c][1] /\ s.word = Part(c, v)
    BY <2>4 DEF Hal
  <2>6. Calling("write", c, <<s>>)
    BY <1>1, <1>4, <2>2, <2>4 DEF Gated
  <2> QED
    BY <2>1, <2>3, <2>5, <2>6, WordKeeps
<1> QED
  BY <1>3, <1>4

\* commit, which stamps the gate behind a value of one word too.
LEMMA CellCommitKeeps ==
  ASSUME Inv, NEW c \in Cell, NEW v \in Value, CellCommit(c, v)
  PROVE  Inv' /\ UNCHANGED shown
<1> DEFINE data == HalAll(DataAt[image][c], Parts(image, c, v))
<1> DEFINE last == Direct(GateAt[image][c], Key(c))
<1>1. Calling("commit", c, IF CanTear(c) THEN Gated(c, data) ELSE data \o <<last>>)
  BY DEF CellCommit, ThroughHal
<1>2. image \in Image /\ c \in CellsOf(image) /\ "commit" \in Calls[image][c]
  BY <1>1, Called
<1>3. CASE CanTear(c)
  BY <1>1, <1>3, GatedKeeps
<1>4. CASE ~CanTear(c)
  <2>1. Len(DataAt[image][c]) = 1
    BY <1>2, <1>4, OneOrMore DEF CanTear
  <2>2. /\ data = <<Hal(DataAt[image][c][1], Part(c, v))>>
        /\ Hal(DataAt[image][c][1], Part(c, v)) \in Stores
    BY <1>2, <2>1, OneWord
  <2>3. c \in Frail
    BY <1>2, <2>1 DEF Frail
  <2>4. PICK s \in Stores : s = Hal(DataAt[image][c][1], Part(c, v))
    BY <2>2
  <2>5. s.at = DataAt[image][c][1] /\ s.word = Part(c, v)
    BY <2>4 DEF Hal
  <2>6. Calling("commit", c, <<s>> \o <<last>>)
    BY <1>1, <1>4, <2>2, <2>4
  <2> QED
    BY <2>1, <2>3, <2>5, <2>6, WordKeeps
<1> QED
  BY <1>3, <1>4

\* write_u32: the word of a uint32_t does not tear, that of another cell may.
LEMMA CellWriteU32Keeps ==
  ASSUME Inv, NEW c \in Cell, NEW v \in Value, CellWriteU32(c, v)
  PROVE  Inv' /\ UNCHANGED shown
<1> DEFINE data == IF c \in U32[image]
                   THEN DirectAll(DataAt[image][c], Parts(image, c, v))
                   ELSE HalAll(DataAt[image][c], Parts(image, c, v))
<1>1. Calling("u32", c, Gated(c, data))
  BY DEF CellWriteU32, ThroughHal
<1>2. image \in Image /\ c \in CellsOf(image) /\ "u32" \in Calls[image][c]
  BY <1>1, Called
<1>3. CASE CanTear(c)
  BY <1>1, <1>3, GatedKeeps
<1>4. CASE ~CanTear(c)
  <2>1. Len(DataAt[image][c]) = 1
    BY <1>2, <1>4, OneOrMore DEF CanTear
  <2>2. /\ HalAll(DataAt[image][c], Parts(image, c, v)) = <<Hal(DataAt[image][c][1], Part(c, v))>>
        /\ DirectAll(DataAt[image][c], Parts(image, c, v)) = <<Direct(DataAt[image][c][1], Part(c, v))>>
        /\ Hal(DataAt[image][c][1], Part(c, v)) \in Stores
        /\ Direct(DataAt[image][c][1], Part(c, v)) \in Stores
    BY <1>2, <2>1, OneWord
  <2>3. PICK s \in Stores : s = IF c \in U32[image]
                                THEN Direct(DataAt[image][c][1], Part(c, v))
                                ELSE Hal(DataAt[image][c][1], Part(c, v))
    BY <2>2
  <2>4. s.at = DataAt[image][c][1] /\ s.word = Part(c, v)
    BY <2>3 DEF Hal, Direct
  <2>5. s.tears => c \in Frail
    <3>1. CASE c \in U32[image]
      BY <2>3, <3>1 DEF Direct
    <3>2. CASE c \notin U32[image]
      BY <1>2, <2>1, <3>2 DEF Frail
    <3> QED
      BY <3>1, <3>2
  <2>6. data = <<s>>
    BY <2>2, <2>3
  <2>7. Calling("u32", c, <<s>>)
    BY <1>1, <1>4, <2>6 DEF Gated
  <2> QED
    BY <2>1, <2>4, <2>5, <2>7, WordKeeps
<1> QED
  BY <1>3, <1>4

(***************************************************************************)
(* A store, by phase.                                                      *)
(***************************************************************************)
\* What every store does.
LEMMA StoreDoes ==
  ASSUME TypeOK, Store
  PROVE  /\ stores # <<>> /\ stores \in Seq(Stores) /\ Head(stores) \in Stores
         /\ Head(stores).at \in Address /\ Head(stores) = stores[1]
         /\ memory' = Put(memory, Head(stores).at, Head(stores).word)
         /\ memory \in [Address -> Word] /\ memory' \in [Address -> Word]
         /\ stores' = Tail(stores) /\ stores' \in Seq(Stores)
         /\ Len(stores) \in Nat /\ Len(stores') = Len(stores) - 1
         /\ image' = image /\ image \in Image /\ phase' = phase /\ cut' = cut
         /\ moving' = moving /\ snap' = snap /\ todo' = todo
         /\ shown' = Showing(memory')
         /\ phase \notin {"init", "run"} => shown' = shown
<1>1. /\ stores # <<>> /\ stores' = Tail(stores)
      /\ memory' = [memory EXCEPT ![Head(stores).at] = Head(stores).word]
      /\ image' = image /\ phase' = phase /\ cut' = cut
      /\ moving' = moving /\ snap' = snap /\ todo' = todo
      /\ shown' = Showing(memory')
  BY DEF Store, Idle, move
<1>2. stores \in Seq(Stores) /\ memory \in [Address -> Word] /\ image \in Image
  BY DEF TypeOK, Stores
<1>3. /\ Head(stores) \in Stores /\ Tail(stores) \in Seq(Stores) /\ Head(stores) = stores[1]
      /\ Len(stores) \in Nat /\ Len(Tail(stores)) = Len(stores) - 1
  BY <1>1, <1>2, HeadTail
<1>4. Head(stores).at \in Address /\ Head(stores).word \in Word
  BY <1>3 DEF Stores
<1>5. memory' = Put(memory, Head(stores).at, Head(stores).word)
  BY <1>1 DEF Put
<1>6. memory' \in [Address -> Word]
  BY <1>1, <1>2, <1>4
<1>7. phase \notin {"init", "run"} => shown' = shown
  BY <1>1 DEF Showing, TypeOK
<1> QED
  BY <1>1, <1>2, <1>3, <1>4, <1>5, <1>6, <1>7

\* A word of a cell, zero, or a torn word brings no record back.
LEMMA NoRecordFrom ==
  ASSUME NEW mem \in [Address -> Word], NEW a \in Address, NEW w,
         w # Magic, \A j \in Image : w # Record(j)
  PROVE  Sound(Put(mem, a, w)) \subseteq Sound(mem)
<1>1. ASSUME NEW j \in Image, ManifestOk(Put(mem, a, w), j) PROVE ManifestOk(mem, j)
  BY <1>1, NoNewRecord
<1> QED
  BY <1>1 DEF Sound

\* It leaves the only record there is, when it is not stored over it.
LEMMA RecordKept ==
  ASSUME NEW mem \in [Address -> Word], NEW i \in Image, NEW c \in CellsOf(i),
         NEW a \in Address, a \in Home(i, c), NEW w,
         w # Magic, \A j \in Image : w # Record(j), Sound(mem) = {i}
  PROVE  Sound(Put(mem, a, w)) = {i}
<1>1. a \notin In(ManifestAt[i])
  BY Homes
<1>2. ManifestOk(mem, i)
  BY DEF Sound
<1>3. ManifestOk(Put(mem, a, w), i)
  BY <1>1, <1>2, RecordUndisturbed
<1>4. Sound(Put(mem, a, w)) \subseteq {i}
  BY NoRecordFrom
<1> QED
  BY <1>3, <1>4 DEF Sound

\* The store that retires a record leaves none.
LEMMA StoreRetire ==
  ASSUME Inv, Store, phase = "retire"
  PROVE  Inv' /\ UNCHANGED shown
<1>1. TypeOK /\ InvRetire /\ shown \in [Cell -> Held \cup {Unset}] /\ shown' = shown
  BY StoreDoes DEF Inv
<1> DEFINE after == Put(memory, Head(stores).at, Head(stores).word)
<1>2. /\ memory' = after /\ memory \in [Address -> Word] /\ memory' \in [Address -> Word]
      /\ stores' \in Seq(Stores) /\ Len(stores') = Len(stores) - 1 /\ Len(stores) \in Nat
      /\ image' = image /\ phase' = phase /\ cut' = cut /\ stores # <<>>
      /\ moving' = moving /\ snap' = snap /\ todo' = todo /\ Head(stores) = stores[1]
      /\ Head(stores).at \in Address
  BY <1>1, StoreDoes
<1>3. PICK m \in Image : /\ Sound(memory) = {m} /\ Len(stores) = 1
                         /\ stores[1] = Hal(ManifestAt[m][1], Zero)
  BY <1>1, <1>2 DEF InvRetire
<1>4. Head(stores).at = ManifestAt[m][1] /\ Head(stores).word = Zero
  BY <1>2, <1>3 DEF Hal
<1>5. Sound(after) \subseteq {m}
  BY <1>2, <1>3, <1>4, NoRecordFrom, WordsKnown
<1>6. ~ManifestOk(after, m)
  <2>1. after[ManifestAt[m][1]] = Zero
    BY <1>2, <1>4 DEF Put
  <2> QED
    BY <2>1, WordsKnown DEF ManifestOk
<1>7. Sound(after) = {}
  BY <1>5, <1>6 DEF Sound
<1>8. stores' = <<>>
  BY <1>2, <1>3, EmptySeq
<1>9. InvRetire'
  BY <1>1, <1>2, <1>7, <1>8 DEF InvRetire, CopySound
<1>10. TypeOK'
  BY <1>1, <1>2 DEF TypeOK, Stores
<1> QED
  BY <1>1, <1>2, <1>9, <1>10 DEF Inv

\* A cleared gate leaves the list and holds its key no more.
LEMMA StoreClear ==
  ASSUME Inv, Store, phase = "clear"
  PROVE  Inv' /\ UNCHANGED shown
<1>1. TypeOK /\ InvClear /\ shown \in [Cell -> Held \cup {Unset}] /\ shown' = shown
  BY StoreDoes DEF Inv
<1> DEFINE after == Put(memory, Head(stores).at, Head(stores).word)
<1>2. /\ memory' = after /\ memory \in [Address -> Word] /\ memory' \in [Address -> Word]
      /\ stores' = Tail(stores) /\ stores \in Seq(Stores) /\ Head(stores) = stores[1]
      /\ stores' \in Seq(Stores) /\ Len(stores') = Len(stores) - 1 /\ Len(stores) \in Nat
      /\ image' = image /\ phase' = phase /\ cut' = cut /\ stores # <<>>
      /\ moving' = moving /\ snap' = snap /\ todo' = todo
      /\ Head(stores).at \in Address /\ image \in Image
  BY <1>1, StoreDoes
<1>3. \A k \in 1..Len(stores') : stores'[k] = stores[k + 1] /\ k + 1 \in 1..Len(stores)
  BY <1>2, HeadTail
<1>4. Len(stores) # 0 /\ 1 \in 1..Len(stores)
  BY <1>2, EmptySeq
<1>5. Head(stores).word = Zero
  BY <1>1, <1>2, <1>4 DEF InvClear
<1>6. Sound(after) = {}
  BY <1>1, <1>2, <1>5, NoRecordFrom, WordsKnown DEF InvClear
<1>7. \A j \in 1..Len(stores') : stores'[j].word = Zero
  BY <1>1, <1>3 DEF InvClear
<1>8. ASSUME NEW c \in CellsOf(image) \ moving, Valid(after, image, c)
      PROVE  \E j \in 1..Len(stores') : stores'[j].at = GateAt[image][c]
  <2>1. GateAt[image][c] \in Address /\ c \in Cell
    BY <1>2, Layouts
  <2>2. after[GateAt[image][c]] = Key(c) /\ Key(c) # Zero
    BY <1>8, <2>1, WordsKnown DEF Valid
  <2>3. Head(stores).at # GateAt[image][c]
    BY <1>2, <1>5, <2>1, <2>2 DEF Put
  <2>4. Valid(memory, image, c)
    BY <1>2, <2>1, <2>2, <2>3 DEF Put, Valid
  <2>5. PICK j \in 1..Len(stores) : stores[j].at = GateAt[image][c]
    BY <1>1, <2>4 DEF InvClear
  <2>6. j # 1
    BY <1>2, <2>3, <2>5
  <2>7. j - 1 \in 1..Len(stores') /\ j - 1 + 1 = j
    BY <1>2, <2>6
  <2>8. stores'[j - 1] = stores[j]
    BY <1>3, <2>7
  <2> QED
    BY <2>5, <2>7, <2>8
<1>9. InvClear'
  BY <1>1, <1>2, <1>6, <1>7, <1>8 DEF InvClear, CopySound
<1>10. TypeOK'
  BY <1>1, <1>2 DEF TypeOK, Stores
<1> QED
  BY <1>1, <1>2, <1>9, <1>10 DEF Inv

\* A store of the cell under way disturbs no cell that is in place.
LEMMA StoreCarry ==
  ASSUME Inv, Store, phase = "carry"
  PROVE  Inv' /\ UNCHANGED shown
<1>1. TypeOK /\ InvCarry /\ shown \in [Cell -> Held \cup {Unset}] /\ shown' = shown
  BY StoreDoes DEF Inv
<1> DEFINE after == Put(memory, Head(stores).at, Head(stores).word)
<1>2. /\ memory' = after /\ memory \in [Address -> Word] /\ memory' \in [Address -> Word]
      /\ stores' = Tail(stores) /\ stores \in Seq(Stores) /\ stores' \in Seq(Stores)
      /\ image' = image /\ phase' = phase /\ cut' = cut /\ stores # <<>>
      /\ moving' = moving /\ snap' = snap /\ todo' = todo
      /\ Head(stores).at \in Address /\ image \in Image
  BY <1>1, StoreDoes
<1>3. CopySound /\ RestInvalid /\ Sound(memory) = {} /\ In(todo) \subseteq moving
  BY <1>1 DEF InvCarry
<1>4. PICK c \in moving : \E p \in 1..(Len(DataAt[image][c]) + 2) : Carrying(c, p)
  BY <1>1, <1>2 DEF InvCarry
<1>5. PICK p \in 1..(Len(DataAt[image][c]) + 2) : Carrying(c, p)
  BY <1>4
<1>6. /\ Underway(memory, stores, image, c, shown[c], p)
      /\ InPlaceAll(moving \ (In(todo) \cup {c}))
  BY <1>5 DEF Carrying
<1>7. c \in CellsOf(image) /\ shown[c] \in Held
  BY <1>3 DEF CopySound
<1>8. Len(DataAt[image][c]) \in Nat
  BY <1>2, <1>7, Layouts
<1>9. /\ Head(stores).at \in Home(image, c)
      /\ Head(stores).word # Magic /\ \A j \in Image : Head(stores).word # Record(j)
      /\ p < Len(DataAt[image][c]) + 2 => Underway(after, stores', image, c, shown[c], p + 1)
      /\ p = Len(DataAt[image][c]) + 2 =>
           /\ stores' = <<>> /\ Valid(after, image, c)
           /\ Words(after, image, c) = Parts(image, c, shown[c])
  BY <1>2, <1>6, <1>7, CellStore
<1>10. Sound(after) = {}
  BY <1>2, <1>3, <1>9, NoRecordFrom
<1>11. ASSUME NEW d \in CellsOf(image), d # c
       PROVE  /\ Valid(after, image, d) <=> Valid(memory, image, d)
              /\ Words(after, image, d) = Words(memory, image, d)
  <2>1. Head(stores).at \notin Home(image, d)
    BY <1>2, <1>7, <1>9, <1>11, Homes
  <2> QED
    BY <1>2, <2>1, Undisturbed
<1>12. moving \subseteq CellsOf(image)
  BY <1>3 DEF CopySound
<1> HIDE DEF after
<1>13. RestInvalid' /\ CopySound'
  BY <1>1, <1>2, <1>3, <1>4, <1>11 DEF RestInvalid, CopySound
<1>14. InPlaceAll(moving \ (In(todo) \cup {c}))'
  <2>1. ASSUME NEW d \in moving' \ (In(todo') \cup {c})
        PROVE  Valid(memory', image', d) /\ Words(memory', image', d) = Parts(image', d, shown'[d])
    <3>1. d \in CellsOf(image) /\ d # c /\ d \in moving \ (In(todo) \cup {c})
      BY <1>2, <1>12, <2>1
    <3> QED
      BY <1>1, <1>2, <1>6, <1>11, <3>1 DEF InPlaceAll
  <2> QED
    BY <2>1 DEF InPlaceAll
<1>15. InvCarry'
  <2>1. CASE p < Len(DataAt[image][c]) + 2
    <3>1. p + 1 \in 1..(Len(DataAt[image][c]) + 2)
      BY <1>8, <2>1
    <3>2. Carrying(c, p + 1)'
      BY <1>1, <1>2, <1>9, <1>14, <2>1 DEF Carrying
    <3> QED
      BY <1>2, <1>3, <1>10, <1>13, <3>1, <3>2 DEF InvCarry
  <2>2. CASE p = Len(DataAt[image][c]) + 2
    <3>1. InPlaceAll(moving \ In(todo))'
      BY <1>1, <1>2, <1>9, <1>14, <2>2 DEF InPlaceAll
    <3> QED
      BY <1>2, <1>3, <1>9, <1>10, <1>13, <2>2, <3>1 DEF InvCarry
  <2> QED
    BY <1>8, <2>1, <2>2
<1>16. TypeOK'
  BY <1>1, <1>2 DEF TypeOK, Stores
<1> QED
  BY <1>1, <1>2, <1>15, <1>16 DEF Inv

\* A store of the record disturbs no cell.
LEMMA StoreRecord ==
  ASSUME Inv, Store, phase = "record"
  PROVE  Inv' /\ UNCHANGED shown
<1>1. TypeOK /\ InvRecord /\ shown \in [Cell -> Held \cup {Unset}] /\ shown' = shown
  BY StoreDoes DEF Inv
<1> DEFINE after == Put(memory, Head(stores).at, Head(stores).word)
<1>2. /\ memory' = after /\ memory \in [Address -> Word] /\ memory' \in [Address -> Word]
      /\ stores' = Tail(stores) /\ stores \in Seq(Stores) /\ stores' \in Seq(Stores)
      /\ image' = image /\ phase' = phase /\ cut' = cut /\ stores # <<>>
      /\ moving' = moving /\ snap' = snap /\ todo' = todo
      /\ Head(stores).at \in Address /\ image \in Image
  BY <1>1, StoreDoes
<1>3. CopySound /\ RestInvalid /\ InPlaceAll(moving) /\ moving \subseteq CellsOf(image)
  BY <1>1 DEF InvRecord, CopySound
<1>4. PICK p \in 1..(Len(ManifestAt[image]) + 1) :
        Sound(memory) = {} /\ Recording(memory, stores, image, p)
  BY <1>1, <1>2 DEF InvRecord
<1>5. Len(ManifestAt[image]) \in Nat
  BY <1>2, Layouts
<1>6. /\ Head(stores).at \in In(ManifestAt[image])
      /\ Recording(after, stores', image, p + 1)
      /\ p < Len(ManifestAt[image]) + 1 => Sound(after) = {}
      /\ p = Len(ManifestAt[image]) + 1 => Sound(after) = {image}
  BY <1>2, <1>4, RecordStore
<1>7. ASSUME NEW d \in CellsOf(image)
      PROVE  /\ Valid(after, image, d) <=> Valid(memory, image, d)
             /\ Words(after, image, d) = Words(memory, image, d)
  <2>1. Head(stores).at \notin Home(image, d)
    BY <1>2, <1>6, Homes
  <2> QED
    BY <1>2, <2>1, Undisturbed
<1> HIDE DEF after
<1>8. RestInvalid' /\ CopySound' /\ InPlaceAll(moving)'
  BY <1>1, <1>2, <1>3, <1>7 DEF RestInvalid, CopySound, InPlaceAll
<1>9. InvRecord'
  <2>1. CASE p < Len(ManifestAt[image]) + 1
    <3>1. p + 1 \in 1..(Len(ManifestAt[image]) + 1)
      BY <1>5, <2>1
    <3> QED
      BY <1>2, <1>6, <1>8, <2>1, <3>1 DEF InvRecord
  <2>2. CASE p = Len(ManifestAt[image]) + 1
    <3>1. Len(stores') = Len(ManifestAt[image]) + 1 + 1 - (p + 1)
      BY <1>6 DEF Recording, Ahead
    <3>2. Len(stores') = 0
      BY <1>5, <2>2, <3>1
    <3>3. stores' = <<>>
      BY <1>2, <3>2, EmptySeq
    <3> QED
      BY <1>2, <1>6, <1>8, <2>2, <3>3 DEF InvRecord
  <2> QED
    BY <1>5, <2>1, <2>2
<1>10. TypeOK'
  BY <1>1, <1>2 DEF TypeOK, Stores
<1> QED
  BY <1>1, <1>2, <1>9, <1>10 DEF Inv

\* A store in the words of one cell leaves what the others show.
LEMMA OthersKept ==
  ASSUME NEW mem \in [Address -> Word], NEW i \in Image, NEW c \in CellsOf(i),
         NEW a, a \in Home(i, c), NEW w, NEW d, d # c
  PROVE  ReadCell(Put(mem, a, w), i, d) = ReadCell(mem, i, d)
<1>1. d \in CellsOf(i) => a \notin Home(i, d)
  BY Homes
<1> QED
  BY <1>1, Undisturbed

\* A store that gives one cell a value changes what that cell shows only.
LEMMA Wrote ==
  ASSUME NEW mem \in [Address -> Word], NEW i \in Image, NEW c \in CellsOf(i),
         NEW a, a \in Home(i, c), NEW w, NEW v \in Held,
         ReadCell(Put(mem, a, w), i, c) = v,
         NEW sh \in [Cell -> Held \cup {Unset}],
         \A d \in Cell \ {c} : ReadCell(mem, i, d) = sh[d]
  PROVE  ReadAll(Put(mem, a, w), i) = [sh EXCEPT ![c] = v]
<1> DEFINE after == Put(mem, a, w)
<1>1. ASSUME NEW d \in Cell, d # c
      PROVE  ReadCell(after, i, d) = sh[d]
  <2>1. ReadCell(after, i, d) = ReadCell(mem, i, d)
    BY <1>1, OthersKept
  <2> QED
    BY <1>1, <2>1
<1>2. ReadCell(after, i, c) = v
  OBVIOUS
<1> HIDE DEF after
<1> QED
  BY <1>1, <1>2 DEF ReadAll, after

\* A store in the words of one cell shows there only, and only if its gate is
\* valid then.
LEMMA Showed ==
  ASSUME TypeOK, phase \in {"init", "run"}, NEW c \in CellsOf(image),
         NEW a \in Home(image, c), NEW w,
         \A d \in Cell \ {c} : ReadCell(memory, image, d) = shown[d]
  PROVE  /\ ~Valid(Put(memory, a, w), image, c) => Showing(Put(memory, a, w)) = shown
         /\ Valid(Put(memory, a, w), image, c) =>
              Showing(Put(memory, a, w)) = [shown EXCEPT ![c] = ReadCell(Put(memory, a, w), image, c)]
         /\ \A d \in Cell \ {c} : ReadCell(Put(memory, a, w), image, d) = shown[d]
<1> DEFINE after == Put(memory, a, w)
<1>1. /\ memory \in [Address -> Word] /\ image \in Image /\ c \in Cell
      /\ shown \in [Cell -> Held \cup {Unset, Mixed}]
  BY Layouts DEF TypeOK
<1>2. \A d \in Cell \ {c} : ReadCell(after, image, d) = shown[d]
  <2>1. ASSUME NEW d \in Cell \ {c} PROVE ReadCell(after, image, d) = shown[d]
    <3>1. ReadCell(after, image, d) = ReadCell(memory, image, d)
      BY <1>1, OthersKept
    <3> QED
      BY <3>1
  <2> QED
    BY <2>1
<1> HIDE DEF after
<1>3. Showing(after) = [d \in Cell |-> IF Valid(after, image, d)
                                       THEN ReadCell(after, image, d) ELSE shown[d]]
  BY DEF Showing
<1>4. ~Valid(after, image, c) => Showing(after) = shown
  BY <1>1, <1>2, <1>3
<1>5. Valid(after, image, c) =>
        Showing(after) = [shown EXCEPT ![c] = ReadCell(after, image, c)]
  BY <1>1, <1>2, <1>3
<1> QED
  BY <1>2, <1>4, <1>5 DEF after

\* Priming: nothing is shown before the gate is keyed, the default then.
LEMMA StorePriming ==
  ASSUME Inv, Store, phase \in {"init", "run"}, NEW c \in Primes(image),
         NEW p \in 2..(Len(DataAt[image][c]) + 2), Priming(c, p)
  PROVE  Inv' /\ [Atomic!Next]_shown
<1>1. TypeOK /\ InvUse /\ shown \in [Cell -> Held \cup {Unset}]
  BY DEF Inv
<1> DEFINE after == Put(memory, Head(stores).at, Head(stores).word)
<1>2. /\ memory' = after /\ memory \in [Address -> Word] /\ memory' \in [Address -> Word]
      /\ stores' = Tail(stores) /\ stores \in Seq(Stores) /\ stores' \in Seq(Stores)
      /\ image' = image /\ phase' = phase /\ cut' = cut /\ stores # <<>>
      /\ moving' = moving /\ snap' = snap /\ todo' = todo
      /\ Head(stores).at \in Address /\ image \in Image /\ shown' = Showing(after)
  BY <1>1, StoreDoes
<1>3. /\ phase = "init" /\ shown = ReadAll(memory, image)
      /\ Underway(memory, stores, image, c, Default, p)
      /\ \A d \in Primes(image) : shown[d] = Unset => d \in In(todo) \cup {c}
  BY DEF Priming
<1>4. Sound(memory) = {image} /\ In(todo) \subseteq Primes(image)
  BY <1>1 DEF InvUse
<1>5. c \in CellsOf(image) /\ c \in Cell /\ Primes(image) \subseteq Cell
  BY <1>2, Layouts DEF Primes
<1>6. /\ Default \in Held /\ Len(DataAt[image][c]) \in Nat
      /\ p \in 1..(Len(DataAt[image][c]) + 2) /\ p > 1 /\ Default # Unset
  BY <1>2, <1>5, Layouts, PersistAssumption DEF Held
<1>7. /\ Head(stores).at \in Home(image, c)
      /\ Head(stores).word # Magic /\ \A j \in Image : Head(stores).word # Record(j)
      /\ p < Len(DataAt[image][c]) + 2 => Underway(after, stores', image, c, Default, p + 1)
      /\ p = Len(DataAt[image][c]) + 2 =>
           stores' = <<>> /\ Valid(after, image, c) /\ ReadCell(after, image, c) = Default
  BY <1>2, <1>3, <1>5, <1>6, CellStore
<1>8. Sound(after) = {image}
  BY <1>2, <1>4, <1>5, <1>7, RecordKept
<1>9. shown[c] = Unset
  <2>1. ~Valid(memory, image, c)
    BY <1>3, <1>6 DEF Underway
  <2>2. ReadCell(memory, image, c) = Unset
    BY <1>2, <2>1, Reading
  <2> QED
    BY <1>3, <1>5, <2>2 DEF ReadAll
<1>10. /\ ~Valid(after, image, c) => shown' = shown
       /\ Valid(after, image, c) => shown' = [shown EXCEPT ![c] = ReadCell(after, image, c)]
       /\ \A d \in Cell \ {c} : ReadCell(after, image, d) = shown[d]
  <2>1. PICK a, w : a = Head(stores).at /\ w = Head(stores).word
    OBVIOUS
  <2>2. \A d \in Cell \ {c} : ReadCell(memory, image, d) = shown[d]
    BY <1>3 DEF ReadAll
  <2>3. TypeOK /\ phase \in {"init", "run"} /\ c \in CellsOf(image) /\ a \in Home(image, c)
    BY <1>1, <1>5, <1>7, <2>1
  <2>4. /\ ~Valid(Put(memory, a, w), image, c) => Showing(Put(memory, a, w)) = shown
        /\ Valid(Put(memory, a, w), image, c) =>
             Showing(Put(memory, a, w)) = [shown EXCEPT ![c] = ReadCell(Put(memory, a, w), image, c)]
        /\ \A d \in Cell \ {c} : ReadCell(Put(memory, a, w), image, d) = shown[d]
    BY <2>2, <2>3, Showed
  <2> QED
    BY <1>2, <2>1, <2>4
<1> HIDE DEF after
<1>11. CASE p < Len(DataAt[image][c]) + 2
  <2>1. Underway(after, stores', image, c, Default, p + 1) /\ p + 1 > 1
        /\ p + 1 \in 2..(Len(DataAt[image][c]) + 2)
    BY <1>6, <1>7, <1>11
  <2>2. ~Valid(after, image, c)
    BY <2>1 DEF Underway
  <2>3. shown' = shown /\ ReadCell(after, image, c) = Unset
    BY <1>2, <1>10, <2>2, Reading
  <2>4. ReadAll(after, image) = shown
    BY <1>1, <1>9, <1>10, <2>3 DEF ReadAll
  <2>5. Priming(c, p + 1)'
    BY <1>2, <1>3, <2>1, <2>3, <2>4 DEF Priming
  <2>6. InvUse'
    BY <1>2, <1>4, <1>8, <2>1, <2>5 DEF InvUse, InUse
  <2>7. TypeOK'
    BY <1>1, <1>2, <2>3 DEF TypeOK, Stores
  <2> QED
    BY <1>1, <1>2, <2>3, <2>6, <2>7 DEF Inv
<1>12. CASE p = Len(DataAt[image][c]) + 2
  <2>1. shown' = [shown EXCEPT ![c] = Default] /\ stores' = <<>>
    BY <1>7, <1>10, <1>12
  <2>2. shown' = ReadAll(after, image)
    BY <1>1, <1>5, <1>7, <1>10, <1>12, <2>1 DEF ReadAll
  <2>3. shown' \in [Cell -> Held \cup {Unset}]
    BY <1>1, <1>6, <2>1
  <2>4. \A d \in Primes(image) : shown'[d] = Unset => d \in In(todo)
    <3>1. shown'[c] = Default
      BY <1>1, <1>5, <2>1
    <3>2. \A d \in Primes(image) : d # c => shown'[d] = shown[d]
      BY <1>1, <1>5, <2>1
    <3> QED
      BY <1>3, <1>6, <3>1, <3>2
  <2>5. Quiet'
    BY <1>2, <1>3, <2>1, <2>2, <2>4 DEF Quiet
  <2>6. InvUse'
    BY <1>2, <1>4, <1>8, <2>5 DEF InvUse, InUse
  <2>7. TypeOK'
    <3>1. shown' \in [Cell -> Held \cup {Unset, Mixed}]
      BY <2>3
    <3> QED
      BY <1>1, <1>2, <3>1 DEF TypeOK, Stores
  <2>8. Inv'
    BY <1>2, <1>3, <2>3, <2>6, <2>7 DEF Inv
  <2>9. Atomic!Prime(c)
    BY <1>9, <2>1 DEF Atomic!Prime
  <2> QED
    BY <1>5, <2>8, <2>9 DEF Atomic!Next
<1> QED
  BY <1>6, <1>11, <1>12

\* A store of an operation: when the cell's gate is valid behind it the cell
\* shows what is written, and else what it showed.
LEMMA WriteStep ==
  ASSUME Inv, Store, phase = "run", NEW c \in CellsOf(image), NEW v \in Value,
         Head(stores).at \in Home(image, c),
         Head(stores).word # Magic, \A j \in Image : Head(stores).word # Record(j),
         Valid(memory', image, c) => ReadCell(memory', image, c) = v,
         \A d \in Cell \ {c} : ReadCell(memory, image, d) = shown[d],
         \A d \in Primes(image) : shown[d] # Unset
  PROVE  /\ ~Valid(memory', image, c) => shown' = shown
         /\ Valid(memory', image, c) => shown' = [shown EXCEPT ![c] = v]
         /\ Valid(memory', image, c) => shown' = ReadAll(memory', image)
         /\ \A d \in Cell \ {c} : ReadCell(memory', image, d) = shown'[d]
         /\ \A d \in Primes(image) : shown'[d] # Unset
         /\ [Atomic!Next]_shown
         /\ InUse' => Inv'
<1>1. TypeOK /\ InvUse /\ shown \in [Cell -> Held \cup {Unset}]
  BY DEF Inv
<1> DEFINE after == Put(memory, Head(stores).at, Head(stores).word)
<1>2. /\ memory' = after /\ memory \in [Address -> Word] /\ memory' \in [Address -> Word]
      /\ stores \in Seq(Stores) /\ stores' \in Seq(Stores)
      /\ image' = image /\ phase' = phase /\ cut' = cut
      /\ moving' = moving /\ snap' = snap /\ todo' = todo
      /\ Head(stores).at \in Address /\ image \in Image /\ shown' = Showing(after)
  BY <1>1, StoreDoes
<1>3. Sound(memory) = {image} /\ In(todo) \subseteq Primes(image)
  BY <1>1 DEF InvUse
<1>4. v \in Held /\ v # Unset /\ c \in Cell /\ Primes(image) \subseteq Cell
  BY <1>2, Layouts, PersistAssumption DEF Held, Primes
<1>5. Sound(after) = {image}
  BY <1>2, <1>3, RecordKept
<1>6. /\ ~Valid(after, image, c) => shown' = shown
      /\ Valid(after, image, c) => shown' = [shown EXCEPT ![c] = ReadCell(after, image, c)]
      /\ \A d \in Cell \ {c} : ReadCell(after, image, d) = shown[d]
  <2>1. PICK a, w : a = Head(stores).at /\ w = Head(stores).word
    OBVIOUS
  <2>2. TypeOK /\ phase \in {"init", "run"} /\ a \in Home(image, c)
    BY <1>1, <2>1
  <2>3. /\ ~Valid(Put(memory, a, w), image, c) => Showing(Put(memory, a, w)) = shown
        /\ Valid(Put(memory, a, w), image, c) =>
             Showing(Put(memory, a, w)) = [shown EXCEPT ![c] = ReadCell(Put(memory, a, w), image, c)]
        /\ \A d \in Cell \ {c} : ReadCell(Put(memory, a, w), image, d) = shown[d]
    BY <2>2, Showed
  <2> QED
    BY <1>2, <2>1, <2>3
<1> HIDE DEF after
<1>7. /\ ~Valid(after, image, c) => shown' = shown
      /\ Valid(after, image, c) => shown' = [shown EXCEPT ![c] = v]
  BY <1>2, <1>6
<1>8. \A d \in Cell \ {c} : ReadCell(after, image, d) = shown'[d]
  BY <1>1, <1>6, <1>7
<1>9. Valid(after, image, c) => shown' = ReadAll(after, image)
  BY <1>1, <1>2, <1>4, <1>7, <1>8 DEF ReadAll
<1>10. shown' \in [Cell -> Held \cup {Unset}]
  BY <1>1, <1>4, <1>7
<1>11. \A d \in Primes(image) : shown'[d] # Unset
  BY <1>1, <1>4, <1>7
<1>12. ASSUME InUse' PROVE Inv'
  <2>1. InvUse'
    BY <1>2, <1>3, <1>5, <1>12 DEF InvUse
  <2>2. TypeOK'
    <3>1. shown' \in [Cell -> Held \cup {Unset, Mixed}]
      BY <1>10
    <3> QED
      BY <1>1, <1>2, <3>1 DEF TypeOK, Stores
  <2> QED
    BY <1>2, <1>10, <2>1, <2>2 DEF Inv
<1>13. [Atomic!Next]_shown
  <2>1. c \in Primed => shown[c] # Unset
    BY <1>2, <1>4 DEF Primed
  <2>2. CASE Valid(after, image, c)
    <3>1. Atomic!Write(c, v)
      BY <1>7, <2>1, <2>2 DEF Atomic!Write
    <3> QED
      BY <1>4, <3>1 DEF Atomic!Next
  <2> QED
    BY <1>7, <2>2
<1> QED
  BY <1>2, <1>7, <1>8, <1>9, <1>11, <1>12, <1>13

\* Writing: the old value, nothing, and with the gate keyed the new one.
LEMMA StoreWriting ==
  ASSUME Inv, Store, phase \in {"init", "run"}, NEW c \in CellsOf(image), NEW v \in Value,
         NEW p \in 1..(Len(DataAt[image][c]) + 2), Writing(c, v, p)
  PROVE  Inv' /\ [Atomic!Next]_shown
<1> DEFINE after == Put(memory, Head(stores).at, Head(stores).word)
<1>1. /\ memory' = after /\ memory \in [Address -> Word]
      /\ stores' = Tail(stores) /\ stores \in Seq(Stores)
      /\ image' = image /\ phase' = phase /\ image \in Image
  BY StoreDoes DEF Inv
<1>2. /\ phase = "run" /\ Underway(memory, stores, image, c, v, p)
      /\ \A d \in Cell \ {c} : ReadCell(memory, image, d) = shown[d]
      /\ \A d \in Primes(image) : shown[d] # Unset
  BY DEF Writing
<1>3. Len(DataAt[image][c]) \in Nat /\ v \in Held
  BY <1>1, Layouts DEF Held
<1>4. /\ Head(stores).at \in Home(image, c)
      /\ Head(stores).word # Magic /\ \A j \in Image : Head(stores).word # Record(j)
      /\ p < Len(DataAt[image][c]) + 2 => Underway(after, stores', image, c, v, p + 1)
      /\ p = Len(DataAt[image][c]) + 2 =>
           stores' = <<>> /\ Valid(after, image, c) /\ ReadCell(after, image, c) = v
  BY <1>1, <1>2, <1>3, CellStore
<1> HIDE DEF after
<1>5. p < Len(DataAt[image][c]) + 2 => ~Valid(after, image, c)
  BY <1>3, <1>4 DEF Underway
<1>6. /\ ~Valid(after, image, c) => shown' = shown
      /\ Valid(after, image, c) => shown' = ReadAll(after, image)
      /\ \A d \in Cell \ {c} : ReadCell(after, image, d) = shown'[d]
      /\ \A d \in Primes(image) : shown'[d] # Unset
      /\ [Atomic!Next]_shown
      /\ InUse' => Inv'
  <2>1. Valid(memory', image, c) => ReadCell(memory', image, c) = v
    BY <1>1, <1>3, <1>4, <1>5
  <2> QED
    BY <1>1, <1>2, <1>4, <2>1, WriteStep
<1>7. CASE p = Len(DataAt[image][c]) + 2
  <2>1. Quiet'
    BY <1>1, <1>4, <1>6, <1>7 DEF Quiet
  <2> QED
    BY <1>6, <2>1 DEF InUse
<1>8. CASE p < Len(DataAt[image][c]) + 2
  <2>1. p + 1 # 1 /\ p + 1 \in 1..(Len(DataAt[image][c]) + 2)
    BY <1>3, <1>8
  <2>2. Writing(c, v, p + 1)'
    BY <1>1, <1>2, <1>4, <1>6, <1>8, <2>1 DEF Writing
  <2>3. InUse'
    BY <1>1, <2>1, <2>2 DEF InUse
  <2> QED
    BY <1>6, <2>3
<1> QED
  BY <1>3, <1>7, <1>8

\* Writing one word: the old value, then the new one if the gate is valid.
LEMMA StoreWritingWord ==
  ASSUME Inv, Store, phase \in {"init", "run"}, NEW c \in CellsOf(image), NEW v \in Value,
         WritingWord(c, v)
  PROVE  Inv' /\ [Atomic!Next]_shown
<1> DEFINE after == Put(memory, Head(stores).at, Head(stores).word)
<1>1. /\ memory' = after /\ memory \in [Address -> Word]
      /\ stores' = Tail(stores) /\ Head(stores) = stores[1]
      /\ image' = image /\ phase' = phase /\ image \in Image
  BY StoreDoes DEF Inv
<1>2. /\ phase = "run" /\ shown = ReadAll(memory, image)
      /\ Len(DataAt[image][c]) = 1
      /\ stores[1].at = DataAt[image][c][1] /\ stores[1].word = Part(c, v)
      /\ Tail(stores) = <<>> \/ Tail(stores) = <<Direct(GateAt[image][c], Key(c))>>
      /\ \A d \in Primes(image) : shown[d] # Unset
  BY DEF WritingWord
<1>3. /\ c \in Cell /\ GateAt[image][c] \in Address /\ DataAt[image][c][1] \in Address
      /\ DataAt[image][c][1] # GateAt[image][c] /\ 1 \in 1..Len(DataAt[image][c])
      /\ v \in Held
  BY <1>1, <1>2, Layouts, Places DEF Held
<1>4. Head(stores).at \in Home(image, c)
  BY <1>1, <1>2, <1>3 DEF Home, In
<1>5. Head(stores).word # Magic /\ \A j \in Image : Head(stores).word # Record(j)
  BY <1>1, <1>2, <1>3, WordsKnown, WordsDiffer
<1>6. Valid(after, image, c) <=> Valid(memory, image, c)
  BY <1>1, <1>2, <1>3 DEF Put, Valid
<1>7. Words(after, image, c) = Parts(image, c, v)
  <2>1. after[DataAt[image][c][1]] = Part(c, v)
    BY <1>1, <1>2, <1>3 DEF Put
  <2>2. \A k \in 1..Len(DataAt[image][c]) : k = 1
    BY <1>2
  <2>3. \A k \in 1..Len(DataAt[image][c]) : after[DataAt[image][c][k]] = Part(c, v)
    BY <2>1, <2>2
  <2> HIDE DEF after
  <2> QED
    BY <2>3 DEF Words, Parts
<1> HIDE DEF after
<1>8. Valid(after, image, c) => ReadCell(after, image, c) = v
  BY <1>1, <1>3, <1>7, Reading
<1>9. /\ ~Valid(after, image, c) => shown' = shown
      /\ Valid(after, image, c) => shown' = ReadAll(after, image)
      /\ \A d \in Cell \ {c} : ReadCell(after, image, d) = shown'[d]
      /\ \A d \in Primes(image) : shown'[d] # Unset
      /\ [Atomic!Next]_shown
      /\ InUse' => Inv'
  <2>1. \A d \in Cell \ {c} : ReadCell(memory, image, d) = shown[d]
    BY <1>2 DEF ReadAll
  <2>2. Valid(memory', image, c) => ReadCell(memory', image, c) = v
    BY <1>1, <1>8
  <2> QED
    BY <1>1, <1>2, <1>4, <1>5, <2>1, <2>2, WriteStep
<1>10. shown' = ReadAll(after, image)
  <2>1. CASE ~Valid(after, image, c)
    <3>1. ReadCell(after, image, c) = Unset /\ ReadCell(memory, image, c) = Unset
      BY <1>1, <1>6, <2>1, Reading
    <3>2. \A d \in Cell : ReadCell(after, image, d) = shown'[d]
      BY <1>2, <1>3, <1>9, <2>1, <3>1 DEF ReadAll
    <3>3. shown' = [d \in Cell |-> shown'[d]]
      BY <1>2, <1>9, <2>1 DEF ReadAll
    <3> QED
      BY <3>2, <3>3 DEF ReadAll
  <2> QED
    BY <1>9, <2>1
<1>11. CASE Tail(stores) = <<>>
  <2>1. Quiet'
    BY <1>1, <1>2, <1>9, <1>10, <1>11 DEF Quiet
  <2> QED
    BY <1>9, <2>1 DEF InUse
<1>12. CASE Tail(stores) = <<Direct(GateAt[image][c], Key(c))>>
  <2>1. Stamping(c, v)'
    BY <1>1, <1>2, <1>7, <1>9, <1>10, <1>12 DEF Stamping
  <2>2. InUse'
    BY <1>1, <2>1 DEF InUse
  <2> QED
    BY <1>9, <2>2
<1> QED
  BY <1>2, <1>11, <1>12

\* Stamping the gate: the cell shows the value, if it did not before.
LEMMA StoreStamping ==
  ASSUME Inv, Store, phase \in {"init", "run"}, NEW c \in CellsOf(image), NEW v \in Value,
         Stamping(c, v)
  PROVE  Inv' /\ [Atomic!Next]_shown
<1> DEFINE after == Put(memory, Head(stores).at, Head(stores).word)
<1>1. /\ memory' = after /\ memory \in [Address -> Word]
      /\ stores' = Tail(stores) /\ Head(stores) = stores[1]
      /\ image' = image /\ phase' = phase /\ image \in Image
  BY StoreDoes DEF Inv
<1>2. /\ phase = "run" /\ shown = ReadAll(memory, image)
      /\ Words(memory, image, c) = Parts(image, c, v)
      /\ stores = <<Direct(GateAt[image][c], Key(c))>>
      /\ \A d \in Primes(image) : shown[d] # Unset
  BY DEF Stamping
<1>3. Head(stores).at = GateAt[image][c] /\ Head(stores).word = Key(c) /\ stores' = <<>>
  BY <1>1, <1>2 DEF Direct
<1>4. /\ c \in Cell /\ GateAt[image][c] \in Address /\ v \in Held
      /\ \A k \in 1..Len(DataAt[image][c]) : DataAt[image][c][k] # GateAt[image][c]
  BY <1>1, Layouts, Places DEF Held
<1>5. Head(stores).at \in Home(image, c)
  BY <1>3 DEF Home
<1>6. Head(stores).word # Magic /\ \A j \in Image : Head(stores).word # Record(j)
  BY <1>3, <1>4, WordsKnown, WordsDiffer
<1>7. Valid(after, image, c)
  BY <1>1, <1>3, <1>4 DEF Put, Valid
<1>8. Words(after, image, c) = Words(memory, image, c)
  <2>1. \A k \in 1..Len(DataAt[image][c]) : after[DataAt[image][c][k]] = memory[DataAt[image][c][k]]
    BY <1>1, <1>3, <1>4, Layouts DEF Put
  <2> HIDE DEF after
  <2> QED
    BY <2>1 DEF Words
<1> HIDE DEF after
<1>9. ReadCell(memory', image, c) = v
  BY <1>1, <1>2, <1>4, <1>7, <1>8, Reading
<1>10. \A d \in Cell \ {c} : ReadCell(memory, image, d) = shown[d]
  BY <1>2 DEF ReadAll
<1>11. /\ Valid(memory', image, c) => shown' = ReadAll(memory', image)
       /\ \A d \in Primes(image) : shown'[d] # Unset
       /\ [Atomic!Next]_shown
       /\ InUse' => Inv'
  BY <1>2, <1>5, <1>6, <1>9, <1>10, WriteStep
<1>12. Quiet'
  BY <1>1, <1>2, <1>3, <1>7, <1>11 DEF Quiet
<1> QED
  BY <1>11, <1>12 DEF InUse

\* A store, in any phase.
LEMMA StoreKeeps ==
  ASSUME Inv, Store
  PROVE  Inv' /\ [Atomic!Next]_shown
<1>1. TypeOK /\ stores # <<>>
  BY StoreDoes DEF Inv
<1>2. phase # "off"
  BY <1>1 DEF Inv, InvOff
<1>3. CASE phase \in {"init", "run"}
  <2>1. InvUse /\ ~Quiet
    BY <1>1, <1>3 DEF Inv, Quiet
  <2>2. \/ \E c \in Primes(image) : \E p \in 2..(Len(DataAt[image][c]) + 2) : Priming(c, p)
        \/ \E c \in CellsOf(image), v \in Value :
             \/ \E p \in 1..(Len(DataAt[image][c]) + 2) : Writing(c, v, p)
             \/ WritingWord(c, v)
             \/ Stamping(c, v)
    BY <2>1 DEF InvUse, InUse
  <2> QED
    BY <1>3, <2>2, StorePriming, StoreWriting, StoreWritingWord, StoreStamping
<1>4. phase \in {"off", "retire", "clear", "carry", "record", "init", "run"}
  BY <1>1 DEF TypeOK
<1> QED
  BY <1>2, <1>3, <1>4, StoreRetire, StoreClear, StoreCarry, StoreRecord

(***************************************************************************)
(* Losses of power, and the theorems.                                      *)
(***************************************************************************)
\* In use, an image that loses power finds what its cells show, or nothing, and
\* a torn store leaves its cell invalid unless it is frail.
LEMMA UseFaithful ==
  ASSUME Inv, phase \in {"init", "run"}
  PROVE  /\ Faithful(memory, image)
         /\ stores # <<>> /\ Head(stores).tears =>
              \E c \in CellsOf(image) :
                /\ Head(stores).at \in Home(image, c)
                /\ \A d \in Cell \ {c} : ReadCell(memory, image, d) = shown[d]
                /\ Valid(Put(memory, Head(stores).at, Torn), image, c) =>
                     /\ c \in Frail /\ shown[c] # Unset
                     /\ ReadCell(Put(memory, Head(stores).at, Torn), image, c) = Torn
<1>1. /\ TypeOK /\ InvUse /\ memory \in [Address -> Word] /\ stores \in Seq(Stores)
      /\ image \in Image /\ CellsOf(image) \subseteq Cell /\ Primes(image) \subseteq CellsOf(image)
  BY Layouts DEF Inv, TypeOK, Stores, Primes
<1>2. ASSUME shown = ReadAll(memory, image)
      PROVE  \A d \in Cell : ReadCell(memory, image, d) = shown[d]
  BY <1>2 DEF ReadAll
<1>3. CASE Quiet
  BY <1>1, <1>2, <1>3 DEF Quiet, Faithful
<1>4. ASSUME NEW c \in Primes(image), NEW p \in 2..(Len(DataAt[image][c]) + 2), Priming(c, p)
      PROVE  Faithful(memory, image) /\ Head(stores).at \in Home(image, c)
             /\ ~Valid(Put(memory, Head(stores).at, Torn), image, c)
             /\ \A d \in Cell \ {c} : ReadCell(memory, image, d) = shown[d]
  <2>1. c \in CellsOf(image) /\ Default \in Held /\ p \in 1..(Len(DataAt[image][c]) + 2)
    BY <1>1, Layouts, PersistAssumption DEF Held
  <2>2. Underway(memory, stores, image, c, Default, p) /\ shown = ReadAll(memory, image)
    BY <1>4 DEF Priming
  <2>3. /\ Head(stores).at \in Home(image, c)
        /\ ~Valid(Put(memory, Head(stores).at, Torn), image, c)
    BY <1>1, <2>1, <2>2, CellStore
  <2> QED
    BY <1>1, <1>2, <2>2, <2>3 DEF Faithful
<1>5. ASSUME NEW c \in CellsOf(image), NEW v \in Value,
             NEW p \in 1..(Len(DataAt[image][c]) + 2), Writing(c, v, p)
      PROVE  Faithful(memory, image) /\ Head(stores).at \in Home(image, c)
             /\ ~Valid(Put(memory, Head(stores).at, Torn), image, c)
             /\ \A d \in Cell \ {c} : ReadCell(memory, image, d) = shown[d]
  <2>1. /\ Underway(memory, stores, image, c, v, p)
        /\ p = 1 => ReadCell(memory, image, c) = shown[c]
        /\ \A d \in Cell \ {c} : ReadCell(memory, image, d) = shown[d]
    BY <1>5 DEF Writing
  <2>2. v \in Held
    BY DEF Held
  <2>3. /\ Head(stores).at \in Home(image, c)
        /\ ~Valid(Put(memory, Head(stores).at, Torn), image, c)
    BY <1>1, <2>1, <2>2, CellStore
  <2>4. ReadCell(memory, image, c) \in {shown[c], Unset}
    <3>1. CASE p = 1
      BY <2>1, <3>1
    <3>2. CASE p # 1
      <4>1. p > 1
        BY <1>1, <3>2, Layouts
      <4>2. ~Valid(memory, image, c)
        BY <2>1, <4>1 DEF Underway
      <4> QED
        BY <1>1, <4>2, Reading
    <3> QED
      BY <3>1, <3>2
  <2> QED
    BY <1>1, <2>1, <2>3, <2>4 DEF Faithful
<1>6. ASSUME NEW c \in CellsOf(image), NEW v \in Value, WritingWord(c, v), Head(stores).tears
      PROVE  /\ Head(stores).at \in Home(image, c)
             /\ Valid(Put(memory, Head(stores).at, Torn), image, c) =>
                  /\ c \in Frail /\ shown[c] # Unset
                  /\ ReadCell(Put(memory, Head(stores).at, Torn), image, c) = Torn
  <2>1. /\ shown = ReadAll(memory, image) /\ Len(DataAt[image][c]) = 1
        /\ stores # <<>> /\ stores[1].at = DataAt[image][c][1]
        /\ stores[1].tears => c \in Frail
    BY <1>6 DEF WritingWord
  <2>2. Head(stores) = stores[1]
    BY <1>1, <2>1, HeadTail
  <2>3. /\ GateAt[image][c] \in Address /\ DataAt[image][c][1] \in Address
        /\ DataAt[image][c][1] # GateAt[image][c] /\ 1 \in 1..Len(DataAt[image][c])
        /\ c \in Cell /\ Torn \in Held /\ Part(c, Torn) = Torn
    BY <1>1, <2>1, Layouts, Places DEF Held, Part
  <2> DEFINE after == Put(memory, Head(stores).at, Torn)
  <2>4. Head(stores).at \in Home(image, c)
    BY <2>1, <2>2, <2>3 DEF Home, In
  <2>5. Valid(after, image, c) <=> Valid(memory, image, c)
    BY <1>1, <2>1, <2>2, <2>3 DEF Put, Valid
  <2>6. Words(after, image, c) = Parts(image, c, Torn)
    <3>1. after[DataAt[image][c][1]] = Part(c, Torn)
      BY <1>1, <2>1, <2>2, <2>3 DEF Put
    <3>2. \A k \in 1..Len(DataAt[image][c]) : k = 1
      BY <2>1
    <3>3. \A k \in 1..Len(DataAt[image][c]) : after[DataAt[image][c][k]] = Part(c, Torn)
      BY <3>1, <3>2
    <3> HIDE DEF after
    <3> QED
      BY <3>3 DEF Words, Parts
  <2> HIDE DEF after
  <2>7. ASSUME Valid(after, image, c)
        PROVE  shown[c] # Unset /\ ReadCell(after, image, c) = Torn
    <3>1. ReadCell(memory, image, c) # Unset
      BY <1>1, <2>5, <2>7, Reading
    <3>2. shown[c] = ReadCell(memory, image, c)
      BY <2>1, <2>3 DEF ReadAll
    <3> QED
      BY <1>1, <2>3, <2>6, <2>7, <3>1, <3>2, Reading
  <2> QED
    BY <1>6, <2>1, <2>2, <2>4, <2>7 DEF after
<1>7. ASSUME NEW c, NEW v, WritingWord(c, v) \/ Stamping(c, v)
      PROVE  shown = ReadAll(memory, image)
  BY <1>7 DEF WritingWord, Stamping
<1>8. ASSUME NEW c, NEW v, Stamping(c, v)
      PROVE  ~Head(stores).tears
  <2>1. Head(stores) = Direct(GateAt[image][c], Key(c))
    BY <1>8 DEF Stamping
  <2>2. Head(stores).tears = FALSE
    BY <2>1 DEF Direct
  <2> QED
    BY <2>2
<1>9. ASSUME shown = ReadAll(memory, image)
      PROVE  Faithful(memory, image)
  BY <1>1, <1>2, <1>9 DEF Faithful
<1>10. InUse
  BY <1>1 DEF InvUse
<1>11. CASE \E c \in Primes(image) : \E p \in 2..(Len(DataAt[image][c]) + 2) : Priming(c, p)
  BY <1>1, <1>4, <1>11
<1>12. CASE \E c \in CellsOf(image), v \in Value :
              \E p \in 1..(Len(DataAt[image][c]) + 2) : Writing(c, v, p)
  BY <1>5, <1>12
<1>13. CASE \E c \in CellsOf(image), v \in Value : WritingWord(c, v)
  <2>1. PICK c \in CellsOf(image), v \in Value : WritingWord(c, v)
    BY <1>13
  <2>2. shown = ReadAll(memory, image)
    BY <1>7, <2>1
  <2> QED
    BY <1>2, <1>6, <1>9, <2>1, <2>2
<1>14. CASE \E c \in CellsOf(image), v \in Value : Stamping(c, v)
  BY <1>7, <1>8, <1>9, <1>14
<1> QED
  BY <1>3, <1>10, <1>11, <1>12, <1>13, <1>14 DEF InUse

\* What an image that is faithful to the cells reads is what they show.
LEMMA FaithfulShows ==
  ASSUME Inv, phase \in {"init", "run"}
  PROVE  Showing(memory) = shown
<1>1. Faithful(memory, image) /\ image \in Image
  BY UseFaithful DEF Inv, TypeOK
<1>2. ASSUME NEW c \in Cell, Valid(memory, image, c)
      PROVE  ReadCell(memory, image, c) = shown[c]
  <2>1. c \in CellsOf(image) /\ ReadCell(memory, image, c) # Unset
    BY <1>1, <1>2, Reading
  <2> QED
    BY <1>1, <2>1 DEF Faithful
<1>3. shown \in [Cell -> Held \cup {Unset}]
  BY DEF Inv
<1> QED
  BY <1>2, <1>3 DEF Showing

\* A loss of power between stores leaves memory and the cells.
LEMMA IdleCut ==
  ASSUME Inv, PowerCut, memory' = memory
  PROVE  shown' = shown
<1>1. shown' = Showing(memory)
  BY DEF PowerCut
<1>2. CASE phase \in {"init", "run"}
  BY <1>1, <1>2, FaithfulShows
<1>3. CASE phase \notin {"init", "run"}
  BY <1>1, <1>3 DEF Showing, Inv, TypeOK
<1> QED
  BY <1>2, <1>3

\* While cells are in use it leaves them, or tears a frail one.
LEMMA CutInUse ==
  ASSUME Inv, PowerCut, phase \in {"init", "run"}
  PROVE  /\ shown' \in [Cell -> Held \cup {Unset}]
         /\ [Atomic!Next]_shown
         /\ Sound(memory') = {image}
         /\ \A c \in CellsOf(image) : ReadCell(memory', image, c) \in {shown'[c], Unset}
<1>1. /\ TypeOK /\ shown \in [Cell -> Held \cup {Unset}] /\ memory \in [Address -> Word]
      /\ stores \in Seq(Stores) /\ image \in Image /\ Sound(memory) = {image}
  BY DEF Inv, TypeOK, Stores, InvUse
<1>2. /\ shown' = Showing(memory')
      /\ \/ memory' = memory
         \/ /\ stores # <<>> /\ Head(stores).tears
            /\ memory' = Put(memory, Head(stores).at, Torn)
  BY DEF PowerCut, Idle, Put
<1>3. CASE memory' = memory
  <2>1. shown' = shown /\ Faithful(memory, image)
    BY <1>3, IdleCut, UseFaithful
  <2> QED
    BY <1>1, <1>3, <2>1 DEF Faithful
<1>4. CASE /\ stores # <<>> /\ Head(stores).tears
           /\ memory' = Put(memory, Head(stores).at, Torn)
  <2>1. PICK c \in CellsOf(image) :
          /\ Head(stores).at \in Home(image, c)
          /\ \A d \in Cell \ {c} : ReadCell(memory, image, d) = shown[d]
          /\ Valid(memory', image, c) =>
               /\ c \in Frail /\ shown[c] # Unset /\ ReadCell(memory', image, c) = Torn
    BY <1>4, UseFaithful
  <2>2. PICK a : a = Head(stores).at
    OBVIOUS
  <2>3. c \in Cell /\ a \in Address /\ CellsOf(image) \subseteq Cell
    <3>1. Head(stores) \in Stores
      BY <1>1, <1>4, HeadTail
    <3> QED
      BY <1>1, <2>2, <3>1, Layouts DEF Stores
  <2>4. Sound(memory') = {image}
    <3>1. Torn # Magic /\ \A j \in Image : Torn # Record(j)
      BY WordsKnown
    <3> QED
      BY <1>1, <1>4, <2>1, <2>2, <2>3, <3>1, RecordKept
  <2>5. /\ ~Valid(memory', image, c) => shown' = shown
        /\ Valid(memory', image, c) => shown' = [shown EXCEPT ![c] = ReadCell(memory', image, c)]
        /\ \A d \in Cell \ {c} : ReadCell(memory', image, d) = shown[d]
    <3>1. /\ TypeOK /\ phase \in {"init", "run"} /\ a \in Home(image, c)
          /\ \A d \in Cell \ {c} : ReadCell(memory, image, d) = shown[d]
      BY <1>1, <2>1, <2>2
    <3>2. /\ ~Valid(Put(memory, a, Torn), image, c) => Showing(Put(memory, a, Torn)) = shown
          /\ Valid(Put(memory, a, Torn), image, c) =>
               Showing(Put(memory, a, Torn))
                 = [shown EXCEPT ![c] = ReadCell(Put(memory, a, Torn), image, c)]
          /\ \A d \in Cell \ {c} : ReadCell(Put(memory, a, Torn), image, d) = shown[d]
      BY <3>1, Showed
    <3> QED
      BY <1>2, <1>4, <2>2, <3>2
  <2>6. CASE ~Valid(memory', image, c)
    <3>1. ReadCell(memory', image, c) = Unset /\ shown' = shown
      BY <1>1, <2>5, <2>6, Reading
    <3>2. \A d \in CellsOf(image) : ReadCell(memory', image, d) \in {shown'[d], Unset}
      BY <2>3, <2>5, <3>1
    <3> QED
      BY <1>1, <2>4, <3>1, <3>2
  <2>7. CASE Valid(memory', image, c)
    <3>1. shown' = [shown EXCEPT ![c] = Torn] /\ c \in Frail /\ shown[c] # Unset
      BY <2>1, <2>5, <2>7
    <3>2. shown' \in [Cell -> Held \cup {Unset}]
      BY <1>1, <3>1 DEF Held
    <3>3. \A d \in CellsOf(image) : ReadCell(memory', image, d) \in {shown'[d], Unset}
      BY <1>1, <2>1, <2>3, <2>5, <2>7, <3>1
    <3>4. Atomic!Tear(c)
      BY <3>1 DEF Atomic!Tear
    <3>5. Atomic!Next
      BY <3>1, <3>4 DEF Atomic!Next
    <3> QED
      BY <2>4, <3>2, <3>3, <3>5
  <2> QED
    BY <2>6, <2>7
<1> QED
  BY <1>2, <1>3, <1>4

\* A loss of power leaves a memory whose only record, if any, is faithful.
LEMMA PowerCutKeeps ==
  ASSUME Inv, PowerCut
  PROVE  Inv' /\ [Atomic!Next]_shown
<1>1. /\ phase # "off" /\ phase' = "off" /\ stores' = <<>> /\ moving' = {} /\ snap' = <<>>
      /\ todo' = <<>> /\ image' = image /\ shown' = Showing(memory')
      /\ cut' = (cut \/ ~Idle \/ phase \notin {"init", "run"})
      /\ \/ memory' = memory
         \/ /\ stores # <<>> /\ Head(stores).tears
            /\ memory' = Put(memory, Head(stores).at, Torn)
  BY DEF PowerCut, Idle, Put
<1>2. /\ TypeOK /\ shown \in [Cell -> Held \cup {Unset}] /\ memory \in [Address -> Word]
      /\ stores \in Seq(Stores) /\ image \in Image
  BY DEF Inv, TypeOK, Stores
<1>3. ASSUME stores # <<>> PROVE Head(stores).at \in Address
  <2>1. Head(stores) \in Stores
    BY <1>2, <1>3, HeadTail
  <2> QED
    BY <2>1 DEF Stores
<1>4. Torn # Magic /\ \A j \in Image : Torn # Record(j)
  BY WordsKnown
<1>5. Sound(memory') \subseteq Sound(memory)
  BY <1>1, <1>2, <1>3, <1>4, NoRecordFrom
<1>6. phase \notin {"init", "run"} => shown' = shown
  BY <1>1 DEF Showing, Inv
<1>7. ASSUME phase \notin {"init", "run"}
      PROVE  \/ Sound(memory') = {}
             \/ \E m \in Image : Sound(memory') = {m} /\ Faithful(memory', m)
  <2>1. CASE phase = "retire"
    <3>1. InvRetire
      BY <2>1 DEF Inv
    <3>2. CASE Sound(memory) = {}
      BY <1>5, <3>2
    <3>3. CASE Sound(memory) # {}
      <4>1. PICK m \in Image : /\ Sound(memory) = {m} /\ Faithful(memory, m) /\ Len(stores) = 1
                               /\ stores[1] = Hal(ManifestAt[m][1], Zero)
        BY <3>1, <3>3 DEF InvRetire
      <4>2. CASE memory' = memory
        BY <4>1, <4>2
      <4>3. CASE stores # <<>> /\ memory' = Put(memory, Head(stores).at, Torn)
        <5>1. Head(stores) = stores[1]
          BY <1>2, <4>3, HeadTail
        <5>2. Head(stores).at = ManifestAt[m][1]
          BY <4>1, <5>1 DEF Hal
        <5>3. memory'[ManifestAt[m][1]] = Torn
          BY <1>2, <1>3, <4>3, <5>2 DEF Put
        <5>4. ~ManifestOk(memory', m)
          BY <1>4, <5>3 DEF ManifestOk
        <5> QED
          BY <1>5, <4>1, <5>4 DEF Sound
      <4> QED
        BY <1>1, <4>2, <4>3
    <3> QED
      BY <3>2, <3>3
  <2>2. CASE phase = "clear"
    BY <1>5, <2>2 DEF Inv, InvClear
  <2>3. CASE phase = "carry"
    BY <1>5, <2>3 DEF Inv, InvCarry
  <2>4. CASE phase = "record"
    <3>1. InvRecord
      BY <2>4 DEF Inv
    <3>2. CASE Sound(memory) = {}
      BY <1>5, <3>2
    <3>3. CASE Sound(memory) # {}
      <4>1. stores = <<>> /\ Sound(memory) = {image}
        BY <3>1, <3>3 DEF InvRecord
      <4>2. memory' = memory
        BY <1>1, <4>1
      <4>3. Faithful(memory, image)
        BY <1>2, <3>1, RecordedFaithful DEF InvRecord
      <4> QED
        BY <1>2, <4>1, <4>2, <4>3
    <3> QED
      BY <3>2, <3>3
  <2> QED
    BY <1>1, <1>2, <1>7, <2>1, <2>2, <2>3, <2>4 DEF TypeOK
<1>8. /\ shown' \in [Cell -> Held \cup {Unset}] /\ [Atomic!Next]_shown
      /\ \/ Sound(memory') = {}
         \/ \E m \in Image : /\ Sound(memory') = {m}
                             /\ \A c \in CellsOf(m) : ReadCell(memory', m, c) \in {shown'[c], Unset}
  <2>1. CASE phase \in {"init", "run"}
    BY <1>2, <2>1, CutInUse
  <2>2. CASE phase \notin {"init", "run"}
    BY <1>2, <1>6, <1>7, <2>2 DEF Faithful
  <2> QED
    BY <2>1, <2>2
<1>9. InvOff'
  BY <1>1, <1>8 DEF InvOff, Faithful
<1>10. TypeOK'
  <2>1. memory' \in [Address -> Word]
    BY <1>1, <1>2, WordsKnown DEF Put
  <2>2. cut' \in BOOLEAN
    BY <1>1
  <2>3. moving' \subseteq Cell /\ DOMAIN snap' = moving' /\ \A c \in moving' : snap'[c] \in Seq(Word)
    BY <1>1, Empties
  <2>4. /\ stores' \in Seq([at : Address, word : Word, tears : BOOLEAN])
        /\ todo' \in Seq(Cell)
    BY <1>1, Empties
  <2>5. shown' \in [Cell -> Held \cup {Unset, Mixed}]
    BY <1>8
  <2> QED
    BY <1>1, <1>2, <2>1, <2>2, <2>3, <2>4, <2>5 DEF TypeOK
<1> QED
  BY <1>1, <1>8, <1>9, <1>10 DEF Inv

\* Every step keeps the invariant and is a step of AtomicCells or none.
LEMMA StepKeeps ==
  ASSUME Inv, [Next]_vars
  PROVE  Inv' /\ [Atomic!Next]_shown
<1>1. CASE UNCHANGED vars
  <2>1. /\ memory' = memory /\ image' = image /\ phase' = phase /\ stores' = stores
        /\ moving' = moving /\ snap' = snap /\ todo' = todo /\ shown' = shown /\ cut' = cut
    BY <1>1 DEF vars, move
  <2>2. TypeOK' /\ shown' \in [Cell -> Held \cup {Unset}]
    BY <2>1 DEF Inv, TypeOK
  <2>3. /\ phase' = "off" => InvOff'
        /\ phase' = "retire" => InvRetire'
        /\ phase' = "clear" => InvClear'
    BY <2>1 DEF Inv, InvOff, InvRetire, InvClear, Faithful, CopySound
  <2>4. phase' = "carry" => InvCarry'
    BY <2>1 DEF Inv, InvCarry, CopySound, RestInvalid, InPlaceAll, Carrying
  <2>5. phase' = "record" => InvRecord'
    BY <2>1 DEF Inv, InvRecord, CopySound, RestInvalid, InPlaceAll
  <2>6. phase' \in {"init", "run"} => InvUse'
    BY <2>1 DEF Inv, InvUse, InUse, Quiet, Priming, Writing, WritingWord, Stamping
  <2> QED
    BY <2>1, <2>2, <2>3, <2>4, <2>5, <2>6 DEF Inv
<1>2. CASE \E i \in Image, preserve \in BOOLEAN : Boot(i, preserve)
  BY <1>2, BootKeeps
<1>3. CASE Clear
  BY <1>3, ClearKeeps
<1>4. CASE CarryFirst
  BY <1>4, CarryFirstKeeps
<1>5. CASE CarryCell
  BY <1>5, CarryCellKeeps
<1>6. CASE RecordLayout
  BY <1>6, RecordLayoutKeeps
<1>7. CASE MoveDone
  BY <1>7, MoveDoneKeeps
<1>8. CASE CellInit
  BY <1>8, CellInitKeeps
<1>9. CASE Run
  BY <1>9, RunKeeps
<1>10. CASE \E c \in Cell, v \in Value :
              CellWrite(c, v) \/ CellCommit(c, v) \/ CellWriteU32(c, v)
  BY <1>10, CellWriteKeeps, CellCommitKeeps, CellWriteU32Keeps
<1>11. CASE Store
  BY <1>11, StoreKeeps
<1>12. CASE PowerCut
  BY <1>12, PowerCutKeeps
<1> QED
  BY <1>1, <1>2, <1>3, <1>4, <1>5, <1>6, <1>7, <1>8, <1>9, <1>10, <1>11, <1>12 DEF Next

\* The strengthened invariant holds in every reachable state, for any images
\* and any layout of them: what the move and the cells (tiku_persist_move.c,
\* tiku_persist.c) have stored so far is known at every store.
THEOREM Inductive == Spec => []Inv
<1>1. Inv /\ [Next]_vars => Inv'
  BY StepKeeps
<1> QED
  BY InvInit, <1>1, PTL DEF Spec

\* Every variable keeps its type, in every phase of the boot and of the cells'
\* operations (tiku_persist.c, tiku_persist_move.c).
THEOREM TypeCorrect == Spec => []TypeOK
<1>1. Inv => TypeOK
  BY DEF Inv
<1> QED
  BY Inductive, <1>1, PTL

\* Each phase knows which record there is.
LEMMA InvOneRecord == Inv => OneRecord
<1> SUFFICES ASSUME Inv PROVE OneRecord
  OBVIOUS
<1>1. Manifests = Sound(memory) /\ TypeOK
  BY DEF Manifests, Sound, Inv
<1>2. Sound(memory) = {} \/ \E m \in Image : Sound(memory) = {m}
  <2>1. CASE phase = "off"
    BY <2>1 DEF Inv, InvOff, Sound
  <2>2. CASE phase \in {"retire", "clear", "carry"}
    BY <2>2 DEF Inv, InvRetire, InvClear, InvCarry
  <2>3. CASE phase \in {"record", "init", "run"}
    BY <1>1, <2>3 DEF Inv, InvRecord, InvUse, TypeOK
  <2> QED
    BY <1>1, <2>1, <2>2, <2>3 DEF TypeOK
<1>3. Cardinality(Manifests) <= 1
  <2>1. CASE Sound(memory) = {}
    <3>1. Cardinality(Manifests) = 0
      BY <1>1, <2>1, FS_EmptySet
    <3> QED
      BY <3>1
  <2>2. ASSUME NEW m \in Image, Sound(memory) = {m}
        PROVE  Cardinality(Manifests) <= 1
    <3>1. Cardinality(Manifests) = 1
      BY <1>1, <2>2, FS_Singleton
    <3> QED
      BY <3>1
  <2> QED
    BY <1>2, <2>1, <2>2
<1>4. phase \in {"init", "run"} => Manifests = {image}
  BY <1>1 DEF Inv, InvUse
<1> QED
  BY <1>3, <1>4 DEF OneRecord

\* However images are booted and wherever power is lost, at most one manifest
\* vouches for memory, and the running image's does once its cells are in use
\* (tiku_persist_move.c retires before it stores and records last).
THEOREM OneRecordAlways == Spec => []OneRecord
BY Inductive, InvOneRecord, PTL

\* The cells and the boot move implement AtomicCells, for any cells, programs,
\* images and layouts: a cell shows its last value, its default after a restart,
\* or nothing, whichever image boots and inside whichever store power is lost.
\* Only a cell of one word that some program stores through the HAL (Frail) can
\* be left torn, by a cut inside that store: the code writes it under a valid
\* gate.  (tiku_persist.c, tiku_persist_move.c.)
THEOREM ImplementsAtomicCells == Spec => AtomicSpec
<1>1. Init => Atomic!Init
  BY DEF Init, Atomic!Init
<1>2. Inv /\ [Next]_vars => [Atomic!Next]_shown
  BY StepKeeps
<1> QED
  BY Inductive, <1>1, <1>2, PTL DEF Spec, AtomicSpec, Atomic!Spec

(***************************************************************************)
(* What a boot carries: the words it counts, and that nothing is lost but    *)
(* for want of room or by a loss of power.                                 *)
(***************************************************************************)
\* A count is determined step by step.
LEMMA CountExists ==
  ASSUME NEW n \in Nat, NEW F \in [(1..n) \X Nat -> Nat]
  PROVE  \E f \in [0..n -> Nat] : f[0] = 0 /\ \A k \in 1..n : f[k] = F[<<k, f[k-1]>>]
<1> DEFINE Counts(f, m) ==
      /\ f \in [0..m -> Nat] /\ f[0] = 0 /\ \A k \in 1..m : f[k] = F[<<k, f[k-1]>>]
<1> DEFINE S == {m \in 0..n : \E f : Counts(f, m)}
<1>1. 0 \in S
  <2>1. Counts([k \in 0..0 |-> 0], 0)
    OBVIOUS
  <2> HIDE DEF Counts
  <2> QED
    BY <2>1
<1>2. ASSUME NEW m \in 1..n, m - 1 \in S PROVE m \in S
  <2>1. PICK f : Counts(f, m - 1)
    BY <1>2
  <2>2. f[m-1] \in Nat /\ <<m, f[m-1]>> \in (1..n) \X Nat
    BY <2>1
  <2> DEFINE g == [k \in 0..m |-> IF k = m THEN F[<<m, f[m-1]>>] ELSE f[k]]
  <2>3. g[m] = F[<<m, f[m-1]>>] /\ g[m] \in Nat
    BY <2>2
  <2>4. \A k \in 0..(m-1) : g[k] = f[k] /\ g[k] \in Nat
    BY <2>1
  <2>5. g \in [0..m -> Nat]
    <3>1. \A k \in 0..m : k = m \/ k \in 0..(m-1)
      OBVIOUS
    <3>2. \A k \in 0..m : g[k] \in Nat
      BY <2>3, <2>4, <3>1
    <3>3. g = [k \in 0..m |-> g[k]]
      OBVIOUS
    <3> HIDE DEF g
    <3> QED
      BY <3>2, <3>3
  <2>6. g[0] = 0
    BY <2>1, <2>4
  <2>7. ASSUME NEW k \in 1..m PROVE g[k] = F[<<k, g[k-1]>>]
    <3>1. g[k-1] = f[k-1]
      BY <2>4
    <3>2. CASE k = m
      BY <2>3, <3>1, <3>2
    <3>3. CASE k # m
      <4>1. k \in 1..(m-1) /\ k \in 0..(m-1)
        BY <3>3
      <4>2. f[k] = F[<<k, f[k-1]>>]
        BY <2>1, <4>1
      <4> QED
        BY <2>4, <3>1, <4>1, <4>2
    <3> QED
      BY <3>2, <3>3
  <2> HIDE DEF g
  <2>8. Counts(g, m)
    BY <2>5, <2>6, <2>7
  <2> QED
    BY <2>8
<1>3. n \in S
  <2>1. 0..n \subseteq S
    <3> HIDE DEF S
    <3> QED
      BY <1>1, <1>2, StepsUpTo
  <2>2. n \in 0..n
    OBVIOUS
  <2> HIDE DEF S
  <2> QED
    BY <2>1, <2>2
<1> QED
  BY <1>3

\* Each entry of a table has a size.
LEMMA Sizes ==
  ASSUME NEW i \in Image
  PROVE  Len(Table[i]) \in Nat /\ \A k \in 1..Len(Table[i]) : Size(i, k) \in Nat
<1>1. Len(Table[i]) \in Nat
  BY Layouts, LenProperties
<1>2. \A k \in 1..Len(Table[i]) : Table[i][k] \in CellsOf(i)
  BY DEF CellsOf
<1> QED
  BY <1>1, <1>2, Layouts DEF Size

\* The words of the cells taken so far are counted entry by entry.
LEMMA UsedCounts ==
  ASSUME NEW i \in Image, NEW old
  PROVE  /\ Used(i, old) \in [0..Len(Table[i]) -> Nat]
         /\ Used(i, old)[0] = 0
         /\ \A k \in 1..Len(Table[i]) :
              Used(i, old)[k] = Used(i, old)[k-1]
                + (IF Takes(i, old, k, Used(i, old)[k-1]) THEN Size(i, k) ELSE 0)
<1> DEFINE n == Len(Table[i])
<1> DEFINE more(k, u) == IF Takes(i, old, k, u) THEN Size(i, k) ELSE 0
<1> DEFINE step(f) == [k \in 0..n |-> IF k = 0 THEN 0 ELSE f[k-1] + more(k, f[k-1])]
<1> DEFINE F == [x \in (1..n) \X Nat |-> x[2] + more(x[1], x[2])]
<1>1. n \in Nat /\ \A k \in 1..n : \A u \in Nat : more(k, u) \in Nat
  BY Sizes
<1>2. Used(i, old) = CHOOSE f : f = step(f)
  BY DEF Used
<1> HIDE DEF n, more
<1>3. F \in [(1..n) \X Nat -> Nat]
  BY <1>1
<1>4. \A k \in 1..n : \A u \in Nat : F[<<k, u>>] = u + more(k, u)
  OBVIOUS
<1> HIDE DEF F
<1>5. PICK f \in [0..n -> Nat] : f[0] = 0 /\ \A k \in 1..n : f[k] = F[<<k, f[k-1]>>]
  BY <1>1, <1>3, CountExists
<1>6. f = step(f)
  <2>1. ASSUME NEW k \in 0..n
        PROVE  f[k] = IF k = 0 THEN 0 ELSE f[k-1] + more(k, f[k-1])
    <3>1. CASE k = 0
      BY <1>5, <3>1
    <3>2. CASE k # 0
      <4>1. k \in 1..n /\ k - 1 \in 0..n
        BY <1>1, <3>2
      <4>2. f[k-1] \in Nat
        BY <1>5, <4>1
      <4> QED
        BY <1>4, <1>5, <3>2, <4>1, <4>2
    <3> QED
      BY <3>1, <3>2
  <2> QED
    BY <2>1
<1> DEFINE g == Used(i, old)
<1>7. g = step(g)
  BY <1>2, <1>6
<1> HIDE DEF g
<1>8. DOMAIN g = 0..n /\ g[0] = 0 /\ \A k \in 1..n : g[k] = g[k-1] + more(k, g[k-1])
  <2>1. \A k \in 0..n : g[k] = IF k = 0 THEN 0 ELSE g[k-1] + more(k, g[k-1])
    BY <1>7
  <2>2. DOMAIN g = 0..n
    BY <1>7
  <2>3. 0 \in 0..n /\ \A k \in 1..n : k \in 0..n /\ k # 0
    BY <1>1
  <2> HIDE DEF step
  <2> QED
    BY <2>1, <2>2, <2>3
<1>9. g \in [0..n -> Nat]
  <2> DEFINE S == {k \in 0..n : g[k] \in Nat}
  <2>1. 0 \in S
    BY <1>1, <1>8
  <2>2. ASSUME NEW k \in 1..n, k - 1 \in S PROVE k \in S
    <3>1. k \in 0..n /\ g[k-1] \in Nat
      BY <1>1, <2>2
    <3>2. more(k, g[k-1]) \in Nat /\ g[k] = g[k-1] + more(k, g[k-1])
      BY <1>1, <1>8, <3>1
    <3>3. g[k] \in Nat
      BY <3>1, <3>2
    <3> QED
      BY <3>1, <3>3
  <2>3. 0..n \subseteq S
    <3> HIDE DEF S
    <3> QED
      BY <1>1, <2>1, <2>2, StepsUpTo
  <2>4. \A k \in 0..n : g[k] \in Nat
    BY <2>3
  <2>5. g = [k \in 0..n |-> g[k]]
    BY <1>7
  <2> QED
    BY <2>4, <2>5
<1> QED
  BY <1>8, <1>9 DEF g, n, more

\* So are the words of all cells.
LEMMA UpToCounts ==
  ASSUME NEW i \in Image
  PROVE  /\ UpTo(i) \in [0..Len(Table[i]) -> Nat]
         /\ UpTo(i)[0] = 0
         /\ \A k \in 1..Len(Table[i]) : UpTo(i)[k] = UpTo(i)[k-1] + Size(i, k)
<1> DEFINE n == Len(Table[i])
<1> DEFINE step(f) == [k \in 0..n |-> IF k = 0 THEN 0 ELSE f[k-1] + Size(i, k)]
<1> DEFINE F == [x \in (1..n) \X Nat |-> x[2] + Size(i, x[1])]
<1>1. n \in Nat /\ \A k \in 1..n : Size(i, k) \in Nat
  BY Sizes
<1>2. UpTo(i) = CHOOSE f : f = step(f)
  BY DEF UpTo
<1> HIDE DEF n
<1>3. F \in [(1..n) \X Nat -> Nat]
  BY <1>1
<1>4. \A k \in 1..n : \A u \in Nat : F[<<k, u>>] = u + Size(i, k)
  OBVIOUS
<1> HIDE DEF F
<1>5. PICK f \in [0..n -> Nat] : f[0] = 0 /\ \A k \in 1..n : f[k] = F[<<k, f[k-1]>>]
  BY <1>1, <1>3, CountExists
<1>6. f = step(f)
  <2>1. ASSUME NEW k \in 0..n
        PROVE  f[k] = IF k = 0 THEN 0 ELSE f[k-1] + Size(i, k)
    <3>1. CASE k = 0
      BY <1>5, <3>1
    <3>2. CASE k # 0
      <4>1. k \in 1..n /\ k - 1 \in 0..n
        BY <1>1, <3>2
      <4>2. f[k-1] \in Nat
        BY <1>5, <4>1
      <4> QED
        BY <1>4, <1>5, <3>2, <4>1, <4>2
    <3> QED
      BY <3>1, <3>2
  <2> QED
    BY <2>1
<1> DEFINE g == UpTo(i)
<1>7. g = step(g)
  BY <1>2, <1>6
<1> HIDE DEF g
<1>8. DOMAIN g = 0..n /\ g[0] = 0 /\ \A k \in 1..n : g[k] = g[k-1] + Size(i, k)
  <2>1. \A k \in 0..n : g[k] = IF k = 0 THEN 0 ELSE g[k-1] + Size(i, k)
    BY <1>7
  <2>2. DOMAIN g = 0..n
    BY <1>7
  <2>3. 0 \in 0..n /\ \A k \in 1..n : k \in 0..n /\ k # 0
    BY <1>1
  <2> HIDE DEF step
  <2> QED
    BY <2>1, <2>2, <2>3
<1>9. g \in [0..n -> Nat]
  <2> DEFINE S == {k \in 0..n : g[k] \in Nat}
  <2>1. 0 \in S
    BY <1>1, <1>8
  <2>2. ASSUME NEW k \in 1..n, k - 1 \in S PROVE k \in S
    <3>1. k \in 0..n /\ g[k-1] \in Nat
      BY <1>1, <2>2
    <3>2. Size(i, k) \in Nat /\ g[k] = g[k-1] + Size(i, k)
      BY <1>1, <1>8, <3>1
    <3>3. g[k] \in Nat
      BY <3>1, <3>2
    <3> QED
      BY <3>1, <3>3
  <2>3. 0..n \subseteq S
    <3> HIDE DEF S
    <3> QED
      BY <1>1, <2>1, <2>2, StepsUpTo
  <2>4. \A k \in 0..n : g[k] \in Nat
    BY <2>3
  <2>5. g = [k \in 0..n |-> g[k]]
    BY <1>7
  <2> QED
    BY <2>4, <2>5
<1> QED
  BY <1>8, <1>9 DEF g, n

\* A cell that fits is taken if it can move: the cells taken before it are no
\* more than all cells before it.
LEMMA FitCarried ==
  ASSUME NEW i \in Image, NEW old \in Image, NEW n \in 1..Len(Table[i]),
         UpTo(i)[n] <= SnapWords, Valid(memory, old, Table[i][n]),
         SameSize(old, i, Table[i][n])
  PROVE  Table[i][n] \in Carried(i, old)
<1> DEFINE N == Len(Table[i])
<1> DEFINE u == Used(i, old)
<1> DEFINE t == UpTo(i)
<1> DEFINE taken(k) == Takes(i, old, k, u[k-1])
<1>1. N \in Nat /\ SnapWords \in Nat /\ \A k \in 1..N : Size(i, k) \in Nat
  BY Sizes, PersistAssumption
<1>2. u \in [0..N -> Nat] /\ u[0] = 0
  BY UsedCounts
<1>3. \A k \in 1..N : u[k] = u[k-1] + (IF taken(k) THEN Size(i, k) ELSE 0)
  BY UsedCounts
<1>4. t \in [0..N -> Nat] /\ t[0] = 0 /\ \A k \in 1..N : t[k] = t[k-1] + Size(i, k)
  BY UpToCounts
<1>5. n \in 1..N /\ t[n] <= SnapWords
  OBVIOUS
<1>6. taken(n) <=> u[n-1] + Size(i, n) <= SnapWords
  BY DEF Takes, Size
<1> HIDE DEF N, u, t, taken
<1>7. \A k \in 0..N : u[k] <= t[k]
  <2> DEFINE S == {k \in 0..N : u[k] <= t[k]}
  <2>1. 0 \in S
    BY <1>1, <1>2, <1>4
  <2>2. ASSUME NEW k \in 1..N, k - 1 \in S PROVE k \in S
    <3>1. k \in 0..N /\ k - 1 \in 0..N /\ u[k-1] <= t[k-1]
      BY <1>1, <2>2
    <3>2. u[k-1] \in Nat /\ t[k-1] \in Nat /\ Size(i, k) \in Nat
      BY <1>1, <1>2, <1>4, <3>1
    <3>3. t[k] = t[k-1] + Size(i, k)
      BY <1>4
    <3>4. u[k] = u[k-1] + (IF taken(k) THEN Size(i, k) ELSE 0)
      BY <1>3
    <3>5. u[k] = u[k-1] + Size(i, k) \/ u[k] = u[k-1]
      BY <3>2, <3>4
    <3>6. u[k] <= t[k]
      BY <3>1, <3>2, <3>3, <3>5
    <3> QED
      BY <3>1, <3>6
  <2>3. 0..N \subseteq S
    <3> HIDE DEF S
    <3> QED
      BY <1>1, <2>1, <2>2, StepsUpTo
  <2> QED
    BY <2>3
<1>8. taken(n)
  <2>1. n - 1 \in 0..N
    BY <1>1, <1>5
  <2>2. u[n-1] \in Nat /\ t[n-1] \in Nat /\ Size(i, n) \in Nat /\ u[n-1] <= t[n-1]
    BY <1>1, <1>2, <1>4, <1>5, <1>7, <2>1
  <2>3. t[n-1] + Size(i, n) <= SnapWords
    BY <1>4, <1>5
  <2> QED
    BY <1>1, <1>6, <2>2, <2>3
<1> QED
  BY <1>8 DEF Carried, taken, u

\* Without a loss of power that interrupts stores, the cells show what the one
\* record's image reads between boots, and nothing when there is none.
Uncut ==
  \/ Sound(memory) = {} /\ \A c \in Cell : shown[c] = Unset
  \/ \E m \in Image : Sound(memory) = {m} /\ shown = ReadAll(memory, m)

\* Inv says that what moves is right; this, that what shows and fits moves.
CopyComplete == \A c \in Common : Fits(c) => shown[c] = Unset \/ c \in moving

Lossless ==
  ~cut => /\ phase = "off" => Uncut
          /\ phase \in {"retire", "clear", "carry", "record"} => CopyComplete

\* The boot copies out all that fits.
LEMMA BootLossless ==
  ASSUME Inv, Lossless, NEW i \in Image, NEW preserve \in BOOLEAN, Boot(i, preserve)
  PROVE  Lossless'
<1>1. phase = "off" /\ image' = i /\ memory' = memory /\ cut' = cut
  BY DEF Boot
<1>2. CASE phase' = "init"
  BY <1>2 DEF Lossless
<1>3. CASE phase' # "init"
  <2>1. /\ phase' = "retire" /\ shown' = shown
        /\ moving' = UNION {Carried(i, old) : old \in Found}
    BY <1>3 DEF Boot
  <2>2. SUFFICES ASSUME ~cut, NEW c \in Common, Fits(c)', shown[c] # Unset
                 PROVE  c \in moving'
    BY <1>1, <2>1 DEF Lossless, CopyComplete, Common
  <2>3. c \in Cell /\ \A j \in Image : SameSize(j, i, c)
    BY <2>2 DEF Common
  <2>4. PICK m \in Image : Sound(memory) = {m} /\ shown = ReadAll(memory, m)
    BY <1>1, <2>2, <2>3 DEF Lossless, Uncut
  <2>5. Found = {m}
    <3>1. Manifests = {m}
      BY <2>4 DEF Manifests, Sound
    <3> QED
      BY <3>1, FS_Singleton DEF Found
  <2>6. Valid(memory, m, c)
    <3>1. shown[c] = ReadCell(memory, m, c)
      BY <2>3, <2>4 DEF ReadAll
    <3> QED
      BY <2>2, <3>1, Reading
  <2>7. PICK n \in 1..Len(Table[i]) : Table[i][n] = c /\ UpTo(i)[n] <= SnapWords
    BY <1>1, <2>2 DEF Fits
  <2>8. c \in Carried(i, m)
    BY <2>3, <2>6, <2>7, FitCarried
  <2> QED
    BY <2>1, <2>5, <2>8
<1> QED
  BY <1>2, <1>3

\* At the end of the move what was copied out is in place, and nothing else
\* is valid.
LEMMA MoveLossless ==
  ASSUME Inv, Lossless, MoveDone, ~cut, NEW c \in Common, Fits(c)
  PROVE  shown'[c] = shown[c]
<1>1. phase = "record" /\ shown' = ReadAll(memory, image)
  BY DEF MoveDone
<1>2. /\ image \in Image /\ shown \in [Cell -> Held \cup {Unset}]
      /\ InPlaceAll(moving) /\ RestInvalid /\ CopySound
  BY <1>1 DEF Inv, TypeOK, InvRecord
<1>3. c \in Cell /\ c \in CellsOf(image)
  BY <1>2 DEF Common
<1>4. shown'[c] = ReadCell(memory, image, c)
  BY <1>1, <1>3 DEF ReadAll
<1>5. CASE c \in moving
  BY <1>2, <1>4, <1>5, Reading DEF InPlaceAll, CopySound
<1>6. CASE c \notin moving
  <2>1. shown[c] = Unset
    BY <1>1, <1>6 DEF Lossless, CopyComplete
  <2>2. ~Valid(memory, image, c)
    BY <1>2, <1>3, <1>6 DEF RestInvalid
  <2> QED
    BY <1>2, <1>4, <2>1, <2>2, Reading
<1> QED
  BY <1>5, <1>6

\* Every step keeps it.
LEMMA StepLossless ==
  ASSUME Inv, Lossless, [Next]_vars
  PROVE  Lossless'
<1>1. ASSUME memory' = memory, phase' = phase, image' = image, moving' = moving,
             shown' = shown, cut' = cut
      PROVE  Lossless'
  BY <1>1 DEF Lossless, Uncut, CopyComplete, Fits
<1>2. ASSUME phase \in {"retire", "clear", "carry", "record"}, phase' # "off",
             image' = image, moving' = moving, shown' = shown, cut' = cut
      PROVE  Lossless'
  BY <1>2 DEF Lossless, CopyComplete, Fits
<1>3. ASSUME phase' \in {"init", "run"}
      PROVE  Lossless'
  BY <1>3 DEF Lossless
<1>4. CASE UNCHANGED vars
  BY <1>1, <1>4 DEF vars, move
<1>5. CASE \E i \in Image, preserve \in BOOLEAN : Boot(i, preserve)
  BY <1>5, BootLossless
<1>6. CASE Clear \/ CarryFirst \/ CarryCell \/ RecordLayout
  BY <1>2, <1>6 DEF Clear, CarryFirst, CarryCell, RecordLayout, move
<1>7. CASE \/ MoveDone \/ CellInit \/ Run
           \/ \E c \in Cell, v \in Value :
                CellWrite(c, v) \/ CellCommit(c, v) \/ CellWriteU32(c, v)
  BY <1>3, <1>7 DEF MoveDone, CellInit, Run, CellWrite, CellCommit, CellWriteU32, Calling
<1>8. CASE Store
  <2>1. /\ stores # <<>> /\ phase' = phase /\ image' = image /\ moving' = moving /\ cut' = cut
        /\ phase \notin {"init", "run"} => shown' = shown
    BY <1>8, StoreDoes DEF Inv
  <2>2. phase # "off"
    BY <2>1 DEF Inv, InvOff
  <2>3. phase \in {"retire", "clear", "carry", "record", "init", "run"}
    BY <2>2 DEF Inv, TypeOK
  <2> QED
    BY <1>2, <1>3, <2>1, <2>2, <2>3
<1>9. CASE PowerCut
  <2>1. /\ phase' = "off" /\ image' = image
        /\ cut' = (cut \/ ~Idle \/ phase \notin {"init", "run"})
        /\ Idle => memory' = memory /\ shown' = shown
    BY <1>9, IdleCut DEF PowerCut
  <2>2. SUFFICES ASSUME Idle, phase \in {"init", "run"} PROVE Uncut'
    BY <2>1 DEF Lossless
  <2>3. Sound(memory) = {image} /\ image \in Image /\ shown = ReadAll(memory, image)
    BY <2>2, UseIdle DEF Inv, InvUse, Idle, Quiet, TypeOK
  <2> QED
    BY <2>1, <2>2, <2>3 DEF Uncut
<1> QED
  BY <1>4, <1>5, <1>6, <1>7, <1>8, <1>9 DEF Next

\* CarryComplete: a boot loses no value that every image keeps in one size but
\* for want of room in the copy, or where power was lost inside the stores of
\* the boot or of an operation since the cells were last in use: whatever the new
\* layout puts over the old (tiku_persist_move.c copies every movable value
\* out before it stores a word).
THEOREM NothingElseLost == Spec => CarryComplete
<1>1. Init => Lossless
  <2> SUFFICES ASSUME Init PROVE Lossless
    OBVIOUS
  <2>1. phase = "off" /\ \A c \in Cell : shown[c] = Unset
    BY DEF Init
  <2>2. Sound(memory) = {}
    <3>1. Inv
      BY InvInit
    <3>2. memory \in [Address -> Word] /\ \A a \in Address : memory[a] = Zero
      BY WordsKnown DEF Init
    <3>3. ASSUME NEW i \in Image, ManifestOk(memory, i) PROVE FALSE
      BY <3>2, <3>3, Layouts, WordsKnown DEF ManifestOk
    <3> QED
      BY <3>3 DEF Sound
  <2> QED
    BY <2>1, <2>2 DEF Lossless, Uncut
<1>2. Inv /\ Lossless /\ [Next]_vars => Lossless'
  BY StepLossless
<1>3. Inv /\ Lossless /\ [Next]_vars =>
        [phase' = "init" /\ phase # "init" /\ ~cut
           => \A c \in Common : Fits(c)' \/ phase = "off" => shown'[c] = shown[c]]_vars
  <2> SUFFICES ASSUME Inv, Lossless, Next, phase' = "init", phase # "init", ~cut,
                      NEW c \in Common, Fits(c)' \/ phase = "off"
               PROVE  shown'[c] = shown[c]
    BY DEF Common
  <2>1. (\E i \in Image, preserve \in BOOLEAN : Boot(i, preserve)) \/ MoveDone
    BY DEF Next, Clear, CarryFirst, CarryCell, RecordLayout, CellInit, Run, CellWrite,
           CellCommit, CellWriteU32, Calling, Store, PowerCut
  <2>2. ASSUME NEW i \in Image, NEW preserve \in BOOLEAN, Boot(i, preserve)
        PROVE  shown'[c] = shown[c]
    <3>1. phase = "off" /\ ManifestOk(memory, i) /\ shown' = ReadAll(memory, i)
      BY <2>2 DEF Boot
    <3>2. i \in Sound(memory)
      BY <3>1 DEF Sound
    <3>3. shown = ReadAll(memory, i)
      BY <3>1, <3>2 DEF Lossless, Uncut
    <3> QED
      BY <3>1, <3>3
  <2>3. CASE MoveDone
    <3>1. phase = "record" /\ image' = image
      BY <2>3 DEF MoveDone
    <3>2. Fits(c)
      BY <3>1 DEF Fits
    <3> QED
      BY <2>3, <3>2, MoveLossless
  <2> QED
    BY <2>1, <2>2, <2>3
<1> QED
  BY Inductive, <1>1, <1>2, <1>3, PTL DEF Spec, CarryComplete
=============================================================================
