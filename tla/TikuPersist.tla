---------------------------- MODULE TikuPersist ----------------------------
(***************************************************************************)
(* Persistent cells (kernel/memory/tiku_persist.c) and the boot that        *)
(* carries them to the layout of a new image (tiku_persist_move.c), on a    *)
(* port whose durable memory is written in place.                          *)
(*                                                                         *)
(* Durable memory is an array of words.  A cell is a gate word and the      *)
(* words of its value; each image has a table of cells and a manifest: a    *)
(* magic word and the words of the record it vouches for.  Power is lost    *)
(* between any two stores, and inside a store the memory HAL does byte by   *)
(* byte, which leaves a word that is no key, no magic and no value.  Any    *)
(* image may be on the device when it next boots.  Each program calls the   *)
(* operations it uses on its cells, always for a whole value.              *)
(*                                                                         *)
(* "phase" is where the boot is:                                           *)
(*   off  retire  clear  carry  record  init  run                          *)
(* and "stores" what the operation under way has still to store.           *)
(***************************************************************************)
EXTENDS Integers, FiniteSets, SequencesExt, Compaction

CONSTANTS
  Cell, Image, Value,
  Default,     \* the value a cell is primed with
  Unset,       \* what a cell without a valid gate shows
  Mixed,       \* what a cell shows whose words are not of one value
  Torn, Zero, Magic,
  MaxAddress,  \* the last word of durable memory
  Table,       \* of an image: its cells, in the order of the linker's table
  GateAt,      \* of an image and a cell: the gate's address
  DataAt,      \* of an image and a cell: the addresses of the value's words
  ManifestAt,  \* of an image: the addresses of the manifest's words, magic first
  U32,         \* of an image: its cells that are exactly a uint32_t
  Calls,       \* of an image and a cell: what the image's program calls for it
  SnapWords    \* MOVE_SNAP_BYTES, in words

Address == 0..MaxAddress

CellsOf(i) == {Table[i][k] : k \in 1..Len(Table[i])}

\* What a cell can hold whole: a value, or what a tear makes of a value that
\* is one word.
Held == Value \cup {Torn}

\* The cells the program of image i primes at its boot.
Primes(i) == {c \in CellsOf(i) : "init" \in Calls[i][c]}

\* Some cells of image i, in the order of its table.
InTable(i, cells) == Compact(Table[i], {k \in 1..Len(Table[i]) : Table[i][k] \in cells})

VARIABLES
  memory, image, phase, stores,
  moving,  \* the cells the move carries
  snap,    \* their words, copied out before anything is stored
  todo,    \* the cells the phase has still to look at, in table order
  shown,   \* history: what the cells in use show, or showed when last valid
  cut      \* history: did a loss of power interrupt stores since the last run?

move == <<moving, snap, todo>>
vars == <<memory, image, phase, stores, move, shown, cut>>

\* What a word holds: a key, a word of a cell's value, a word of an image's
\* record, the magic, zero, or what a torn store leaves.
Key(c)     == <<"key", c>>
Part(c, v) == IF v = Torn THEN Torn ELSE <<"part", c, v>>
Record(i)  == <<"record", i>>
Word == ({"key"} \X Cell) \cup ({"part"} \X Cell \X Value) \cup ({"record"} \X Image)
          \cup {Magic, Zero, Torn}

\* In an image no two cells, nor a cell and the manifest, share a word: the
\* linker gives every object a place of its own.
Apart(i) ==
  /\ \A c, d \in CellsOf(i) :
       /\ GateAt[i][c] = GateAt[i][d] => c = d
       /\ \A k \in DOMAIN DataAt[i][c] :
            /\ DataAt[i][c][k] # GateAt[i][d]
            /\ \A l \in DOMAIN DataAt[i][d] :
                 DataAt[i][c][k] = DataAt[i][d][l] => c = d /\ k = l
  /\ \A m \in DOMAIN ManifestAt[i] :
       /\ \A n \in DOMAIN ManifestAt[i] : ManifestAt[i][m] = ManifestAt[i][n] => m = n
       /\ \A c \in CellsOf(i) :
            /\ ManifestAt[i][m] # GateAt[i][c]
            /\ \A k \in DOMAIN DataAt[i][c] : ManifestAt[i][m] # DataAt[i][c][k]

ASSUME PersistAssumption ==
  /\ Default \in Value /\ Torn \notin Value
  /\ Unset \notin Held /\ Mixed \notin Held /\ Unset # Mixed
  /\ Torn # Zero /\ Torn # Magic /\ Zero # Magic
  /\ {Torn, Zero, Magic} \cap
       (({"key"} \X Cell) \cup ({"part"} \X Cell \X Value) \cup ({"record"} \X Image)) = {}
  /\ MaxAddress \in Nat /\ SnapWords \in Nat
  /\ \A i \in Image :
       /\ Table[i] \in Seq(Cell)
       /\ \A k, l \in DOMAIN Table[i] : Table[i][k] = Table[i][l] => k = l
       /\ \A c \in CellsOf(i) :
            GateAt[i][c] \in Address /\ DataAt[i][c] \in Seq(Address) /\ DataAt[i][c] # <<>>
       /\ ManifestAt[i] \in Seq(Address) /\ Len(ManifestAt[i]) >= 2
       /\ Apart(i)
       /\ U32[i] \subseteq CellsOf(i)
       \* write and write_u32 are called after cell_init only.
       /\ \A c \in CellsOf(i) :
            {"write", "u32"} \cap Calls[i][c] # {} => c \in Primes(i)
       \* A record's words follow its magic: two at one place share them.
       /\ \A j \in Image : ManifestAt[i][1] = ManifestAt[j][1]
                              => ManifestAt[i][2] = ManifestAt[j][2]

(***************************************************************************)
(* A store: by one aligned word store, which a loss of power cannot tear,   *)
(* or by the memory HAL, byte by byte.                                     *)
(***************************************************************************)
Direct(a, w) == [at |-> a, word |-> w, tears |-> FALSE]
Hal(a, w)    == [at |-> a, word |-> w, tears |-> TRUE]

DirectAll(addresses, words) == [k \in 1..Len(addresses) |-> Direct(addresses[k], words[k])]
HalAll(addresses, words) == [k \in 1..Len(addresses) |-> Hal(addresses[k], words[k])]

Parts(i, c, v) == [k \in 1..Len(DataAt[i][c]) |-> Part(c, v)]

(***************************************************************************)
(* What a program of image i reads of cell c: nothing when the gate does    *)
(* not hold its key, and a mixed value when its words are not of one value. *)
(***************************************************************************)
Valid(mem, i, c) == c \in CellsOf(i) /\ mem[GateAt[i][c]] = Key(c)

Words(mem, i, c) == [k \in 1..Len(DataAt[i][c]) |-> mem[DataAt[i][c][k]]]

ReadCell(mem, i, c) ==
  LET whole == {v \in Held : Words(mem, i, c) = Parts(i, c, v)}
  IN IF ~Valid(mem, i, c) THEN Unset
     ELSE IF whole = {} THEN Mixed ELSE CHOOSE v \in whole : TRUE

ReadAll(mem, i) == [c \in Cell |-> ReadCell(mem, i, c)]

(***************************************************************************)
(* Manifests: the check of a record holds when its words are of one image.  *)
(***************************************************************************)
ManifestOk(mem, i) ==
  /\ mem[ManifestAt[i][1]] = Magic
  /\ \A k \in 2..Len(ManifestAt[i]) : mem[ManifestAt[i][k]] = Record(i)

Manifests == {i \in Image : ManifestOk(memory, i)}

\* The manifest the move trusts: the only one found.
Found == IF Cardinality(Manifests) = 1 THEN Manifests ELSE {}

SameSize(i, j, c) ==
  Len(DataAt[i][c]) = Len(DataAt[j][c]) /\ (c \in U32[i] <=> c \in U32[j])

\* The cells of image i it carries from the layout of image old: valid there,
\* of the same size, and taken in table order while their words fit.
Size(i, k) == Len(DataAt[i][Table[i][k]])

Takes(i, old, k, used) ==
  LET c == Table[i][k] IN
  /\ Valid(memory, old, c) /\ SameSize(old, i, c)
  /\ used + Size(i, k) <= SnapWords

Used(i, old) ==
  LET used[k \in 0..Len(Table[i])] ==
        IF k = 0 THEN 0
        ELSE used[k-1] + (IF Takes(i, old, k, used[k-1]) THEN Size(i, k) ELSE 0)
  IN used

Carried(i, old) ==
  {Table[i][k] : k \in {n \in 1..Len(Table[i]) : Takes(i, old, n, Used(i, old)[n-1])}}

(***************************************************************************)
(* The boot move.                                                          *)
(***************************************************************************)
Idle == stores = <<>>

(* Mutant: the old records are left. *)
Boot_Unretired(i, preserve) ==
  /\ phase = "off"
  /\ image' = i
  /\ IF ManifestOk(memory, i) /\ ~preserve
     THEN /\ phase' = "init"
          /\ todo' = InTable(i, Primes(i))
          /\ shown' = ReadAll(memory, i)
          /\ UNCHANGED <<moving, snap>>
     ELSE /\ phase' = "retire"
          /\ moving' = UNION {Carried(i, old) : old \in Found}
          /\ snap' = [c \in moving' |-> Words(memory, CHOOSE old \in Found : TRUE, c)]
          /\ UNCHANGED <<todo, shown>>
  /\ UNCHANGED <<memory, stores, cut>>

(* Mutant: the cells whose words do not fit are marked as moving all the same. *)
Boot_Unfit(i, preserve) ==
  /\ phase = "off"
  /\ image' = i
  /\ IF ManifestOk(memory, i) /\ ~preserve
     THEN /\ phase' = "init"
          /\ todo' = InTable(i, Primes(i))
          /\ shown' = ReadAll(memory, i)
          /\ UNCHANGED <<stores, moving, snap>>
     ELSE /\ phase' = "retire"
          /\ moving' = UNION {{c \in CellsOf(i) : Valid(memory, old, c)} : old \in Found}
          /\ snap' = [c \in UNION {Carried(i, old) : old \in Found} |->
                        Words(memory, CHOOSE old \in Found : TRUE, c)]
          /\ stores' = [k \in 1..Cardinality(Manifests) |->
                          Hal(ManifestAt[SetToSeq(Manifests)[k]][1], Zero)]
          /\ UNCHANGED <<todo, shown>>
  /\ UNCHANGED <<memory, cut>>

\* The image boots.  The move has nothing to do when memory is laid out as
\* recorded and no layout record is to be restored ("preserve"); else every
\* movable value is copied out, and the old records are retired first.
Boot(i, preserve) ==
  /\ phase = "off"
  /\ image' = i
  /\ IF ManifestOk(memory, i) /\ ~preserve
     THEN /\ phase' = "init"
          /\ todo' = InTable(i, Primes(i))
          /\ shown' = ReadAll(memory, i)
          /\ UNCHANGED <<stores, moving, snap>>
     ELSE /\ phase' = "retire"
          /\ moving' = UNION {Carried(i, old) : old \in Found}
          /\ snap' = [c \in moving' |-> Words(memory, CHOOSE old \in Found : TRUE, c)]
          /\ stores' = [k \in 1..Cardinality(Manifests) |->
                          Hal(ManifestAt[SetToSeq(Manifests)[k]][1], Zero)]
          /\ UNCHANGED <<todo, shown>>
  /\ UNCHANGED <<memory, cut>>

(* Mutant: the gates that hold their keys are trusted when nothing moves. *)
Clear_Trusting ==
  /\ phase = "retire" /\ Idle
  /\ phase' = "clear"
  /\ LET stale == InTable(image, {c \in Cell \ moving : Valid(memory, image, c)})
     IN stores' = IF moving = {} THEN <<>>
                  ELSE [k \in 1..Len(stale) |-> Hal(GateAt[image][stale[k]], Zero)]
  /\ UNCHANGED <<memory, image, move, shown, cut>>

\* A gate that holds its key is no evidence: every cell that does not move
\* has its gate cleared.
Clear ==
  /\ phase = "retire" /\ Idle
  /\ phase' = "clear"
  /\ LET stale == InTable(image, {c \in Cell \ moving : Valid(memory, image, c)})
     IN stores' = [k \in 1..Len(stale) |-> Hal(GateAt[image][stale[k]], Zero)]
  /\ UNCHANGED <<memory, image, move, shown, cut>>

CarryFirst ==
  /\ phase = "clear" /\ Idle
  /\ phase' = "carry"
  /\ todo' = InTable(image, moving)
  /\ UNCHANGED <<memory, image, stores, moving, snap, shown, cut>>

InPlace(c) == Valid(memory, image, c) /\ Words(memory, image, c) = snap[c]

(* Mutant: a value is read when it is stored, not copied out beforehand. *)
CarryCell_Live ==
  /\ phase = "carry" /\ Idle /\ todo # <<>>
  /\ LET c == Head(todo)
         gate == GateAt[image][c]
         old == CHOOSE i \in Image : i # image /\ c \in CellsOf(i)
                                       /\ SameSize(i, image, c)
     IN stores' = IF InPlace(c) THEN <<>>
                  ELSE <<Hal(gate, Zero)>> \o HalAll(DataAt[image][c],
                                 Words([memory EXCEPT ![gate] = Zero], old, c))
                         \o <<Hal(gate, Key(c))>>
  /\ todo' = Tail(todo)
  /\ UNCHANGED <<memory, image, phase, moving, snap, shown, cut>>

CarryCell ==
  /\ phase = "carry" /\ Idle /\ todo # <<>>
  /\ LET c == Head(todo)
         gate == GateAt[image][c]
     IN stores' = IF InPlace(c) THEN <<>>
                  ELSE <<Hal(gate, Zero)>> \o HalAll(DataAt[image][c], snap[c])
                         \o <<Hal(gate, Key(c))>>
  /\ todo' = Tail(todo)
  /\ UNCHANGED <<memory, image, phase, moving, snap, shown, cut>>

\* The record is stored with no magic, and its magic last.
RecordLayout ==
  /\ phase = "carry" /\ Idle /\ todo = <<>>
  /\ phase' = "record"
  /\ LET at == ManifestAt[image]
     IN stores' = [k \in 1..Len(at) |-> Hal(at[k], IF k = 1 THEN Zero ELSE Record(image))]
                    \o <<Hal(at[1], Magic)>>
  /\ UNCHANGED <<memory, image, move, shown, cut>>

MoveDone ==
  /\ phase = "record" /\ Idle
  /\ phase' = "init"
  /\ todo' = InTable(image, Primes(image))
  /\ moving' = {} /\ snap' = <<>>
  /\ shown' = ReadAll(memory, image)
  /\ UNCHANGED <<memory, image, stores, cut>>

(***************************************************************************)
(* The cells' own operations.                                              *)
(***************************************************************************)
\* cell_init: a cell whose gate does not hold its key gets its default, the
\* gate last.  (Zero fill and default are one store of each word here.)
CellInit ==
  /\ phase = "init" /\ Idle /\ todo # <<>>
  /\ LET c == Head(todo)
     IN stores' = IF Valid(memory, image, c) THEN <<>>
                  ELSE HalAll(DataAt[image][c], Parts(image, c, Default))
                         \o <<Direct(GateAt[image][c], Key(c))>>
  /\ todo' = Tail(todo)
  /\ UNCHANGED <<memory, image, phase, moving, snap, shown, cut>>

Run ==
  /\ phase = "init" /\ Idle /\ todo = <<>>
  /\ phase' = "run"
  /\ cut' = FALSE
  /\ UNCHANGED <<memory, image, stores, move, shown>>

CanTear(c) == Len(DataAt[image][c]) > 1

\* A value that can tear is stored between the invalidation and the
\* validation of its gate.
Gated(c, value) ==
  IF CanTear(c)
  THEN <<Direct(GateAt[image][c], Zero)>> \o value \o <<Direct(GateAt[image][c], Key(c))>>
  ELSE value

\* The program calls op for cell c, and "value" is what it stores.
Calling(op, c, value) ==
  /\ phase = "run" /\ Idle
  /\ c \in CellsOf(image) /\ op \in Calls[image][c]
  /\ stores' = value
  /\ UNCHANGED <<memory, image, phase, move, shown, cut>>

ThroughHal(c, v) == HalAll(DataAt[image][c], Parts(image, c, v))

\* cell_write: a value of one word is stored by the HAL under the gate as it is.
CellWrite(c, v) == Calling("write", c, Gated(c, ThroughHal(c, v)))

\* cell_commit: the gate is stamped after the value, whatever its size.
CellCommit(c, v) ==
  Calling("commit", c, IF CanTear(c) THEN Gated(c, ThroughHal(c, v))
                       ELSE ThroughHal(c, v) \o <<Direct(GateAt[image][c], Key(c))>>)

\* write_u32: the words of a uint32_t are stored directly, and a cell of
\* another size is left to the HAL.
CellWriteU32(c, v) ==
  Calling("u32", c, Gated(c, IF c \in U32[image]
                             THEN DirectAll(DataAt[image][c], Parts(image, c, v))
                             ELSE ThroughHal(c, v)))

(***************************************************************************)
(* The medium.                                                             *)
(***************************************************************************)
\* A cell that is in use shows what it holds whenever its gate is valid; while
\* an operation keeps it invalid, what it showed before.
Showing(mem) ==
  [c \in Cell |-> IF phase \in {"init", "run"} /\ Valid(mem, image, c)
                  THEN ReadCell(mem, image, c) ELSE shown[c]]

Store ==
  /\ ~Idle
  /\ memory' = [memory EXCEPT ![Head(stores).at] = Head(stores).word]
  /\ stores' = Tail(stores)
  /\ shown' = Showing(memory')
  /\ UNCHANGED <<image, phase, move, cut>>

\* Power is lost, perhaps inside the next store.
PowerCut ==
  /\ phase # "off"
  /\ phase' = "off"
  /\ \/ UNCHANGED memory
     \/ /\ ~Idle /\ Head(stores).tears
        /\ memory' = [memory EXCEPT ![Head(stores).at] = Torn]
  /\ shown' = Showing(memory')
  /\ stores' = <<>> /\ moving' = {} /\ snap' = <<>> /\ todo' = <<>>
  /\ cut' = (cut \/ ~Idle \/ phase \notin {"init", "run"})
  /\ UNCHANGED image

\* Initially durable memory is virgin and no image has run.
Init ==
  /\ memory = [a \in Address |-> Zero]
  /\ image \in Image
  /\ phase = "off" /\ stores = <<>>
  /\ moving = {} /\ snap = <<>> /\ todo = <<>>
  /\ shown = [c \in Cell |-> Unset]
  /\ cut = FALSE

Next ==
  \/ \E i \in Image, preserve \in BOOLEAN : Boot(i, preserve)
  \/ Clear
  \/ CarryFirst
  \/ CarryCell
  \/ RecordLayout
  \/ MoveDone
  \/ CellInit
  \/ Run
  \/ \E c \in Cell, v \in Value : CellWrite(c, v) \/ CellCommit(c, v) \/ CellWriteU32(c, v)
  \/ Store
  \/ PowerCut

Spec == Init /\ [][Next]_vars

(***************************************************************************)
(* Properties.                                                             *)
(***************************************************************************)
\* Every variable has its type.
TypeOK ==
  /\ memory \in [Address -> Word]
  /\ image \in Image
  /\ phase \in {"off", "retire", "clear", "carry", "record", "init", "run"}
  /\ stores \in Seq([at : Address, word : Word, tears : BOOLEAN])
  /\ moving \subseteq Cell
  /\ DOMAIN snap = moving /\ \A c \in moving : snap[c] \in Seq(Word)
  /\ todo \in Seq(Cell)
  /\ shown \in [Cell -> Held \cup {Unset, Mixed}]
  /\ cut \in BOOLEAN

\* The record of another layout never vouches for this one's memory: at most
\* one manifest is valid at a time, and it is the running image's own once
\* its cells are in use.
OneRecord ==
  /\ Cardinality(Manifests) <= 1
  /\ phase \in {"init", "run"} => Manifests = {image}

\* The cells of one word that a program stores through the HAL: no gate
\* covers a tear of theirs.
Frail ==
  {c \in Cell : \E i \in Image :
     /\ c \in CellsOf(i) /\ Len(DataAt[i][c]) = 1
     /\ \/ {"write", "commit"} \cap Calls[i][c] # {}
        \/ "u32" \in Calls[i][c] /\ c \notin U32[i]}

\* The cells that every program primes that has them.
Primed == {c \in Cell : \A i \in Image : c \in CellsOf(i) => c \in Primes(i)}

\* The cells keep the promise of AtomicCells over every cut and every change
\* of layout: no value of another cell or layout, no words of two values and
\* no value older than the last one written is ever shown under a valid gate,
\* and no torn value but by a cell of one word that is stored byte by byte,
\* when the cut falls inside its store.
Atomic == INSTANCE AtomicCells
AtomicSpec == Atomic!Spec

\* The cells every image keeps in the same size.
Common == {c \in Cell : \A i, j \in Image : c \in CellsOf(i) /\ SameSize(i, j, c)}

\* The words of the first cells of image i's table.
UpTo(i) ==
  LET upto[k \in 0..Len(Table[i])] == IF k = 0 THEN 0 ELSE upto[k-1] + Size(i, k)
  IN upto

\* A cell is sure of its place in the copy when the table's cells up to it fit.
Fits(c) == \E n \in 1..Len(Table[image]) : Table[image][n] = c /\ UpTo(image)[n] <= SnapWords

\* A boot with no loss of power since the last run, or in it with a store
\* under way, loses none of them but for want of room in the copy, whatever
\* the new layout puts over the old one.
CarryComplete ==
  [][phase' = "init" /\ phase # "init" /\ ~cut
       => \A c \in Common : Fits(c)' \/ phase = "off" => shown'[c] = shown[c]]_vars
=============================================================================
