--------------------------- MODULE MCTikuPersist ---------------------------
(* Small instances of TikuPersist. *)
EXTENDS TikuPersist

CONSTANTS x, y, z, A, B, v0, v1

(* x has two words in both images; y is a uint32_t of one word in A and has    *)
(* two in B; z has one word in both, less than a uint32_t, and A commits it    *)
(* and does not prime it.  The copy has no room for all three.  The gate of y  *)
(* stays where it is, over data that moves.  B has the gate of x over A's      *)
(* value of x, its x over A's gate and value of x, its y over the gate of z    *)
(* and A's magic, its z over A's value of y and record, and its magic over     *)
(* A's value of z.                                                             *)
Place(gate, data, calls) == [gate |-> gate, data |-> data, calls |-> calls]

ImageA == [table |-> <<x, z, y>>, manifest |-> <<6, 7>>, u32 |-> {y},
           place |-> [c \in {x, y, z} |->
                        IF c = x THEN Place(0, <<1, 2>>, {"init", "write"})
                        ELSE IF c = y THEN Place(3, <<4>>, {"init", "u32"})
                        ELSE Place(5, <<8>>, {"commit"})]]
ImageB == [table |-> <<z, x, y>>, manifest |-> <<8, 9>>, u32 |-> {},
           place |-> [c \in {x, y, z} |->
                        IF c = x THEN Place(2, <<0, 1>>, {"init", "commit"})
                        ELSE IF c = y THEN Place(3, <<5, 6>>, {"init", "write"})
                        ELSE Place(4, <<7>>, {"init", "write", "u32"})]]

Layout == [i \in {A, B} |-> IF i = A THEN ImageA ELSE ImageB]

Tables  == [i \in {A, B} |-> Layout[i].table]
Gates   == [i \in {A, B} |-> [c \in {x, y, z} |-> Layout[i].place[c].gate]]
Data    == [i \in {A, B} |-> [c \in {x, y, z} |-> Layout[i].place[c].data]]
Records == [i \in {A, B} |-> Layout[i].manifest]
Words32 == [i \in {A, B} |-> Layout[i].u32]
Program == [i \in {A, B} |-> [c \in {x, y, z} |-> Layout[i].place[c].calls]]
=============================================================================
