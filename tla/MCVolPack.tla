------------------------------ MODULE MCVolPack ------------------------------
(***************************************************************************)
(* Small volumes for TLC.  The table starts at cell 1 and the slots at     *)
(* cell 8; files 0 and 1 lie around both as on the disc.                   *)
(***************************************************************************)
EXTENDS VolImage

File(n, f) == [name |-> n, dir |-> FALSE, to |-> f]
Dir(n, d)  == [name |-> n, dir |-> TRUE, to |-> d]

(* The last of a listing a file, a directory, a name found twice.          *)
Flat == << <<File("a", 3), File("b", 2)>> >>
Deep == << <<Dir("d", 2), File("a", 2)>>,
           <<Dir("..", 1), File("b", 3), Dir("e", 3)>>,
           <<Dir("..", 2), File("a", 3)>> >>
(* Three cars of four files, with and without a car too many.              *)
Car(c, f)  == <<File(c, f), File("x", f), File("y", f), File("z", f)>>
Garage(more) ==
  << <<Dir("d", 2)>>,
     <<Dir("..", 1)>> \o Car("a", 4) \o Car("b", 2) \o Car("e", 3) \o more >>

(* A car and logos, with one that does not count and one that is odd.      *)
Shop(more) ==
  << <<Dir("d", 2), Dir("e", 3)>>,
     <<Dir("..", 1)>> \o Car("a", 4) \o Car("b", 2),
     <<Dir("..", 1), File("b", 3), File("x", 2), File("e", 2), File("x", 4)>> \o more >>
(* Two engines of nine files, the second with a digit or without.          *)
Nine(c)    == <<File(c, 3)>> \o [k \in 1..8 |-> File("x", 2)]
Engine(c)  == << <<Dir("d", 2)>>, <<Dir("..", 1)>> \o Nine("1") \o Nine(c) >>

(* Where files 2 on lie behind the slots; the last is the end marker.      *)
Vol(t, ends, cut) ==
  LET body == 8 + Len(SlotsOf(t)) IN
  [tree |-> t, len |-> body + ends[Len(ends)] + 1 - cut,
   tbl  |-> <<2, 9>> \o [k \in DOMAIN ends |-> body + ends[k]] \o <<0>>]

MCVolumes ==
  { Vol(Flat, <<0, 3, 4>>, 0),              \* files 2 and 3
    Vol(Deep, <<0, 3, 4>>, 0),
    Vol(Deep, <<0, 0, 2, 5>>, 0),           \* an empty file, then two more
    Vol(Garage(<< >>), <<0, 0, 2, 5>>, 0),
    Vol(Garage(Car("1", 3)), <<0, 0, 2, 5>>, 0),
    Vol(Shop(<< >>), <<0, 0, 2, 5>>, 0),
    Vol(Shop(<<File("a", 4)>>), <<0, 5, 6, 6>>, 0),
    Vol(Engine("1"), <<0, 3, 4>>, 0), Vol(Engine("a"), <<0, 3, 4>>, 0),
    Vol(Deep, <<3, 0, 4>>, 0),              \* a table that goes back
    Vol(Flat, <<0, -7, 2>>, 0),             \* and one back over the table
    Vol(Flat, <<0, 3, 4>>, 3),              \* an image cut inside file 2
    [tree |-> Flat, len |-> 7, tbl |-> <<2, 5, 6, 0>>] }   \* too few files

Rep(f, n)   == [index |-> f, size |-> n, data |-> TRUE]
MCRepLists ==
  { << >>, <<[index |-> 2, size |-> 1, data |-> FALSE]>>, <<Rep(2, 17)>> }
    \cup { <<Rep(f, n)>> : f \in 1..4, n \in {0, 2} }
    \cup { <<Rep(f, 4), Rep(g, n)>> : f \in 2..4, g \in 2..4, n \in {0, 1} }
    \cup { <<Rep(2, 16), Rep(4, n), Rep(3, 16)>> : n \in {9, 10, 16} }  \* up to W and over

Parts   == {"a", "b", "d", "e", "..", ""}
MCPaths == SeqOf(Parts, 2) \cup {<<"d">> \o p : p \in SeqOf(Parts, 2)}
Names   == {"a", "b", "d", "e", "x", "y", "z", "1", ".."}
MCHash  == [n \in Names |->
              CASE n = "a" -> 1 [] n = "b" -> 3 [] n = "e" -> 4 [] n = "1" -> 5 [] OTHER -> 7]
MCShort == [n \in Names |-> IF n \in {"x", "y"} THEN "x" ELSE n]
MCDigit == [n \in Names |-> n = "1"]
MCSkip  == [n \in Names |-> n = "e"]
=============================================================================
