------------------------------ MODULE PackProofs ------------------------------
(***************************************************************************)
(* Proofs about the repack of a volume, for all volumes and lists: the     *)
(* call owns, at each of its places, just what that place's error return   *)
(* frees; its variables keep their ranges; and if the sizes sum up to an   *)
(* offset, what the second loop writes is just the blob that the first has *)
(* measured, it reads back as the extent VolExtent promises, its paths and *)
(* flat names find in it what they mean in the source's tree, and the      *)
(* tables built by walking it name the files that the tree names.          *)
(***************************************************************************)
EXTENDS VolImage, SequenceTheorems, FiniteSetTheorems, TLAPS

(* What the call holds on its way; the list is held when it is not empty.  *)
List == IF asked = << >> THEN {} ELSE {"sorted"}

Places == {"idle", "open", "check", "alloc", "table", "prefix", "bodies"}

Holds ==
  /\ pc \in Places
  /\ pc = "idle" /\ st = "OK" => held = {"blob"}
  /\ pc = "idle" /\ st # "OK" => held = {}
  /\ pc = "open"  => held = {}
  /\ pc = "check" => held = {"vol"}
  /\ pc = "alloc" => held = {"vol"} \cup List
  /\ pc = "table" => held = {"vol", "ntbl"} \cup List
  /\ pc \in {"prefix", "bodies"} => held = {"vol", "ntbl", "blob"} \cup List

(* An error return that frees what is held leaves nothing.                 *)
LEMMA FailFrees ==
  ASSUME NEW e, e # "OK", NEW freed, held \subseteq freed, Fail(e, freed)
  PROVE  Holds'
<1>1. pc' = "idle" /\ st' = e /\ held' = {}
  BY DEF Fail
<1> QED BY <1>1 DEF Holds, Places

LEMMA HoldsStep == Holds /\ [Next]_vars => Holds'
<1> SUFFICES ASSUME Holds, [Next]_vars PROVE Holds'
  OBVIOUS
<1>1. CASE Call
  <2>1. held' = {} /\ pc' = "open"
    BY <1>1 DEF Call, Holds
  <2> QED BY <2>1 DEF Holds, Places
<1>2. CASE Open
  <2>1. held = {}
    BY <1>2 DEF Open, Holds
  <2>2. CASE (\E e \in {"IO", "NO_MEM", "TRUNCATED"} : Fail(e, {})) \/ Fail("TRUNCATED", {})
    BY <2>1, <2>2, FailFrees
  <2>3. CASE pc' = "check" /\ held' = held \cup {"vol"}
    BY <2>1, <2>3 DEF Holds, Places
  <2> QED BY <1>2, <2>2, <2>3 DEF Open
<1>3. CASE CheckList
  <2>1. held = {"vol"}
    BY <1>3 DEF CheckList, Holds
  <2>2. CASE Fail("NO_MEM", {"vol"}) \/ Fail("INVAL", {"vol", "sorted"})
    BY <2>1, <2>2, FailFrees
  <2>3. CASE /\ pc' = "alloc" /\ asked' = asked
             /\ held' = held \cup (IF asked = << >> THEN {} ELSE {"sorted"})
    BY <2>1, <2>3 DEF Holds, Places, List
  <2> QED BY <1>3, <2>2, <2>3 DEF CheckList
<1>4. CASE AllocTable
  <2>1. held = {"vol"} \cup List
    BY <1>4 DEF AllocTable, Holds
  <2>2. CASE Fail("NO_MEM", {"vol", "sorted"})
    BY <2>1, <2>2, FailFrees DEF List
  <2>3. CASE pc' = "table" /\ held' = held \cup {"ntbl"} /\ asked' = asked
    BY <2>1, <2>3 DEF Holds, Places, List
  <2> QED BY <1>4, <2>2, <2>3 DEF AllocTable
<1>5. CASE PlaceFile
  <2>1. held = {"vol", "ntbl"} \cup List
    BY <1>5 DEF PlaceFile, Holds
  <2>2. CASE Fail("TRUNCATED", {"vol", "sorted", "ntbl"})
    BY <2>1, <2>2, FailFrees DEF List
  <2>3. CASE UNCHANGED <<pc, asked, st, held>>
    BY <2>3 DEF Holds, Places, List
  <2> QED BY <1>5, <2>2, <2>3 DEF PlaceFile
<1>6. CASE AllocBlob
  <2>1. held = {"vol", "ntbl"} \cup List
    BY <1>6 DEF AllocBlob, Holds
  <2>2. CASE Fail("NO_MEM", {"vol", "sorted", "ntbl"})
    BY <2>1, <2>2, FailFrees DEF List
  <2>3. CASE pc' = "prefix" /\ held' = held \cup {"blob"} /\ asked' = asked
    BY <2>1, <2>3 DEF Holds, Places, List
  <2> QED BY <1>6, <2>2, <2>3 DEF AllocBlob
<1>7. CASE CopyPrefix
  <2>1. held = {"vol", "ntbl", "blob"} \cup List
    BY <1>7 DEF CopyPrefix, Holds
  <2>2. CASE \E e \in {"IO", "INVAL"} : Fail(e, {"vol", "sorted", "ntbl", "blob"})
    BY <2>1, <2>2, FailFrees DEF List
  <2>3. CASE pc' = "bodies" /\ held' = held /\ asked' = asked
    BY <2>1, <2>3 DEF Holds, Places, List
  <2> QED BY <1>7, <2>2, <2>3 DEF CopyPrefix
<1>8. CASE CopyBody
  <2>1. held = {"vol", "ntbl", "blob"} \cup List
    BY <1>8 DEF CopyBody, Holds
  <2>2. CASE Fail("IO", {"vol", "sorted", "ntbl", "blob"})
    BY <2>1, <2>2, FailFrees DEF List
  <2>3. CASE UNCHANGED <<pc, asked, st, held>>
    BY <2>3 DEF Holds, Places, List
  <2> QED BY <1>8, <2>2, <2>3 DEF CopyBody
<1>9. CASE Finish
  <2>1. held = {"vol", "ntbl", "blob"} \cup List
    BY <1>9 DEF Finish, Holds
  <2>2. pc' = "idle" /\ st' = "OK" /\ held' = {"blob"}
    BY <1>9, <2>1 DEF Finish, List
  <2> QED BY <2>2 DEF Holds, Places
<1>10. CASE UNCHANGED vars
  BY <1>10 DEF vars, Holds, Places, List
<1> QED BY <1>1, <1>2, <1>3, <1>4, <1>5, <1>6, <1>7, <1>8, <1>9, <1>10 DEF Next

(* Whichever allocation or read fails, in whatever state of the list, the  *)
(* call returns with the blob on success and with nothing otherwise        *)
(* (gt2_vol_pack, vol.c:445-592).                                          *)
THEOREM OwnedReturns == Spec => []Owned
<1>1. Init => Holds
  BY DEF Init, Holds, Places
<1>2. Holds => Owned
  BY DEF Holds, Owned
<1> QED BY <1>1, <1>2, HoldsStep, PTL DEF Spec

-----------------------------------------------------------------------------
(* The two loops go the same way: p is where each file finds the list, c   *)
(* the sum of the sizes up to it.                                          *)
Met(f, r)    == r <= Len(sorted) /\ sorted[r].index = f
SizeAt(f, r) == IF Met(f, r) THEN sorted[r].size ELSE Tbl(f + 1) - Tbl(f)
NextAt(f, r) == IF Met(f, r) THEN r + 1 ELSE r

Layout(n, p, c) ==
  /\ p \in [2 .. n -> 1 .. Len(sorted) + 1] /\ c \in [2 .. n -> Nat]
  /\ p[2] = 1 /\ c[2] = Tbl(2)
  /\ \A f \in 2 .. n - 1 : /\ p[f + 1] = NextAt(f, p[f])
                           /\ SizeAt(f, p[f]) \in Nat
                           /\ c[f + 1] = c[f] + SizeAt(f, p[f])
  /\ \A f, g \in 2 .. n : f <= g => c[f] <= c[g]

EndFile == LastValid + 1

Types ==
  /\ pc \in Places /\ source \in Volumes /\ asked \in RepLists
  /\ st \in {"none", "busy", "OK", "IO", "NO_MEM", "TRUNCATED", "INVAL"}
  /\ held \subseteq {"vol", "sorted", "ntbl", "blob"}
  /\ cursor \in 0 .. W - 1 /\ size \in 0 .. W - 1 /\ dst \in Nat /\ i \in Nat
  /\ ri \in 1 .. Len(asked) + 1
  /\ sorted = << >> \/ sorted \in [DOMAIN asked -> Range(asked)]
  /\ ntbl \in Seq(Int) /\ Len(ntbl) \in {0, Len(source.tbl)}

(* The cursor holds the sum when `whole': when no addition has wrapped.    *)
Measured(whole) ==
  /\ pc \in {"check", "alloc", "table", "prefix", "bodies"} => Dc >= 4
  /\ pc \in {"open", "check", "alloc"} => i = 2 /\ ri = 1
  /\ pc = "table" =>
       /\ i \in 2 .. EndFile
       /\ \E p, c : Layout(i, p, c) /\ ri = p[i] /\ (whole => cursor = c[i])
  /\ pc = "prefix" => \E p, c : Layout(EndFile, p, c) /\ (whole => size = c[EndFile])
  /\ pc = "bodies" =>
       /\ i \in 2 .. EndFile
       /\ \E p, c : /\ Layout(EndFile, p, c) /\ (whole => size = c[EndFile])
                    /\ ri = p[i] /\ dst = c[i] /\ DOMAIN blob = 0 .. dst - 1
  /\ pc = "idle" /\ st = "OK" =>
       /\ Dc >= 4
       /\ \E p, c : /\ Layout(EndFile, p, c) /\ (whole => size = c[EndFile])
                    /\ dst = c[EndFile] /\ DOMAIN blob = 0 .. dst - 1
  /\ pc # "bodies" /\ ~(pc = "idle" /\ st = "OK") => blob = << >>

LEMMA SourceFacts ==
  ASSUME Types
  PROVE  /\ Dc \in Nat /\ Dc >= 1 /\ Len(source.tbl) = Dc + 1
         /\ \A f \in 0 .. Dc : Tbl(f) \in 0 .. W - 1
         /\ Dc >= 4 => Table + Dc < Tbl(2)
         /\ W \in Nat /\ W > 0 /\ Table \in Nat
<1>1. source.tbl \in Seq(0 .. W - 1) /\ Len(source.tbl) > 1
  BY PackAssumption DEF Types
<1>2. Len(source.tbl) \in Nat
  BY <1>1
<1>3. W \in Nat /\ W > 0 /\ Table \in Nat
  BY PackAssumption
<1>4. \A f \in 0 .. Len(source.tbl) - 1 : source.tbl[f + 1] \in 0 .. W - 1
  <2>1. \A k \in 1 .. Len(source.tbl) : source.tbl[k] \in 0 .. W - 1
    BY <1>1, ElementOfSeq
  <2>2. \A f \in 0 .. Len(source.tbl) - 1 : f + 1 \in 1 .. Len(source.tbl)
    BY <1>2
  <2> QED BY <2>1, <2>2
<1>5. Len(source.tbl) > 4 => Table + Len(source.tbl) <= source.tbl[3]
  BY CarrierAssumption DEF Types
<1>6. Dc >= 4 => Table + Dc < Tbl(2)
  <2>1. ASSUME Dc >= 4 PROVE Table + Len(source.tbl) <= source.tbl[3] /\ source.tbl[3] \in Int
    BY <1>1, <1>2, <1>4, <1>5, <2>1 DEF Dc
  <2> QED BY <1>2, <1>3, <2>1 DEF Dc, Tbl
<1> QED BY <1>1, <1>2, <1>3, <1>4, <1>6 DEF Dc, Tbl

LEMMA SizesKnown ==
  ASSUME Types, NEW k \in DOMAIN sorted
  PROVE  sorted[k].size \in Nat /\ sorted[k].index \in Nat
<1>1. sorted[k] \in Range(asked)
  BY DEF Types
<1>2. asked \in Seq([index : Nat, size : Nat, data : BOOLEAN])
  BY PackAssumption DEF Types
<1>3. sorted[k] \in [index : Nat, size : Nat, data : BOOLEAN]
  <2>1. PICK x \in DOMAIN asked : sorted[k] = asked[x]
    BY <1>1 DEF Range
  <2>2. asked[x] \in [index : Nat, size : Nat, data : BOOLEAN]
    BY <1>2, ElementOfSeq, LenProperties
  <2> QED BY <2>1, <2>2
<1> QED BY <1>3

LEMMA SortedLen ==
  ASSUME Types
  PROVE  /\ Len(sorted) \in Nat /\ Len(asked) \in Nat /\ Len(sorted) \in {0, Len(asked)}
         /\ DOMAIN sorted = 1 .. Len(sorted)
<1>1. asked \in Seq([index : Nat, size : Nat, data : BOOLEAN])
  BY PackAssumption DEF Types
<1>2. Len(asked) \in Nat /\ DOMAIN asked = 1 .. Len(asked)
  BY <1>1
<1>3. CASE sorted = << >>
  BY <1>2, <1>3
<1>4. CASE sorted \in [DOMAIN asked -> Range(asked)]
  <2>1. sorted \in [1 .. Len(asked) -> Range(asked)]
    BY <1>2, <1>4
  <2>2. sorted \in Seq(Range(asked)) /\ Len(sorted) = Len(asked)
    BY <1>2, <2>1
  <2> QED BY <1>2, <2>1, <2>2
<1> QED BY <1>3, <1>4 DEF Types

LEMMA LayoutKept ==
  ASSUME UNCHANGED <<source, sorted>>, NEW n, NEW p, NEW c
  PROVE  Layout(n, p, c)' <=> Layout(n, p, c)
BY DEF Layout, NextAt, SizeAt, Met, Tbl

LEMMA LayoutMoves ==
  ASSUME UNCHANGED <<source, sorted>>, NEW m, i' = m, NEW p, NEW c
  PROVE  Layout(i, p, c)' <=> Layout(m, p, c)
BY DEF Layout, NextAt, SizeAt, Met, Tbl

LEMMA LayoutEnds ==
  ASSUME UNCHANGED <<source, sorted>>, NEW p, NEW c
  PROVE  Dc' = Dc /\ EndFile' = EndFile /\ (Layout(EndFile, p, c)' <=> Layout(EndFile, p, c))
BY DEF Layout, NextAt, SizeAt, Met, Tbl, EndFile, LastValid, Dc

LEMMA LayoutGrows ==
  ASSUME NEW n \in Nat, n >= 2, NEW p, NEW c, Layout(n, p, c),
         Len(sorted) \in Nat, SizeAt(n, p[n]) \in Nat
  PROVE  \E q, d : /\ Layout(n + 1, q, d)
                   /\ q[n + 1] = NextAt(n, p[n]) /\ d[n + 1] = c[n] + SizeAt(n, p[n])
<1> DEFINE q == [f \in 2 .. n + 1 |-> IF f <= n THEN p[f] ELSE NextAt(n, p[n])]
           d == [f \in 2 .. n + 1 |-> IF f <= n THEN c[f] ELSE c[n] + SizeAt(n, p[n])]
<1>1. p[n] \in 1 .. Len(sorted) + 1 /\ c[n] \in Nat
  BY DEF Layout
<1>2. NextAt(n, p[n]) \in 1 .. Len(sorted) + 1
  BY <1>1 DEF NextAt, Met
<1>3. q \in [2 .. n + 1 -> 1 .. Len(sorted) + 1] /\ d \in [2 .. n + 1 -> Nat]
  BY <1>1, <1>2 DEF Layout
<1>4. q[2] = 1 /\ d[2] = Tbl(2)
  BY DEF Layout
<1>5. ASSUME NEW f \in 2 .. n
      PROVE  /\ q[f + 1] = NextAt(f, q[f]) /\ SizeAt(f, q[f]) \in Nat
             /\ d[f + 1] = d[f] + SizeAt(f, q[f])
  <2>1. CASE f < n
    <3>1. f \in 2 .. n - 1 /\ q[f] = p[f] /\ d[f] = c[f] /\ q[f + 1] = p[f + 1] /\ d[f + 1] = c[f + 1]
      BY <2>1
    <3> QED BY <3>1 DEF Layout
  <2>2. CASE f = n
    <3>1. q[f] = p[n] /\ d[f] = c[n] /\ q[f + 1] = NextAt(n, p[n]) /\ d[f + 1] = c[n] + SizeAt(n, p[n])
      BY <2>2
    <3> QED BY <2>2, <3>1
  <2> QED BY <2>1, <2>2
<1>6. q[n + 1] = NextAt(n, p[n]) /\ d[n + 1] = c[n] + SizeAt(n, p[n])
  OBVIOUS
<1>8. ASSUME NEW f \in 2 .. n + 1, NEW g \in 2 .. n + 1, f <= g
      PROVE  d[f] <= d[g]
  <2>1. CASE g <= n
    <3>1. f \in 2 .. n /\ g \in 2 .. n /\ d[f] = c[f] /\ d[g] = c[g]
      BY <1>8, <2>1
    <3> QED BY <1>8, <3>1 DEF Layout
  <2>2. CASE g = n + 1 /\ f <= n
    <3>1. f \in 2 .. n /\ n \in 2 .. n /\ f <= n /\ d[f] = c[f]
          /\ d[g] = c[n] + SizeAt(n, p[n])
      BY <1>8, <2>2
    <3>2. c[f] <= c[n] /\ c[f] \in Nat
      BY <3>1 DEF Layout
    <3> QED BY <1>1, <3>1, <3>2
  <2>3. CASE f = n + 1
    <3>1. f = g
      BY <1>8, <2>3
    <3>2. d[f] \in Nat
      BY <1>3
    <3> QED BY <3>1, <3>2
  <2> QED BY <1>8, <2>1, <2>2, <2>3
<1> HIDE DEF q, d
<1>7. ASSUME NEW m, m = n + 1
      PROVE  Layout(m, q, d)
  <2>1. q \in [2 .. m -> 1 .. Len(sorted) + 1] /\ d \in [2 .. m -> Nat]
    BY <1>3, <1>7
  <2>2. 2 .. m - 1 = 2 .. n
    BY <1>7
  <2>3. \A f \in 2 .. m - 1 : /\ q[f + 1] = NextAt(f, q[f])
                              /\ SizeAt(f, q[f]) \in Nat
                              /\ d[f + 1] = d[f] + SizeAt(f, q[f])
    BY <1>5, <2>2
  <2>4. \A f, g \in 2 .. m : f <= g => d[f] <= d[g]
    BY <1>7, <1>8
  <2> QED BY <1>4, <2>1, <2>3, <2>4, Zenon DEF Layout
<1> QED BY <1>6, <1>7

-----------------------------------------------------------------------------
(* Each action, with the ranges and the sums.  NoWrap is what `whole'      *)
(* stands for.                                                             *)
NoWrap == PlaceFile => cursor + BodySize < W

LEMMA FailMeasured ==
  ASSUME NEW whole \in BOOLEAN, Types, NEW e \in {"IO", "NO_MEM", "TRUNCATED", "INVAL"},
         NEW freed, Fail(e, freed)
  PROVE  Types' /\ Measured(whole)'
<1>1. /\ pc' = "idle" /\ st' = e /\ blob' = << >> /\ size' = 0 /\ held' \subseteq held
      /\ UNCHANGED <<source, asked, sorted, ntbl, cursor, i, ri, dst>>
  BY DEF Fail
<1>2. W \in Nat /\ W > 0
  BY PackAssumption
<1>3. Types'
  BY <1>1, <1>2 DEF Types, Places
<1>4. Measured(whole)'
  BY <1>1 DEF Measured
<1> QED BY <1>3, <1>4

LEMMA BodyKnown ==
  ASSUME NEW p, ri = p[i]
  PROVE  /\ Replaced <=> Met(i, p[i])
         /\ BodySize = SizeAt(i, p[i])
         /\ Advance => i' = i + 1 /\ ri' = NextAt(i, p[i])
BY DEF Replaced, Met, BodySize, SizeAt, Advance, NextAt

LEMMA CallMeasured ==
  ASSUME NEW whole \in BOOLEAN, Types, Call
  PROVE  Types' /\ Measured(whole)'
<1>0. W \in Nat /\ W > 0
  BY PackAssumption
<1>1. /\ pc' = "open" /\ source' \in Volumes /\ asked' \in RepLists /\ st' = "busy"
      /\ held' \subseteq held /\ sorted' = << >> /\ ntbl' = << >> /\ cursor' = 0
      /\ i' = 2 /\ ri' = 1 /\ blob' = << >> /\ size' = 0 /\ dst' = 0
  BY DEF Call
<1>2. asked' \in Seq([index : Nat, size : Nat, data : BOOLEAN])
  BY <1>1, PackAssumption
<1>3. Len(asked') \in Nat
  BY <1>2
<1>4. Types'
  BY <1>0, <1>1, <1>3 DEF Types, Places
<1>5. Measured(whole)'
  BY <1>1 DEF Measured
<1> QED BY <1>4, <1>5

LEMMA SimpleSteps ==
  ASSUME NEW whole \in BOOLEAN, Types, Measured(whole),
         Call \/ Open \/ CheckList \/ Finish \/ UNCHANGED vars
  PROVE  Types' /\ Measured(whole)'
<1>1. W \in Nat /\ W > 0
  BY PackAssumption
<1>2. CASE Call
  BY <1>2, CallMeasured
<1>3. CASE Open
  <2>1. CASE \E e \in {"IO", "NO_MEM", "TRUNCATED"} : Fail(e, {})
    BY <2>1, FailMeasured
  <2>2. CASE Fail("TRUNCATED", {})
    BY <2>2, FailMeasured
  <2>3. CASE /\ Dc >= 4 /\ pc = "open" /\ pc' = "check" /\ held' = held \cup {"vol"}
             /\ UNCHANGED <<source, asked, st, sorted, ntbl, cursor, i, ri, blob, size, dst>>
    <3>1. Types'
      BY <2>3 DEF Types, Places
    <3>2. Measured(whole)'
      BY <2>3 DEF Measured, Dc
    <3> QED BY <3>1, <3>2
  <2> QED BY <1>3, <2>1, <2>2, <2>3 DEF Open
<1>4. CASE CheckList
  <2>1. CASE \E e \in {"NO_MEM", "INVAL"}, freed \in {{"vol"}, {"vol", "sorted"}} : Fail(e, freed)
    BY <2>1, FailMeasured
  <2>2. CASE /\ pc = "check" /\ pc' = "alloc" /\ sorted' \in ByIndex(asked)
             /\ held' \subseteq held \cup {"sorted"}
             /\ UNCHANGED <<source, asked, st, ntbl, cursor, i, ri, blob, size, dst>>
    <3>1. sorted' \in [DOMAIN asked -> Range(asked)]
      BY <2>2 DEF ByIndex
    <3>2. Types'
      BY <2>2, <3>1 DEF Types, Places
    <3>3. Measured(whole)'
      BY <2>2 DEF Measured, Dc
    <3> QED BY <3>2, <3>3
  <2> QED BY <1>4, <2>1, <2>2 DEF CheckList
<1>5. CASE Finish
  <2>1. /\ pc = "bodies" /\ i > LastValid /\ pc' = "idle" /\ st' = "OK" /\ held' \subseteq held
        /\ UNCHANGED <<source, asked, sorted, ntbl, cursor, i, ri, blob, size, dst>>
    BY <1>5 DEF Finish
  <2>2. Types'
    BY <2>1 DEF Types, Places
  <2>3. i = EndFile
    BY <2>1, SourceFacts DEF Measured, EndFile, LastValid
  <2>4. PICK p, c : /\ Layout(EndFile, p, c) /\ (whole => size = c[EndFile])
                    /\ dst = c[EndFile] /\ DOMAIN blob = 0 .. dst - 1
    BY <2>1, <2>3 DEF Measured
  <2>5. (\E x, y : /\ Layout(EndFile, x, y) /\ (whole => size = y[EndFile])
                   /\ dst = y[EndFile] /\ DOMAIN blob = 0 .. dst - 1)'
    <3>1. Layout(EndFile, p, c)' /\ (whole => size' = c[EndFile'])
      BY <2>1, <2>4, LayoutEnds
    <3>2. dst' = c[EndFile'] /\ DOMAIN blob' = 0 .. dst' - 1
      BY <2>1, <2>4, LayoutEnds
    <3> QED BY <3>1, <3>2
  <2>6. Measured(whole)'
    BY <2>1, <2>5, LayoutEnds DEF Measured
  <2> QED BY <2>2, <2>6
<1>6. CASE UNCHANGED vars
  <2>1. Types'
    BY <1>6 DEF Types, vars
  <2>2. \A n, p, c : Layout(n, p, c)' <=> Layout(n, p, c)
    BY <1>6, LayoutKept DEF vars
  <2>3. Measured(whole)'
    BY <1>6, <2>2 DEF Measured, vars, Dc, EndFile, LastValid
  <2> QED BY <2>1, <2>3
<1> QED BY <1>2, <1>3, <1>4, <1>5, <1>6

LEMMA TableSteps ==
  ASSUME NEW whole \in BOOLEAN, Types, Measured(whole), AllocTable
  PROVE  Types' /\ Measured(whole)'
<1>1. CASE Fail("NO_MEM", {"vol", "sorted"})
  BY <1>1, FailMeasured
<1>2. CASE /\ pc = "alloc" /\ ntbl' = source.tbl /\ cursor' = Tbl(2)
           /\ pc' = "table" /\ held' = held \cup {"ntbl"}
           /\ UNCHANGED <<source, asked, st, sorted, i, ri, blob, size, dst>>
  <2>1. Dc >= 4 /\ Dc \in Nat /\ i = 2 /\ ri = 1
    BY <1>2, SourceFacts DEF Measured
  <2>2. Tbl(2) \in 0 .. W - 1 /\ Tbl(2) \in Nat
    BY <2>1, SourceFacts
  <2>3. source.tbl \in Seq(Int)
    <3>1. source.tbl \in Seq(0 .. W - 1) /\ Len(source.tbl) \in Nat
      BY PackAssumption DEF Types
    <3>2. source.tbl \in [1 .. Len(source.tbl) -> 0 .. W - 1]
      BY <3>1, LenProperties
    <3>3. source.tbl \in [1 .. Len(source.tbl) -> Int]
      BY <3>2, SourceFacts
    <3> QED BY <3>1, <3>3
  <2>4. Types'
    BY <1>2, <2>2, <2>3 DEF Types, Places
  <2>5. \E p, c : Layout(2, p, c) /\ p[2] = 1 /\ c[2] = Tbl(2)
    <3> DEFINE p == [f \in 2 .. 2 |-> 1]
               c == [f \in 2 .. 2 |-> Tbl(2)]
    <3>1. p \in [2 .. 2 -> 1 .. Len(sorted) + 1] /\ c \in [2 .. 2 -> Nat]
      BY <2>2, SortedLen
    <3>2. p[2] = 1 /\ c[2] = Tbl(2)
      OBVIOUS
    <3>3. 2 .. 2 - 1 = {}
      OBVIOUS
    <3>4. \A f, g \in 2 .. 2 : f <= g => c[f] <= c[g]
      BY <2>2
    <3> HIDE DEF p, c
    <3>5. Layout(2, p, c)
      BY <3>1, <3>2, <3>3, <3>4 DEF Layout
    <3> QED BY <3>2, <3>5
  <2>6. \E p, c : Layout(2, p, c)' /\ 1 = p[2] /\ Tbl(2) = c[2]
    BY <1>2, <2>5, LayoutKept
  <2>7. i' = 2 /\ ri' = 1 /\ 2 \in 2 .. EndFile /\ Dc' = Dc /\ EndFile' = EndFile
    BY <1>2, <2>1 DEF EndFile, LastValid, Dc
  <2>8. Measured(whole)'
    <3>1. blob' = << >>
      BY <1>2 DEF Measured
    <3>2. \E p, c : Layout(2, p, c)' /\ ri' = p[2] /\ (whole => cursor' = c[2])
      BY <1>2, <2>6, <2>7
    <3> QED BY <1>2, <2>1, <2>7, <3>1, <3>2 DEF Measured
  <2> QED BY <2>4, <2>8
<1> QED BY <1>1, <1>2 DEF AllocTable

LEMMA SeqChanged ==
  ASSUME NEW t \in Seq(Int), NEW k, NEW x \in Int
  PROVE  [t EXCEPT ![k] = x] \in Seq(Int) /\ Len([t EXCEPT ![k] = x]) = Len(t)
<1> DEFINE u == [t EXCEPT ![k] = x]
<1>1. Len(t) \in Nat /\ t \in [1 .. Len(t) -> Int]
  BY LenProperties
<1>2. u \in [1 .. Len(t) -> Int]
  BY <1>1
<1> QED BY <1>1, <1>2

(* A size is a number: of a replacement, or a difference of two entries.   *)
LEMMA SizeKnown ==
  ASSUME Types, i \in 2 .. LastValid
  PROVE  BodySize \in Int
<1>1. Dc \in Nat /\ \A f \in 0 .. Dc : Tbl(f) \in Int
  BY SourceFacts
<1>2. CASE Replaced
  <2>1. ri \in DOMAIN sorted
    BY <1>2, SortedLen DEF Replaced, Types
  <2> QED BY <1>2, <2>1, SizesKnown DEF BodySize
<1>3. CASE ~Replaced
  <2>1. i \in 0 .. Dc /\ i + 1 \in 0 .. Dc
    BY <1>1 DEF LastValid
  <2> QED BY <1>1, <1>3, <2>1 DEF BodySize
<1> QED BY <1>2, <1>3

LEMMA PlaceSteps ==
  ASSUME NEW whole \in BOOLEAN, Types, Measured(whole), PlaceFile, whole => NoWrap
  PROVE  Types' /\ Measured(whole)'
<1>1. CASE Fail("TRUNCATED", {"vol", "sorted", "ntbl"})
  BY <1>1, FailMeasured
<1>2. CASE /\ pc = "table" /\ i <= LastValid /\ BodySize >= 0
           /\ ntbl' = [ntbl EXCEPT ![i + 1] = cursor]
           /\ cursor' = (cursor + BodySize) % W
           /\ Advance
           /\ UNCHANGED <<pc, source, asked, st, sorted, blob, size, dst, held>>
  <2>1. PICK p, c : Layout(i, p, c) /\ ri = p[i] /\ (whole => cursor = c[i])
    BY <1>2 DEF Measured
  <2>2. i \in 2 .. EndFile /\ i \in Nat /\ i >= 2 /\ i <= Dc - 2 /\ Dc \in Nat /\ Dc >= 4
    BY <1>2, SourceFacts DEF Measured, Types, LastValid
  <2>3. BodySize \in Nat
    <3>1. i \in 2 .. LastValid
      BY <2>2 DEF LastValid
    <3> QED BY <1>2, <3>1, SizeKnown
  <2>4. /\ BodySize = SizeAt(i, p[i]) /\ i' = i + 1 /\ ri' = NextAt(i, p[i])
    BY <1>2, <2>1, BodyKnown
  <2>5. Len(sorted) \in Nat /\ Len(asked) \in Nat /\ Len(sorted) \in {0, Len(asked)}
    BY SortedLen
  <2>6. PICK q, d : /\ Layout(i + 1, q, d) /\ q[i + 1] = NextAt(i, p[i])
                    /\ d[i + 1] = c[i] + SizeAt(i, p[i])
    <3>1. SizeAt(i, p[i]) \in Nat
      BY <2>3, <2>4
    <3> QED BY <2>1, <2>2, <2>5, <3>1, LayoutGrows
  <2>7. Layout(i, q, d)' /\ ri' = q[i'] /\ i' \in 2 .. EndFile
    <3>1. i' = i + 1 /\ i' \in 2 .. EndFile
      BY <2>2, <2>4 DEF EndFile, LastValid
    <3>2. Layout(i, q, d)'
      BY <1>2, <2>6, <3>1, LayoutMoves
    <3> QED BY <2>4, <2>6, <3>1, <3>2
  <2>8. whole => cursor' = d[i']
    <3>1. ASSUME whole PROVE cursor + BodySize < W
      BY <3>1 DEF NoWrap
    <3>2. cursor \in Nat /\ W \in Nat /\ W > 0
      BY SourceFacts DEF Types
    <3>3. ASSUME whole PROVE cursor' = cursor + BodySize
      BY <1>2, <2>3, <3>1, <3>2, <3>3
    <3> QED BY <2>1, <2>4, <2>6, <3>3
  <2>9. Types'
    <3>1. cursor' \in 0 .. W - 1
      <4>1. cursor \in Nat /\ W \in Nat /\ W > 0
        BY SourceFacts DEF Types
      <4>2. cursor + BodySize \in Int
        BY <2>3, <4>1
      <4> QED BY <1>2, <4>1, <4>2
    <3>2. ri' \in 1 .. Len(asked) + 1
      <4>1. q[i + 1] \in 1 .. Len(sorted) + 1
        BY <2>2, <2>6 DEF Layout
      <4> QED BY <2>4, <2>5, <2>6, <4>1
    <3>3. ntbl' \in Seq(Int) /\ Len(ntbl') \in {0, Len(source.tbl)}
      <4>1. cursor \in Int /\ ntbl \in Seq(Int)
        BY SourceFacts DEF Types
      <4> QED BY <1>2, <4>1, SeqChanged DEF Types
    <3>4. i' \in Nat
      BY <2>2, <2>4
    <3> QED BY <1>2, <3>1, <3>2, <3>3, <3>4 DEF Types
  <2>10. Measured(whole)'
    <3>1. /\ pc' = "table" /\ blob' = << >> /\ Dc' >= 4 /\ i' \in (2 .. EndFile)'
      BY <1>2, <2>2, <2>7, LayoutEnds DEF Measured
    <3>2. (\E x, y : Layout(i, x, y) /\ ri = x[i] /\ (whole => cursor = y[i]))'
      BY <2>7, <2>8
    <3> QED BY <3>1, <3>2 DEF Measured
  <2> QED BY <2>9, <2>10
<1> QED BY <1>1, <1>2 DEF PlaceFile

LEMMA BlobSteps ==
  ASSUME NEW whole \in BOOLEAN, Types, Measured(whole), AllocBlob
  PROVE  Types' /\ Measured(whole)'
<1>1. CASE Fail("NO_MEM", {"vol", "sorted", "ntbl"})
  BY <1>1, FailMeasured
<1>2. CASE /\ pc = "table" /\ i > LastValid /\ ntbl' = Markers /\ size' = cursor
           /\ pc' = "prefix" /\ held' = held \cup {"blob"}
           /\ UNCHANGED <<source, asked, st, sorted, cursor, i, ri, blob, dst>>
  <2>1. PICK p, c : Layout(i, p, c) /\ ri = p[i] /\ (whole => cursor = c[i])
    BY <1>2 DEF Measured
  <2>2. i = EndFile /\ Dc >= 4 /\ Dc \in Nat
    BY <1>2, SourceFacts DEF Measured, Types, LastValid, EndFile
  <2>3. ntbl' \in Seq(Int) /\ Len(ntbl') \in {0, Len(source.tbl)}
    <3>1. cursor \in Int /\ Tbl(Dc) \in Int /\ ntbl \in Seq(Int)
      BY SourceFacts DEF Types
    <3> DEFINE mid == [ntbl EXCEPT ![Dc] = cursor]
    <3>2. mid \in Seq(Int) /\ Len(mid) = Len(ntbl)
      BY <3>1, SeqChanged
    <3>3. ntbl' = [mid EXCEPT ![Dc + 1] = Tbl(Dc)]
      BY <1>2 DEF Markers
    <3> HIDE DEF mid
    <3>4. ntbl' \in Seq(Int) /\ Len(ntbl') = Len(mid)
      BY <3>1, <3>2, <3>3, SeqChanged
    <3> QED BY <3>2, <3>4 DEF Types
  <2>4. Types'
    BY <1>2, <2>3 DEF Types, Places
  <2>5. (\E x, y : Layout(EndFile, x, y) /\ (whole => size = y[EndFile]))'
    <3>1. Layout(EndFile, p, c)' /\ (whole => size' = c[EndFile'])
      BY <1>2, <2>1, <2>2, LayoutEnds
    <3> QED BY <3>1
  <2>6. Measured(whole)'
    <3>1. blob' = << >> /\ pc' = "prefix" /\ Dc' >= 4
      BY <1>2, <2>2, LayoutEnds DEF Measured
    <3> QED BY <2>5, <3>1 DEF Measured
  <2> QED BY <2>4, <2>6
<1> QED BY <1>1, <1>2 DEF AllocBlob

LEMMA PrefixSteps ==
  ASSUME NEW whole \in BOOLEAN, Types, Measured(whole), CopyPrefix
  PROVE  Types' /\ Measured(whole)'
<1>1. CASE \E e \in {"IO", "INVAL"} : Fail(e, {"vol", "sorted", "ntbl", "blob"})
  BY <1>1, FailMeasured
<1>2. CASE /\ pc = "prefix" /\ pc' = "bodies"
           /\ blob' = Stamped /\ dst' = Tbl(2) /\ i' = 2 /\ ri' = 1
           /\ UNCHANGED <<source, asked, st, sorted, ntbl, cursor, size, held>>
  <2>1. PICK p, c : Layout(EndFile, p, c) /\ (whole => size = c[EndFile])
    BY <1>2 DEF Measured
  <2>2. Dc >= 4 /\ Dc \in Nat /\ Table + Dc < Tbl(2) /\ Table \in Nat /\ Tbl(2) \in Nat
    BY <1>2, SourceFacts DEF Measured
  <2>3. DOMAIN blob' = 0 .. Tbl(2) - 1
    <3>1. DOMAIN Stamped = (Table .. Table + Dc) \cup (0 .. Tbl(2) - 1)
      BY DEF Stamped, Over
    <3> QED BY <1>2, <2>2, <3>1
  <2>4. p[2] = 1 /\ c[2] = Tbl(2)
    BY <2>1 DEF Layout
  <2>5. Types'
    <3>1. Len(asked) \in Nat
      BY SortedLen
    <3> QED BY <1>2, <2>2, <3>1 DEF Types, Places
  <2>6. i' \in (2 .. EndFile)' /\ Dc' >= 4
    <3>1. 2 \in 2 .. EndFile
      BY <2>2 DEF EndFile, LastValid
    <3> QED BY <1>2, <2>2, <3>1, LayoutEnds
  <2>7. (\E x, y : /\ Layout(EndFile, x, y) /\ (whole => size = y[EndFile])
                   /\ ri = x[i] /\ dst = y[i] /\ DOMAIN blob = 0 .. dst - 1)'
    <3>1. Layout(EndFile, p, c)' /\ (whole => size' = c[EndFile'])
      BY <1>2, <2>1, LayoutEnds
    <3>2. ri' = p[i'] /\ dst' = c[i'] /\ DOMAIN blob' = 0 .. dst' - 1
      BY <1>2, <2>3, <2>4
    <3> QED BY <3>1, <3>2
  <2>8. Measured(whole)'
    BY <1>2, <2>6, <2>7 DEF Measured
  <2> QED BY <2>5, <2>8
<1> QED BY <1>1, <1>2 DEF CopyPrefix

LEMMA BodySteps ==
  ASSUME NEW whole \in BOOLEAN, Types, Measured(whole), CopyBody
  PROVE  Types' /\ Measured(whole)'
<1>1. CASE Fail("IO", {"vol", "sorted", "ntbl", "blob"})
  BY <1>1, FailMeasured
<1>2. CASE /\ pc = "bodies" /\ i <= LastValid
           /\ blob' = Over(Body, blob) /\ dst' = dst + BodySize
           /\ Advance
           /\ UNCHANGED <<pc, source, asked, st, sorted, ntbl, cursor, size, held>>
  <2>1. PICK p, c : /\ Layout(EndFile, p, c) /\ (whole => size = c[EndFile])
                    /\ ri = p[i] /\ dst = c[i] /\ DOMAIN blob = 0 .. dst - 1
    BY <1>2 DEF Measured
  <2>2. i \in 2 .. EndFile - 1 /\ Dc >= 4 /\ i \in Nat /\ i + 1 \in 2 .. EndFile
    <3>1. i \in 2 .. EndFile /\ Dc >= 4 /\ Dc \in Nat
      BY <1>2, SourceFacts DEF Measured
    <3> QED BY <1>2, <3>1 DEF LastValid, EndFile
  <2>3. /\ BodySize = SizeAt(i, p[i]) /\ i' = i + 1 /\ ri' = NextAt(i, p[i])
    BY <1>2, <2>1, BodyKnown
  <2>4. /\ p[i + 1] = NextAt(i, p[i]) /\ SizeAt(i, p[i]) \in Nat
        /\ c[i + 1] = c[i] + SizeAt(i, p[i]) /\ p[i + 1] \in 1 .. Len(sorted) + 1
        /\ c[i] \in Nat
    <3>1. /\ p[i + 1] = NextAt(i, p[i]) /\ SizeAt(i, p[i]) \in Nat
          /\ c[i + 1] = c[i] + SizeAt(i, p[i])
      BY <2>1, <2>2 DEF Layout
    <3>2. i \in 2 .. EndFile
      BY <1>2 DEF Measured
    <3>3. p[i + 1] \in 1 .. Len(sorted) + 1 /\ c[i] \in Nat
      BY <2>1, <2>2, <3>2 DEF Layout
    <3> QED BY <3>1, <3>3
  <2>5. ri' = p[i'] /\ dst' = c[i'] /\ dst' \in Nat /\ dst \in Nat /\ BodySize \in Nat
    BY <1>2, <2>1, <2>3, <2>4
  <2>6. DOMAIN blob' = 0 .. dst' - 1
    <3>1. DOMAIN Over(Body, blob) = (dst .. dst + BodySize - 1) \cup (0 .. dst - 1)
      BY <2>1 DEF Over, Body
    <3> QED BY <1>2, <2>5, <3>1
  <2>7. Types'
    <3>1. /\ Len(sorted) \in Nat /\ Len(asked) \in Nat /\ Len(sorted) \in {0, Len(asked)}
      BY SortedLen
    <3>2. ri' \in 1 .. Len(asked) + 1
      BY <2>3, <2>4, <3>1
    <3> QED BY <1>2, <2>2, <2>3, <2>5, <3>2 DEF Types
  <2>8. i' \in (2 .. EndFile)' /\ Dc' >= 4
    BY <1>2, <2>2, <2>3, LayoutEnds
  <2>9. (\E x, y : /\ Layout(EndFile, x, y) /\ (whole => size = y[EndFile])
                   /\ ri = x[i] /\ dst = y[i] /\ DOMAIN blob = 0 .. dst - 1)'
    <3>1. Layout(EndFile, p, c)' /\ (whole => size' = c[EndFile'])
      BY <1>2, <2>1, LayoutEnds
    <3> QED BY <2>5, <2>6, <3>1
  <2>10. Measured(whole)'
    BY <1>2, <2>8, <2>9 DEF Measured
  <2> QED BY <2>7, <2>10
<1> QED BY <1>1, <1>2 DEF CopyBody

LEMMA PackStep ==
  ASSUME NEW whole \in BOOLEAN, Types, Measured(whole), [Next]_vars, whole => NoWrap
  PROVE  Types' /\ Measured(whole)'
BY SimpleSteps, TableSteps, PlaceSteps, BlobSteps, PrefixSteps, BodySteps DEF Next

LEMMA PackInit == Init => Types /\ Measured(TRUE)
<1> SUFFICES ASSUME Init PROVE Types /\ Measured(TRUE)
  OBVIOUS
<1>1. W \in Nat /\ W > 0
  BY PackAssumption
<1>2. asked \in Seq([index : Nat, size : Nat, data : BOOLEAN])
  BY PackAssumption DEF Init
<1>3. Types
  BY <1>1, <1>2 DEF Init, Types, Places
<1>4. Measured(TRUE)
  BY DEF Init, Measured
<1> QED BY <1>3, <1>4

(* The variables of the repack keep their ranges, whatever the volume and  *)
(* the list, the sum wrapped or not (gt2_vol_pack, vol.c:445-592).         *)
THEOREM PackTypeCorrect == Spec => []TypeOK
<1> DEFINE Inv == Types /\ Measured(FALSE)
<1>1. Init => Inv
  BY PackInit DEF Measured, Init
<1>2. Inv /\ [Next]_vars => Inv'
  BY PackStep
<1>3. Inv => TypeOK
  BY SortedLen DEF Types, Places, TypeOK
<1> QED BY <1>1, <1>2, <1>3, PTL DEF Spec

-----------------------------------------------------------------------------
(* What the call has made, file by file and byte by byte, on its way to an *)
(* extent that VolExtent promises.                                         *)
Strict ==
  /\ sorted \in [DOMAIN asked -> Range(asked)] /\ Range(sorted) = Range(asked)
  /\ \A k \in DOMAIN sorted : /\ sorted[k].index \in 2 .. LastValid
                              /\ sorted[k].size > 0 => sorted[k].data
  /\ \A j, k \in DOMAIN sorted : j < k => sorted[j].index < sorted[k].index

Has(f)       == \E k \in DOMAIN sorted : sorted[k].index = f
RepOf(f)     == CHOOSE k \in DOMAIN sorted : sorted[k].index = f
SizeOf(f)    == IF Has(f) THEN sorted[RepOf(f)].size ELSE Tbl(f + 1) - Tbl(f)
ByteOf(f, k) == IF Has(f) THEN <<"rep", f, k>> ELSE SourceByte(Tbl(f) + k - 1)

(* The list up to r are the replacements in front of file f.               *)
Split(f, r) == \A k \in DOMAIN sorted : k < r <=> sorted[k].index < f

(* The new table up to file n, its next entry still in the cursor.         *)
Begin(f) == IF pc = "table" /\ f = i THEN cursor ELSE NTbl(f)
Lined(n) ==
  /\ Begin(2) = Tbl(2) /\ \A f \in 2 .. n : Begin(f) \in Nat
  /\ \A f \in 2 .. n - 1 : SizeOf(f) \in Nat /\ Begin(f + 1) = Begin(f) + SizeOf(f)
  /\ \A f, g \in 2 .. n : f <= g => Begin(f) <= Begin(g)
Ends == Len(ntbl) = Dc + 1 /\ \A f \in {0, 1, Dc} : NTbl(f) = Tbl(f)

Lead == (0 .. Tbl(2) - 1) \ (Table .. Table + Dc)
Copied(n) ==
  /\ \A o \in Lead : blob[o] = <<"src", o>>
  /\ \A f \in 0 .. Dc : blob[Table + f] = <<"tbl", NTbl(f)>>
  /\ \A f \in 2 .. n - 1 : \A k \in 1 .. SizeOf(f) :
       blob[NTbl(f) + k - 1] = ByteOf(f, k)

Made ==
  /\ st = "busy" <=> pc # "idle"
  /\ pc \in {"alloc", "table", "prefix", "bodies"} => Strict
  /\ pc \in {"table", "prefix", "bodies"} => Ends
  /\ pc = "table" => Split(i, ri) /\ Lined(i)
  /\ pc \in {"prefix", "bodies"} => Lined(EndFile)
  /\ pc = "bodies" => Split(i, ri) /\ dst = NTbl(i) /\ Copied(i)

LEMMA OneRep ==
  ASSUME Types, Strict, NEW k \in DOMAIN sorted
  PROVE  RepOf(sorted[k].index) = k /\ Has(sorted[k].index)
<1>1. PICK m \in DOMAIN sorted : m = RepOf(sorted[k].index) /\ sorted[m].index = sorted[k].index
  BY DEF RepOf
<1>2. m \in Nat /\ k \in Nat
  BY SortedLen
<1>3. sorted[m].index \in Nat /\ sorted[k].index \in Nat
  BY SizesKnown
<1>4. m = k
  BY <1>1, <1>2, <1>3 DEF Strict
<1> QED BY <1>1, <1>4 DEF Has

(* The list meets each replaced file, and no other.                        *)
LEMMA SplitAt ==
  ASSUME Types, Strict, NEW f \in Nat, NEW r \in Nat, r >= 1, Split(f, r)
  PROVE  SizeAt(f, r) = SizeOf(f) /\ Split(f + 1, NextAt(f, r))
<1>1. Len(sorted) \in Nat /\ DOMAIN sorted = 1 .. Len(sorted)
  BY SortedLen
<1>2. ASSUME NEW k \in DOMAIN sorted, sorted[k].index = f
      PROVE  k = r
  <2>1. k >= r /\ k \in Nat
    BY <1>1, <1>2 DEF Split
  <2>2. r \in DOMAIN sorted /\ ~(sorted[r].index < f)
    BY <1>1, <2>1 DEF Split
  <2>3. sorted[r].index \in Nat /\ (r < k => sorted[r].index < sorted[k].index)
    BY <2>2, SizesKnown DEF Strict
  <2> QED BY <1>1, <1>2, <2>1, <2>2, <2>3
<1>3. Met(f, r) <=> r \in DOMAIN sorted /\ sorted[r].index = f
  BY <1>1 DEF Met
<1>4. Met(f, r) <=> Has(f)
  BY <1>2, <1>3 DEF Has
<1>5. SizeAt(f, r) = SizeOf(f)
  BY <1>3, <1>4, OneRep DEF SizeAt, SizeOf
<1>6. ASSUME NEW k \in DOMAIN sorted
      PROVE  k < NextAt(f, r) <=> sorted[k].index < f + 1
  <2>1. k \in Nat /\ sorted[k].index \in Nat /\ (k < r <=> sorted[k].index < f)
    BY <1>1, SizesKnown DEF Split
  <2>2. CASE Met(f, r)
    BY <1>1, <1>2, <1>3, <2>1, <2>2 DEF NextAt
  <2>3. CASE ~Met(f, r)
    <3>1. sorted[k].index # f
      BY <1>2, <1>3, <2>3
    <3> QED BY <1>1, <2>1, <2>3, <3>1 DEF NextAt
  <2> QED BY <2>2, <2>3
<1> QED BY <1>5, <1>6 DEF Split

LEMMA SplitMeets ==
  ASSUME Types, Strict, Split(i, ri)
  PROVE  /\ Replaced <=> Has(i)
         /\ BodySize = SizeOf(i)
         /\ Advance => i' = i + 1 /\ Split(i + 1, ri')
<1>1. ri \in Nat /\ ri >= 1 /\ i \in Nat /\ Len(sorted) \in Nat /\ DOMAIN sorted = 1 .. Len(sorted)
  BY SortedLen DEF Types
<1>2. SizeAt(i, ri) = SizeOf(i) /\ Split(i + 1, NextAt(i, ri))
  BY <1>1, SplitAt
<1>3. BodySize = SizeAt(i, ri) /\ (Advance => i' = i + 1 /\ ri' = NextAt(i, ri))
  BY DEF Replaced, Met, BodySize, SizeAt, Advance, NextAt
<1>4. Replaced => Has(i)
  BY <1>1 DEF Replaced, Has
<1>5. ASSUME NEW k \in DOMAIN sorted, sorted[k].index = i
      PROVE  Replaced
  <2>1. k >= ri /\ k \in Nat /\ k < NextAt(i, ri)
    BY <1>1, <1>2, <1>5 DEF Split
  <2> QED BY <1>1, <1>5, <2>1 DEF NextAt, Met, Replaced
<1> QED BY <1>2, <1>3, <1>4, <1>5 DEF Has

LEMMA SameList ==
  ASSUME UNCHANGED <<source, asked, sorted>>
  PROVE  /\ Dc' = Dc /\ LastValid' = LastValid /\ EndFile' = EndFile /\ Lead' = Lead
         /\ Strict' <=> Strict
         /\ \A f : Tbl(f)' = Tbl(f) /\ SizeOf(f)' = SizeOf(f)
         /\ \A f, k : ByteOf(f, k)' = ByteOf(f, k)
         /\ \A f, r : Split(f, r)' <=> Split(f, r)
<1>1. Dc' = Dc /\ LastValid' = LastValid /\ EndFile' = EndFile /\ \A f : Tbl(f)' = Tbl(f)
  BY DEF Dc, LastValid, EndFile, Tbl
<1>2. Lead' = Lead
  BY <1>1 DEF Lead
<1>3. Strict' <=> Strict
  BY <1>1 DEF Strict
<1>4. \A f : Has(f)' = Has(f) /\ RepOf(f)' = RepOf(f) /\ SizeOf(f)' = SizeOf(f)
  BY <1>1 DEF Has, RepOf, SizeOf
<1>5. \A f, k : ByteOf(f, k)' = ByteOf(f, k)
  BY <1>1, <1>4 DEF ByteOf, SourceByte
<1>6. \A f, r : Split(f, r)' <=> Split(f, r)
  BY DEF Split
<1> QED BY <1>1, <1>2, <1>3, <1>4, <1>5, <1>6

(* The list that is let through is the caller's, in order and valid.       *)
LEMMA CheckStrict ==
  ASSUME Types, CheckList
  PROVE  \/ pc' = "idle" /\ st' # "OK"
         \/ pc' = "alloc" /\ UNCHANGED st /\ Strict'
<1>1. CASE \E e \in {"NO_MEM", "INVAL"}, freed \in {{"vol"}, {"vol", "sorted"}} : Fail(e, freed)
  <2>1. PICK e \in {"NO_MEM", "INVAL"}, freed \in {{"vol"}, {"vol", "sorted"}} : Fail(e, freed)
    BY <1>1
  <2> QED BY <2>1 DEF Fail
<1>2. CASE /\ pc = "check" /\ pc' = "alloc" /\ ~\E k \in DOMAIN asked : Bad(asked[k])
           /\ sorted' \in ByIndex(asked) /\ ~Duplicate(sorted')
           /\ UNCHANGED <<source, asked, st, ntbl, cursor, i, ri, blob, size, dst>>
  <2>1. PICK t : t = sorted'
    OBVIOUS
  <2>2. /\ t \in [DOMAIN asked -> Range(asked)] /\ Range(t) = Range(asked)
        /\ \A j, k \in DOMAIN asked : j <= k => t[j].index <= t[k].index
        /\ ~Duplicate(t)
    BY <1>2, <2>1 DEF ByIndex
  <2>3. asked \in Seq([index : Nat, size : Nat, data : BOOLEAN])
    BY PackAssumption DEF Types
  <2>4. Len(asked) \in Nat /\ DOMAIN asked = 1 .. Len(asked) /\ Len(t) = Len(asked)
    <3>1. Len(asked) \in Nat /\ DOMAIN asked = 1 .. Len(asked)
      BY <2>3
    <3> QED BY <2>2, <3>1
  <2>5. ASSUME NEW k \in DOMAIN t
        PROVE  /\ t[k].index \in 2 .. LastValid /\ t[k].index \in Nat
               /\ t[k].size > 0 => t[k].data
    <3>1. PICK x \in DOMAIN asked : t[k] = asked[x]
      BY <2>2, <2>5 DEF Range
    <3>2. asked[x] \in [index : Nat, size : Nat, data : BOOLEAN]
      BY <2>3, <2>4, <3>1, ElementOfSeq
    <3>3. ~Bad(asked[x])
      BY <1>2, <3>1
    <3>4. LastValid \in Int
      BY SourceFacts DEF LastValid
    <3>5. asked[x].size > 0 => asked[x].data
      BY <3>3 DEF Bad
    <3>6. asked[x].index \in 2 .. LastValid /\ asked[x].index \in Nat
      BY <3>2, <3>3, <3>4 DEF Bad
    <3> QED BY <3>1, <3>5, <3>6
  <2>6. ASSUME NEW j \in DOMAIN t, NEW k \in DOMAIN t, j < k
        PROVE  t[j].index < t[k].index
    <3>1. j \in DOMAIN asked /\ k \in DOMAIN asked /\ k - 1 \in DOMAIN asked /\ j <= k - 1
          /\ k \in 2 .. Len(t)
      BY <2>2, <2>4, <2>6
    <3>2. t[j].index <= t[k - 1].index /\ t[k - 1].index <= t[k].index
      BY <2>2, <2>4, <3>1
    <3>3. t[k - 1].index # t[k].index
      BY <2>2, <3>1 DEF Duplicate
    <3>4. t[j].index \in Nat /\ t[k - 1].index \in Nat /\ t[k].index \in Nat
      BY <2>2, <2>5, <3>1
    <3> QED BY <3>2, <3>3, <3>4
  <2>7. LastValid' = LastValid
    BY <1>2 DEF LastValid, Dc
  <2>8. Strict'
    BY <1>2, <2>1, <2>2, <2>5, <2>6, <2>7 DEF Strict
  <2> QED BY <1>2, <2>8
<1> QED BY <1>1, <1>2 DEF CheckList

-----------------------------------------------------------------------------
(* What holds of 0 and is handed on from each number to the next holds of  *)
(* all up to n.                                                            *)
LEMMA StepByStep ==
  ASSUME NEW n \in Nat, NEW Good \in SUBSET (0 .. n), 0 \in Good,
         \A k \in 0 .. n - 1 : k \in Good => k + 1 \in Good
  PROVE  Good = 0 .. n
<1> DEFINE Left == (0 .. n) \ Good
<1>1. SUFFICES ASSUME Left # {} PROVE FALSE
  BY DEF Left
<1>2. \E k \in Left : \A j \in Left : <<j, k>> \notin OpToRel(<, Nat)
  <2>1. Left \subseteq Nat
    OBVIOUS
  <2> HIDE DEF Left
  <2> QED BY <1>1, <2>1, NatLessThanWellFounded, WFMin
<1>3. PICK k \in Left : \A j \in Left : ~(j < k)
  <2>1. \A k, j \in Left : j < k => <<j, k>> \in OpToRel(<, Nat)
    BY DEF OpToRel
  <2> QED BY <1>2, <2>1
<1>4. k # 0 /\ k - 1 \in 0 .. n - 1 /\ (k - 1) + 1 = k
  OBVIOUS
<1>5. k - 1 \in Good
  BY <1>3, <1>4
<1> QED BY <1>4, <1>5

(* A sequence given by its length and its elements.                        *)
LEMMA LenGiven ==
  ASSUME NEW n \in Nat, NEW s, DOMAIN s = 1 .. n, s = [k \in 1 .. n |-> s[k]]
  PROVE  Len(s) = n
OBVIOUS

LEMMA WantIs ==
  ASSUME Types, Strict, NEW f \in 2 .. LastValid, SizeOf(f) \in Nat
  PROVE  /\ Extent!Want(source, asked, f) = [k \in 1 .. SizeOf(f) |-> ByteOf(f, k)]
         /\ Len(Extent!Want(source, asked, f)) = SizeOf(f)
<1>1. Extent!Want(source, asked, f) = [k \in 1 .. SizeOf(f) |-> ByteOf(f, k)]
  <2>1. CASE \E k \in DOMAIN asked : asked[k].index = f
    <3> PICK k : k = CHOOSE j \in DOMAIN asked : asked[j].index = f
      OBVIOUS
    <3>1. k \in DOMAIN asked /\ asked[k].index = f
      BY <2>1
    <3>2. PICK m \in DOMAIN sorted : sorted[m] = asked[k]
      <4>1. asked[k] \in Range(sorted)
        BY <3>1 DEF Strict, Range
      <4> QED BY <4>1 DEF Range
    <3>3. Has(f) /\ RepOf(f) = m
      BY <3>1, <3>2, OneRep
    <3>4. SizeOf(f) = asked[k].size
      BY <3>2, <3>3 DEF SizeOf
    <3>5. Extent!Want(source, asked, f) = [x \in 1 .. asked[k].size |-> <<"rep", f, x>>]
      BY <2>1 DEF Extent!Want, Extent!RepBytes
    <3> QED BY <3>3, <3>4, <3>5 DEF ByteOf
  <2>2. CASE ~\E k \in DOMAIN asked : asked[k].index = f
    <3>1. ~Has(f)
      <4>1. SUFFICES ASSUME NEW m \in DOMAIN sorted, sorted[m].index = f PROVE FALSE
        BY DEF Has
      <4>2. PICK k \in DOMAIN asked : asked[k] = sorted[m]
        BY DEF Strict, Range
      <4> QED BY <2>2, <4>1, <4>2
    <3>2. Extent!Want(source, asked, f) =
            [k \in 1 .. Tbl(f + 1) - Tbl(f) |-> Extent!SourceByte(source, Tbl(f) + k - 1)]
      BY <2>2 DEF Extent!Want, Extent!SourceBytes, Extent!Entry, Tbl
    <3>3. \A o : Extent!SourceByte(source, o) = SourceByte(o)
      BY SourceFacts DEF Extent!SourceByte, SourceByte, Extent!Entry, Tbl
    <3> QED BY <3>1, <3>2, <3>3 DEF SizeOf, ByteOf
  <2> QED BY <2>1, <2>2
<1>2. PICK w : w = Extent!Want(source, asked, f)
  OBVIOUS
<1>3. DOMAIN w = 1 .. SizeOf(f) /\ w = [k \in 1 .. SizeOf(f) |-> w[k]]
  BY <1>1, <1>2
<1>4. Len(w) = SizeOf(f)
  BY <1>3, LenGiven
<1> QED BY <1>1, <1>2, <1>4

-----------------------------------------------------------------------------
(* Where the files should begin, by the contract, and where the code puts  *)
(* them: the sums are the same once the list is sorted.                    *)
Want(f)  == Extent!Want(source, asked, f)
SumTo(f) == Extent!Starts(source, asked)[f]
Enough   == Extent!Fits(source, asked)

LEMMA WantKept ==
  ASSUME UNCHANGED <<source, asked>>
  PROVE  \A f : Want(f)' = Want(f)
BY DEF Want, Extent!Want, Extent!RepBytes, Extent!SourceBytes, Extent!Entry, Extent!SourceByte

LEMMA EnoughKept ==
  ASSUME UNCHANGED <<source, asked>>
  PROVE  Enough' <=> Enough
BY DEF Enough, Extent!Fits, Extent!Starts, Extent!LastValid, Extent!Want, Extent!RepBytes,
       Extent!SourceBytes, Extent!Entry, Extent!SourceByte

LEMMA WantLen ==
  ASSUME Types, NEW f \in 2 .. LastValid
  PROVE  Len(Want(f)) \in Nat
<1> PICK w : w = Want(f)
  OBVIOUS
<1>1. CASE \E k \in DOMAIN asked : asked[k].index = f
  <2> PICK k : k = CHOOSE j \in DOMAIN asked : asked[j].index = f
    OBVIOUS
  <2>1. k \in DOMAIN asked
    BY <1>1
  <2>2. asked[k].size \in Nat
    <3>1. asked \in Seq([index : Nat, size : Nat, data : BOOLEAN])
      BY PackAssumption DEF Types
    <3>2. asked[k] \in [index : Nat, size : Nat, data : BOOLEAN]
      BY <2>1, <3>1, ElementOfSeq, LenProperties
    <3> QED BY <3>2
  <2>3. w = [x \in 1 .. asked[k].size |-> <<"rep", f, x>>]
    BY <1>1 DEF Want, Extent!Want, Extent!RepBytes
  <2>4. DOMAIN w = 1 .. asked[k].size /\ w = [x \in 1 .. asked[k].size |-> w[x]]
    BY <2>3
  <2> QED BY <2>2, <2>4, LenGiven
<1>2. CASE ~\E k \in DOMAIN asked : asked[k].index = f
  <2>1. w = [k \in 1 .. Tbl(f + 1) - Tbl(f) |-> Extent!SourceByte(source, Tbl(f) + k - 1)]
    BY <1>2 DEF Want, Extent!Want, Extent!SourceBytes, Extent!Entry, Tbl
  <2>2. Tbl(f + 1) - Tbl(f) \in Int
    <3>1. f \in 0 .. Dc /\ f + 1 \in 0 .. Dc
      BY SourceFacts DEF LastValid
    <3> QED BY <3>1, SourceFacts
  <2>3. PICK d \in Int : d = Tbl(f + 1) - Tbl(f)
    BY <2>2
  <2>4. PICK n \in Nat : 1 .. d = 1 .. n
    <3>1. CASE d >= 0
      BY <3>1
    <3>2. CASE d < 0
      <4>1. 1 .. d = 1 .. 0
        BY <3>2
      <4> QED BY <4>1
    <3> QED BY <3>1, <3>2
  <2>5. DOMAIN w = 1 .. n /\ w = [x \in 1 .. n |-> w[x]]
    BY <2>1, <2>3, <2>4
  <2> QED BY <2>5, LenGiven
<1> QED BY <1>1, <1>2

(* The sums as a function.                                                 *)
Adds(g, n) ==
  g = [f \in 2 .. n |-> IF f = 2 THEN Tbl(2) ELSE g[f - 1] + Len(Want(f - 1))]

LEMMA AddsExist ==
  ASSUME NEW n \in Nat, n >= 2
  PROVE  \E g : Adds(g, n)
<1> DEFINE Good == {k \in 0 .. n - 2 : \E x : Adds(x, k + 2)}
           Plus(t, f) == t + Len(Want(f - 1))
<1>1. 0 \in Good
  <2>1. \A k \in 2 .. 0 + 2 : k = 2
    OBVIOUS
  <2>2. Adds([k \in 2 .. 0 + 2 |-> Tbl(2)], 0 + 2)
    BY <2>1 DEF Adds
  <2> QED BY <2>2
<1>2. ASSUME NEW k \in 0 .. n - 2 - 1, k \in Good PROVE k + 1 \in Good
  <2>0. PICK e \in Nat : e = k + 2 /\ e >= 2 /\ k + 1 + 2 = e + 1
    OBVIOUS
  <2>1. PICK g : Adds(g, e)
    BY <1>2, <2>0
  <2> HIDE DEF Plus
  <2> DEFINE h == [f \in 2 .. e + 1 |-> IF f = e + 1 THEN Plus(g[e], e + 1) ELSE g[f]]
  <2>2. ASSUME NEW f \in 2 .. e + 1
        PROVE  h[f] = IF f = 2 THEN Tbl(2) ELSE Plus(h[f - 1], f)
    <3>1. CASE f = e + 1
      <4>1. f # 2 /\ f - 1 = e /\ e \in 2 .. e + 1 /\ e # e + 1
        BY <2>0, <3>1
      <4>2. h[f - 1] = g[e]
        BY <4>1
      <4> QED BY <3>1, <4>1, <4>2
    <3>2. CASE f # e + 1
      <4>1. f \in 2 .. e /\ h[f] = g[f]
        BY <2>0, <3>2
      <4>2. g[f] = IF f = 2 THEN Tbl(2) ELSE Plus(g[f - 1], f)
        BY <2>1, <4>1 DEF Adds, Plus
      <4>3. f # 2 => h[f - 1] = g[f - 1]
        BY <2>0, <4>1
      <4> QED BY <4>1, <4>2, <4>3
    <3> QED BY <3>1, <3>2
  <2>3. Adds(h, e + 1)
    <3>1. h = [f \in 2 .. e + 1 |-> h[f]]
      OBVIOUS
    <3> HIDE DEF h
    <3>2. h = [f \in 2 .. e + 1 |-> IF f = 2 THEN Tbl(2) ELSE Plus(h[f - 1], f)]
      BY <2>2, <3>1
    <3> QED BY <3>2 DEF Adds, Plus
  <2>4. k + 1 \in 0 .. n - 2
    OBVIOUS
  <2>5. \E x : Adds(x, e + 1)
    BY <2>3
  <2>6. \E x : Adds(x, k + 1 + 2)
    BY <2>0, <2>5
  <2> QED BY <2>4, <2>6
<1>3. Good = 0 .. n - 2
  <2>1. Good \in SUBSET (0 .. n - 2) /\ n - 2 \in Nat
    OBVIOUS
  <2> HIDE DEF Good
  <2> QED BY <1>1, <1>2, <2>1, StepByStep
<1>4. PICK k \in 0 .. n - 2 : k + 2 = n
  <2>1. n - 2 \in 0 .. n - 2 /\ (n - 2) + 2 = n
    OBVIOUS
  <2> QED BY <2>1
<1>5. \E x : Adds(x, k + 2)
  BY <1>3
<1> QED BY <1>4, <1>5

LEMMA StartsGiven ==
  ASSUME Types, Dc >= 4
  PROVE  /\ SumTo(2) = Tbl(2)
         /\ \A f \in 2 .. LastValid : SumTo(f + 1) = SumTo(f) + Len(Want(f))
<1>1. EndFile \in Nat /\ EndFile >= 2 /\ LastValid \in Nat /\ EndFile = LastValid + 1
  BY SourceFacts DEF EndFile, LastValid
<1> DEFINE G == CHOOSE g : Adds(g, EndFile)
<1>2. Adds(G, EndFile)
  BY <1>1, AddsExist
<1>3. Extent!Starts(source, asked) = G
  <2>1. Extent!LastValid(source) + 1 = EndFile /\ \A f : Extent!Entry(source, f) = Tbl(f)
    BY SourceFacts DEF Extent!LastValid, Extent!Entry, EndFile, LastValid, Tbl
  <2> QED BY <2>1, Zenon DEF Extent!Starts, Adds, Want
<1>4. \A f : SumTo(f) = G[f]
  BY <1>3 DEF SumTo
<1> HIDE DEF G
<1>5. G[2] = Tbl(2)
  <2>1. 2 \in 2 .. EndFile
    BY <1>1
  <2> QED BY <1>2, <2>1 DEF Adds
<1>6. ASSUME NEW f \in 2 .. LastValid PROVE G[f + 1] = G[f] + Len(Want(f))
  <2>1. f + 1 \in 2 .. EndFile /\ f + 1 # 2 /\ (f + 1) - 1 = f
    BY <1>1
  <2>2. G[f + 1] = G[(f + 1) - 1] + Len(Want((f + 1) - 1))
    BY <1>2, <2>1 DEF Adds
  <2> QED BY <2>1, <2>2
<1> QED BY <1>4, <1>5, <1>6

LEMMA StartsRise ==
  ASSUME Types, Dc >= 4, NEW f \in 2 .. EndFile
  PROVE  SumTo(f) \in Nat /\ SumTo(f) <= SumTo(EndFile)
<1>1. EndFile = LastValid + 1 /\ LastValid \in Nat /\ LastValid >= 2 /\ Tbl(2) \in Nat
  <2>1. 2 \in 0 .. Dc
    BY SourceFacts
  <2> QED BY <2>1, SourceFacts DEF EndFile, LastValid
<1> PICK m \in Nat : m = EndFile - 2
  BY <1>1
<1>2. ASSUME NEW g \in 2 .. LastValid
      PROVE  SumTo(g + 1) = SumTo(g) + Len(Want(g)) /\ Len(Want(g)) \in Nat
  BY StartsGiven, WantLen
<1> DEFINE Good == {k \in 0 .. m : SumTo(k + 2) \in Nat}
<1>3. Good = 0 .. m
  <2>1. 0 \in Good
    BY <1>1, StartsGiven
  <2>2. ASSUME NEW k \in 0 .. m - 1, k \in Good PROVE k + 1 \in Good
    <3>1. PICK g \in 2 .. LastValid : g = k + 2 /\ g + 1 = k + 1 + 2
      BY <1>1
    <3>2. SumTo(g + 1) \in Nat
      BY <1>2, <2>2, <3>1
    <3> QED BY <3>1, <3>2
  <2>3. Good \in SUBSET (0 .. m)
    OBVIOUS
  <2> HIDE DEF Good
  <2> QED BY <2>1, <2>2, <2>3, StepByStep
<1>4. \A g \in 2 .. EndFile : SumTo(g) \in Nat
  <2>1. \A g \in 2 .. EndFile : g - 2 \in 0 .. m /\ (g - 2) + 2 = g
    BY <1>1
  <2>2. \A k \in 0 .. m : SumTo(k + 2) \in Nat
    BY <1>3
  <2> QED BY <2>1, <2>2
<1> HIDE DEF Good
<1> DEFINE High == {k \in 0 .. m : SumTo(EndFile - k) <= SumTo(EndFile)}
<1>5. High = 0 .. m
  <2>1. 0 \in High
    <3>1. EndFile - 0 = EndFile /\ EndFile \in 2 .. EndFile
      BY <1>1
    <3>2. SumTo(EndFile) \in Nat
      BY <1>4, <3>1
    <3> QED BY <3>1, <3>2
  <2>2. ASSUME NEW k \in 0 .. m - 1, k \in High PROVE k + 1 \in High
    <3>1. PICK g \in 2 .. LastValid : g = EndFile - (k + 1) /\ g + 1 = EndFile - k
      BY <1>1
    <3>2. g \in 2 .. EndFile /\ g + 1 \in 2 .. EndFile /\ EndFile \in 2 .. EndFile
      BY <1>1
    <3>3. SumTo(g) \in Nat /\ SumTo(g + 1) \in Nat /\ SumTo(EndFile) \in Nat
      BY <1>4, <3>2
    <3>4. SumTo(g) <= SumTo(g + 1) /\ SumTo(g + 1) <= SumTo(EndFile)
      BY <1>2, <2>2, <3>1, <3>3
    <3>5. SumTo(g) <= SumTo(EndFile)
      BY <3>3, <3>4
    <3>6. SumTo(EndFile - (k + 1)) <= SumTo(EndFile) /\ k + 1 \in 0 .. m
      BY <3>1, <3>5
    <3> QED BY <3>6
  <2>3. High \in SUBSET (0 .. m)
    OBVIOUS
  <2> HIDE DEF High
  <2> QED BY <2>1, <2>2, <2>3, StepByStep
<1>6. EndFile - f \in 0 .. m /\ EndFile - (EndFile - f) = f
  BY <1>1
<1>7. SumTo(EndFile - (EndFile - f)) <= SumTo(EndFile)
  BY <1>5, <1>6
<1> QED BY <1>4, <1>6, <1>7

(* What the loops sum up is what the contract does.                        *)
LEMMA SumsAgree ==
  ASSUME Types, Strict, Dc >= 4, NEW n \in 2 .. EndFile, NEW p, NEW c, Layout(n, p, c),
         NEW f \in 2 .. n
  PROVE  c[f] = SumTo(f) /\ Split(f, p[f])
<1>1. /\ EndFile = LastValid + 1 /\ LastValid \in Nat /\ n \in Nat
  BY SourceFacts DEF EndFile, LastValid
<1> PICK m \in Nat : m = n - 2
  BY <1>1
<1> DEFINE Good == {k \in 0 .. m : c[k + 2] = SumTo(k + 2) /\ Split(k + 2, p[k + 2])}
<1>2. 0 \in Good
  <2>1. c[2] = SumTo(2) /\ p[2] = 1
    BY StartsGiven DEF Layout
  <2>2. \A k \in DOMAIN sorted : k \in Nat /\ k >= 1 /\ sorted[k].index \in Nat /\ sorted[k].index >= 2
    BY SortedLen, SizesKnown, SourceFacts DEF Strict, LastValid
  <2>3. Split(2, 1)
    BY <2>2 DEF Split
  <2> QED BY <2>1, <2>3
<1>3. ASSUME NEW k \in 0 .. m - 1, k \in Good PROVE k + 1 \in Good
  <2>1. PICK g \in Nat : g = k + 2 /\ g + 1 = k + 1 + 2 /\ g \in 2 .. n - 1 /\ g \in 2 .. LastValid
    BY <1>1
  <2>2. c[g] = SumTo(g) /\ Split(g, p[g])
    BY <1>3, <2>1
  <2>3. /\ p[g + 1] = NextAt(g, p[g]) /\ SizeAt(g, p[g]) \in Nat
        /\ c[g + 1] = c[g] + SizeAt(g, p[g])
    BY <2>1 DEF Layout
  <2>4. p[g] \in Nat /\ p[g] >= 1
    <3>1. g \in 2 .. n
      BY <2>1
    <3>2. p[g] \in 1 .. Len(sorted) + 1
      BY <3>1 DEF Layout
    <3> QED BY <3>2, SortedLen
  <2>5. SizeAt(g, p[g]) = SizeOf(g) /\ Split(g + 1, NextAt(g, p[g]))
    BY <2>2, <2>4, SplitAt
  <2>6. Len(Want(g)) = SizeOf(g)
    BY <2>1, <2>3, <2>5, WantIs DEF Want
  <2>7. SumTo(g + 1) = SumTo(g) + Len(Want(g))
    BY <2>1, StartsGiven
  <2>8. c[g + 1] = SumTo(g + 1) /\ Split(g + 1, p[g + 1])
    BY <2>2, <2>3, <2>5, <2>6, <2>7
  <2>9. k + 1 \in 0 .. m
    OBVIOUS
  <2> QED BY <2>1, <2>8, <2>9
<1>4. Good = 0 .. m
  <2>1. Good \in SUBSET (0 .. m)
    OBVIOUS
  <2> HIDE DEF Good
  <2> QED BY <1>2, <1>3, <2>1, StepByStep
<1>5. f - 2 \in 0 .. m /\ (f - 2) + 2 = f
  BY <1>1
<1>6. f - 2 \in Good
  BY <1>4, <1>5
<1> QED BY <1>5, <1>6

(* The list is in order from the check on, until the call returns and,     *)
(* when it has gone well, while its blob is kept.                          *)
Listed ==
  /\ st = "busy" <=> pc # "idle"
  /\ pc \in {"alloc", "table", "prefix", "bodies"} \/ Delivered => Strict

LEMMA ListedStep ==
  ASSUME Types, Listed, [Next]_vars
  PROVE  Listed'
<1>1. ASSUME NEW e \in {"IO", "NO_MEM", "TRUNCATED", "INVAL"}, NEW freed, Fail(e, freed)
      PROVE  Listed'
  BY <1>1 DEF Fail, Listed, Delivered
<1>2. CASE Call
  BY <1>2 DEF Call, Listed, Delivered
<1>3. CASE Open
  <2>1. CASE pc = "open" /\ pc' = "check" /\ UNCHANGED st
    BY <2>1 DEF Listed, Delivered
  <2> QED BY <1>1, <1>3, <2>1 DEF Open
<1>4. CASE CheckList
  <2>1. pc = "check" /\ (pc' = "idle" => st' \in {"NO_MEM", "INVAL"})
    BY <1>4 DEF CheckList, Fail
  <2> QED BY <1>4, <2>1, CheckStrict DEF Listed, Delivered
<1>5. CASE UNCHANGED vars
  <2>1. Strict' <=> Strict
    BY <1>5, SameList DEF vars
  <2> QED BY <1>5, <2>1 DEF Listed, Delivered, vars
<1>6. ASSUME /\ pc \in {"alloc", "table", "prefix", "bodies"}
             /\ pc' \in {"alloc", "table", "prefix", "bodies"} /\ UNCHANGED st
             /\ UNCHANGED <<source, asked, sorted>>
      PROVE  Listed'
  <2>1. Strict' <=> Strict
    BY <1>6, SameList
  <2> QED BY <1>6, <2>1 DEF Listed, Delivered
<1>7. CASE AllocTable
  BY <1>1, <1>6, <1>7 DEF AllocTable
<1>8. CASE PlaceFile
  BY <1>1, <1>6, <1>8 DEF PlaceFile
<1>9. CASE AllocBlob
  BY <1>1, <1>6, <1>9 DEF AllocBlob
<1>10. CASE CopyPrefix
  BY <1>1, <1>6, <1>10 DEF CopyPrefix
<1>11. CASE CopyBody
  BY <1>1, <1>6, <1>11 DEF CopyBody
<1>12. CASE Finish
  <2>1. Strict' <=> Strict
    BY <1>12, SameList DEF Finish
  <2> QED BY <1>12, <2>1 DEF Finish, Listed, Delivered
<1> QED BY <1>2, <1>3, <1>4, <1>5, <1>7, <1>8, <1>9, <1>10, <1>11, <1>12 DEF Next

(* When the sizes sum up to an offset, none of the additions wraps.        *)
LEMMA NoneWraps ==
  ASSUME Types, Measured(TRUE), Listed, Enough
  PROVE  NoWrap
<1> SUFFICES ASSUME PlaceFile PROVE cursor + BodySize < W
  BY DEF NoWrap
<1>1. pc = "table" /\ i <= LastValid /\ Strict
  BY DEF PlaceFile, Listed
<1>2. PICK p, c : Layout(i, p, c) /\ ri = p[i] /\ cursor = c[i]
  BY <1>1 DEF Measured
<1>3. /\ i \in 2 .. EndFile /\ i \in 2 .. i /\ i \in 2 .. LastValid /\ i + 1 \in 2 .. EndFile
      /\ Dc >= 4 /\ EndFile \in 2 .. EndFile
  BY <1>1, SourceFacts DEF Measured, EndFile, LastValid
<1>4. cursor = SumTo(i) /\ Split(i, ri)
  BY <1>1, <1>2, <1>3, SumsAgree
<1>5. BodySize = SizeOf(i) /\ BodySize \in Int
  BY <1>1, <1>3, <1>4, SplitMeets, SizeKnown
<1>6. cursor \in Nat /\ W \in Nat /\ cursor < W
  BY SourceFacts DEF Types
<1>7. CASE BodySize < 0
  BY <1>5, <1>6, <1>7
<1>8. CASE BodySize >= 0
  <2>1. Len(Want(i)) = BodySize
    BY <1>1, <1>3, <1>5, <1>8, WantIs DEF Want
  <2>2. SumTo(i + 1) = cursor + BodySize
    BY <1>3, <1>4, <2>1, StartsGiven
  <2>3. SumTo(i + 1) \in Nat /\ SumTo(i + 1) <= SumTo(EndFile)
    BY <1>3, StartsRise
  <2>4. SumTo(EndFile) < W
    <3>1. Extent!LastValid(source) + 1 = EndFile
      BY SourceFacts DEF Extent!LastValid, EndFile, LastValid
    <3> QED BY <3>1 DEF Enough, Extent!Fits, SumTo
  <2>5. SumTo(EndFile) \in Nat
    BY <1>3, StartsRise
  <2> QED BY <1>5, <1>6, <2>2, <2>3, <2>4, <2>5
<1> QED BY <1>5, <1>7, <1>8

-----------------------------------------------------------------------------
LEMMA FailMade ==
  ASSUME NEW e \in {"IO", "NO_MEM", "TRUNCATED", "INVAL"}, NEW freed, Fail(e, freed)
  PROVE  Made'
BY DEF Fail, Made

LEMMA CheckMade ==
  ASSUME Types, Made, CheckList
  PROVE  Made'
BY CheckStrict DEF CheckList, Fail, Made

LEMMA TableMade ==
  ASSUME Types, Measured(TRUE), Made, AllocTable
  PROVE  Made'
<1>1. CASE Fail("NO_MEM", {"vol", "sorted"})
  BY <1>1, FailMade
<1>2. CASE /\ pc = "alloc" /\ ntbl' = source.tbl /\ cursor' = Tbl(2)
           /\ pc' = "table" /\ held' = held \cup {"ntbl"}
           /\ UNCHANGED <<source, asked, st, sorted, i, ri, blob, size, dst>>
  <2>1. Dc >= 4 /\ Dc \in Nat /\ i = 2 /\ ri = 1 /\ Strict
    BY <1>2, SourceFacts DEF Measured, Made
  <2>2. Tbl(2) \in Nat
    <3>1. 2 \in 0 .. Dc
      BY <2>1
    <3> QED BY <3>1, SourceFacts
  <2>3. Strict' /\ Dc' = Dc /\ \A f : Tbl(f)' = Tbl(f)
    BY <1>2, <2>1, SameList
  <2>4. Ends'
    BY <1>2, <2>3, SourceFacts DEF Ends, NTbl, Tbl
  <2>5. Split(2, 1)
    <3>1. \A k \in DOMAIN sorted : k \in Nat /\ k >= 1 /\ sorted[k].index \in Nat /\ sorted[k].index >= 2
      BY <2>1, SortedLen, SizesKnown, SourceFacts DEF Strict, LastValid
    <3> QED BY <3>1 DEF Split
  <2>6. Split(i, ri)'
    <3>1. Split(2, 1)'
      BY <1>2, <2>5, SameList
    <3> QED BY <1>2, <2>1, <3>1 DEF Split
  <2>7. Lined(2)'
    <3>1. 2 .. 2 = {2} /\ 2 .. 2 - 1 = {}
      OBVIOUS
    <3>2. Begin(2)' = Tbl(2)
      BY <1>2, <2>1 DEF Begin
    <3> QED BY <2>2, <2>3, <3>1, <3>2 DEF Lined
  <2>8. Lined(i)'
    BY <1>2, <2>1, <2>7
  <2> QED BY <1>2, <2>3, <2>4, <2>6, <2>8 DEF Made
<1> QED BY <1>1, <1>2 DEF AllocTable

(* One more file in the new table, while the sum does not wrap.            *)
LEMMA PlaceMade ==
  ASSUME Types, Measured(TRUE), Made, PlaceFile, NoWrap
  PROVE  Made'
<1>1. CASE Fail("TRUNCATED", {"vol", "sorted", "ntbl"})
  BY <1>1, FailMade
<1>2. CASE /\ pc = "table" /\ i <= LastValid /\ BodySize >= 0
           /\ ntbl' = [ntbl EXCEPT ![i + 1] = cursor]
           /\ cursor' = (cursor + BodySize) % W
           /\ Advance
           /\ UNCHANGED <<pc, source, asked, st, sorted, blob, size, dst, held>>
  <2>1. Strict /\ Ends /\ Split(i, ri) /\ Lined(i)
    BY <1>2 DEF Made
  <2>2. i \in Nat /\ i >= 2 /\ Dc \in Nat /\ Dc >= 4 /\ i <= Dc - 2 /\ i \in 2 .. LastValid
    BY <1>2, SourceFacts DEF Measured, Types, LastValid, EndFile
  <2>3. BodySize \in Nat /\ BodySize = SizeOf(i) /\ i' = i + 1 /\ Split(i + 1, ri')
    <3>1. BodySize \in Int
      BY <2>2, SizeKnown
    <3> QED BY <1>2, <2>1, <3>1, SplitMeets
  <2> PICK n : n = i
    OBVIOUS
  <2>4. cursor \in Nat /\ cursor' = cursor + BodySize
    <3>1. cursor + BodySize < W
      BY NoWrap, PlaceFile DEF NoWrap
    <3>2. cursor \in Nat /\ W \in Nat /\ W > 0
      BY SourceFacts DEF Types
    <3> QED BY <1>2, <2>3, <3>1, <3>2
  <2>5. DOMAIN ntbl = 1 .. Dc + 1 /\ ntbl \in Seq(Int)
    BY <2>1, <2>2, LenProperties DEF Ends, Types
  <2>6. /\ \A f \in 0 .. Dc : f # n => NTbl(f)' = NTbl(f)
        /\ NTbl(n)' = cursor
        /\ Len(ntbl') = Dc + 1
    <3>1. \A f \in 0 .. Dc : f + 1 \in DOMAIN ntbl /\ (f # n => f + 1 # n + 1)
      BY <2>2, <2>5
    <3>2. i \in 0 .. Dc
      BY <2>2
    <3>3. Len(ntbl') = Len(ntbl)
      BY <1>2, <2>4, <2>5, SeqChanged
    <3> QED BY <1>2, <2>1, <3>1, <3>2, <3>3 DEF NTbl, Ends
  <2>7. /\ Strict' /\ Dc' = Dc /\ \A f : Tbl(f)' = Tbl(f) /\ SizeOf(f)' = SizeOf(f)
    BY <1>2, <2>1, SameList
  <2>8. Ends'
    <3>1. 0 \in 0 .. Dc /\ 1 \in 0 .. Dc /\ Dc \in 0 .. Dc /\ 0 # i /\ 1 # i /\ Dc # i
      BY <2>2
    <3> QED BY <2>1, <2>6, <2>7, <3>1 DEF Ends
  <2>9. Split(i, ri)'
    <3>1. \A r : Split(n + 1, r)' <=> Split(n + 1, r)
      BY <1>2, SameList
    <3> QED BY <1>2, <2>3 DEF Split
  <2>10. /\ \A f \in 2 .. n : Begin(f)' = Begin(f)
         /\ Begin(n + 1)' = Begin(n) + SizeOf(n)
    <3>1. ASSUME NEW f \in 2 .. n PROVE Begin(f)' = Begin(f)
      <4>1. f \in 0 .. Dc /\ f # i + 1
        BY <2>2
      <4> QED BY <1>2, <2>3, <2>6, <4>1 DEF Begin
    <3>2. Begin(n + 1)' = cursor' /\ Begin(n) = cursor
      BY <1>2, <2>3 DEF Begin
    <3> QED BY <2>3, <2>4, <3>1, <3>2
  <2>11. \A m : m = n + 1 => Lined(m)'
    <3> SUFFICES ASSUME NEW m, m = n + 1 PROVE Lined(m)'
      OBVIOUS
    <3>1. Begin(2)' = Tbl(2)'
      BY <2>1, <2>2, <2>7, <2>10 DEF Lined
    <3>2. Begin(i) \in Nat /\ SizeOf(i) \in Nat
      BY <2>1, <2>2, <2>3 DEF Lined
    <3>3. \A f \in 2 .. m : Begin(f)' \in Nat
      <4>1. \A f \in 2 .. m : f \in 2 .. i \/ f = i + 1
        BY <2>2
      <4> QED BY <2>1, <2>10, <3>2, <4>1 DEF Lined
    <3>4. ASSUME NEW f \in 2 .. m - 1
          PROVE  SizeOf(f)' \in Nat /\ Begin(f + 1)' = Begin(f)' + SizeOf(f)'
      <4>1. CASE f = i
        <5>1. i \in 2 .. i
          BY <2>2
        <5> QED BY <2>7, <2>10, <3>2, <4>1, <5>1
      <4>2. CASE f # i
        <5>1. f \in 2 .. i - 1 /\ f \in 2 .. i /\ f + 1 \in 2 .. i
          BY <2>2, <4>2
        <5> QED BY <2>1, <2>7, <2>10, <5>1 DEF Lined
      <4> QED BY <4>1, <4>2
    <3>5. ASSUME NEW f \in 2 .. m, NEW g \in 2 .. m, f <= g
          PROVE  Begin(f)' <= Begin(g)'
      <4>1. CASE g \in 2 .. i
        <5>1. f \in 2 .. i
          BY <2>2, <3>5, <4>1
        <5> QED BY <2>1, <2>10, <3>5, <4>1, <5>1 DEF Lined
      <4>2. CASE g = i + 1 /\ f \in 2 .. i
        <5>1. i \in 2 .. i /\ f <= i
          BY <2>2, <4>2
        <5>2. Begin(f) <= Begin(i) /\ Begin(f) \in Nat
          BY <2>1, <4>2, <5>1 DEF Lined
        <5> QED BY <2>10, <3>2, <4>2, <5>2
      <4>3. CASE f = i + 1
        <5>1. f = g
          BY <2>2, <3>5, <4>3
        <5>2. Begin(f)' \in Nat
          BY <3>3
        <5> QED BY <5>1, <5>2
      <4> QED BY <2>2, <4>1, <4>2, <4>3
    <3> QED BY <3>1, <3>3, <3>4, <3>5 DEF Lined
  <2>12. Lined(i)'
    BY <2>3, <2>11
  <2> QED BY <1>2, <2>7, <2>8, <2>9, <2>12 DEF Made
<1> QED BY <1>1, <1>2 DEF PlaceFile

LEMMA BlobMade ==
  ASSUME Types, Measured(TRUE), Made, AllocBlob
  PROVE  Made'
<1>1. CASE Fail("NO_MEM", {"vol", "sorted", "ntbl"})
  BY <1>1, FailMade
<1>2. CASE /\ pc = "table" /\ i > LastValid /\ ntbl' = Markers /\ size' = cursor
           /\ pc' = "prefix" /\ held' = held \cup {"blob"}
           /\ UNCHANGED <<source, asked, st, sorted, cursor, i, ri, blob, dst>>
  <2>1. Strict /\ Ends /\ Lined(i)
    BY <1>2 DEF Made
  <2>2. i = EndFile /\ Dc >= 4 /\ Dc \in Nat /\ i = Dc - 1
    BY <1>2, SourceFacts DEF Measured, Types, LastValid, EndFile
  <2> PICK n : n = i
    OBVIOUS
  <2>3. DOMAIN ntbl = 1 .. Dc + 1 /\ ntbl \in Seq(Int) /\ cursor \in Int /\ Tbl(Dc) \in Int
    BY <2>1, <2>2, LenProperties, SourceFacts DEF Ends, Types
  <2>4. /\ \A f \in 0 .. Dc : f # n => NTbl(f)' = NTbl(f)
        /\ NTbl(n)' = cursor
        /\ Len(ntbl') = Dc + 1
    <3> DEFINE mid == [ntbl EXCEPT ![Dc] = cursor]
    <3>1. mid \in Seq(Int) /\ Len(mid) = Len(ntbl) /\ DOMAIN mid = 1 .. Dc + 1
      BY <2>3, SeqChanged
    <3>2. ntbl' = [mid EXCEPT ![Dc + 1] = Tbl(Dc)]
      BY <1>2 DEF Markers
    <3>3. mid[Dc] = cursor /\ \A k \in 1 .. Dc + 1 : k # Dc => mid[k] = ntbl[k]
      BY <2>2, <2>3
    <3> HIDE DEF mid
    <3>4. Len(ntbl') = Len(mid)
      BY <2>3, <3>1, <3>2, SeqChanged
    <3>5. ntbl'[Dc + 1] = Tbl(Dc) /\ \A k \in 1 .. Dc : ntbl'[k] = mid[k]
      BY <2>2, <3>1, <3>2
    <3>6. NTbl(Dc) = Tbl(Dc)
      BY <2>1 DEF Ends
    <3>7. ASSUME NEW f \in 0 .. Dc, f # n PROVE ntbl'[f + 1] = ntbl[f + 1]
      <4>1. CASE f = Dc
        BY <3>5, <3>6, <4>1 DEF NTbl
      <4>2. CASE f # Dc
        <5>1. f + 1 \in 1 .. Dc /\ f + 1 # Dc /\ f + 1 \in 1 .. Dc + 1
          BY <2>2, <3>7, <4>2
        <5> QED BY <3>3, <3>5, <5>1
      <4> QED BY <4>1, <4>2
    <3>8. ntbl'[n + 1] = cursor
      <4>1. i + 1 = Dc /\ Dc \in 1 .. Dc
        BY <2>2
      <4> QED BY <3>3, <3>5, <4>1
    <3> QED BY <2>1, <3>1, <3>4, <3>7, <3>8 DEF NTbl, Ends
  <2>5. /\ Strict' /\ Dc' = Dc /\ \A f : Tbl(f)' = Tbl(f) /\ SizeOf(f)' = SizeOf(f)
        /\ EndFile' = EndFile
    BY <1>2, <2>1, SameList
  <2>6. Ends'
    <3>1. 0 \in 0 .. Dc /\ 1 \in 0 .. Dc /\ Dc \in 0 .. Dc /\ 0 # i /\ 1 # i /\ Dc # i
      BY <2>2
    <3> QED BY <2>1, <2>4, <2>5, <3>1 DEF Ends
  <2>7. \A f \in 2 .. n : Begin(f)' = Begin(f)
    <3>1. \A f \in 2 .. i : f \in 0 .. Dc
      BY <2>2
    <3> QED BY <1>2, <2>4, <3>1 DEF Begin
  <2>8. \A m : m = n => Lined(m)'
    <3> SUFFICES ASSUME NEW m, m = n PROVE Lined(m)'
      OBVIOUS
    <3>1. 2 \in 2 .. i /\ \A f \in 2 .. i - 1 : f \in 2 .. i /\ f + 1 \in 2 .. i
      BY <2>2
    <3> QED BY <2>1, <2>5, <2>7, <3>1 DEF Lined
  <2>9. Lined(EndFile)'
    BY <2>2, <2>5, <2>8
  <2> QED BY <1>2, <2>5, <2>6, <2>9 DEF Made
<1> QED BY <1>1, <1>2 DEF AllocBlob

LEMMA OverAt ==
  ASSUME NEW new, NEW old, NEW o
  PROVE  /\ o \in DOMAIN new => Over(new, old)[o] = new[o]
         /\ o \in DOMAIN old \ DOMAIN new => Over(new, old)[o] = old[o]
BY DEF Over

LEMMA PrefixMade ==
  ASSUME Types, Measured(TRUE), Made, CopyPrefix
  PROVE  Made'
<1>1. CASE \E e \in {"IO", "INVAL"} : Fail(e, {"vol", "sorted", "ntbl", "blob"})
  BY <1>1, FailMade
<1>2. CASE /\ pc = "prefix" /\ pc' = "bodies"
           /\ blob' = Stamped /\ dst' = Tbl(2) /\ i' = 2 /\ ri' = 1
           /\ UNCHANGED <<source, asked, st, sorted, ntbl, cursor, size, held>>
  <2>1. Strict /\ Ends /\ Lined(EndFile)
    BY <1>2 DEF Made
  <2>2. Dc >= 4 /\ Dc \in Nat /\ Table + Dc < Tbl(2) /\ Table \in Nat /\ Tbl(2) \in Nat
    <3>1. Dc >= 4 /\ Dc \in Nat /\ Table + Dc < Tbl(2) /\ Table \in Nat
      BY <1>2, SourceFacts DEF Measured
    <3> QED BY <3>1, SourceFacts
  <2>3. /\ Strict' /\ Dc' = Dc /\ EndFile' = EndFile /\ Lead' = Lead
        /\ \A f : Tbl(f)' = Tbl(f) /\ SizeOf(f)' = SizeOf(f) /\ NTbl(f)' = NTbl(f)
    BY <1>2, <2>1, SameList DEF NTbl
  <2>4. \A f : Begin(f)' = Begin(f) /\ Begin(f) = NTbl(f)
    BY <1>2, <2>3 DEF Begin
  <2>5. Ends' /\ Lined(EndFile)'
    BY <1>2, <2>1, <2>3, <2>4 DEF Ends, Lined
  <2>6. Split(2, 1)
    <3>1. \A k \in DOMAIN sorted : k \in Nat /\ k >= 1 /\ sorted[k].index \in Nat /\ sorted[k].index >= 2
      BY <2>1, <2>2, SortedLen, SizesKnown DEF Strict, LastValid
    <3> QED BY <3>1 DEF Split
  <2>7. Split(i, ri)'
    <3>1. Split(2, 1)'
      BY <1>2, <2>6, SameList
    <3> QED BY <1>2, <3>1 DEF Split
  <2>8. dst' = NTbl(i)'
    BY <1>2, <2>1, <2>3, <2>4 DEF Lined, NTbl
  <2> DEFINE stamp == [o \in Table..(Table + Dc) |-> <<"tbl", NTbl(o - Table)>>]
             prefix == [o \in 0..(Tbl(2) - 1) |-> SourceByte(o)]
  <2>9. ASSUME NEW o \in Lead PROVE blob'[o] = <<"src", o>>
    <3>1. o \in DOMAIN prefix \ DOMAIN stamp /\ prefix[o] = <<"src", o>>
      BY <2>9 DEF Lead, SourceByte
    <3>2. Stamped = Over(stamp, prefix)
      BY DEF Stamped
    <3> HIDE DEF stamp, prefix
    <3>3. Over(stamp, prefix)[o] = prefix[o]
      BY <3>1, OverAt
    <3> QED BY <1>2, <3>1, <3>2, <3>3
  <2>10. ASSUME NEW f \in 0 .. Dc PROVE blob'[Table + f] = <<"tbl", NTbl(f)>>
    <3>1. Table + f \in Table .. Table + Dc /\ (Table + f) - Table = f
      BY <2>2
    <3>2. PICK o : o = Table + f
      OBVIOUS
    <3>3. o \in DOMAIN stamp /\ stamp[o] = <<"tbl", NTbl(f)>>
      BY <3>1, <3>2
    <3>4. Stamped = Over(stamp, prefix)
      BY DEF Stamped
    <3> HIDE DEF stamp, prefix
    <3>5. Over(stamp, prefix)[o] = stamp[o]
      BY <3>3, OverAt
    <3> QED BY <1>2, <3>2, <3>3, <3>4, <3>5
  <2>11. \A m : m = 2 => Copied(m)'
    <3> SUFFICES ASSUME NEW m, m = 2 PROVE Copied(m)'
      OBVIOUS
    <3>1. 2 .. m - 1 = {}
      OBVIOUS
    <3>2. \A f \in 0 .. Dc : (blob[Table + f] = <<"tbl", NTbl(f)>>)'
      BY <2>3, <2>10
    <3> QED BY <2>3, <2>9, <3>1, <3>2 DEF Copied
  <2>12. Copied(i)'
    BY <1>2, <2>11
  <2> QED BY <1>2, <2>3, <2>5, <2>7, <2>8, <2>12 DEF Made
<1> QED BY <1>1, <1>2 DEF CopyPrefix

(* One more body; what lies before it is kept.                             *)
LEMMA BodyMade ==
  ASSUME Types, Measured(TRUE), Made, CopyBody
  PROVE  Made'
<1>1. CASE Fail("IO", {"vol", "sorted", "ntbl", "blob"})
  BY <1>1, FailMade
<1>2. CASE /\ pc = "bodies" /\ i <= LastValid
           /\ blob' = Over(Body, blob) /\ dst' = dst + BodySize
           /\ Advance
           /\ UNCHANGED <<pc, source, asked, st, sorted, ntbl, cursor, size, held>>
  <2>1. Strict /\ Ends /\ Lined(EndFile) /\ Split(i, ri) /\ dst = NTbl(i) /\ Copied(i)
    BY <1>2 DEF Made
  <2>2. PICK n : n = i
    OBVIOUS
  <2>3. /\ n \in Nat /\ n >= 2 /\ Dc \in Nat /\ Dc >= 4 /\ n <= Dc - 2 /\ EndFile = Dc - 1
        /\ Table \in Nat /\ Table + Dc < Tbl(2) /\ Tbl(2) \in Nat
    <3>1. Dc >= 4 /\ Dc \in Nat /\ Table + Dc < Tbl(2) /\ Table \in Nat
      BY <1>2, SourceFacts DEF Measured
    <3>2. Tbl(2) \in Nat
      BY <3>1, SourceFacts
    <3> QED BY <1>2, <2>2, <3>1, <3>2 DEF Measured, Types, LastValid, EndFile
  <2>4. BodySize = SizeOf(n) /\ i' = n + 1 /\ Split(n + 1, ri') /\ (Replaced <=> Has(n))
    BY <1>2, <2>1, <2>2, SplitMeets
  <2>5. /\ Strict' /\ Dc' = Dc /\ EndFile' = EndFile /\ Lead' = Lead
        /\ \A f : Tbl(f)' = Tbl(f) /\ SizeOf(f)' = SizeOf(f) /\ NTbl(f)' = NTbl(f)
        /\ \A f, k : ByteOf(f, k)' = ByteOf(f, k)
    BY <1>2, <2>1, SameList DEF NTbl
  <2>6. \A f : Begin(f)' = Begin(f) /\ Begin(f) = NTbl(f)
    BY <1>2, <2>5 DEF Begin
  <2>7. Ends' /\ Lined(EndFile)'
    BY <1>2, <2>1, <2>5, <2>6 DEF Ends, Lined
  <2>8. Split(i, ri)'
    <3>1. \A r : Split(n + 1, r)' <=> Split(n + 1, r)
      BY <1>2, SameList
    <3> QED BY <2>4, <3>1 DEF Split
  <2>9. /\ \A f \in 2 .. n + 1 : NTbl(f) \in Nat
        /\ \A f \in 2 .. n : SizeOf(f) \in Nat /\ NTbl(f + 1) = NTbl(f) + SizeOf(f)
        /\ \A f, g \in 2 .. n + 1 : f <= g => NTbl(f) <= NTbl(g)
        /\ NTbl(2) = Tbl(2)
    <3>1. \A f \in 2 .. n + 1 : f \in 2 .. EndFile
      BY <2>3
    <3>2. \A f \in 2 .. n : f \in 2 .. EndFile - 1
      BY <2>3
    <3> QED BY <2>1, <2>6, <3>1, <3>2 DEF Lined
  <2>10. /\ n \in 2 .. n /\ n \in 2 .. n + 1 /\ dst \in Nat /\ BodySize \in Nat
         /\ dst >= Tbl(2) /\ NTbl(n + 1) = dst + BodySize
    <3>1. n \in 2 .. n /\ n \in 2 .. n + 1 /\ 2 \in 2 .. n + 1
      BY <2>3
    <3> QED BY <2>1, <2>2, <2>3, <2>4, <2>9, <3>1
  <2>11. dst' = NTbl(i)'
    <3>1. NTbl(n + 1)' = NTbl(n + 1)
      BY <2>5
    <3> QED BY <1>2, <2>4, <2>10, <3>1 DEF NTbl
  <2>12. DOMAIN blob = 0 .. dst - 1 /\ DOMAIN Body = dst .. dst + BodySize - 1
    BY <1>2 DEF Measured, Body
  <2>13. ASSUME NEW o \in Nat, o < dst PROVE blob'[o] = blob[o]
    <3>1. o \in DOMAIN blob \ DOMAIN Body
      BY <2>10, <2>12, <2>13
    <3> QED BY <1>2, <3>1, OverAt
  <2>14. ASSUME NEW o \in Lead PROVE blob'[o] = <<"src", o>>
    <3>1. o \in Nat /\ o < dst
      BY <2>3, <2>10 DEF Lead
    <3> QED BY <2>1, <2>13, <3>1 DEF Copied
  <2>15. ASSUME NEW f \in 0 .. Dc PROVE blob'[Table + f] = <<"tbl", NTbl(f)>>
    <3>1. Table + f \in Nat /\ Table + f < dst
      BY <2>3, <2>10
    <3> QED BY <2>1, <2>13, <3>1 DEF Copied
  <2>16. ASSUME NEW f \in 2 .. n, NEW k \in 1 .. SizeOf(f)
         PROVE  blob'[NTbl(f) + k - 1] = ByteOf(f, k)
    <3>1. SizeOf(f) \in Nat /\ NTbl(f) \in Nat /\ NTbl(f + 1) = NTbl(f) + SizeOf(f)
      <4>1. f \in 2 .. n + 1
        BY <2>3
      <4> QED BY <2>9, <4>1
    <3>2. CASE f = n
      <4>0. NTbl(f) = dst /\ SizeOf(f) = BodySize
        BY <2>1, <2>2, <2>4, <3>2
      <4>1. NTbl(f) + k - 1 \in DOMAIN Body /\ NTbl(f) = dst /\ (dst + k - 1) - dst + 1 = k
        BY <2>10, <2>12, <4>0
      <4>2. PICK o : o = NTbl(f) + k - 1
        OBVIOUS
      <4>3. blob'[o] = Body[o]
        BY <1>2, <4>1, <4>2, OverAt
      <4>4. Body[o] = IF Replaced THEN <<"rep", i, o - dst + 1>> ELSE SourceByte(Tbl(i) + o - dst)
        BY <2>12, <4>1, <4>2 DEF Body
      <4>5. o - dst + 1 = k
        BY <2>10, <3>1, <4>1, <4>2
      <4>6. ~Has(f) => Tbl(i) + o - dst = Tbl(f) + k - 1
        <5>1. Tbl(f) \in Int
          <6>1. f \in 0 .. Dc
            BY <2>3
          <6> QED BY <6>1, SourceFacts
        <5> QED BY <2>2, <2>10, <3>1, <3>2, <4>1, <4>2, <5>1
      <4> QED BY <2>2, <2>4, <3>2, <4>2, <4>3, <4>4, <4>5, <4>6 DEF ByteOf
    <3>3. CASE f # n
      <4>1. f \in 2 .. n - 1 /\ f + 1 \in 2 .. n + 1 /\ n \in 2 .. n + 1 /\ f + 1 <= n
        BY <2>3, <3>3
      <4>2. NTbl(f + 1) <= dst
        BY <2>1, <2>2, <2>9, <4>1
      <4>3. NTbl(f) + k - 1 \in Nat /\ NTbl(f) + k - 1 < dst
        BY <2>10, <3>1, <4>2
      <4>4. blob[NTbl(f) + k - 1] = ByteOf(f, k)
        BY <2>1, <2>2, <4>1 DEF Copied
      <4> QED BY <2>13, <4>3, <4>4
    <3> QED BY <3>2, <3>3
  <2>17. \A m : m = n + 1 => Copied(m)'
    <3> SUFFICES ASSUME NEW m, m = n + 1 PROVE Copied(m)'
      OBVIOUS
    <3>1. 2 .. m - 1 = 2 .. n
      BY <2>3
    <3>2. \A f \in 0 .. Dc : (blob[Table + f] = <<"tbl", NTbl(f)>>)'
      BY <2>5, <2>15
    <3>3. ASSUME NEW f \in 2 .. m - 1, NEW k \in 1 .. SizeOf(f)'
          PROVE  (blob[NTbl(f) + k - 1] = ByteOf(f, k))'
      BY <2>5, <2>16, <3>1
    <3> QED BY <2>5, <2>14, <3>2, <3>3 DEF Copied
  <2>18. Copied(i)'
    BY <2>4, <2>17
  <2> QED BY <1>2, <2>5, <2>7, <2>8, <2>11, <2>18 DEF Made
<1> QED BY <1>1, <1>2 DEF CopyBody

LEMMA RestMade ==
  ASSUME Types, Measured(TRUE), Made, Call \/ Open \/ Finish \/ UNCHANGED vars
  PROVE  Made'
<1>1. CASE Call
  BY <1>1 DEF Call, Made
<1>2. CASE Open
  <2>1. CASE \E e \in {"IO", "NO_MEM", "TRUNCATED"} : Fail(e, {})
    BY <2>1, FailMade
  <2>2. CASE Fail("TRUNCATED", {})
    BY <2>2, FailMade
  <2>3. CASE pc = "open" /\ pc' = "check" /\ UNCHANGED st
    BY <2>3 DEF Made
  <2> QED BY <1>2, <2>1, <2>2, <2>3 DEF Open
<1>3. CASE Finish
  BY <1>3 DEF Finish, Made
<1>4. CASE UNCHANGED vars
  <2>1. UNCHANGED <<pc, source, asked, sorted, ntbl, cursor, i, ri, blob, size, dst, st>>
    BY <1>4 DEF vars
  <2>2. /\ Dc' = Dc /\ LastValid' = LastValid /\ EndFile' = EndFile /\ Lead' = Lead
        /\ Strict' <=> Strict
        /\ \A f : Tbl(f)' = Tbl(f) /\ SizeOf(f)' = SizeOf(f)
        /\ \A f, k : ByteOf(f, k)' = ByteOf(f, k)
        /\ \A f, r : Split(f, r)' <=> Split(f, r)
    BY <2>1, SameList
  <2>3. \A f : NTbl(f)' = NTbl(f) /\ Begin(f)' = Begin(f)
    BY <2>1 DEF NTbl, Begin
  <2>4. Ends' <=> Ends
    BY <2>1, <2>2, <2>3 DEF Ends
  <2>5. \A m : (Lined(m)' <=> Lined(m)) /\ (Copied(m)' <=> Copied(m))
    BY <2>1, <2>2, <2>3 DEF Lined, Copied
  <2>6. PICK m, n, r : m = EndFile /\ n = i /\ r = ri
    OBVIOUS
  <2>7. /\ Lined(m)' <=> Lined(m)
        /\ Lined(n)' <=> Lined(n)
        /\ Copied(n)' <=> Copied(n)
        /\ Split(n, r)' <=> Split(n, r)
        /\ NTbl(n)' = NTbl(n)
    BY <2>2, <2>3, <2>5
  <2>8. /\ Lined(EndFile)' <=> Lined(EndFile)
        /\ Lined(i)' <=> Lined(i)
        /\ Copied(i)' <=> Copied(i)
        /\ Split(i, ri)' <=> Split(i, ri)
        /\ NTbl(i)' = NTbl(i)
    BY <2>1, <2>2, <2>6, <2>7
  <2> QED BY <2>1, <2>2, <2>4, <2>8 DEF Made
<1> QED BY <1>1, <1>2, <1>3, <1>4

LEMMA MadeStep ==
  ASSUME Types, Measured(TRUE), Made, [Next]_vars, NoWrap
  PROVE  Made'
BY CheckMade, TableMade, PlaceMade, BlobMade, PrefixMade, BodyMade, RestMade DEF Next

(* What a call keeps: always the ranges, the place of the second loop and  *)
(* the order of the list; and of sizes that sum up to an offset, all that  *)
(* has been made.                                                          *)
PackInv ==
  /\ Types /\ Measured(FALSE) /\ Listed
  /\ Enough => Measured(TRUE) /\ Made

LEMMA KeptInit == Init => PackInv
<1> SUFFICES ASSUME Init PROVE PackInv
  OBVIOUS
<1>1. Types /\ Measured(TRUE)
  BY PackInit
<1>2. Measured(FALSE) /\ Made /\ Listed
  BY DEF Init, Measured, Made, Listed, Delivered
<1> QED BY <1>1, <1>2 DEF PackInv

LEMMA OnlyCalls ==
  ASSUME [Next]_vars, ~Call
  PROVE  UNCHANGED <<source, asked>>
BY DEF Next, Open, CheckList, AllocTable, PlaceFile, AllocBlob, CopyPrefix, CopyBody, Finish,
       Fail, vars

LEMMA KeptStep ==
  ASSUME PackInv, [Next]_vars
  PROVE  PackInv'
<1>1. Types' /\ Measured(FALSE)'
  BY PackStep DEF PackInv
<1>2. Listed'
  BY ListedStep DEF PackInv
<1>3. ASSUME Call PROVE Measured(TRUE)' /\ Made'
  <2>1. Measured(TRUE)'
    BY <1>3, CallMeasured DEF PackInv
  <2>2. Made'
    BY <1>3 DEF Call, Made
  <2> QED BY <2>1, <2>2
<1>4. ASSUME ~Call, Enough' PROVE Measured(TRUE)' /\ Made'
  <2>1. Enough
    BY <1>4, OnlyCalls, EnoughKept
  <2>2. Types /\ Listed /\ Measured(TRUE) /\ Made
    BY <2>1 DEF PackInv
  <2>3. NoWrap
    BY <2>1, <2>2, NoneWraps
  <2> QED BY <2>2, <2>3, PackStep, MadeStep
<1> QED BY <1>1, <1>2, <1>3, <1>4 DEF PackInv

(* What the sums say of a blob that is handed out.                         *)
LEMMA BlobMeasured ==
  ASSUME PackInv, (pc = "bodies" /\ i > LastValid) \/ Delivered
  PROVE  /\ DOMAIN blob = 0 .. dst - 1 /\ dst \in Nat /\ size \in 0 .. W - 1 /\ W \in Nat
         /\ Dc >= 4 /\ Strict
         /\ dst < W <=> Enough
         /\ Enough <=> dst = size
<1>1. Types /\ Measured(FALSE) /\ Strict
  BY DEF PackInv, Listed
<1>2. PICK p, c : Layout(EndFile, p, c) /\ dst = c[EndFile] /\ DOMAIN blob = 0 .. dst - 1
  <2>1. CASE Delivered
    BY <1>1, <2>1 DEF Measured, Delivered
  <2>2. CASE pc = "bodies" /\ i > LastValid
    <3>1. i = EndFile
      BY <1>1, <2>2, SourceFacts DEF Measured, EndFile, LastValid
    <3> QED BY <1>1, <2>2, <3>1 DEF Measured
  <2> QED BY <2>1, <2>2
<1>3. Dc >= 4 /\ EndFile \in 2 .. EndFile
  BY <1>1, SourceFacts DEF Measured, Delivered, EndFile, LastValid
<1>4. dst = SumTo(EndFile)
  BY <1>1, <1>2, <1>3, SumsAgree
<1>5. dst < W <=> Enough
  <2>1. Extent!LastValid(source) + 1 = EndFile
    BY <1>1, SourceFacts DEF Extent!LastValid, EndFile, LastValid
  <2> QED BY <1>4, <2>1 DEF Enough, Extent!Fits, SumTo
<1>6. dst \in Nat /\ size \in 0 .. W - 1 /\ W \in Nat
  BY <1>1, SourceFacts DEF Types
<1>7. ASSUME Enough PROVE dst = size
  <2>1. PICK q, d : Layout(EndFile, q, d) /\ size = d[EndFile]
    <3>1. Measured(TRUE)
      BY <1>7 DEF PackInv
    <3> QED BY <3>1 DEF Measured, Delivered
  <2>2. size = SumTo(EndFile)
    BY <1>1, <1>3, <2>1, SumsAgree
  <2> QED BY <1>4, <2>2
<1>8. ASSUME dst = size PROVE Enough
  BY <1>5, <1>6, <1>8
<1> QED BY <1>1, <1>2, <1>3, <1>5, <1>6, <1>7, <1>8

LEMMA SameTop ==
  ASSUME NEW m \in Nat, NEW n \in Nat, 0 .. m - 1 = 0 .. n - 1
  PROVE  m = n
<1>1. m < n => m \in 0 .. n - 1 /\ m \notin 0 .. m - 1
  OBVIOUS
<1>2. n < m => n \in 0 .. m - 1 /\ n \notin 0 .. n - 1
  OBVIOUS
<1> QED BY <1>1, <1>2

(* What the measure says of the bytes: none lies outside the blob.         *)
LEMMA MeasuredInBlob ==
  ASSUME PackInv
  PROVE  InBlob
<1>1. ASSUME Enough PROVE \A o \in DOMAIN blob : o < size
  <2>0. Types /\ Measured(TRUE)
    BY <1>1 DEF PackInv
  <2>1. CASE pc = "bodies"
    <3>1. PICK p, c : /\ Layout(EndFile, p, c) /\ size = c[EndFile]
                      /\ dst = c[i] /\ DOMAIN blob = 0 .. dst - 1
      BY <2>0, <2>1 DEF Measured
    <3>2. i \in 2 .. EndFile /\ EndFile \in 2 .. EndFile
      BY <2>0, <2>1, SourceFacts DEF Measured, EndFile, LastValid
    <3>3. dst <= size /\ dst \in Nat /\ size \in Nat
      BY <3>1, <3>2 DEF Layout
    <3> QED BY <3>1, <3>3
  <2>2. CASE Delivered
    BY <1>1, <2>2, BlobMeasured
  <2>3. CASE pc # "bodies" /\ ~Delivered
    <3>1. DOMAIN blob = {}
      BY <2>0, <2>3 DEF Measured, Delivered
    <3> QED BY <3>1
  <2> QED BY <2>1, <2>2, <2>3
<1>2. ASSUME Delivered PROVE DOMAIN blob = 0 .. size - 1 <=> Enough
  <2>1. /\ DOMAIN blob = 0 .. dst - 1 /\ dst \in Nat /\ size \in Nat
        /\ Enough <=> dst = size
    BY <1>2, BlobMeasured
  <2>2. 0 .. dst - 1 = 0 .. size - 1 => dst = size
    BY <2>1, SameTop
  <2> QED BY <2>1, <2>2
<1> QED BY <1>1, <1>2 DEF InBlob, Enough

(* The second loop writes each cell of the blob and none outside it, as    *)
(* long as the sizes sum up to an offset, though one loop only counted and *)
(* the other reads the list and the table anew; of sizes that sum up to    *)
(* more, the blob is shorter than what was written (vol.c:504-523,         *)
(* 560-583).                                                               *)
THEOREM InBlobKept == Spec => []InBlob
<1>1. Init => PackInv
  BY KeptInit
<1>2. PackInv /\ [Next]_vars => PackInv'
  BY KeptStep
<1>3. PackInv => InBlob
  BY MeasuredInBlob
<1> QED BY <1>1, <1>2, <1>3, PTL DEF Spec

-----------------------------------------------------------------------------
(* What the finished blob reads back as.                                   *)
Reads ==
  [front |-> [o \in (0 .. Tbl(2) - 1) \ (Table .. Table + Dc) |-> blob[o]],
   table |-> [f \in 0 .. Dc |-> BlobTbl(f)],
   files |-> [f \in 2 .. LastValid |-> FileBytes(f)]]

(* A list without repetition has none before it was sorted either: it has  *)
(* as many elements as the sorted one.                                     *)
LEMMA NoneRefused ==
  ASSUME Types, Strict
  PROVE  ~Extent!Refused(source, asked)
<1>1. DOMAIN asked = 1 .. Len(asked) /\ Len(asked) \in Nat /\ IsFiniteSet(DOMAIN asked)
  <2>1. asked \in Seq([index : Nat, size : Nat, data : BOOLEAN])
    BY PackAssumption DEF Types
  <2>2. DOMAIN asked = 1 .. Len(asked) /\ Len(asked) \in Nat
    BY <2>1
  <2> QED BY <2>2, FS_Interval
<1>2. \A k \in DOMAIN asked : \E m \in DOMAIN sorted : asked[k] = sorted[m]
  BY DEF Strict, Range
<1>3. DOMAIN sorted = DOMAIN asked
  BY DEF Strict
<1>4. \A m, n \in DOMAIN sorted : sorted[m].index = sorted[n].index => m = n
  BY OneRep
<1>5. /\ sorted \in Injection(DOMAIN asked, Range(asked))
      /\ sorted \in Surjection(DOMAIN asked, Range(asked))
  <2>1. sorted \in Injection(DOMAIN asked, Range(asked))
    BY <1>3, <1>4 DEF Strict, Injection, IsInjective
  <2>2. sorted \in Surjection(DOMAIN asked, Range(asked))
    BY <1>3 DEF Strict, Surjection, Range
  <2> QED BY <2>1, <2>2
<1>6. Cardinality(Range(asked)) = Cardinality(DOMAIN asked)
  BY <1>1, <1>5, FS_Surjection
<1>7. asked \in Surjection(DOMAIN asked, Range(asked))
  <2>1. asked \in [DOMAIN asked -> Range(asked)]
    <3>1. asked \in Seq([index : Nat, size : Nat, data : BOOLEAN])
      BY PackAssumption DEF Types
    <3>2. asked = [k \in DOMAIN asked |-> asked[k]]
      BY <3>1
    <3> QED BY <3>2 DEF Range
  <2> QED BY <2>1 DEF Surjection, Range
<1>8. asked \in Injection(DOMAIN asked, Range(asked))
  BY <1>1, <1>6, <1>7, FS_Surjection
<1>9. ASSUME NEW j \in DOMAIN asked, NEW k \in DOMAIN asked, j # k
      PROVE  asked[j].index # asked[k].index
  <2>1. asked[j] # asked[k]
    BY <1>8, <1>9 DEF Injection, IsInjective
  <2>2. PICK m, n \in DOMAIN sorted : asked[j] = sorted[m] /\ asked[k] = sorted[n]
    BY <1>2
  <2> QED BY <1>4, <2>1, <2>2
<1>10. ASSUME NEW k \in DOMAIN asked
       PROVE  /\ asked[k].index \in 2 .. Extent!LastValid(source)
              /\ asked[k].size > 0 => asked[k].data
  <2>1. PICK m \in DOMAIN sorted : asked[k] = sorted[m]
    BY <1>2
  <2>2. Extent!LastValid(source) = LastValid
    BY SourceFacts DEF Extent!LastValid, LastValid
  <2> QED BY <2>1, <2>2 DEF Strict
<1> QED BY <1>9, <1>10 DEF Extent!Refused

(* The finished blob reads back as what was promised.                      *)
LEMMA ReadsWhole ==
  ASSUME Types, Measured(TRUE), Made, pc = "bodies", i > LastValid
  PROVE  /\ ~Extent!Refused(source, asked)
         /\ Extent!InLine(source, asked, Reads.table)
         /\ Reads = Extent!Whole(source, asked, Reads.table)
<1>1. Strict /\ Ends /\ Lined(EndFile) /\ Dc >= 4 /\ Dc \in Nat /\ i = EndFile
  BY SourceFacts DEF Made, Measured, EndFile, LastValid
<1>2. Copied(EndFile)
  BY <1>1 DEF Made
<1>3. /\ LastValid = Dc - 2 /\ EndFile = Dc - 1 /\ Table \in Nat
      /\ Extent!LastValid(source) = LastValid /\ Len(source.tbl) = Dc + 1
      /\ \A f : Extent!Entry(source, f) = Tbl(f)
  BY SourceFacts DEF LastValid, EndFile, Extent!LastValid, Extent!Entry, Tbl
<1>4. \A f \in 0 .. Dc : BlobTbl(f) = NTbl(f)
  BY <1>2 DEF Copied, BlobTbl
<1>5. /\ NTbl(2) = Tbl(2)
      /\ \A f \in 2 .. LastValid : /\ SizeOf(f) \in Nat /\ NTbl(f) \in Nat
                                   /\ NTbl(f + 1) = NTbl(f) + SizeOf(f)
  <2>1. \A f : Begin(f) = NTbl(f)
    BY DEF Begin
  <2>2. 2 .. EndFile - 1 = 2 .. LastValid /\ \A f \in 2 .. LastValid : f \in 2 .. EndFile
    BY <1>1, <1>3
  <2> QED BY <1>1, <2>1, <2>2 DEF Lined
<1>6. Reads.table = [f \in 0 .. Dc |-> NTbl(f)]
  BY <1>4 DEF Reads
<1>7. Extent!InLine(source, asked, Reads.table)
  <2>1. ASSUME NEW f \in 0 .. Dc, f \notin 3 .. Dc - 1
        PROVE  NTbl(f) = Tbl(f)
    <3>1. f \in {0, 1, 2, Dc}
      BY <1>1, <2>1
    <3> QED BY <1>1, <1>5, <3>1 DEF Ends
  <2> PICK t : t = Reads.table
    OBVIOUS
  <2>2. t = [f \in 0 .. Dc |-> IF f \in 3 .. Dc - 1 THEN t[f] ELSE Tbl(f)]
    BY <1>6, <2>1
  <2>3. ASSUME NEW f \in 2 .. LastValid
        PROVE  t[f + 1] = t[f] + Len(Extent!Want(source, asked, f))
    <3>1. f \in 0 .. Dc /\ f + 1 \in 0 .. Dc
      BY <1>1, <1>3
    <3>2. t[f] = NTbl(f) /\ t[f + 1] = NTbl(f + 1)
      BY <1>6, <3>1
    <3>3. Len(Extent!Want(source, asked, f)) = SizeOf(f)
      BY <1>1, <1>5, WantIs
    <3> QED BY <1>5, <3>2, <3>3
  <2>4. Len(source.tbl) - 1 = Dc
    BY <1>1, <1>3
  <2> QED BY <1>3, <2>2, <2>3, <2>4 DEF Extent!InLine
<1>8. ASSUME NEW f \in 2 .. LastValid
      PROVE  FileBytes(f) = Extent!Want(source, asked, f)
  <2>1. f \in 0 .. Dc /\ f + 1 \in 0 .. Dc /\ f \in 2 .. EndFile - 1
    BY <1>1, <1>3
  <2>2. BlobTbl(f + 1) - BlobTbl(f) = SizeOf(f) /\ BlobTbl(f) = NTbl(f)
    BY <1>4, <1>5, <2>1
  <2>3. FileBytes(f) = [k \in 1 .. SizeOf(f) |-> blob[NTbl(f) + k - 1]]
    BY <2>2 DEF FileBytes
  <2>4. \A k \in 1 .. SizeOf(f) : blob[NTbl(f) + k - 1] = ByteOf(f, k)
    BY <1>2, <2>1 DEF Copied
  <2>5. Extent!Want(source, asked, f) = [k \in 1 .. SizeOf(f) |-> ByteOf(f, k)]
    BY <1>1, <1>5, WantIs
  <2> QED BY <2>3, <2>4, <2>5
<1>9. Reads = Extent!Whole(source, asked, Reads.table)
  <2>1. [f \in 2 .. LastValid |-> FileBytes(f)]
          = [f \in 2 .. LastValid |-> Extent!Want(source, asked, f)]
    BY <1>8
  <2>2. [o \in Lead |-> blob[o]] = [o \in Lead |-> <<"src", o>>]
    BY <1>2 DEF Copied
  <2>3. (0 .. Extent!Entry(source, 2) - 1) \ (Table .. Table + Len(source.tbl) - 1) = Lead
    <3>1. Table + Len(source.tbl) - 1 = Table + Dc
      BY <1>1, <1>3
    <3> QED BY <1>3, <3>1 DEF Lead
  <2>4. Reads.table = [f \in 0 .. Dc |-> BlobTbl(f)]
    BY DEF Reads
  <2> QED BY <1>3, <2>1, <2>2, <2>3, <2>4 DEF Reads, Lead, Extent!Whole
<1> QED BY <1>1, <1>7, <1>9, NoneRefused

Out == IF Delivered /\ dst = size THEN Reads
       ELSE [front |-> << >>, table |-> << >>, files |-> << >>]

LEMMA ExtentInit == Init => Extent!Init
BY DEF Init, Extent!Init, Extent!Nothing, Delivered

LEMMA ExtentStep ==
  ASSUME PackInv, [Next]_vars
  PROVE  [Extent!Next]_Extent!vars
<1>0. Types /\ Listed
  BY DEF PackInv
<1>1. CASE \E e \in {"IO", "NO_MEM", "TRUNCATED", "INVAL"} : \E freed : pc # "idle" /\ Fail(e, freed)
  <2>1. PICK e \in {"IO", "NO_MEM", "TRUNCATED", "INVAL"} :
          /\ pc # "idle" /\ st' = e /\ UNCHANGED <<source, asked>>
    BY <1>1 DEF Fail
  <2>2. st = "busy" /\ ~Delivered /\ ~Delivered'
    BY <1>0, <2>1 DEF Listed, Delivered
  <2>3. Extent!Fail
    BY <2>1, <2>2 DEF Extent!Fail, Extent!Errors
  <2> QED BY <2>3 DEF Extent!Next
<1>2. CASE Call
  <2>1. st # "busy" /\ ~Delivered'
    BY <1>0, <1>2 DEF Call, Listed, Delivered
  <2>2. Extent!Ask
    BY <1>2, <2>1 DEF Call, Extent!Ask, Extent!Nothing
  <2> QED BY <2>2 DEF Extent!Next
<1>3. CASE pc # "idle" /\ pc' # "idle" /\ UNCHANGED <<source, asked, st>>
  <2>1. ~Delivered /\ ~Delivered'
    BY <1>3 DEF Delivered
  <2> QED BY <1>3, <2>1 DEF Extent!vars
<1>4. CASE Finish
  <2>1. /\ pc = "bodies" /\ i > LastValid /\ pc' = "idle" /\ st' = "OK"
        /\ UNCHANGED <<source, asked, sorted, ntbl, cursor, i, ri, blob, size, dst>>
    BY <1>4 DEF Finish
  <2>2. st = "busy" /\ ~Delivered /\ Delivered'
    BY <1>0, <2>1 DEF Listed, Delivered
  <2>3. Reads' = Reads
    BY <2>1 DEF Reads, Dc, LastValid, Tbl, BlobTbl, FileBytes
  <2>4. ~Extent!Refused(source, asked)
    BY <1>0, <2>1, NoneRefused DEF Listed
  <2>5. Enough <=> dst = size
    BY <2>1, BlobMeasured
  <2>6. ASSUME Enough
        PROVE  /\ Extent!InLine(source, asked, Out'.table)
               /\ Out' = Extent!Whole(source, asked, Out'.table)
    <3>1. /\ Extent!InLine(source, asked, Reads.table)
          /\ Reads = Extent!Whole(source, asked, Reads.table)
      BY <2>1, <2>6, ReadsWhole DEF PackInv
    <3>2. Out' = Reads
      BY <2>1, <2>2, <2>3, <2>5, <2>6 DEF Out
    <3> QED BY <3>1, <3>2
  <2>7. ASSUME ~Enough PROVE Out' = Extent!Nothing
    BY <2>1, <2>5, <2>7 DEF Out, Extent!Nothing
  <2>8. Extent!Deliver
    BY <2>1, <2>2, <2>4, <2>6, <2>7 DEF Extent!Deliver, Out, Reads, Enough
  <2> QED BY <2>8 DEF Extent!Next
<1>5. CASE UNCHANGED vars
  BY <1>5 DEF vars, Extent!vars, Delivered, Dc, LastValid, Tbl, BlobTbl, FileBytes
<1>6. CASE Open \/ CheckList \/ AllocTable \/ PlaceFile \/ AllocBlob \/ CopyPrefix \/ CopyBody
  <2>1. CASE Open
    BY <1>1, <1>3, <2>1 DEF Open
  <2>2. CASE CheckList
    BY <1>1, <1>3, <2>2 DEF CheckList
  <2>3. CASE AllocTable
    BY <1>1, <1>3, <2>3 DEF AllocTable
  <2>4. CASE PlaceFile
    BY <1>1, <1>3, <2>4 DEF PlaceFile
  <2>5. CASE AllocBlob
    BY <1>1, <1>3, <2>5 DEF AllocBlob
  <2>6. CASE CopyPrefix
    BY <1>1, <1>3, <2>6 DEF CopyPrefix
  <2>7. CASE CopyBody
    BY <1>1, <1>3, <2>7 DEF CopyBody
  <2> QED BY <1>6, <2>1, <2>2, <2>3, <2>4, <2>5, <2>6, <2>7
<1> QED BY <1>2, <1>4, <1>5, <1>6 DEF Next

(* A call ends without an extent or with the one that was asked for, if    *)
(* the sizes sum up to an offset, though the list is sorted, the table     *)
(* laid out and the bodies copied in three passes of their own             *)
(* (gt2_vol_pack, vol.c:445-592).                                          *)
THEOREM PackDelivers == Spec => ExtentSpec
<1>1. Init => PackInv
  BY KeptInit
<1>2. PackInv /\ [Next]_vars => PackInv'
  BY KeptStep
<1>3. PackInv /\ [Next]_vars => [Extent!Next]_Extent!vars
  BY ExtentStep
<1> QED BY <1>1, <1>2, <1>3, ExtentInit, PTL DEF Spec, ExtentSpec, Extent!Spec

-----------------------------------------------------------------------------
(* Sequences in a row: b says where each begins.                           *)
Bases(b, s, n) ==
  /\ b \in [1 .. n + 1 -> Nat] /\ b[1] = 0
  /\ \A d \in 1 .. n : b[d + 1] = b[d] + Len(s[d])

LEMMA BasesExist ==
  ASSUME NEW S, NEW s \in Seq(Seq(S))
  PROVE  \E b : Bases(b, s, Len(s))
<1> DEFINE n == Len(s)
           Good == {k \in 0 .. n : \E b : Bases(b, s, k)}
<1>0. n \in Nat /\ \A d \in 1 .. n : Len(s[d]) \in Nat
  <2>1. \A d \in 1 .. n : s[d] \in Seq(S)
    OBVIOUS
  <2> QED BY <2>1
<1> HIDE DEF n
<1>1. 0 \in Good
  <2>1. Bases([d \in 1 .. 0 + 1 |-> 0], s, 0)
    BY DEF Bases
  <2> QED BY <1>0, <2>1
<1>2. ASSUME NEW k \in 0 .. n - 1, k \in Good PROVE k + 1 \in Good
  <2>1. PICK b : Bases(b, s, k)
    BY <1>2
  <2>2. PICK l \in Nat : l = Len(s[k + 1])
    BY <1>0
  <2> DEFINE c == [d \in 1 .. (k + 1) + 1 |-> IF d = k + 2 THEN b[k + 1] + l ELSE b[d]]
  <2>3. b \in [1 .. k + 1 -> Nat] /\ b[1] = 0 /\ \A d \in 1 .. k : b[d + 1] = b[d] + Len(s[d])
    BY <2>1 DEF Bases
  <2>4. c \in [1 .. (k + 1) + 1 -> Nat] /\ c[1] = 0
    BY <2>3
  <2>5. ASSUME NEW d \in 1 .. k + 1 PROVE c[d + 1] = c[d] + Len(s[d])
    <3>1. CASE d = k + 1
      <4>1. c[d + 1] = b[k + 1] + l /\ c[d] = b[k + 1]
        BY <3>1
      <4> QED BY <2>2, <3>1, <4>1
    <3>2. CASE d # k + 1
      <4>1. d \in 1 .. k /\ c[d + 1] = b[d + 1] /\ c[d] = b[d]
        BY <3>2
      <4> QED BY <2>3, <4>1
    <3> QED BY <3>1, <3>2
  <2> HIDE DEF c
  <2>6. Bases(c, s, k + 1)
    BY <2>4, <2>5 DEF Bases
  <2>7. k + 1 \in 0 .. n
    BY <1>0
  <2> QED BY <2>6, <2>7
<1>3. Good = 0 .. n
  <2>1. Good \in SUBSET (0 .. n)
    OBVIOUS
  <2> HIDE DEF Good
  <2> QED BY <1>0, <1>1, <1>2, <2>1, StepByStep
<1> QED BY <1>0, <1>3 DEF n

LEMMA BasesRise ==
  ASSUME NEW n \in Nat, NEW s, NEW b, Bases(b, s, n), \A d \in 1 .. n : Len(s[d]) \in Nat,
         NEW d \in 1 .. n + 1, NEW e \in 1 .. n + 1, d <= e
  PROVE  b[d] <= b[e]
<1> DEFINE Up == {q \in 0 .. e - d : b[d] <= b[d + q]}
<1>1. e - d \in Nat /\ d + 0 = d /\ b[d] \in Nat /\ d \in Nat
  BY DEF Bases
<1>2. 0 \in Up
  BY <1>1
<1>3. ASSUME NEW q \in 0 .. (e - d) - 1, q \in Up PROVE q + 1 \in Up
  <2>1. PICK c \in 1 .. n : c = d + q
    OBVIOUS
  <2>2. c + 1 = d + (q + 1) /\ q + 1 \in 0 .. e - d /\ c \in 1 .. n + 1 /\ c + 1 \in 1 .. n + 1
    BY <1>1, <2>1
  <2>3. PICK l \in Nat : l = Len(s[c])
    OBVIOUS
  <2>4. b[c + 1] = b[c] + l /\ b[c] \in Nat
    BY <2>2, <2>3 DEF Bases
  <2>5. b[d] <= b[c]
    BY <1>3, <2>1
  <2>6. b[d] <= b[c + 1]
    BY <1>1, <2>4, <2>5
  <2> QED BY <2>2, <2>6
<1>4. Up = 0 .. e - d
  <2>1. Up \in SUBSET (0 .. e - d)
    OBVIOUS
  <2> HIDE DEF Up
  <2> QED BY <1>1, <1>2, <1>3, <2>1, StepByStep
<1>5. e - d \in Up
  <2>1. e - d \in 0 .. e - d
    BY <1>1
  <2> HIDE DEF Up
  <2> QED BY <1>4, <2>1
<1>6. d + (e - d) = e
  BY <1>1
<1> QED BY <1>5, <1>6

Flattens(g, s, n) ==
  g = [d \in 1 .. n |-> IF d = 1 THEN s[d] ELSE g[d - 1] \o s[d]]

LEMMA FlattenExists ==
  ASSUME NEW n \in Nat \ {0}, NEW s
  PROVE  \E g : Flattens(g, s, n)
<1> DEFINE Good == {k \in 0 .. n - 1 : \E g : Flattens(g, s, k + 1)}
<1>1. 0 \in Good
  <2>1. Flattens([d \in 1 .. 0 + 1 |-> s[d]], s, 0 + 1)
    BY DEF Flattens
  <2> QED BY <2>1
<1>2. ASSUME NEW k \in 0 .. (n - 1) - 1, k \in Good PROVE k + 1 \in Good
  <2>1. PICK g : Flattens(g, s, k + 1)
    BY <1>2
  <2> DEFINE h == [d \in 1 .. k + 2 |-> IF d = k + 2 THEN g[k + 1] \o s[k + 2] ELSE g[d]]
  <2>2. ASSUME NEW d \in 1 .. k + 2
        PROVE  h[d] = IF d = 1 THEN s[d] ELSE h[d - 1] \o s[d]
    <3>1. CASE d = k + 2
      <4>1. d # 1 /\ d - 1 = k + 1 /\ d - 1 \in 1 .. k + 2 /\ k + 1 # k + 2
        BY <3>1
      <4>2. h[d - 1] = g[k + 1]
        BY <4>1
      <4> QED BY <3>1, <4>1, <4>2
    <3>2. CASE d # k + 2
      <4>1. d \in 1 .. k + 1 /\ h[d] = g[d]
        BY <3>2
      <4>2. g[d] = IF d = 1 THEN s[d] ELSE g[d - 1] \o s[d]
        BY <2>1, <4>1 DEF Flattens
      <4>3. d # 1 => h[d - 1] = g[d - 1]
        BY <4>1
      <4> QED BY <4>1, <4>2, <4>3
    <3> QED BY <3>1, <3>2
  <2>3. Flattens(h, s, k + 2)
    <3>1. h = [d \in 1 .. k + 2 |-> h[d]]
      OBVIOUS
    <3> HIDE DEF h
    <3>2. h = [d \in 1 .. k + 2 |-> IF d = 1 THEN s[d] ELSE h[d - 1] \o s[d]]
      BY <2>2, <3>1
    <3> QED BY <3>2 DEF Flattens
  <2>4. k + 1 \in 0 .. n - 1 /\ (k + 1) + 1 = k + 2
    OBVIOUS
  <2> QED BY <2>3, <2>4
<1>3. Good = 0 .. n - 1
  <2>1. Good \in SUBSET (0 .. n - 1) /\ n - 1 \in Nat
    OBVIOUS
  <2> HIDE DEF Good
  <2> QED BY <1>1, <1>2, <2>1, StepByStep
<1>4. n - 1 \in Good /\ (n - 1) + 1 = n
  BY <1>3
<1> QED BY <1>4

(* Where each element of a row of sequences comes to lie, and that nothing *)
(* else lies there.                                                        *)
Joins(f, s, b, n, S) ==
  /\ f \in Seq(S) /\ Len(f) = b[n + 1]
  /\ \A d \in 1 .. n : \A k \in 1 .. Len(s[d]) : f[b[d] + k] = s[d][k]

LEMMA FlattenJoins ==
  ASSUME NEW S, NEW s \in Seq(Seq(S)), NEW b, Bases(b, s, Len(s))
  PROVE  Joins(FlattenSeq(s), s, b, Len(s), S)
<1> DEFINE n == Len(s)
<1>0. n \in Nat /\ \A d \in 1 .. n : s[d] \in Seq(S)
  OBVIOUS
<1>1. CASE n = 0
  <2>1. FlattenSeq(s) = << >>
    BY <1>1 DEF FlattenSeq
  <2>2. b[n + 1] = 0
    BY <1>1 DEF Bases
  <2> QED BY <1>1, <2>1, <2>2 DEF Joins
<1>2. CASE n # 0
  <2> DEFINE Eq(g) == Flattens(g, s, n)
  <2>1. FlattenSeq(s) = (CHOOSE g : Eq(g))[n]
    BY <1>2 DEF FlattenSeq, Flattens
  <2>2. PICK g : g = CHOOSE x : Eq(x)
    OBVIOUS
  <2> HIDE DEF n
  <2>3. Flattens(g, s, n)
    <3>1. \E x : Eq(x)
      BY <1>0, <1>2, FlattenExists
    <3> QED BY <2>2, <3>1
  <2> DEFINE Good == {k \in 0 .. n - 1 : Joins(g[k + 1], s, b, k + 1, S)}
  <2>4. b \in [1 .. n + 1 -> Nat] /\ b[1] = 0 /\ \A d \in 1 .. n : b[d + 1] = b[d] + Len(s[d])
    BY DEF Bases, n
  <2>5. 0 \in Good
    <3>1. 1 \in 1 .. n /\ 0 \in 0 .. n - 1 /\ 0 + 1 = 1 /\ 1 + 1 = 2
      BY <1>0, <1>2
    <3>2. g[1] = s[1]
      BY <2>3, <3>1 DEF Flattens
    <3>3. s[1] \in Seq(S) /\ b[2] = b[1] + Len(s[1]) /\ b[1] = 0
      BY <1>0, <2>4, <3>1
    <3>4. Len(s[1]) \in Nat
      BY <3>3
    <3>5. b[2] = Len(s[1])
      BY <3>3, <3>4
    <3>6. ASSUME NEW d \in 1 .. 1, NEW k \in 1 .. Len(s[d]) PROVE g[1][b[d] + k] = s[d][k]
      <4>1. d = 1 /\ k \in Nat /\ b[d] + k = k
        BY <3>3, <3>4
      <4> QED BY <3>2, <4>1
    <3>7. Joins(g[1], s, b, 1, S)
      BY <3>1, <3>2, <3>3, <3>5, <3>6 DEF Joins
    <3> QED BY <3>1, <3>7
  <2>6. ASSUME NEW k \in 0 .. (n - 1) - 1, k \in Good PROVE k + 1 \in Good
    <3>1. PICK m \in 1 .. n : m = k + 1
      BY <1>0
    <3>2. m + 1 \in 1 .. n /\ m + 1 \in 1 .. n + 1 /\ (m + 1) - 1 = m /\ m + 1 # 1
      BY <1>0, <3>1
    <3>3. Joins(g[m], s, b, m, S)
      BY <2>6, <3>1
    <3>4. g[m + 1] = g[m] \o s[m + 1]
      BY <2>3, <3>2 DEF Flattens
    <3>5. PICK x \in Seq(S) : x = g[m] /\ Len(x) = b[m + 1]
      BY <3>3 DEF Joins
    <3>6. PICK y \in Seq(S) : y = s[m + 1]
      BY <1>0, <3>2
    <3>7. PICK p \in Nat : p = b[m + 1]
      BY <2>4, <3>2
    <3>8. b[(m + 1) + 1] = p + Len(y)
      BY <2>4, <3>2, <3>6, <3>7
    <3>9. x \o y \in Seq(S) /\ Len(x \o y) = p + Len(y)
      BY <3>5, <3>7
    <3>10. ASSUME NEW d \in 1 .. m + 1, NEW j \in 1 .. Len(s[d])
           PROVE  (x \o y)[b[d] + j] = s[d][j]
      <4>1. CASE d = m + 1
        <5>1. b[d] = Len(x) /\ Len(x) \in Nat /\ j \in 1 .. Len(y)
          BY <3>5, <3>6, <4>1
        <5>2. (x \o y)[Len(x) + j] = y[j]
          BY <5>1
        <5> QED BY <3>6, <4>1, <5>1, <5>2
      <4>2. CASE d # m + 1
        <5>1. d \in 1 .. m
          BY <4>2
        <5>2. x[b[d] + j] = s[d][j]
          BY <3>3, <3>5, <5>1 DEF Joins
        <5>3. b[d] + j \in 1 .. Len(x)
          <6>1. d \in 1 .. n /\ d + 1 \in 1 .. n + 1 /\ d + 1 <= m + 1 /\ m + 1 \in 1 .. n + 1
            BY <1>0, <3>2, <5>1
          <6>2. s[d] \in Seq(S) /\ b[d + 1] = b[d] + Len(s[d]) /\ b[d] \in Nat
            BY <1>0, <2>4, <6>1
          <6>3. Len(s[d]) \in Nat
            BY <6>2
          <6>4. b[d + 1] <= b[m + 1]
            <7>1. \A e \in 1 .. n : Len(s[e]) \in Nat
              BY <1>0
            <7>2. Bases(b, s, n)
              BY DEF n
            <7> QED BY <1>0, <6>1, <7>1, <7>2, BasesRise
          <6>5. b[d + 1] \in Nat /\ b[m + 1] \in Nat /\ Len(x) = b[m + 1]
            BY <2>4, <3>5, <6>1
          <6> QED BY <6>2, <6>3, <6>4, <6>5
        <5>4. (x \o y)[b[d] + j] = x[b[d] + j]
          BY <5>3
        <5> QED BY <5>2, <5>4
      <4> QED BY <4>1, <4>2
    <3>11. Joins(x \o y, s, b, m + 1, S)
      BY <3>8, <3>9, <3>10 DEF Joins
    <3>12. Joins(g[m + 1], s, b, m + 1, S)
      BY <3>4, <3>5, <3>6, <3>11
    <3>13. k + 1 \in 0 .. n - 1 /\ (k + 1) + 1 = m + 1
      BY <1>0, <3>1
    <3> QED BY <3>12, <3>13
  <2>7. Good = 0 .. n - 1
    <3>1. Good \in SUBSET (0 .. n - 1) /\ n - 1 \in Nat
      BY <1>0, <1>2
    <3> HIDE DEF Good
    <3> QED BY <2>5, <2>6, <3>1, StepByStep
  <2>8. n - 1 \in Good /\ (n - 1) + 1 = n
    <3>1. n - 1 \in 0 .. n - 1 /\ (n - 1) + 1 = n
      BY <1>0, <1>2
    <3> HIDE DEF Good
    <3> QED BY <2>7, <3>1
  <2>9. FlattenSeq(s) = g[n]
    BY <2>1, <2>2
  <2> QED BY <2>8, <2>9 DEF n
<1> QED BY <1>1, <1>2

-----------------------------------------------------------------------------
(* A tree and its slots.                                                   *)
Entries == [name : STRING, dir : BOOLEAN, to : Nat]
Slots   == [name : STRING, dir : BOOLEAN, end : BOOLEAN, next : Nat]

WellFormed(T) ==
  /\ T \in Seq(Seq(Entries)) /\ Len(T) > 0
  /\ \A d \in 1 .. Len(T) :
       /\ Len(T[d]) > 0
       /\ \A k \in 1 .. Len(T[d]) : T[d][k].dir => T[d][k].to \in 1 .. Len(T)

SlotOf(T, d, k) ==
  [name |-> T[d][k].name, dir |-> T[d][k].dir, end |-> k = Len(T[d]),
   next |-> IF T[d][k].dir THEN StartOf(T, T[d][k].to) ELSE T[d][k].to]

LEMMA ListsTyped ==
  ASSUME NEW T \in Seq(Seq(Entries))
  PROVE  /\ Len(T) \in Nat /\ DOMAIN T = 1 .. Len(T)
         /\ \A d \in 1 .. Len(T) : /\ T[d] \in Seq(Entries) /\ Len(T[d]) \in Nat
                                   /\ DOMAIN T[d] = 1 .. Len(T[d])
                                   /\ \A k \in 1 .. Len(T[d]) : T[d][k] \in Entries
<1>1. Len(T) \in Nat /\ DOMAIN T = 1 .. Len(T)
  OBVIOUS
<1>2. ASSUME NEW d \in 1 .. Len(T)
      PROVE  /\ T[d] \in Seq(Entries) /\ Len(T[d]) \in Nat /\ DOMAIN T[d] = 1 .. Len(T[d])
             /\ \A k \in 1 .. Len(T[d]) : T[d][k] \in Entries
  <2>1. T[d] \in Seq(Entries)
    OBVIOUS
  <2> PICK s \in Seq(Entries) : s = T[d]
    BY <2>1
  <2>2. Len(s) \in Nat /\ DOMAIN s = 1 .. Len(s) /\ \A k \in 1 .. Len(s) : s[k] \in Entries
    OBVIOUS
  <2> QED BY <2>1, <2>2
<1> QED BY <1>1, <1>2

LEMMA StartsAre ==
  ASSUME NEW T \in Seq(Seq(Entries)), NEW b, Bases(b, T, Len(T)), NEW d \in 1 .. Len(T) + 1
  PROVE  StartOf(T, d) = b[d]
<1>1. Len(T) \in Nat /\ d - 1 \in 0 .. Len(T) /\ (d - 1) + 1 = d
  OBVIOUS
<1>2. PICK s : s = SubSeq(T, 1, d - 1)
  OBVIOUS
<1>3. s \in Seq(Seq(Entries)) /\ Len(s) = d - 1 /\ \A x \in 1 .. d - 1 : s[x] = T[x]
  BY <1>1, <1>2
<1> DEFINE c == [x \in 1 .. d |-> b[x]]
<1>4. Bases(c, s, d - 1)
  <2>1. /\ b \in [1 .. Len(T) + 1 -> Nat] /\ b[1] = 0
        /\ \A x \in 1 .. Len(T) : b[x + 1] = b[x] + Len(T[x])
    BY DEF Bases
  <2>2. c \in [1 .. (d - 1) + 1 -> Nat] /\ c[1] = 0
    BY <1>1, <2>1
  <2>3. ASSUME NEW x \in 1 .. d - 1 PROVE c[x + 1] = c[x] + Len(s[x])
    <3>1. x \in 1 .. Len(T) /\ x \in 1 .. d /\ x + 1 \in 1 .. d
      BY <1>1
    <3>2. c[x + 1] = b[x + 1] /\ c[x] = b[x]
      BY <3>1
    <3> QED BY <1>3, <2>1, <3>1, <3>2
  <2> HIDE DEF c
  <2> QED BY <2>2, <2>3 DEF Bases
<1>5. c[d] = b[d]
  OBVIOUS
<1> HIDE DEF c
<1>6. Joins(FlattenSeq(s), s, c, Len(s), Entries)
  BY <1>3, <1>4, FlattenJoins
<1>7. Len(FlattenSeq(s)) = c[d]
  BY <1>1, <1>3, <1>6 DEF Joins
<1> QED BY <1>2, <1>5, <1>7 DEF StartOf

LEMMA TreeSlots ==
  ASSUME NEW T, WellFormed(T)
  PROVE  \E b : /\ Bases(b, T, Len(T))
                /\ \A d \in 1 .. Len(T) + 1 : StartOf(T, d) = b[d]
                /\ SlotsOf(T) \in Seq(Slots) /\ Len(SlotsOf(T)) = b[Len(T) + 1]
                /\ \A d \in 1 .. Len(T) : \A k \in 1 .. Len(T[d]) :
                     SlotsOf(T)[b[d] + k] = SlotOf(T, d, k)
<1>1. T \in Seq(Seq(Entries))
  BY DEF WellFormed
<1>2. PICK b : Bases(b, T, Len(T))
  BY <1>1, BasesExist
<1>3. \A d \in 1 .. Len(T) + 1 : StartOf(T, d) = b[d]
  BY <1>1, <1>2, StartsAre
<1> DEFINE R == [d \in DOMAIN T |-> [k \in DOMAIN T[d] |-> SlotOf(T, d, k)]]
<1>4. SlotsOf(T) = FlattenSeq(R)
  BY DEF SlotsOf, SlotOf
<1>5. ASSUME NEW d \in 1 .. Len(T), NEW k \in 1 .. Len(T[d])
      PROVE  SlotOf(T, d, k) \in Slots
  <2>1. T[d][k] \in Entries
    BY <1>1, ListsTyped
  <2>2. /\ T[d][k].name \in STRING /\ T[d][k].dir \in BOOLEAN /\ T[d][k].to \in Nat
    BY <2>1 DEF Entries
  <2>3. (k = Len(T[d])) \in BOOLEAN
    OBVIOUS
  <2>4. (IF T[d][k].dir THEN StartOf(T, T[d][k].to) ELSE T[d][k].to) \in Nat
    <3>1. CASE T[d][k].dir
      <4>1. T[d][k].to \in 1 .. Len(T)
        BY <3>1 DEF WellFormed
      <4>2. T[d][k].to \in 1 .. Len(T) + 1
        BY <1>1, <4>1, ListsTyped
      <4>3. StartOf(T, T[d][k].to) = b[T[d][k].to]
        BY <1>3, <4>2
      <4>4. b[T[d][k].to] \in Nat
        BY <1>2, <4>2 DEF Bases
      <4> QED BY <3>1, <4>3, <4>4
    <3>2. CASE ~T[d][k].dir
      BY <2>2, <3>2
    <3> QED BY <3>1, <3>2
  <2> QED BY <2>2, <2>3, <2>4 DEF SlotOf, Slots
<1>6. /\ R \in Seq(Seq(Slots)) /\ Len(R) = Len(T)
      /\ \A d \in 1 .. Len(T) : Len(R[d]) = Len(T[d])
      /\ \A d \in 1 .. Len(T) : \A k \in 1 .. Len(T[d]) : R[d][k] = SlotOf(T, d, k)
  <2>1. /\ Len(T) \in Nat /\ DOMAIN T = 1 .. Len(T)
        /\ \A d \in 1 .. Len(T) : Len(T[d]) \in Nat /\ DOMAIN T[d] = 1 .. Len(T[d])
    BY <1>1, ListsTyped
  <2>2. ASSUME NEW d \in 1 .. Len(T)
        PROVE  /\ R[d] \in Seq(Slots) /\ Len(R[d]) = Len(T[d])
               /\ \A k \in 1 .. Len(T[d]) : R[d][k] = SlotOf(T, d, k)
    <3>1. PICK n \in Nat : n = Len(T[d])
      BY <2>1
    <3>2. R[d] = [k \in 1 .. n |-> SlotOf(T, d, k)]
      BY <2>1, <3>1
    <3>3. \A k \in 1 .. n : SlotOf(T, d, k) \in Slots
      BY <1>5, <3>1
    <3>4. PICK r : r = R[d]
      OBVIOUS
    <3> HIDE DEF R
    <3>5. r = [k \in 1 .. n |-> SlotOf(T, d, k)]
      BY <3>2, <3>4
    <3>6. r \in [1 .. n -> Slots]
      BY <3>3, <3>5
    <3>7. r \in Seq(Slots) /\ Len(r) = n
      BY <3>6
    <3> QED BY <3>1, <3>4, <3>5, <3>7
  <2>3. PICK n \in Nat : n = Len(T)
    BY <2>1
  <2>4. DOMAIN R = 1 .. n /\ R = [d \in 1 .. n |-> R[d]]
    BY <2>1, <2>3
  <2> HIDE DEF R
  <2>5. R \in [1 .. n -> Seq(Slots)]
    BY <2>2, <2>3, <2>4
  <2>6. R \in Seq(Seq(Slots)) /\ Len(R) = n
    BY <2>5
  <2> QED BY <2>2, <2>3, <2>6
<1> HIDE DEF R
<1>7. Bases(b, R, Len(R))
  BY <1>2, <1>6 DEF Bases
<1>8. Joins(FlattenSeq(R), R, b, Len(R), Slots)
  BY <1>6, <1>7, FlattenJoins
<1>9. /\ SlotsOf(T) \in Seq(Slots) /\ Len(SlotsOf(T)) = b[Len(T) + 1]
      /\ \A d \in 1 .. Len(T) : \A k \in 1 .. Len(T[d]) : SlotsOf(T)[b[d] + k] = SlotOf(T, d, k)
  BY <1>4, <1>6, <1>8 DEF Joins
<1> QED BY <1>2, <1>3, <1>9

LEMMA MinIs ==
  ASSUME NEW S \in SUBSET Int, NEW m \in S, \A x \in S : m <= x
  PROVE  Min(S) = m
<1>1. PICK x : x = Min(S)
  OBVIOUS
<1>2. x \in S /\ \A y \in S : x <= y
  BY <1>1 DEF Min
<1>3. x <= m /\ m <= x /\ x \in Int /\ m \in Int
  BY <1>2
<1> QED BY <1>1, <1>3

LEMMA MinOf ==
  ASSUME NEW S \in SUBSET Nat, S # {}
  PROVE  Min(S) \in S /\ \A x \in S : Min(S) <= x
<1>1. PICK m \in S : \A x \in S : <<x, m>> \notin OpToRel(<, Nat)
  BY NatLessThanWellFounded, WFMin
<1>2. \A x \in S : ~(x < m)
  BY <1>1 DEF OpToRel
<1>3. \A x \in S : m <= x
  BY <1>2
<1>4. Min(S) = m
  BY <1>3, MinIs
<1> QED BY <1>3, <1>4

(* A listing is scanned from its start to its end and no further.          *)
Laid(slots, b, T) ==
  /\ Bases(b, T, Len(T))
  /\ \A d \in 1 .. Len(T) + 1 : StartOf(T, d) = b[d]
  /\ slots \in Seq(Slots) /\ Len(slots) = b[Len(T) + 1]
  /\ \A d \in 1 .. Len(T) : \A k \in 1 .. Len(T[d]) : slots[b[d] + k] = SlotOf(T, d, k)

LEMMA Inside ==
  ASSUME NEW T, WellFormed(T), NEW slots, NEW b, Laid(slots, b, T), NEW d \in 1 .. Len(T)
  PROVE  b[d] \in Nat /\ b[d] + Len(T[d]) <= Len(slots) /\ Len(slots) \in Nat
<1>1. T \in Seq(Seq(Entries)) /\ Bases(b, T, Len(T))
  BY DEF WellFormed, Laid
<1>2. Len(T) \in Nat /\ \A x \in 1 .. Len(T) : Len(T[x]) \in Nat
  BY <1>1, ListsTyped
<1>3. d \in 1 .. Len(T) + 1 /\ d + 1 \in 1 .. Len(T) + 1 /\ Len(T) + 1 \in 1 .. Len(T) + 1
      /\ d + 1 <= Len(T) + 1
  BY <1>2
<1>4. b[d + 1] <= b[Len(T) + 1]
  BY <1>1, <1>2, <1>3, BasesRise
<1>5. b[d + 1] = b[d] + Len(T[d]) /\ b[d] \in Nat
  BY <1>1, <1>3 DEF Bases
<1>6. Len(slots) = b[Len(T) + 1] /\ b[Len(T) + 1] \in Nat
  BY <1>1, <1>3 DEF Bases, Laid
<1> QED BY <1>4, <1>5, <1>6

Scanned(slots, b, T, d, name) ==
  /\ Named(T[d], name) = {} => Scan(slots, b[d], name) = Fails("NOT_FOUND")
  /\ Named(T[d], name) # {} =>
       /\ Min(Named(T[d], name)) \in 1 .. Len(T[d])
       /\ Scan(slots, b[d], name) = Hit(b[d] + Min(Named(T[d], name)) - 1)

LEMMA ScanList ==
  ASSUME NEW T, WellFormed(T), NEW slots, NEW b, Laid(slots, b, T), NEW d \in 1 .. Len(T),
         NEW name
  PROVE  Scanned(slots, b, T, d, name)
<1>1. PICK l \in Nat : l = Len(T[d]) /\ l > 0 /\ DOMAIN T[d] = 1 .. l
  BY ListsTyped DEF WellFormed
<1>2. PICK c \in Nat : c = b[d] /\ c + l <= Len(slots) /\ Len(slots) \in Nat
  BY <1>1, Inside
<1>3. ASSUME NEW k \in 1 .. l
      PROVE  /\ c + k - 1 \in From(slots, c)
             /\ At(slots, c + k - 1).name = T[d][k].name
             /\ At(slots, c + k - 1).end <=> k = l
  <2>1. c + k - 1 \in From(slots, c)
    BY <1>2 DEF From
  <2>2. (c + k - 1) + 1 = c + k
    OBVIOUS
  <2>3. slots[c + k] = SlotOf(T, d, k)
    BY <1>1, <1>2 DEF Laid
  <2>4. At(slots, c + k - 1) = SlotOf(T, d, k)
    BY <2>2, <2>3 DEF At
  <2>5. SlotOf(T, d, k).name = T[d][k].name
    BY DEF SlotOf
  <2>6. SlotOf(T, d, k).end = (k = Len(T[d]))
    BY DEF SlotOf
  <2> QED BY <1>1, <2>1, <2>4, <2>5, <2>6, Zenon
<1> DEFINE stops == {x \in From(slots, c) : At(slots, x).name = name \/ At(slots, x).end}
<1>4. Scan(slots, c, name) = IF stops = {} THEN Fails("TRUNCATED")
                             ELSE IF At(slots, Min(stops)).name # name THEN Fails("NOT_FOUND")
                             ELSE Hit(Min(stops))
  BY DEF Scan
<1>5. \A x \in From(slots, c) : x \in Int /\ x >= c /\ (x < c + l => x - c + 1 \in 1 .. l)
  BY <1>2 DEF From
<1>6. \A x \in From(slots, c) : x < c + l =>
         /\ At(slots, x).name = T[d][x - c + 1].name
         /\ At(slots, x).end <=> x - c + 1 = l
  <2> SUFFICES ASSUME NEW x \in From(slots, c), x < c + l
               PROVE  /\ At(slots, x).name = T[d][x - c + 1].name
                      /\ At(slots, x).end <=> x - c + 1 = l
    OBVIOUS
  <2>1. PICK k \in 1 .. l : k = x - c + 1
    BY <1>5
  <2>2. c + k - 1 = x
    BY <1>5, <2>1
  <2> QED BY <1>3, <2>1, <2>2
<1> HIDE DEF stops
<1>7. ASSUME Named(T[d], name) = {}
      PROVE  Scan(slots, b[d], name) = Fails("NOT_FOUND")
  <2>1. \A k \in 1 .. l : T[d][k].name # name
    BY <1>1, <1>7 DEF Named
  <2>2. l \in 1 .. l
    BY <1>1
  <2>3. c + l - 1 \in stops /\ At(slots, c + l - 1).name # name
    BY <1>3, <2>1, <2>2 DEF stops
  <2>4. ASSUME NEW x \in stops PROVE c + l - 1 <= x
    <3>1. x \in From(slots, c) /\ (At(slots, x).name = name \/ At(slots, x).end)
      BY <2>4 DEF stops
    <3>2. CASE x < c + l
      <4>1. At(slots, x).name # name
        BY <1>5, <1>6, <2>1, <3>1, <3>2
      <4>2. x - c + 1 = l
        BY <1>6, <3>1, <3>2, <4>1
      <4> QED BY <1>5, <3>1, <4>2
    <3>3. CASE ~(x < c + l)
      BY <1>5, <3>1, <3>3
    <3> QED BY <3>2, <3>3
  <2>5. stops \in SUBSET Int
    BY <1>5 DEF stops
  <2>6. Min(stops) = c + l - 1
    BY <2>3, <2>4, <2>5, MinIs
  <2> QED BY <1>2, <1>4, <2>3, <2>6
<1>8. ASSUME Named(T[d], name) # {}
      PROVE  /\ Min(Named(T[d], name)) \in 1 .. Len(T[d])
             /\ Scan(slots, b[d], name) = Hit(b[d] + Min(Named(T[d], name)) - 1)
  <2>1. Named(T[d], name) \in SUBSET Nat
    BY <1>1 DEF Named
  <2>2. PICK m : m = Min(Named(T[d], name))
    OBVIOUS
  <2>3. m \in Named(T[d], name) /\ \A k \in Named(T[d], name) : m <= k
    BY <1>8, <2>1, <2>2, MinOf
  <2>4. m \in 1 .. l /\ T[d][m].name = name
    BY <1>1, <2>3 DEF Named
  <2>5. c + m - 1 \in stops /\ At(slots, c + m - 1).name = name
    BY <1>3, <2>4 DEF stops
  <2>6. ASSUME NEW x \in stops PROVE c + m - 1 <= x
    <3>1. x \in From(slots, c) /\ (At(slots, x).name = name \/ At(slots, x).end)
      BY <2>6 DEF stops
    <3>2. CASE x < c + l
      <4>1. CASE At(slots, x).name = name
        <5>1. PICK k \in 1 .. l : k = x - c + 1
          BY <1>5, <3>1, <3>2
        <5>2. k \in Named(T[d], name)
          BY <1>1, <1>6, <3>1, <3>2, <4>1, <5>1 DEF Named
        <5>3. m <= k
          BY <2>3, <5>2
        <5> QED BY <1>5, <2>4, <3>1, <5>1, <5>3
      <4>2. CASE At(slots, x).end
        <5>1. x - c + 1 = l
          BY <1>6, <3>1, <3>2, <4>2
        <5> QED BY <1>5, <2>4, <3>1, <5>1
      <4> QED BY <3>1, <4>1, <4>2
    <3>3. CASE ~(x < c + l)
      BY <1>5, <2>4, <3>1, <3>3
    <3> QED BY <3>2, <3>3
  <2>7. stops \in SUBSET Int
    BY <1>5 DEF stops
  <2>8. Min(stops) = c + m - 1
    BY <2>5, <2>6, <2>7, MinIs
  <2>9. Scan(slots, c, name) = Hit(c + m - 1)
    BY <1>4, <2>5, <2>8
  <2> QED BY <1>1, <1>2, <2>2, <2>4, <2>9
<1> QED BY <1>7, <1>8 DEF Scanned

-----------------------------------------------------------------------------
(* One step of a path: what a slot says and what the tree means.           *)
EntryMeans(e) == [st |-> IF e.dir THEN "IS_DIR" ELSE "OK", to |-> e.to]
Nowhere(e)    == [st |-> e, to |-> 0]
StepOf(T, d, name) ==
  IF name = "" THEN Nowhere("INVAL")
  ELSE IF Named(T[d], name) = {} THEN Nowhere("NOT_FOUND")
  ELSE EntryMeans(T[d][Min(Named(T[d], name))])

Agree(T, b, hit, means) ==
  \/ \E e \in {"INVAL", "NOT_FOUND"} : hit = Fails(e) /\ means = Nowhere(e)
  \/ \E d \in 1 .. Len(T) : \E k \in 1 .. Len(T[d]) :
       hit = Hit(b[d] + k - 1) /\ means = EntryMeans(T[d][k])

LEMMA StepAgrees ==
  ASSUME NEW T, WellFormed(T), NEW slots, NEW b, Laid(slots, b, T), NEW d \in 1 .. Len(T),
         NEW name
  PROVE  Agree(T, b, Step(slots, b[d], name), StepOf(T, d, name))
<1>1. CASE name = ""
  BY <1>1 DEF Agree, Step, StepOf
<1>2. CASE name # "" /\ Named(T[d], name) = {}
  <2>1. Step(slots, b[d], name) = Fails("NOT_FOUND")
    <3>1. Step(slots, b[d], name) = Scan(slots, b[d], name)
      BY <1>2 DEF Step
    <3>2. Scanned(slots, b, T, d, name)
      BY ScanList
    <3>3. Scan(slots, b[d], name) = Fails("NOT_FOUND")
      BY <1>2, <3>2 DEF Scanned
    <3> QED BY <3>1, <3>3, Zenon
  <2>2. StepOf(T, d, name) = Nowhere("NOT_FOUND")
    BY <1>2 DEF StepOf
  <2> QED BY <2>1, <2>2 DEF Agree
<1>3. CASE name # "" /\ Named(T[d], name) # {}
  <2>1. PICK k : k = Min(Named(T[d], name))
    OBVIOUS
  <2>2. k \in 1 .. Len(T[d]) /\ Step(slots, b[d], name) = Hit(b[d] + k - 1)
    <3>1. Step(slots, b[d], name) = Scan(slots, b[d], name)
      BY <1>3 DEF Step
    <3>2. Named(T[d], name) # {}
      BY <1>3
    <3>3. Scanned(slots, b, T, d, name)
      BY ScanList
    <3>4. /\ Min(Named(T[d], name)) \in 1 .. Len(T[d])
          /\ Scan(slots, b[d], name) = Hit(b[d] + Min(Named(T[d], name)) - 1)
      BY <3>2, <3>3 DEF Scanned
    <3> QED BY <2>1, <3>1, <3>4, Zenon
  <2>3. StepOf(T, d, name) = EntryMeans(T[d][k])
    BY <1>3, <2>1 DEF StepOf
  <2> QED BY <2>2, <2>3 DEF Agree
<1> QED BY <1>1, <1>2, <1>3

(* The slot of an entry.                                                   *)
LEMMA SlotAt ==
  ASSUME NEW T, WellFormed(T), NEW slots, NEW b, Laid(slots, b, T), NEW d \in 1 .. Len(T),
         NEW k \in 1 .. Len(T[d])
  PROVE  /\ At(slots, b[d] + k - 1) = SlotOf(T, d, k)
         /\ b[d] + k - 1 \in 0 .. Len(slots) - 1
         /\ T[d][k].dir => /\ T[d][k].to \in 1 .. Len(T)
                           /\ SlotOf(T, d, k).next = b[T[d][k].to]
                           /\ b[T[d][k].to] < Len(slots)
         /\ ~T[d][k].dir => SlotOf(T, d, k).next = T[d][k].to
<1>1. PICK l \in Nat : l = Len(T[d])
  BY ListsTyped DEF WellFormed
<1>2. PICK c \in Nat : c = b[d] /\ c + l <= Len(slots) /\ Len(slots) \in Nat
  BY <1>1, Inside
<1>3. (c + k - 1) + 1 = c + k /\ c + k - 1 \in 0 .. Len(slots) - 1
  BY <1>1, <1>2
<1>4. At(slots, b[d] + k - 1) = SlotOf(T, d, k)
  BY <1>1, <1>2, <1>3 DEF At, Laid
<1>5. ASSUME T[d][k].dir
      PROVE  /\ T[d][k].to \in 1 .. Len(T)
             /\ SlotOf(T, d, k).next = b[T[d][k].to]
             /\ b[T[d][k].to] < Len(slots)
  <2>1. PICK e \in 1 .. Len(T) : e = T[d][k].to
    BY <1>5 DEF WellFormed
  <2>2. e \in 1 .. Len(T) + 1
    BY <2>1, ListsTyped DEF WellFormed
  <2>3. StartOf(T, e) = b[e]
    BY <2>2 DEF Laid
  <2>4. SlotOf(T, d, k).next = b[e]
    BY <1>5, <2>1, <2>3 DEF SlotOf
  <2>5. b[e] \in Nat /\ b[e] + Len(T[e]) <= Len(slots)
    BY Inside
  <2>6. PICK x \in Nat : x = Len(T[e]) /\ x > 0
    BY ListsTyped DEF WellFormed
  <2>7. b[e] < Len(slots)
    BY <1>2, <2>5, <2>6
  <2> QED BY <2>1, <2>4, <2>7
<1>6. ~T[d][k].dir => SlotOf(T, d, k).next = T[d][k].to
  BY DEF SlotOf
<1> QED BY <1>2, <1>3, <1>4, <1>5, <1>6

(* The two walks, each as a function of how far it has come.               *)
Walks(w, slots, path, n) ==
  w = [k \in 1 .. n |->
         IF k = 1 THEN Step(slots, 0, path[1])
         ELSE IF w[k - 1].st # "OK" THEN w[k - 1]
         ELSE Descend(slots, w[k - 1].slot, path[k])]

LEMMA WalkExists ==
  ASSUME NEW n \in Nat \ {0}, NEW slots, NEW path
  PROVE  \E w : Walks(w, slots, path, n)
<1> DEFINE Good == {k \in 0 .. n - 1 : \E w : Walks(w, slots, path, k + 1)}
<1>1. 0 \in Good
  <2>1. Walks([k \in 1 .. 0 + 1 |-> Step(slots, 0, path[1])], slots, path, 0 + 1)
    BY DEF Walks
  <2> QED BY <2>1
<1>2. ASSUME NEW m \in 0 .. (n - 1) - 1, m \in Good PROVE m + 1 \in Good
  <2>1. PICK w : Walks(w, slots, path, m + 1)
    BY <1>2
  <2> DEFINE Go(v, k) == IF k = 1 THEN Step(slots, 0, path[1])
                         ELSE IF v[k - 1].st # "OK" THEN v[k - 1]
                         ELSE Descend(slots, v[k - 1].slot, path[k])
             h == [k \in 1 .. m + 2 |-> IF k = m + 2 THEN Go(w, k) ELSE w[k]]
  <2>2. ASSUME NEW k \in 1 .. m + 2 PROVE h[k] = Go(h, k)
    <3>1. k # 1 => k - 1 \in 1 .. m + 2 /\ k - 1 # m + 2
      OBVIOUS
    <3>2. k # 1 => h[k - 1] = w[k - 1]
      BY <3>1
    <3>3. Go(h, k) = Go(w, k)
      BY <3>2
    <3>4. CASE k = m + 2
      BY <3>3, <3>4
    <3>5. CASE k # m + 2
      <4>1. k \in 1 .. m + 1 /\ h[k] = w[k]
        BY <3>5
      <4>2. w[k] = Go(w, k)
        BY <2>1, <4>1 DEF Walks
      <4> HIDE DEF Go, h
      <4> QED BY <3>3, <4>1, <4>2
    <3> QED BY <3>4, <3>5
  <2>3. Walks(h, slots, path, m + 2)
    <3>1. h = [k \in 1 .. m + 2 |-> h[k]]
      OBVIOUS
    <3> HIDE DEF h
    <3> QED BY <2>2, <3>1 DEF Walks
  <2>4. m + 1 \in 0 .. n - 1 /\ (m + 1) + 1 = m + 2
    OBVIOUS
  <2> HIDE DEF h
  <2> QED BY <2>3, <2>4
<1>3. Good = 0 .. n - 1
  <2>1. Good \in SUBSET (0 .. n - 1) /\ n - 1 \in Nat
    OBVIOUS
  <2> HIDE DEF Good
  <2> QED BY <1>1, <1>2, <2>1, StepByStep
<1>4. n - 1 \in Good /\ (n - 1) + 1 = n
  <2>1. n - 1 \in 0 .. n - 1 /\ (n - 1) + 1 = n
    OBVIOUS
  <2> HIDE DEF Good
  <2> QED BY <1>3, <2>1
<1> QED BY <1>4

-----------------------------------------------------------------------------
NextMeaning(T, here, name) ==
  IF here.st \notin {"IS_DIR", "OK"} THEN here
  ELSE IF here.st = "OK" THEN Nowhere("NOT_FOUND")
  ELSE StepOf(T, here.to, name)

Means(at, T, path, n) ==
  at = [k \in 0 .. n |-> IF k = 0 THEN [st |-> "IS_DIR", to |-> 1]
                         ELSE NextMeaning(T, at[k - 1], path[k])]

LEMMA MeaningExists ==
  ASSUME NEW n \in Nat, NEW T, NEW path
  PROVE  \E at : Means(at, T, path, n)
<1> DEFINE Good == {k \in 0 .. n : \E at : Means(at, T, path, k)}
           Root == [st |-> "IS_DIR", to |-> 1]
<1>1. 0 \in Good
  <2>1. Means([k \in 0 .. 0 |-> Root], T, path, 0)
    BY DEF Means
  <2> QED BY <2>1
<1>2. ASSUME NEW m \in 0 .. n - 1, m \in Good PROVE m + 1 \in Good
  <2>1. PICK at : Means(at, T, path, m)
    BY <1>2
  <2> DEFINE Go(v, k) == IF k = 0 THEN Root ELSE NextMeaning(T, v[k - 1], path[k])
             h == [k \in 0 .. m + 1 |-> IF k = m + 1 THEN Go(at, k) ELSE at[k]]
  <2>2. ASSUME NEW k \in 0 .. m + 1 PROVE h[k] = Go(h, k)
    <3>1. k # 0 => k - 1 \in 0 .. m + 1 /\ k - 1 # m + 1
      OBVIOUS
    <3>2. k # 0 => h[k - 1] = at[k - 1]
      BY <3>1
    <3>3. Go(h, k) = Go(at, k)
      BY <3>2
    <3>4. CASE k = m + 1
      BY <3>3, <3>4
    <3>5. CASE k # m + 1
      <4>1. k \in 0 .. m /\ h[k] = at[k]
        BY <3>5
      <4>2. at[k] = Go(at, k)
        BY <2>1, <4>1 DEF Means
      <4> HIDE DEF Go, h
      <4> QED BY <3>3, <4>1, <4>2
    <3> QED BY <3>4, <3>5
  <2>3. Means(h, T, path, m + 1)
    <3>1. h = [k \in 0 .. m + 1 |-> h[k]]
      OBVIOUS
    <3> HIDE DEF h
    <3> QED BY <2>2, <3>1 DEF Means
  <2> HIDE DEF h
  <2> QED BY <2>3
<1>3. Good = 0 .. n
  <2>1. Good \in SUBSET (0 .. n)
    OBVIOUS
  <2> HIDE DEF Good
  <2> QED BY <1>1, <1>2, <2>1, StepByStep
<1>4. n \in Good
  <2>1. n \in 0 .. n
    OBVIOUS
  <2> HIDE DEF Good
  <2> QED BY <1>3, <2>1
<1> QED BY <1>4

(* Neither leaves the other.                                               *)
LEMMA DescendAgrees ==
  ASSUME NEW T, WellFormed(T), NEW slots, NEW b, Laid(slots, b, T),
         NEW hit, NEW here, Agree(T, b, hit, here), NEW name
  PROVE  Agree(T, b, IF hit.st # "OK" THEN hit ELSE Descend(slots, hit.slot, name),
               NextMeaning(T, here, name))
<1>1. CASE \E e \in {"INVAL", "NOT_FOUND"} : hit = Fails(e) /\ here = Nowhere(e)
  <2>1. hit.st # "OK" /\ here.st \notin {"IS_DIR", "OK"}
    BY <1>1 DEF Fails, Nowhere
  <2>2. NextMeaning(T, here, name) = here
    BY <2>1 DEF NextMeaning
  <2> QED BY <2>1, <2>2
<1>2. CASE \E d \in 1 .. Len(T) : \E k \in 1 .. Len(T[d]) :
             hit = Hit(b[d] + k - 1) /\ here = EntryMeans(T[d][k])
  <2>0. PICK d \in 1 .. Len(T) : \E k \in 1 .. Len(T[d]) :
          hit = Hit(b[d] + k - 1) /\ here = EntryMeans(T[d][k])
    BY <1>2
  <2>1. PICK k \in 1 .. Len(T[d]) :
          hit = Hit(b[d] + k - 1) /\ here = EntryMeans(T[d][k])
    BY <2>0
  <2>2. hit.st = "OK" /\ hit.slot = b[d] + k - 1
    BY <2>1 DEF Hit
  <2>3. /\ At(slots, hit.slot) = SlotOf(T, d, k)
        /\ T[d][k].dir => /\ T[d][k].to \in 1 .. Len(T)
                          /\ SlotOf(T, d, k).next = b[T[d][k].to]
                          /\ b[T[d][k].to] < Len(slots)
    BY <2>2, SlotAt
  <2>4. SlotOf(T, d, k).dir = T[d][k].dir
    BY DEF SlotOf
  <2>5. CASE ~T[d][k].dir
    <3>1. Descend(slots, hit.slot, name) = Fails("NOT_FOUND")
      BY <2>3, <2>4, <2>5 DEF Descend
    <3>2. here.st = "OK"
      BY <2>1, <2>5 DEF EntryMeans
    <3>3. NextMeaning(T, here, name) = Nowhere("NOT_FOUND")
      BY <3>2 DEF NextMeaning
    <3> QED BY <2>2, <3>1, <3>3 DEF Agree
  <2>6. CASE T[d][k].dir
    <3>1. PICK e \in 1 .. Len(T) : e = T[d][k].to
      BY <2>3, <2>6
    <3>2. here.st = "IS_DIR" /\ here.to = e
      BY <2>1, <2>6, <3>1 DEF EntryMeans
    <3>3. NextMeaning(T, here, name) = StepOf(T, e, name)
      BY <3>2 DEF NextMeaning
    <3>4. At(slots, hit.slot).dir /\ At(slots, hit.slot).next = b[e]
      BY <2>3, <2>4, <2>6, <3>1, Zenon
    <3>5. ~(b[e] >= Len(slots))
      <4>1. b[e] < Len(slots) /\ b[e] \in Nat /\ Len(slots) \in Nat
        BY <2>3, <2>6, <3>1, Inside
      <4> QED BY <4>1
    <3>6. Descend(slots, hit.slot, name) = Step(slots, b[e], name)
      BY <3>4, <3>5 DEF Descend
    <3>7. Agree(T, b, Step(slots, b[e], name), StepOf(T, e, name))
      BY StepAgrees
    <3> QED BY <2>2, <3>3, <3>6, <3>7
  <2> QED BY <2>5, <2>6
<1> QED BY <1>1, <1>2 DEF Agree

LEMMA StatAgrees ==
  ASSUME NEW T, WellFormed(T), NEW slots, NEW b, Laid(slots, b, T), NEW path \in Seq(STRING)
  PROVE  Agree(T, b, Stat(slots, path), Meaning(T, path))
<1> DEFINE n == Len(path)
<1>1. n \in Nat /\ (path = << >> <=> n = 0)
  OBVIOUS
<1>2. CASE path = << >>
  <2>1. Stat(slots, path) = Fails("INVAL")
    BY <1>2 DEF Stat
  <2>2. Meaning(T, path) = Nowhere("INVAL")
    BY <1>2 DEF Meaning, Nowhere
  <2> QED BY <2>1, <2>2 DEF Agree
<1>3. CASE path # << >>
  <2> DEFINE W1(w) == Walks(w, slots, path, n)
             M1(at) == Means(at, T, path, n)
  <2>1. Stat(slots, path) = (CHOOSE w : W1(w))[n]
    BY <1>3 DEF Stat, Walks
  <2>2. Meaning(T, path) = (CHOOSE at : M1(at))[n]
    BY <1>3 DEF Meaning, Means, NextMeaning, StepOf, EntryMeans, Nowhere
  <2>3. PICK w : w = CHOOSE x : W1(x)
    OBVIOUS
  <2>4. PICK at : at = CHOOSE x : M1(x)
    OBVIOUS
  <2> HIDE DEF n
  <2>5. Walks(w, slots, path, n)
    <3>1. \E x : W1(x)
      BY <1>1, <1>3, WalkExists
    <3> QED BY <2>3, <3>1
  <2>6. Means(at, T, path, n)
    <3>1. \E x : M1(x)
      BY <1>1, MeaningExists
    <3> QED BY <2>4, <3>1
  <2> DEFINE Good == {k \in 0 .. n - 1 : Agree(T, b, w[k + 1], at[k + 1])}
  <2>7. 0 \in Good
    <3>1. 1 \in 1 .. n /\ 1 \in 0 .. n /\ 0 \in 0 .. n /\ 0 \in 0 .. n - 1 /\ 0 + 1 = 1 /\ 1 - 1 = 0
      BY <1>1, <1>3
    <3>2. w[1] = Step(slots, 0, path[1])
      BY <2>5, <3>1 DEF Walks
    <3>3. at[0] = [st |-> "IS_DIR", to |-> 1] /\ at[1] = NextMeaning(T, at[0], path[1])
      BY <2>6, <3>1 DEF Means
    <3>4. at[1] = StepOf(T, 1, path[1])
      BY <3>3 DEF NextMeaning
    <3>5. 1 \in 1 .. Len(T) /\ b[1] = 0
      BY ListsTyped DEF WellFormed, Laid, Bases
    <3>6. Agree(T, b, Step(slots, b[1], path[1]), StepOf(T, 1, path[1]))
      BY <3>5, StepAgrees
    <3>7. Agree(T, b, w[1], at[1])
      BY <3>2, <3>4, <3>5, <3>6
    <3> QED BY <3>1, <3>7
  <2>8. ASSUME NEW j \in 0 .. (n - 1) - 1, j \in Good PROVE j + 1 \in Good
    <3>1. PICK k \in 1 .. n : k = j + 1
      BY <1>1
    <3>2. k + 1 \in 1 .. n /\ k + 1 \in 0 .. n /\ (k + 1) - 1 = k /\ k + 1 # 1 /\ k + 1 # 0
      BY <1>1, <3>1
    <3>3. Agree(T, b, w[k], at[k])
      BY <2>8, <3>1
    <3>4. w[k + 1] = IF w[k].st # "OK" THEN w[k] ELSE Descend(slots, w[k].slot, path[k + 1])
      BY <2>5, <3>2 DEF Walks
    <3>5. at[k + 1] = NextMeaning(T, at[k], path[k + 1])
      BY <2>6, <3>2 DEF Means
    <3>6. Agree(T, b, w[k + 1], at[k + 1])
      BY <3>3, <3>4, <3>5, DescendAgrees
    <3>7. k \in 0 .. n - 1
      BY <1>1, <3>1, <3>2
    <3> QED BY <3>1, <3>6, <3>7
  <2>9. Good = 0 .. n - 1
    <3>1. Good \in SUBSET (0 .. n - 1) /\ n - 1 \in Nat
      BY <1>1, <1>3
    <3> HIDE DEF Good
    <3> QED BY <2>7, <2>8, <3>1, StepByStep
  <2>10. n - 1 \in Good /\ (n - 1) + 1 = n
    <3>1. n - 1 \in 0 .. n - 1 /\ (n - 1) + 1 = n
      BY <1>1, <1>3
    <3> HIDE DEF Good
    <3> QED BY <2>9, <3>1
  <2>11. Stat(slots, path) = w[n] /\ Meaning(T, path) = at[n]
    BY <2>1, <2>2, <2>3, <2>4
  <2> QED BY <2>10, <2>11
<1> QED BY <1>2, <1>3

(* A path finds the file it means, or fails as it should.                  *)
LEMMA PathFinds ==
  ASSUME NEW T, WellFormed(T), NEW slots, NEW b, Laid(slots, b, T), NEW path \in Seq(STRING)
  PROVE  /\ FindPath(slots, path).st = Meaning(T, path).st
         /\ Meaning(T, path).st = "OK" =>
              /\ FindPath(slots, path).file = Meaning(T, path).to
              /\ Stat(slots, path).st = "OK"
              /\ At(slots, Stat(slots, path).slot).next = Meaning(T, path).to
              /\ \E d \in 1 .. Len(T) : \E k \in 1 .. Len(T[d]) :
                   ~T[d][k].dir /\ Meaning(T, path).to = T[d][k].to
<1>1. PICK hit, means : hit = Stat(slots, path) /\ means = Meaning(T, path)
  OBVIOUS
<1>2. Agree(T, b, hit, means)
  BY <1>1, StatAgrees
<1>3. FindPath(slots, path) =
        IF hit.st # "OK" THEN [st |-> hit.st, file |-> Missing]
        ELSE IF At(slots, hit.slot).dir THEN [st |-> "IS_DIR", file |-> Missing]
        ELSE [st |-> "OK", file |-> At(slots, hit.slot).next]
  BY <1>1 DEF FindPath
<1>4. CASE \E e \in {"INVAL", "NOT_FOUND"} : hit = Fails(e) /\ means = Nowhere(e)
  <2>1. hit.st # "OK" /\ hit.st = means.st
    BY <1>4 DEF Fails, Nowhere
  <2> QED BY <1>1, <1>3, <2>1
<1>5. CASE \E d \in 1 .. Len(T) : \E k \in 1 .. Len(T[d]) :
             hit = Hit(b[d] + k - 1) /\ means = EntryMeans(T[d][k])
  <2>0. PICK d \in 1 .. Len(T) : \E k \in 1 .. Len(T[d]) :
          hit = Hit(b[d] + k - 1) /\ means = EntryMeans(T[d][k])
    BY <1>5
  <2>1. PICK k \in 1 .. Len(T[d]) :
          hit = Hit(b[d] + k - 1) /\ means = EntryMeans(T[d][k])
    BY <2>0
  <2>2. hit.st = "OK" /\ hit.slot = b[d] + k - 1
    BY <2>1 DEF Hit
  <2>3. /\ At(slots, hit.slot) = SlotOf(T, d, k)
        /\ ~T[d][k].dir => SlotOf(T, d, k).next = T[d][k].to
    BY <2>2, SlotAt
  <2>4. At(slots, hit.slot).dir = T[d][k].dir
    BY <2>3 DEF SlotOf
  <2>5. CASE T[d][k].dir
    <3>1. means.st = "IS_DIR"
      BY <2>1, <2>5 DEF EntryMeans
    <3>2. FindPath(slots, path) = [st |-> "IS_DIR", file |-> Missing]
      BY <1>3, <2>2, <2>4, <2>5
    <3> QED BY <1>1, <3>1, <3>2
  <2>6. CASE ~T[d][k].dir
    <3>1. means.st = "OK" /\ means.to = T[d][k].to
      BY <2>1, <2>6 DEF EntryMeans
    <3>2. At(slots, hit.slot).next = T[d][k].to
      BY <2>3, <2>6, Zenon
    <3>3. FindPath(slots, path) = [st |-> "OK", file |-> T[d][k].to]
      BY <1>3, <2>2, <2>4, <2>6, <3>2
    <3> QED BY <1>1, <2>2, <2>6, <3>1, <3>2, <3>3
  <2> QED BY <2>5, <2>6
<1> QED BY <1>2, <1>4, <1>5 DEF Agree

(* Every place of a row is some sequence's.                                *)
LEMMA Covered ==
  ASSUME NEW n \in Nat, NEW s, NEW b, Bases(b, s, n), \A d \in 1 .. n : Len(s[d]) \in Nat,
         NEW x \in 1 .. b[n + 1]
  PROVE  \E d \in 1 .. n : \E k \in 1 .. Len(s[d]) : x = b[d] + k
<1> DEFINE Good == {m \in 0 .. n : \A y \in 1 .. b[m + 1] :
                      \E d \in 1 .. m : \E k \in 1 .. Len(s[d]) : y = b[d] + k}
<1>1. /\ b \in [1 .. n + 1 -> Nat] /\ b[1] = 0
      /\ \A d \in 1 .. n : b[d + 1] = b[d] + Len(s[d])
  BY DEF Bases
<1>2. 0 \in Good
  BY <1>1
<1>3. ASSUME NEW m \in 0 .. n - 1, m \in Good PROVE m + 1 \in Good
  <2>1. PICK e \in 1 .. n : e = m + 1
    OBVIOUS
  <2>2. PICK c \in Nat, l \in Nat : c = b[e] /\ l = Len(s[e]) /\ b[e + 1] = c + l
    <3>1. e \in 1 .. n + 1
      OBVIOUS
    <3>2. b[e] \in Nat /\ Len(s[e]) \in Nat /\ b[e + 1] = b[e] + Len(s[e])
      BY <1>1, <3>1
    <3> QED BY <3>2
  <2>3. ASSUME NEW y \in 1 .. b[e + 1]
        PROVE  \E d \in 1 .. e : \E k \in 1 .. Len(s[d]) : y = b[d] + k
    <3>1. CASE y <= c
      <4>1. y \in 1 .. b[m + 1]
        BY <2>1, <2>2, <3>1
      <4>2. PICK d \in 1 .. m : \E k \in 1 .. Len(s[d]) : y = b[d] + k
        BY <1>3, <4>1
      <4>3. d \in 1 .. e
        BY <2>1
      <4> QED BY <4>2, <4>3
    <3>2. CASE ~(y <= c)
      <4>1. y - c \in 1 .. l /\ y = c + (y - c) /\ e \in 1 .. e
        BY <2>2, <3>2
      <4> QED BY <2>2, <4>1
    <3> QED BY <3>1, <3>2
  <2>4. m + 1 \in 0 .. n
    OBVIOUS
  <2> QED BY <2>1, <2>3, <2>4
<1>4. Good = 0 .. n
  <2>1. Good \in SUBSET (0 .. n)
    OBVIOUS
  <2> HIDE DEF Good
  <2> QED BY <1>2, <1>3, <2>1, StepByStep
<1>5. n \in Good
  <2>1. n \in 0 .. n
    OBVIOUS
  <2> HIDE DEF Good
  <2> QED BY <1>4, <2>1
<1> QED BY <1>5

(* The slots, and the entries of all listings in a row, side by side.      *)
SideBySide(slots, all) ==
  /\ Len(all) \in Nat /\ Len(slots) = Len(all)
  /\ \A x \in 1 .. Len(all) : /\ slots[x].name = all[x].name
                              /\ ~all[x].dir => slots[x].next = all[x].to

Naming(T, last) ==
  \A d \in 1 .. Len(T) : \A k \in 1 .. Len(T[d]) :
    T[d][k].name \in DOMAIN Short /\ (~T[d][k].dir => T[d][k].to \in 2 .. last)

LEMMA RowOfEntries ==
  ASSUME NEW T, WellFormed(T), NEW slots, NEW b, Laid(slots, b, T), NEW last, Naming(T, last)
  PROVE  /\ SideBySide(slots, FlattenSeq(T))
         /\ \A x \in 1 .. Len(FlattenSeq(T)) :
              /\ FlattenSeq(T)[x].name \in DOMAIN Short
              /\ ~FlattenSeq(T)[x].dir => FlattenSeq(T)[x].to \in 2 .. last
<1>1. T \in Seq(Seq(Entries)) /\ Bases(b, T, Len(T))
  BY DEF WellFormed, Laid
<1>2. PICK all : all = FlattenSeq(T)
  OBVIOUS
<1>3. Joins(all, T, b, Len(T), Entries)
  BY <1>1, <1>2, FlattenJoins
<1>4. /\ Len(T) \in Nat /\ Len(all) = b[Len(T) + 1] /\ all \in Seq(Entries)
      /\ \A d \in 1 .. Len(T) : Len(T[d]) \in Nat
      /\ \A d \in 1 .. Len(T) : \A k \in 1 .. Len(T[d]) : all[b[d] + k] = T[d][k]
  BY <1>1, <1>3, ListsTyped DEF Joins
<1>5. /\ Len(slots) = b[Len(T) + 1]
      /\ \A d \in 1 .. Len(T) : \A k \in 1 .. Len(T[d]) : slots[b[d] + k] = SlotOf(T, d, k)
  BY DEF Laid
<1>6. Len(all) \in Nat
  BY <1>4
<1>7. ASSUME NEW x \in 1 .. Len(all)
      PROVE  /\ slots[x].name = all[x].name
             /\ ~all[x].dir => slots[x].next = all[x].to
             /\ all[x].name \in DOMAIN Short
             /\ ~all[x].dir => all[x].to \in 2 .. last
  <2>1. x \in 1 .. b[Len(T) + 1]
    BY <1>4
  <2>2. PICK d \in 1 .. Len(T) : \E k \in 1 .. Len(T[d]) : x = b[d] + k
    <3>1. Len(T) \in Nat /\ \A d \in 1 .. Len(T) : Len(T[d]) \in Nat
      BY <1>4
    <3>2. Bases(b, T, Len(T))
      BY <1>1
    <3> QED BY <2>1, <3>1, <3>2, Covered
  <2>3. PICK k \in 1 .. Len(T[d]) : x = b[d] + k
    BY <2>2
  <2>4. all[x] = T[d][k]
    BY <1>4, <2>3
  <2>5. slots[x] = SlotOf(T, d, k)
    BY <1>5, <2>3
  <2>6. /\ SlotOf(T, d, k).name = T[d][k].name
        /\ ~T[d][k].dir => SlotOf(T, d, k).next = T[d][k].to
    BY DEF SlotOf
  <2>7. T[d][k].name \in DOMAIN Short /\ (~T[d][k].dir => T[d][k].to \in 2 .. last)
    BY DEF Naming
  <2> QED BY <2>4, <2>5, <2>6, <2>7, Zenon
<1>8. SideBySide(slots, all)
  BY <1>4, <1>5, <1>6, <1>7, Zenon DEF SideBySide
<1> QED BY <1>2, <1>7, <1>8

-----------------------------------------------------------------------------
(* What is true of a blob that was handed out.                             *)
Repacked ==
  /\ Dc \in Nat /\ Dc >= 4
  /\ \A o \in Lead : blob[o] = <<"src", o>>
  /\ \A f \in 2 .. EndFile : BlobTbl(f) \in Nat /\ BlobTbl(f) <= size
  /\ BlobTbl(2) = Tbl(2) /\ size \in Nat
  /\ \A f \in 2 .. LastValid : /\ FileBytes(f) = Want(f)
                               /\ Len(Want(f)) \in Nat
                               /\ BlobTbl(f + 1) = BlobTbl(f) + Len(Want(f))

LEMMA BodiesDone ==
  ASSUME Types, Measured(TRUE), Made, pc = "bodies", i > LastValid
  PROVE  Repacked
<1>1. Strict /\ Ends /\ Lined(EndFile) /\ Dc >= 4 /\ Dc \in Nat /\ i = EndFile
  BY SourceFacts DEF Made, Measured, EndFile, LastValid
<1>2. Copied(EndFile) /\ dst = NTbl(EndFile)
  BY <1>1 DEF Made
<1>3. LastValid = Dc - 2 /\ EndFile = Dc - 1 /\ size \in Nat
  BY SourceFacts DEF LastValid, EndFile, Types
<1>4. size = NTbl(EndFile)
  BY <1>1, <1>2 DEF Measured
<1>5. \A f \in 0 .. Dc : BlobTbl(f) = NTbl(f)
  BY <1>2 DEF Copied, BlobTbl
<1>6. \A f : Begin(f) = NTbl(f)
  BY DEF Begin
<1>7. ASSUME NEW f \in 2 .. EndFile
      PROVE  BlobTbl(f) \in Nat /\ BlobTbl(f) <= size
  <2>1. f \in 0 .. Dc /\ EndFile \in 2 .. EndFile /\ f <= EndFile
    BY <1>1, <1>3
  <2>2. Begin(f) \in Nat /\ Begin(f) <= Begin(EndFile)
    BY <1>1, <2>1 DEF Lined
  <2> QED BY <1>4, <1>5, <1>6, <2>1, <2>2
<1>8. BlobTbl(2) = Tbl(2)
  <2>1. 2 \in 0 .. Dc
    BY <1>1
  <2> QED BY <1>1, <1>5, <1>6, <2>1 DEF Lined
<1>9. ASSUME NEW f \in 2 .. LastValid
      PROVE  /\ FileBytes(f) = Want(f)
             /\ Len(Want(f)) \in Nat
             /\ BlobTbl(f + 1) = BlobTbl(f) + Len(Want(f))
  <2>1. f \in 0 .. Dc /\ f + 1 \in 0 .. Dc /\ f \in 2 .. EndFile - 1
    BY <1>1, <1>3
  <2>2. SizeOf(f) \in Nat /\ NTbl(f + 1) = NTbl(f) + SizeOf(f)
    BY <1>1, <1>6, <2>1 DEF Lined
  <2>3. Len(Want(f)) = SizeOf(f)
    BY <1>1, <2>2, WantIs DEF Want
  <2>4. Reads.files[f] = Want(f)
    <3>1. Extent!LastValid(source) = LastValid
      BY SourceFacts DEF Extent!LastValid, LastValid
    <3>2. Reads = Extent!Whole(source, asked, Reads.table)
      BY ReadsWhole
    <3>3. Reads.files = [g \in 2 .. LastValid |-> Want(g)]
      <4>1. Extent!Whole(source, asked, Reads.table).files
              = [g \in 2 .. LastValid |-> Want(g)]
        BY <3>1 DEF Extent!Whole, Want
      <4> QED BY <3>2, <4>1
    <3> QED BY <3>3
  <2>5. Reads.files[f] = FileBytes(f)
    BY DEF Reads
  <2> QED BY <1>5, <2>1, <2>2, <2>3, <2>4, <2>5
<1>10. \A o \in Lead : blob[o] = <<"src", o>>
  BY <1>2 DEF Copied
<1> QED BY <1>1, <1>3, <1>7, <1>8, <1>9, <1>10 DEF Repacked

LEMMA RepackedKept ==
  ASSUME UNCHANGED <<source, asked, blob, size>>
  PROVE  Repacked' <=> Repacked
<1>1. /\ Dc' = Dc /\ LastValid' = LastValid /\ EndFile' = EndFile /\ Lead' = Lead
      /\ \A f : Tbl(f)' = Tbl(f) /\ BlobTbl(f)' = BlobTbl(f) /\ FileBytes(f)' = FileBytes(f)
  BY DEF Dc, LastValid, EndFile, Lead, Tbl, BlobTbl, FileBytes
<1>2. \A f : Want(f)' = Want(f)
  BY WantKept
<1> QED BY <1>1, <1>2 DEF Repacked

LEMMA RepackedStep ==
  ASSUME PackInv, Enough /\ Delivered => Repacked, [Next]_vars
  PROVE  (Enough /\ Delivered => Repacked)'
<1>1. CASE Finish
  <2>1. Enough => Repacked
    BY <1>1, BodiesDone DEF Finish, PackInv
  <2>2. UNCHANGED <<source, asked, blob, size>>
    BY <1>1 DEF Finish
  <2> QED BY <2>1, <2>2, RepackedKept, EnoughKept
<1>2. CASE UNCHANGED vars
  <2>1. UNCHANGED <<source, asked, blob, size>> /\ (Delivered' <=> Delivered)
    BY <1>2 DEF vars, Delivered
  <2> QED BY <2>1, RepackedKept, EnoughKept
<1>3. CASE \/ Call \/ Open \/ CheckList \/ AllocTable \/ PlaceFile \/ AllocBlob
           \/ CopyPrefix \/ CopyBody
  <2>1. (\E e \in {"IO", "NO_MEM", "TRUNCATED", "INVAL"} : \E freed : Fail(e, freed))
          => ~Delivered'
    BY DEF Fail, Delivered
  <2>2. pc' # "idle" => ~Delivered'
    BY DEF Delivered
  <2>3. CASE Call
    BY <2>2, <2>3 DEF Call
  <2>4. CASE Open
    BY <2>1, <2>2, <2>4 DEF Open
  <2>5. CASE CheckList
    BY <2>1, <2>2, <2>5 DEF CheckList
  <2>6. CASE AllocTable
    BY <2>1, <2>2, <2>6 DEF AllocTable
  <2>7. CASE PlaceFile
    BY <2>1, <2>2, <2>7 DEF PlaceFile
  <2>8. CASE AllocBlob
    BY <2>1, <2>2, <2>8 DEF AllocBlob
  <2>9. CASE CopyPrefix
    BY <2>1, <2>2, <2>9 DEF CopyPrefix
  <2>10. CASE CopyBody
    BY <2>1, <2>2, <2>10 DEF CopyBody
  <2> QED BY <1>3, <2>3, <2>4, <2>5, <2>6, <2>7, <2>8, <2>9, <2>10
<1> QED BY <1>1, <1>2, <1>3 DEF Next

-----------------------------------------------------------------------------
LEMMA RangeOfFiles ==
  ASSUME Types, Repacked
  PROVE  /\ LastValid = Dc - 2 /\ EndFile = Dc - 1 /\ Dc \in Nat /\ Dc >= 4
         /\ Dc < W /\ W \in Nat /\ Table \in Nat /\ size \in Nat
         /\ Len(source.tbl) = Dc + 1 /\ source \in Volumes
<1>1. LastValid = Dc - 2 /\ EndFile = Dc - 1 /\ Dc \in Nat /\ Dc >= 4 /\ size \in Nat
  BY DEF Repacked, LastValid, EndFile
<1>2. Tbl(2) \in 0 .. W - 1 /\ Table + Dc < Tbl(2)
  <2>1. 2 \in 0 .. Dc
    BY <1>1
  <2> QED BY <1>1, <2>1, SourceFacts
<1>3. Table \in Nat /\ W \in Nat /\ Len(source.tbl) = Dc + 1
  BY SourceFacts
<1>4. Dc < W
  BY <1>1, <1>2, <1>3
<1> QED BY <1>1, <1>3, <1>4 DEF Types

(* Opened again, the blob has the slots of the source's tree.              *)
LEMMA TreeKept ==
  ASSUME Types, Repacked
  PROVE  /\ WellFormed(source.tree) /\ Naming(source.tree, LastValid)
         /\ BlobSlots = SlotsOf(source.tree)
<1>1. PICK T : T = source.tree
  OBVIOUS
<1>2. /\ LastValid = Dc - 2 /\ Dc \in Nat /\ Dc >= 4 /\ size \in Nat /\ Table \in Nat
      /\ Len(source.tbl) = Dc + 1 /\ source \in Volumes
  BY RangeOfFiles
<1>3. T \in Seq(Seq(Entries))
  BY <1>1, <1>2, ImageAssumption DEF Entries
<1>4. /\ T # << >> /\ << >> \notin Range(T)
      /\ \A d \in DOMAIN T : \A k \in DOMAIN T[d] :
           /\ T[d][k].name \in DOMAIN Short
           /\ T[d][k].to \in IF T[d][k].dir THEN DOMAIN T ELSE 2 .. LastValid
      /\ Table + Dc + 1 <= SlotOff
      /\ SlotOff + Len(SlotsOf(T)) <= source.tbl[3]
  <2>1. Len(source.tbl) > 4 /\ Len(source.tbl) - 3 = LastValid
    BY <1>2
  <2>2. Table + Len(source.tbl) = Table + Dc + 1
    BY <1>2
  <2> QED BY <1>1, <1>2, <2>1, <2>2, TreeAssumption
<1>5. /\ Len(T) \in Nat /\ DOMAIN T = 1 .. Len(T)
      /\ \A d \in 1 .. Len(T) : /\ T[d] \in Seq(Entries) /\ Len(T[d]) \in Nat
                                /\ DOMAIN T[d] = 1 .. Len(T[d])
                                /\ \A k \in 1 .. Len(T[d]) : T[d][k] \in Entries
  BY <1>3, ListsTyped
<1>6. WellFormed(T)
  <2>1. Len(T) > 0
    BY <1>3, <1>4
  <2>2. ASSUME NEW d \in 1 .. Len(T) PROVE Len(T[d]) > 0
    <3>1. T[d] \in Range(T)
      BY <1>5 DEF Range
    <3>2. PICK s \in Seq(Entries) : s = T[d] /\ s # << >>
      BY <1>4, <1>5, <3>1
    <3>3. Len(s) > 0
      BY <3>2
    <3> QED BY <3>2, <3>3
  <2> QED BY <1>3, <1>4, <1>5, <2>1, <2>2 DEF WellFormed
<1>7. Naming(T, LastValid)
  BY <1>4, <1>5 DEF Naming
<1>8. PICK slots : slots = SlotsOf(T)
  OBVIOUS
<1>9. slots \in Seq(Slots)
  BY <1>6, <1>8, TreeSlots
<1>10. PICK n \in Nat : n = Len(slots)
  BY <1>9
<1>11. SlotOff \in Nat /\ n <= size - SlotOff /\ SlotOff + n <= Tbl(2) /\ Tbl(2) \in Nat
  <2>1. 2 \in 2 .. EndFile
    BY <1>2, RangeOfFiles
  <2>2. Tbl(2) \in Nat /\ Tbl(2) <= size
    BY <2>1 DEF Repacked
  <2>3. SlotOff + n <= Tbl(2)
    BY <1>4, <1>8, <1>10 DEF Tbl
  <2>4. SlotOff \in Nat
    BY ImageAssumption
  <2> QED BY <1>2, <2>2, <2>3, <2>4
<1>12. Min({n, size - SlotOff}) = n
  <2>1. {n, size - SlotOff} \in SUBSET Int
    BY <1>2, <1>11
  <2>2. \A x \in {n, size - SlotOff} : n <= x
    BY <1>11
  <2> QED BY <2>1, <2>2, MinIs
<1>13. ASSUME NEW k \in 1 .. n
       PROVE  slots[blob[SlotOff + k - 1][2] - SlotOff + 1] = slots[k]
  <2>1. SlotOff + k - 1 \in Lead
    BY <1>2, <1>4, <1>11 DEF Lead
  <2>2. blob[SlotOff + k - 1] = <<"src", SlotOff + k - 1>>
    BY <2>1 DEF Repacked
  <2>3. (SlotOff + k - 1) - SlotOff + 1 = k
    BY <1>11
  <2> QED BY <2>2, <2>3
<1>14. BlobSlots = [k \in 1 .. n |-> slots[k]]
  <2>1. BlobSlots = [k \in 1 .. Min({n, size - SlotOff}) |->
                       slots[blob[SlotOff + k - 1][2] - SlotOff + 1]]
    BY <1>1, <1>8, <1>10 DEF BlobSlots
  <2> QED BY <1>12, <1>13, <2>1
<1>15. slots = [k \in 1 .. n |-> slots[k]]
  BY <1>9, <1>10
<1> QED BY <1>1, <1>6, <1>7, <1>8, <1>14, <1>15

(* A file read by its number.                                              *)
LEMMA FileReads ==
  ASSUME Types, Repacked, NEW f \in 2 .. LastValid
  PROVE  /\ FileRange(f) = [st |-> "OK", off |-> BlobTbl(f), n |-> Len(Want(f))]
         /\ BlobTbl(f) \in Nat /\ Len(Want(f)) \in Nat /\ BlobTbl(f) + Len(Want(f)) <= size
         /\ FileBytes(f) = Want(f)
         /\ \A k \in 1 .. Len(Want(f)) : blob[BlobTbl(f) + k - 1] = Want(f)[k]
<1>1. LastValid = Dc - 2 /\ EndFile = Dc - 1 /\ Dc \in Nat /\ Dc >= 4 /\ size \in Nat
  BY RangeOfFiles
<1>2. f \in 2 .. EndFile /\ f + 1 \in 2 .. EndFile /\ f < Dc
  BY <1>1
<1>3. /\ BlobTbl(f) \in Nat /\ BlobTbl(f + 1) \in Nat /\ BlobTbl(f + 1) <= size
      /\ FileBytes(f) = Want(f) /\ Len(Want(f)) \in Nat
      /\ BlobTbl(f + 1) = BlobTbl(f) + Len(Want(f))
  BY <1>2 DEF Repacked
<1>4. PICK o \in Nat, n \in Nat : o = BlobTbl(f) /\ n = Len(Want(f)) /\ BlobTbl(f + 1) = o + n
  BY <1>3
<1>5. FileRange(f) = [st |-> "OK", off |-> o, n |-> n]
  <2>1. ~(f >= Dc) /\ ~(o + n < o) /\ (o + n) - o = n
    BY <1>1, <1>2
  <2> QED BY <1>4, <2>1 DEF FileRange
<1>6. FileBytes(f) = [k \in 1 .. n |-> blob[o + k - 1]]
  <2>1. (o + n) - o = n
    OBVIOUS
  <2> QED BY <1>4, <2>1 DEF FileBytes
<1>7. \A k \in 1 .. n : blob[o + k - 1] = Want(f)[k]
  BY <1>3, <1>6
<1> QED BY <1>3, <1>4, <1>5, <1>7

LEMMA ReadsFile ==
  ASSUME Types, Repacked, NEW f \in 2 .. LastValid, NEW found, found.st = "OK", found.file = f
  PROVE  ReadFile(found) = [st |-> "OK", bytes |-> Want(f)]
<1>1. PICK o \in Nat, n \in Nat : o = BlobTbl(f) /\ n = Len(Want(f)) /\ o + n <= size
  BY FileReads
<1>2. FileRange(f) = [st |-> "OK", off |-> o, n |-> n]
  BY <1>1, FileReads
<1>3. ReadFile(found) = ReadAt(o, n)
  BY <1>2 DEF ReadFile
<1>4. ~(n > 0 /\ o + n > size)
  BY <1>1, RangeOfFiles
<1>5. ReadAt(o, n) = [st |-> "OK", bytes |-> [k \in 1 .. n |-> blob[o + k - 1]]]
  BY <1>4 DEF ReadAt
<1>6. [k \in 1 .. n |-> blob[o + k - 1]] = FileBytes(f)
  <2>1. f + 1 \in 2 .. EndFile
    BY RangeOfFiles
  <2>2. BlobTbl(f + 1) = o + n
    BY <1>1 DEF Repacked
  <2>3. (o + n) - o = n
    OBVIOUS
  <2> QED BY <1>1, <2>2, <2>3 DEF FileBytes
<1>7. FileBytes(f) = Want(f)
  BY FileReads
<1> QED BY <1>3, <1>5, <1>6, <1>7

LEMMA TreeIsRead ==
  ASSUME Types, Repacked
  PROVE  TreeReads
<1>1. /\ WellFormed(source.tree) /\ Naming(source.tree, LastValid)
      /\ BlobSlots = SlotsOf(source.tree)
  BY TreeKept
<1>2. PICK T : T = source.tree
  OBVIOUS
<1>3. PICK b : Laid(SlotsOf(T), b, T)
  BY <1>1, <1>2, TreeSlots DEF Laid
<1>4. SUFFICES ASSUME NEW path \in Paths,
                      NEW found, found = FindPath(BlobSlots, path),
                      NEW means, means = Meaning(source.tree, path),
                      NEW read, read = ReadFile(found)
               PROVE  /\ found.st = means.st
                      /\ found.st = "OK" => /\ read.st = "OK"
                                            /\ read.bytes = Want(means.to)
                      /\ found.st # "OK" => read.st = found.st
  BY DEF TreeReads, Want
<1>5. path \in Seq(STRING)
  BY ImageAssumption
<1>6. /\ found.st = means.st
      /\ means.st = "OK" =>
           /\ found.file = means.to
           /\ \E d \in 1 .. Len(T) : \E k \in 1 .. Len(T[d]) :
                ~T[d][k].dir /\ means.to = T[d][k].to
  BY <1>1, <1>2, <1>3, <1>4, <1>5, PathFinds
<1>7. CASE found.st = "OK"
  <2>1. means.to \in 2 .. LastValid
    BY <1>1, <1>2, <1>6, <1>7 DEF Naming
  <2>2. ReadFile(found) = [st |-> "OK", bytes |-> Want(means.to)]
    BY <1>6, <1>7, <2>1, ReadsFile
  <2> QED BY <1>4, <1>6, <1>7, <2>2
<1>8. CASE found.st # "OK"
  <2>1. read.st = found.st
    BY <1>4, <1>8 DEF ReadFile
  <2> QED BY <1>6, <1>8, <2>1
<1> QED BY <1>7, <1>8

LEMMA FlatIsRead ==
  ASSUME Types, Repacked
  PROVE  FlatReads
<1>1. /\ WellFormed(source.tree) /\ Naming(source.tree, LastValid)
      /\ BlobSlots = SlotsOf(source.tree)
  BY TreeKept
<1>2. PICK T, all, slots : T = source.tree /\ all = FlattenSeq(T) /\ slots = SlotsOf(T)
  OBVIOUS
<1>3. PICK b : Laid(slots, b, T)
  BY <1>1, <1>2, TreeSlots DEF Laid
<1>4. /\ SideBySide(slots, all)
      /\ \A x \in 1 .. Len(all) : /\ all[x].name \in DOMAIN Short
                                  /\ ~all[x].dir => all[x].to \in 2 .. LastValid
  BY <1>1, <1>2, <1>3, RowOfEntries
<1>5. PICK n \in Nat : n = Len(all) /\ n = Len(slots)
  BY <1>4 DEF SideBySide
<1>6. LastValid = Dc - 2 /\ Dc \in Nat /\ Dc >= 4 /\ FlatFirst \in Nat
  BY RangeOfFiles, ImageAssumption
<1>7. SUFFICES ASSUME NEW name \in Range(Short),
                      NEW hits, hits = {k \in FlatFirst + 1 .. n : Short[all[k].name] = name},
                      NEW found, found = FindFlat(FlatOf(slots, FlatFirst, Short, Dc), name)
               PROVE  /\ hits = {} => found.st = "NOT_FOUND"
                      /\ hits # {} /\ (\A k \in hits : ~all[k].dir) =>
                           ReadFile(found).bytes = Want(all[Min(hits)].to)
  BY <1>1, <1>2, <1>5 DEF FlatReads, Want
<1>8. name # ""
  BY ImageAssumption
<1>9. PICK flat : flat = FlatOf(slots, FlatFirst, Short, Dc)
  OBVIOUS
<1> DEFINE kept == {k \in FlatFirst + 1 .. n : Short[slots[k].name] # "" /\ slots[k].next <= Dc}
<1>10. flat = [k \in kept |-> [name |-> Short[slots[k].name], index |-> slots[k].next]]
  <2> DEFINE row == [k \in FlatFirst + 1 .. Len(slots) |->
                       [name |-> Short[slots[k].name], index |-> slots[k].next]]
  <2>1. {k \in DOMAIN row : row[k].name # "" /\ row[k].index <= Dc} = kept
    BY <1>5
  <2>2. \A k \in kept : row[k] = [name |-> Short[slots[k].name], index |-> slots[k].next]
    BY <1>5
  <2>3. flat = [k \in {k \in DOMAIN row : row[k].name # "" /\ row[k].index <= Dc} |-> row[k]]
    BY <1>9 DEF FlatOf
  <2> HIDE DEF row, kept
  <2> QED BY <2>1, <2>2, <2>3
<1>11. \A k \in FlatFirst + 1 .. n :
         /\ k \in 1 .. n /\ slots[k].name = all[k].name
         /\ ~all[k].dir => slots[k].next = all[k].to /\ all[k].to \in 2 .. LastValid
  BY <1>4, <1>5, <1>6 DEF SideBySide
<1> DEFINE got == {k \in DOMAIN flat : flat[k].name = name}
<1>12. got = {k \in kept : Short[slots[k].name] = name}
  <2> HIDE DEF kept
  <2> QED BY <1>10
<1>13. found = IF got = {} THEN [st |-> "NOT_FOUND", file |-> Missing]
               ELSE [st |-> "OK", file |-> flat[Min(got)].index]
  BY <1>7, <1>8, <1>9 DEF FindFlat
<1>14. got \subseteq hits
  BY <1>7, <1>11, <1>12
<1>15. ASSUME hits = {} PROVE found.st = "NOT_FOUND"
  <2> HIDE DEF got
  <2> QED BY <1>13, <1>14, <1>15
<1>16. ASSUME hits # {}, \A k \in hits : ~all[k].dir
       PROVE  ReadFile(found).bytes = Want(all[Min(hits)].to)
  <2>1. ASSUME NEW k \in hits PROVE k \in got
    <3>1. k \in FlatFirst + 1 .. n /\ Short[all[k].name] = name
      BY <1>7
    <3>2. slots[k].name = all[k].name /\ slots[k].next \in 2 .. LastValid
      BY <1>11, <1>16, <3>1
    <3>3. slots[k].next <= Dc
      BY <1>6, <3>2
    <3>4. k \in kept
      BY <1>8, <3>1, <3>2, <3>3
    <3> HIDE DEF got, kept
    <3> QED BY <1>12, <3>1, <3>2, <3>4
  <2>2. got = hits
    BY <1>14, <2>1
  <2>3. PICK m : m = Min(hits)
    OBVIOUS
  <2>4. m \in hits
    <3>1. hits \in SUBSET Nat
      BY <1>6, <1>7
    <3> QED BY <1>16, <2>3, <3>1, MinOf
  <2>5. m \in kept
    BY <1>12, <2>2, <2>4
  <2>6. flat[m].index = slots[m].next
    <3> HIDE DEF kept
    <3> QED BY <1>10, <2>5
  <2>7. m \in FlatFirst + 1 .. n /\ ~all[m].dir
    BY <1>7, <1>16, <2>4
  <2>8. slots[m].next = all[m].to /\ all[m].to \in 2 .. LastValid
    BY <1>11, <2>7
  <2> HIDE DEF got, kept
  <2>9. found = [st |-> "OK", file |-> all[m].to]
    BY <1>13, <1>16, <2>2, <2>3, <2>6, <2>8
  <2>10. ReadFile(found) = [st |-> "OK", bytes |-> Want(all[m].to)]
    BY <2>8, <2>9, ReadsFile
  <2> QED BY <2>3, <2>10
<1> QED BY <1>15, <1>16

-----------------------------------------------------------------------------
LEMMA SpansCount ==
  ASSUME Types, Repacked
  PROVE  Spans
<1>1. /\ WellFormed(source.tree) /\ Naming(source.tree, LastValid)
      /\ BlobSlots = SlotsOf(source.tree)
  BY TreeKept
<1>2. PICK T, slots : T = source.tree /\ slots = BlobSlots
  OBVIOUS
<1>3. PICK b : Laid(slots, b, T)
  BY <1>1, <1>2, TreeSlots DEF Laid
<1>4. LastValid = Dc - 2 /\ Dc \in Nat /\ Dc >= 4 /\ W \in Nat /\ Dc < W
  BY RangeOfFiles
<1>5. SUFFICES ASSUME NEW p \in Paths, NEW q \in Paths,
                      Meaning(T, p).st = "OK", Meaning(T, q).st = "OK",
                      NEW x, x = Meaning(T, p).to, NEW y, y = Meaning(T, q).to, x < y
               PROVE  Span(slots, p, q, W).n = Cardinality({f \in 0 .. Dc : x < f /\ f < y})
  BY <1>2 DEF Spans
<1>6. p \in Seq(STRING) /\ q \in Seq(STRING)
  BY ImageAssumption
<1>7. /\ Stat(slots, p).st = "OK" /\ At(slots, Stat(slots, p).slot).next = x
      /\ \E d \in 1 .. Len(T) : \E k \in 1 .. Len(T[d]) : ~T[d][k].dir /\ x = T[d][k].to
  BY <1>1, <1>2, <1>3, <1>5, <1>6, PathFinds
<1>8. /\ Stat(slots, q).st = "OK" /\ At(slots, Stat(slots, q).slot).next = y
      /\ \E d \in 1 .. Len(T) : \E k \in 1 .. Len(T[d]) : ~T[d][k].dir /\ y = T[d][k].to
  BY <1>1, <1>2, <1>3, <1>5, <1>6, PathFinds
<1>9. x \in 2 .. LastValid /\ y \in 2 .. LastValid
  BY <1>1, <1>2, <1>7, <1>8 DEF Naming
<1>10. Span(slots, p, q, W).n = (y - x - 1) % W
  BY <1>7, <1>8 DEF Span
<1>11. x \in Nat /\ y \in Nat /\ y - x - 1 \in 0 .. W - 1 /\ y <= Dc
  BY <1>4, <1>5, <1>9
<1>12. (y - x - 1) % W = y - x - 1
  BY <1>4, <1>11
<1>13. {f \in 0 .. Dc : x < f /\ f < y} = (x + 1) .. (y - 1)
  BY <1>4, <1>11
<1>14. Cardinality((x + 1) .. (y - 1)) = y - x - 1
  <2>1. PICK lo \in Int, hi \in Int : lo = x + 1 /\ hi = y - 1
    BY <1>11
  <2>2. Cardinality(lo .. hi) = IF lo > hi THEN 0 ELSE hi - lo + 1
    BY FS_Interval
  <2>3. (IF lo > hi THEN 0 ELSE hi - lo + 1) = y - x - 1
    BY <1>5, <1>11, <2>1
  <2> QED BY <2>1, <2>2, <2>3
<1> QED BY <1>10, <1>12, <1>13, <1>14

LEMMA Aligned ==
  ASSUME NEW x \in Nat
  PROVE  Align(x) \in Nat /\ Align(x) <= x /\ x < Align(x) + SectorCells
<1>1. SectorCells \in Nat /\ SectorCells > 0
  <2>1. SectorCells \in Nat \ {0}
    BY ImageAssumption, Zenon
  <2> QED BY <2>1
<1>2. PICK s \in Nat : s = SectorCells /\ s > 0
  BY <1>1
<1>3. PICK q \in Nat : q = x \div s
  BY <1>2
<1>4. x = (s * q) + (x % s) /\ x % s \in 0 .. s - 1
  BY <1>2, <1>3
<1>5. q * s \in Nat /\ q * s <= x /\ x < q * s + s
  BY <1>2, <1>3, <1>4
<1> QED BY <1>2, <1>3, <1>5 DEF Align

LEMMA WindowsShow ==
  ASSUME Types, Repacked
  PROVE  Windows
<1>1. SUFFICES ASSUME NEW f \in 2 .. LastValid,
                      NEW w, w = Window(f), NEW r, r = FileRange(f),
                      NEW want, want = Want(f), w.st = "OK"
               PROVE  /\ Len(w.bytes) <= r.off - Align(r.off) + Len(want)
                      /\ r.off - Align(r.off) < SectorCells
                      /\ \A k \in r.off - Align(r.off) + 1 .. Len(w.bytes) :
                           w.bytes[k] = want[k - (r.off - Align(r.off))]
                      /\ r.off - Align(r.off) = 0 =>
                           Len(want) - Len(w.bytes) \in 0 .. SectorCells - 1
  BY DEF Windows, Want
<1>2. PICK o \in Nat, n \in Nat :
        /\ o = BlobTbl(f) /\ n = Len(want)
        /\ \A k \in 1 .. n : blob[o + k - 1] = want[k]
  BY <1>1, FileReads
<1>3. r = [st |-> "OK", off |-> o, n |-> n]
  BY <1>1, <1>2, FileReads
<1>4. PICK a \in Nat, e \in Nat, s \in Nat :
        /\ a = Align(o) /\ e = Align(o + n) /\ s = SectorCells
        /\ a <= o /\ o < a + s /\ e <= o + n /\ o + n < e + s
  <2>1. SectorCells \in Nat \ {0}
    BY ImageAssumption, Zenon
  <2>2. PICK s \in Nat : s = SectorCells
    BY <2>1
  <2>3. PICK a \in Nat : a = Align(o) /\ a <= o /\ o < a + s
    BY <2>2, Aligned
  <2>4. PICK x \in Nat : x = o + n
    OBVIOUS
  <2>5. PICK e \in Nat : e = Align(x) /\ e <= x /\ x < e + s
    BY <2>2, Aligned
  <2> QED BY <2>2, <2>3, <2>4, <2>5
<1>5. Window(f) = IF e < o THEN [st |-> "TRUNCATED", bytes |-> << >>] ELSE ReadAt(a, e - o)
  BY <1>1, <1>3, <1>4 DEF Window, WindowLen
<1>6. ~(e < o)
  BY <1>1, <1>5
<1>7. PICK m \in Nat : m = e - o
  BY <1>6
<1>8. w = ReadAt(a, m)
  BY <1>1, <1>5, <1>6, <1>7
<1>9. w.bytes = [k \in 1 .. m |-> blob[a + k - 1]]
  BY <1>1, <1>8 DEF ReadAt
<1>10. Len(w.bytes) = m
  <2>1. PICK t : t = w.bytes
    OBVIOUS
  <2>2. DOMAIN t = 1 .. m /\ t = [k \in 1 .. m |-> t[k]]
    BY <1>9, <2>1
  <2> QED BY <2>1, <2>2, LenGiven
<1>11. r.off = o /\ r.off - Align(r.off) = o - a
  BY <1>3, <1>4
<1>12. m <= o - a + n /\ o - a < s /\ (o - a = 0 => n - m \in 0 .. s - 1)
  BY <1>4, <1>7
<1>13. ASSUME NEW k \in o - a + 1 .. m PROVE w.bytes[k] = want[k - (o - a)]
  <2>1. k \in 1 .. m /\ k - (o - a) \in 1 .. n /\ o + (k - (o - a)) - 1 = a + k - 1
    BY <1>4, <1>7
  <2>2. w.bytes[k] = blob[a + k - 1]
    BY <1>9, <2>1
  <2> QED BY <1>2, <2>1, <2>2
<1> QED BY <1>2, <1>4, <1>10, <1>11, <1>12, <1>13

(* Whatever was asked, if the sizes sum up to an offset, and however the   *)
(* bodies were moved, the repacked volume is read as the source was: every *)
(* path finds the replacement asked for or the file it found before, or    *)
(* fails as before; a flat name that files alone have finds the first of   *)
(* them; a span counts the files between two; and a sector window holds    *)
(* nothing behind its file (gt2_vol_pack, vol.c:445-592, read by           *)
(* vol.c:101-386 and asset.c:114-148).                                     *)
THEOREM PathsKept == Spec => []PathsRead
<1> DEFINE Inv == PackInv /\ (Enough /\ Delivered => Repacked)
<1>1. Init => Inv
  BY KeptInit DEF Init, Delivered
<1>2. Inv /\ [Next]_vars => Inv'
  BY KeptStep, RepackedStep
<1>3. Inv => PathsRead
  BY TreeIsRead, FlatIsRead, SpansCount, WindowsShow DEF PathsRead, PackInv, Enough
<1> QED BY <1>1, <1>2, <1>3, PTL DEF Spec
-----------------------------------------------------------------------------
(* What the tables are built from.  A listing as it is read, and the       *)
(* directory it is read from.                                              *)
Lists(L, list) ==
  /\ list \in Seq(Entries) /\ L \in Seq(Slots) /\ Len(L) = Len(list) /\ Len(list) > 0
  /\ \A k \in 1 .. Len(list) :
       /\ L[k].name = list[k].name /\ L[k].dir = list[k].dir /\ L[k].end = (k = Len(list))
       /\ list[k].name \in DOMAIN Short
       /\ ~list[k].dir => L[k].next = list[k].to /\ list[k].to > 1

(* The listing of a directory has its entries, flagged at the last.        *)
LEMMA ListFromReads ==
  ASSUME NEW T, WellFormed(T), NEW slots, NEW b, Laid(slots, b, T), NEW last, Naming(T, last),
         NEW d \in 1 .. Len(T)
  PROVE  \E L : ListFrom(slots, b[d]) = [st |-> "OK", list |-> L] /\ Lists(L, T[d])
<1>1. PICK l \in Nat : l = Len(T[d]) /\ l > 0
  BY ListsTyped DEF WellFormed
<1>2. PICK c \in Nat : c = b[d] /\ c + l <= Len(slots) /\ Len(slots) \in Nat
  BY <1>1, Inside
<1>3. slots \in Seq(Slots) /\ \A k \in 1 .. l : slots[c + k] = SlotOf(T, d, k)
  BY <1>1, <1>2 DEF Laid
<1> DEFINE ends == {x \in From(slots, c) : At(slots, x).end}
           L == SubSeq(slots, c + 1, c + l)
<1>4. ASSUME NEW x \in From(slots, c), x < c + l
      PROVE  At(slots, x).end = (x = c + l - 1)
  <2>1. x \in c .. Len(slots) - 1 /\ x \in Int
    BY <1>2 DEF From
  <2>2. PICK k \in 1 .. l : k = x - c + 1
    <3>1. x - c + 1 \in 1 .. l
      BY <1>1, <1>2, <1>4, <2>1
    <3> QED BY <3>1
  <2>3. x + 1 = c + k /\ (x = c + l - 1 <=> k = l)
    <3>1. x + 1 = c + k
      BY <1>2, <2>1, <2>2
    <3>2. x = c + l - 1 => k = l
      BY <1>1, <1>2, <2>1, <2>2
    <3>3. k = l => x = c + l - 1
      <4> HAVE k = l
      <4>1. x + 1 = c + l
        BY <3>1
      <4> QED BY <1>1, <1>2, <2>1, <4>1
    <3> QED BY <3>1, <3>2, <3>3
  <2>4. At(slots, x) = SlotOf(T, d, k)
    BY <1>3, <2>3 DEF At
  <2>5. SlotOf(T, d, k).end = (k = Len(T[d]))
    BY DEF SlotOf
  <2> QED BY <1>1, <2>3, <2>4, <2>5, Zenon
<1>5. c + l - 1 \in ends /\ \A x \in ends : c + l - 1 <= x
  <2>1. c + l - 1 \in From(slots, c) /\ c + l - 1 < c + l
    BY <1>1, <1>2 DEF From
  <2>2. c + l - 1 \in ends
    BY <1>4, <2>1
  <2>3. ASSUME NEW x \in ends PROVE c + l - 1 <= x
    <3>1. x \in From(slots, c) /\ At(slots, x).end
      OBVIOUS
    <3>2. x \in Int
      BY <1>2, <3>1 DEF From
    <3>3. x < c + l => x = c + l - 1
      BY <1>4, <3>1
    <3> QED BY <1>1, <1>2, <3>2, <3>3
  <2> QED BY <2>2, <2>3
<1>6. Min(ends) = c + l - 1
  <2>1. ends \in SUBSET Int
    BY DEF From
  <2> HIDE DEF ends
  <2> QED BY <1>5, <2>1, MinIs
<1>7. ListFrom(slots, b[d]) = [st |-> "OK", list |-> L]
  <2>1. ListFrom(slots, c) = IF ends = {} THEN [st |-> "TRUNCATED", list |-> << >>]
                             ELSE [st |-> "OK", list |-> SubSeq(slots, c + 1, Min(ends) + 1)]
    BY DEF ListFrom
  <2>2. (c + l - 1) + 1 = c + l /\ ends # {}
    BY <1>1, <1>2, <1>5
  <2> HIDE DEF ends
  <2> QED BY <1>2, <1>6, <2>1, <2>2
<1>8. L \in Seq(Slots) /\ Len(L) = l /\ \A k \in 1 .. l : L[k] = SlotOf(T, d, k)
  <2>1. c + 1 \in Int /\ c + l \in Int /\ (c + l) - (c + 1) + 1 = l /\ c + 1 <= c + l
        /\ c + 1 \in 1 .. Len(slots) /\ c + l \in 1 .. Len(slots)
    BY <1>1, <1>2
  <2>2. L \in Seq(Slots) /\ Len(L) = l
    BY <1>3, <2>1, SubSeqProperties
  <2>3. ASSUME NEW k \in 1 .. l PROVE L[k] = slots[c + k]
    <3>1. (c + 1) + k - 1 = c + k
      BY <1>2
    <3>2. L[k] = slots[(c + 1) + k - 1]
      BY <1>3, <2>1, SubSeqProperties
    <3> QED BY <3>1, <3>2
  <2> HIDE DEF L
  <2> QED BY <1>3, <2>2, <2>3
<1> HIDE DEF L
<1>9. T[d] \in Seq(Entries)
  BY ListsTyped DEF WellFormed
<1>10. ASSUME NEW k \in 1 .. Len(T[d])
       PROVE  /\ L[k].name = T[d][k].name /\ L[k].dir = T[d][k].dir /\ L[k].end = (k = Len(T[d]))
              /\ T[d][k].name \in DOMAIN Short
              /\ ~T[d][k].dir => L[k].next = T[d][k].to /\ T[d][k].to > 1
  <2>1. L[k] = SlotOf(T, d, k)
    BY <1>1, <1>8
  <2>2. /\ SlotOf(T, d, k).name = T[d][k].name /\ SlotOf(T, d, k).dir = T[d][k].dir
        /\ SlotOf(T, d, k).end = (k = Len(T[d]))
    BY DEF SlotOf
  <2>3. ~T[d][k].dir => SlotOf(T, d, k).next = T[d][k].to
    BY DEF SlotOf
  <2>4. T[d][k].name \in DOMAIN Short /\ (~T[d][k].dir => T[d][k].to \in 2 .. last)
    BY DEF Naming
  <2>5. ~T[d][k].dir => T[d][k].to > 1
    BY <2>4
  <2> QED BY <2>1, <2>2, <2>3, <2>4, <2>5, Zenon
<1>11. Lists(L, T[d])
  BY <1>1, <1>8, <1>9, <1>10 DEF Lists
<1> QED BY <1>7, <1>11

(* What a path lists: the directory it means, or why not.                  *)
LEMMA PathLists ==
  ASSUME NEW T, WellFormed(T), NEW slots, NEW b, Laid(slots, b, T), NEW last, Naming(T, last),
         NEW path \in Seq(STRING), NEW means, means = Meaning(T, path)
  PROVE  /\ means.st = "IS_DIR" =>
              /\ means.to \in 1 .. Len(T) /\ path # << >>
              /\ \E L : Listing(slots, path) = [st |-> "OK", list |-> L] /\ Lists(L, T[means.to])
         /\ means.st # "IS_DIR" => FindPath(slots, path).st # "IS_DIR"
         /\ means.st = "IS_DIR" => FindPath(slots, path).st = "IS_DIR"
         /\ means.st \notin {"OK", "IS_DIR"} => FindPath(slots, path).file = Missing
         /\ means.st # "IS_DIR" /\ path # << >> =>
              Listing(slots, path).st = IF means.st = "OK" THEN "IS_DIR" ELSE means.st
<1>1. PICK hit : hit = Stat(slots, path)
  OBVIOUS
<1>2. Agree(T, b, hit, means)
  BY <1>1, StatAgrees
<1>3. path # << >> =>
        Listing(slots, path) =
          IF hit.st # "OK" THEN [st |-> hit.st, list |-> << >>]
          ELSE IF ~At(slots, hit.slot).dir THEN [st |-> "IS_DIR", list |-> << >>]
          ELSE ListFrom(slots, At(slots, hit.slot).next)
  BY <1>1 DEF Listing
<1>4. path = << >> => hit = Fails("INVAL")
  BY <1>1 DEF Stat
<1>5. FindPath(slots, path) =
        IF hit.st # "OK" THEN [st |-> hit.st, file |-> Missing]
        ELSE IF At(slots, hit.slot).dir THEN [st |-> "IS_DIR", file |-> Missing]
        ELSE [st |-> "OK", file |-> At(slots, hit.slot).next]
  BY <1>1 DEF FindPath
<1>6. CASE \E e \in {"INVAL", "NOT_FOUND"} : hit = Fails(e) /\ means = Nowhere(e)
  <2>1. PICK e \in {"INVAL", "NOT_FOUND"} : hit.st = e /\ means.st = e
    BY <1>6 DEF Fails, Nowhere
  <2>2. FindPath(slots, path) = [st |-> e, file |-> Missing]
    BY <1>5, <2>1
  <2>3. path # << >> => Listing(slots, path) = [st |-> e, list |-> << >>]
    BY <1>3, <2>1
  <2> QED BY <2>1, <2>2, <2>3
<1>7. CASE \E d \in 1 .. Len(T) : \E k \in 1 .. Len(T[d]) :
             hit = Hit(b[d] + k - 1) /\ means = EntryMeans(T[d][k])
  <2>1. PICK d \in 1 .. Len(T) : \E k \in 1 .. Len(T[d]) :
          hit = Hit(b[d] + k - 1) /\ means = EntryMeans(T[d][k])
    BY <1>7
  <2>2. PICK k \in 1 .. Len(T[d]) :
          hit = Hit(b[d] + k - 1) /\ means = EntryMeans(T[d][k])
    BY <2>1
  <2>3. hit.st = "OK" /\ hit.slot = b[d] + k - 1 /\ path # << >>
    <3>1. hit.st = "OK" /\ hit.slot = b[d] + k - 1
      BY <2>2 DEF Hit
    <3> QED BY <1>4, <3>1 DEF Fails
  <2>4. At(slots, hit.slot) = SlotOf(T, d, k) /\ At(slots, hit.slot).dir = T[d][k].dir
    <3>1. At(slots, hit.slot) = SlotOf(T, d, k)
      BY <2>3, SlotAt
    <3> QED BY <3>1 DEF SlotOf
  <2>5. CASE T[d][k].dir
    <3>1. means.st = "IS_DIR" /\ means.to = T[d][k].to
      BY <2>2, <2>5 DEF EntryMeans
    <3>2. means.to \in 1 .. Len(T) /\ At(slots, hit.slot).next = b[means.to]
      BY <2>4, <2>5, <3>1, SlotAt
    <3>3. FindPath(slots, path) = [st |-> "IS_DIR", file |-> Missing]
      BY <1>5, <2>3, <2>4, <2>5
    <3>4. Listing(slots, path) = ListFrom(slots, b[means.to])
      BY <1>3, <2>3, <2>4, <2>5, <3>2
    <3>5. \E L : ListFrom(slots, b[means.to]) = [st |-> "OK", list |-> L] /\ Lists(L, T[means.to])
      BY <3>2, ListFromReads
    <3> QED BY <2>3, <3>1, <3>2, <3>3, <3>4, <3>5
  <2>6. CASE ~T[d][k].dir
    <3>1. means.st = "OK"
      BY <2>2, <2>6 DEF EntryMeans
    <3>2. FindPath(slots, path).st = "OK"
      BY <1>5, <2>3, <2>4, <2>6
    <3>3. Listing(slots, path) = [st |-> "IS_DIR", list |-> << >>]
      BY <1>3, <2>3, <2>4, <2>6
    <3> QED BY <3>1, <3>2, <3>3
  <2> QED BY <2>5, <2>6
<1> QED BY <1>2, <1>6, <1>7 DEF Agree

(* The index cache pins what the tree names.                               *)
LEMMA PinsKnown ==
  ASSUME Types, Repacked
  PROVE  Pins
<1>1. PICK T : T = source.tree
  OBVIOUS
<1>2. WellFormed(T) /\ Naming(T, LastValid) /\ BlobSlots = SlotsOf(T)
  BY <1>1, TreeKept
<1>3. PICK b : Laid(SlotsOf(T), b, T)
  BY <1>2, TreeSlots DEF Laid
<1> SUFFICES ASSUME NEW path \in Paths, NEW means, means = Meaning(T, path),
                    ~(means.st = "IS_DIR" /\ Len(T[means.to]) > 1 /\ T[means.to][2].dir)
             PROVE  Pin(BlobSlots, path) = PinOf(T, path)
  BY <1>1 DEF Pins
<1>4. path \in Seq(STRING)
  BY ImageAssumption
<1> DEFINE found == FindPath(BlobSlots, path)
<1>5. Pin(BlobSlots, path) = IF found.st = "IS_DIR" THEN FollowsLink(ListDir(BlobSlots, path))
                             ELSE found.file
  BY DEF Pin
<1>6. CASE means.st = "OK"
  <2>1. found.st = "OK" /\ found.file = means.to
    BY <1>2, <1>3, <1>4, <1>6, PathFinds
  <2>2. PinOf(T, path) = means.to
    BY <1>6 DEF PinOf
  <2> QED BY <1>5, <2>1, <2>2
<1>7. CASE means.st = "IS_DIR"
  <2>1. found.st = "IS_DIR" /\ means.to \in 1 .. Len(T)
    BY <1>2, <1>3, <1>4, <1>7, PathLists
  <2>2. PICK L : Listing(BlobSlots, path) = [st |-> "OK", list |-> L] /\ Lists(L, T[means.to])
    BY <1>2, <1>3, <1>4, <1>7, PathLists
  <2>3. PICK list : list = T[means.to]
    OBVIOUS
  <2>4. Pin(BlobSlots, path) = IF Len(L) < 2 THEN Missing ELSE L[2].next
    BY <1>5, <2>1, <2>2 DEF ListDir, FollowsLink
  <2>5. Len(L) = Len(list) /\ Len(list) \in Nat
        /\ (Len(list) > 1 => L[2].next = list[2].to)
    <3>1. Len(L) = Len(list) /\ Len(list) \in Nat
      BY <2>2, <2>3 DEF Lists
    <3>2. Len(list) > 1 => 2 \in 1 .. Len(list)
      BY <3>1
    <3> QED BY <1>7, <2>2, <2>3, <3>1, <3>2 DEF Lists
  <2>6. PinOf(T, path) = IF Len(list) > 1 THEN list[2].to ELSE Missing
    BY <1>7, <2>3 DEF PinOf
  <2> QED BY <2>4, <2>5, <2>6
<1>8. CASE means.st \notin {"OK", "IS_DIR"}
  <2>1. found.st # "IS_DIR" /\ found.file = Missing
    BY <1>2, <1>3, <1>4, <1>8, PathLists
  <2>2. PinOf(T, path) = Missing
    BY <1>8 DEF PinOf
  <2> QED BY <1>5, <2>1, <2>2
<1> QED BY <1>6, <1>7, <1>8

-----------------------------------------------------------------------------
(* The halving search over n hashes in order.                              *)
Rising(tab, n) ==
  /\ n \in Nat \ {0} /\ Len(tab) = n
  /\ \A k \in 1 .. n : tab[k].hash \in Nat
  /\ \A j, k \in 1 .. n : j < k => tab[j].hash < tab[k].hash

Seeks(f, tab, h, n) ==
  f = [p \in (0 .. n) \X (0 .. n) |->
        LET lo == p[1]  hi == p[2]  mid == (lo + hi) \div 2 IN
        IF mid >= n THEN -1
        ELSE IF tab[mid + 1].hash = h THEN mid
        ELSE IF lo >= hi THEN -1
        ELSE IF tab[mid + 1].hash >= h THEN f[<<lo, mid>>]
        ELSE f[<<mid + 1, hi>>]]

(* What there is to find from lo to hi.                                    *)
Between(tab, h, n, lo, hi) == {k \in lo .. hi : k < n /\ tab[k + 1].hash = h}
Found(tab, h, n, lo, hi) ==
  IF Between(tab, h, n, lo, hi) = {} THEN -1 ELSE CHOOSE k \in Between(tab, h, n, lo, hi) : TRUE
Halved(tab, h, n) ==
  [p \in (0 .. n) \X (0 .. n) |->
     LET mid == (p[1] + p[2]) \div 2 IN
     IF p[1] <= p[2] THEN Found(tab, h, n, p[1], p[2])
     ELSE IF mid < n /\ tab[mid + 1].hash = h THEN mid ELSE -1]

(* The search is the function its text describes, from the whole table.    *)
LEMMA CarFindIs ==
  ASSUME NEW tab, NEW h, NEW n \in Nat \ {0}, Len(tab) = n
  PROVE  CarFind(tab, h) = (CHOOSE f : Seeks(f, tab, h, n))[<<0, n>>]
BY DEF CarFind, Seeks

LEMMA SeeksAt ==
  ASSUME NEW f, NEW tab, NEW h, NEW n \in Nat, Seeks(f, tab, h, n),
         NEW lo \in 0 .. n, NEW hi \in 0 .. n
  PROVE  f[<<lo, hi>>] = LET mid == (lo + hi) \div 2 IN
        IF mid >= n THEN -1
        ELSE IF tab[mid + 1].hash = h THEN mid
        ELSE IF lo >= hi THEN -1
        ELSE IF tab[mid + 1].hash >= h THEN f[<<lo, mid>>]
        ELSE f[<<mid + 1, hi>>]
BY DEF Seeks

LEMMA HalvedAt ==
  ASSUME NEW tab, NEW h, NEW n \in Nat, NEW lo \in 0 .. n, NEW hi \in 0 .. n
  PROVE  Halved(tab, h, n)[<<lo, hi>>] =
           LET mid == (lo + hi) \div 2 IN
           IF lo <= hi THEN Found(tab, h, n, lo, hi)
           ELSE IF mid < n /\ tab[mid + 1].hash = h THEN mid ELSE -1
BY DEF Halved

(* Where the hashes rise, there is at most one place to find.              *)
LEMMA FoundAt ==
  ASSUME NEW tab, NEW n, Rising(tab, n), NEW h \in Nat, NEW lo \in 0 .. n, NEW hi \in 0 .. n,
         NEW k \in lo .. hi, k < n, tab[k + 1].hash = h
  PROVE  Found(tab, h, n, lo, hi) = k
<1> DEFINE B == Between(tab, h, n, lo, hi)
<1>1. k \in B
  BY DEF Between
<1>2. ASSUME NEW j \in B PROVE j = k
  <2>1. j \in lo .. hi /\ j < n /\ tab[j + 1].hash = h
    BY DEF Between
  <2>2. j + 1 \in 1 .. n /\ k + 1 \in 1 .. n
    BY <2>1 DEF Rising
  <2>3. ~(j + 1 < k + 1) /\ ~(k + 1 < j + 1)
    BY <2>1, <2>2 DEF Rising
  <2> QED BY <2>1, <2>3
<1> HIDE DEF B
<1>3. \E x \in B : TRUE
  BY <1>1
<1>4. (CHOOSE x \in B : TRUE) \in B
  BY <1>3
<1>5. Found(tab, h, n, lo, hi) = IF B = {} THEN -1 ELSE CHOOSE x \in B : TRUE
  BY DEF Found, B
<1> QED BY <1>1, <1>2, <1>4, <1>5

LEMMA FoundNone ==
  ASSUME NEW tab, NEW n, NEW h, NEW lo, NEW hi,
         \A k \in lo .. hi : k < n => tab[k + 1].hash # h
  PROVE  Found(tab, h, n, lo, hi) = -1
BY DEF Found, Between

LEMMA Mids ==
  ASSUME NEW n \in Nat, NEW lo \in 0 .. n, NEW hi \in 0 .. n
  PROVE  LET mid == (lo + hi) \div 2 IN
         /\ mid \in 0 .. n
         /\ lo <= hi => lo <= mid /\ mid <= hi
         /\ lo < hi => mid < hi
         /\ lo <= hi /\ mid >= n => lo = n /\ hi = n
OBVIOUS

(* Halving keeps what there is to find.                                    *)
LEMMA FoundStep ==
  ASSUME NEW tab, NEW n, Rising(tab, n), NEW h \in Nat, NEW lo \in 0 .. n, NEW hi \in 0 .. n,
         lo <= hi
  PROVE  Found(tab, h, n, lo, hi) =
           LET mid == (lo + hi) \div 2 IN
           IF mid >= n THEN -1
           ELSE IF tab[mid + 1].hash = h THEN mid
           ELSE IF lo >= hi THEN -1
           ELSE IF tab[mid + 1].hash >= h THEN Found(tab, h, n, lo, mid)
           ELSE Found(tab, h, n, mid + 1, hi)
<1>1. n \in Nat
  BY DEF Rising
<1>2. PICK mid \in 0 .. n : /\ mid = (lo + hi) \div 2 /\ lo <= mid /\ mid <= hi
                            /\ lo < hi => mid < hi
                            /\ mid >= n => lo = n /\ hi = n
  BY <1>1, Mids
<1> SUFFICES Found(tab, h, n, lo, hi) =
               IF mid >= n THEN -1
               ELSE IF tab[mid + 1].hash = h THEN mid
               ELSE IF lo >= hi THEN -1
               ELSE IF tab[mid + 1].hash >= h THEN Found(tab, h, n, lo, mid)
               ELSE Found(tab, h, n, mid + 1, hi)
  BY <1>2
<1>3. CASE mid >= n
  <2>1. \A k \in lo .. hi : k < n => tab[k + 1].hash # h
    BY <1>1, <1>2, <1>3
  <2> QED BY <1>3, <2>1, FoundNone
<1>4. CASE mid < n /\ tab[mid + 1].hash = h
  <2>1. mid \in lo .. hi
    BY <1>1, <1>2
  <2>2. Found(tab, h, n, lo, hi) = mid
    BY <1>4, <2>1, FoundAt
  <2> QED BY <1>1, <1>2, <1>4, <2>2
<1>5. CASE mid < n /\ tab[mid + 1].hash # h /\ lo >= hi
  <2>1. \A k \in lo .. hi : k < n => tab[k + 1].hash # h
    BY <1>1, <1>2, <1>5
  <2>2. Found(tab, h, n, lo, hi) = -1
    BY <2>1, FoundNone
  <2> QED BY <1>1, <1>2, <1>5, <2>2
<1>6. CASE mid < n /\ tab[mid + 1].hash # h /\ lo < hi
  <2>1. mid + 1 \in 0 .. n /\ mid + 1 \in 1 .. n
    BY <1>1, <1>2, <1>6
  <2>2. \A k \in 0 .. n : k < n => k + 1 \in 1 .. n /\ tab[k + 1].hash \in Nat
    BY <1>1 DEF Rising
  <2>3. \A k \in 0 .. n : k < n /\ k < mid => tab[k + 1].hash < tab[mid + 1].hash
    <3> SUFFICES ASSUME NEW k \in 0 .. n, k < n, k < mid
                 PROVE  tab[k + 1].hash < tab[mid + 1].hash
      OBVIOUS
    <3>1. k + 1 \in 1 .. n /\ k + 1 < mid + 1
      BY <1>1, <1>2, <2>2
    <3> QED BY <2>1, <3>1 DEF Rising
  <2>4. \A k \in 0 .. n : k < n /\ mid < k => tab[mid + 1].hash < tab[k + 1].hash
    <3> SUFFICES ASSUME NEW k \in 0 .. n, k < n, mid < k
                 PROVE  tab[mid + 1].hash < tab[k + 1].hash
      OBVIOUS
    <3>1. k + 1 \in 1 .. n /\ mid + 1 < k + 1
      BY <1>1, <1>2, <2>2
    <3> QED BY <2>1, <3>1 DEF Rising
  <2>5. tab[mid + 1].hash \in Nat
    BY <1>6, <2>2
  <2>6. CASE tab[mid + 1].hash >= h
    <3>1. ASSUME NEW k \in lo .. hi, k < n, tab[k + 1].hash = h PROVE k \in lo .. mid
      <4>1. k \in 0 .. n
        BY <1>1
      <4>2. ~(mid < k)
        BY <2>2, <2>4, <2>5, <2>6, <3>1, <4>1
      <4> QED BY <1>1, <1>2, <4>1, <4>2
    <3>2. Found(tab, h, n, lo, hi) = Found(tab, h, n, lo, mid)
      <4>1. CASE \E k \in lo .. hi : k < n /\ tab[k + 1].hash = h
        <5>1. PICK k \in lo .. hi : k < n /\ tab[k + 1].hash = h
          BY <4>1
        <5>2. k \in lo .. mid
          BY <3>1, <5>1
        <5> QED BY <5>1, <5>2, FoundAt
      <4>2. CASE ~ \E k \in lo .. hi : k < n /\ tab[k + 1].hash = h
        <5>1. \A k \in lo .. mid : k \in lo .. hi
          BY <1>1, <1>2
        <5> QED BY <4>2, <5>1, FoundNone
      <4> QED BY <4>1, <4>2
    <3> QED BY <1>1, <1>2, <1>6, <2>6, <3>2
  <2>7. CASE ~(tab[mid + 1].hash >= h)
    <3>1. ASSUME NEW k \in lo .. hi, k < n, tab[k + 1].hash = h PROVE k \in mid + 1 .. hi
      <4>1. k \in 0 .. n
        BY <1>1
      <4>2. ~(k < mid) /\ k # mid
        BY <1>2, <2>2, <2>3, <2>5, <2>7, <3>1, <4>1
      <4> QED BY <1>1, <1>2, <4>1, <4>2
    <3>2. Found(tab, h, n, lo, hi) = Found(tab, h, n, mid + 1, hi)
      <4>1. CASE \E k \in lo .. hi : k < n /\ tab[k + 1].hash = h
        <5>1. PICK k \in lo .. hi : k < n /\ tab[k + 1].hash = h
          BY <4>1
        <5>2. k \in mid + 1 .. hi
          BY <3>1, <5>1
        <5> QED BY <2>1, <5>1, <5>2, FoundAt
      <4>2. CASE ~ \E k \in lo .. hi : k < n /\ tab[k + 1].hash = h
        <5>1. \A k \in mid + 1 .. hi : k \in lo .. hi
          BY <1>1, <1>2
        <5> QED BY <4>2, <5>1, FoundNone
      <4> QED BY <4>1, <4>2
    <3> QED BY <1>1, <1>2, <1>6, <2>7, <3>2
  <2> QED BY <2>6, <2>7
<1> QED BY <1>1, <1>2, <1>3, <1>4, <1>5, <1>6

(* So the search as written has a function that satisfies it.              *)
LEMMA SeekExists ==
  ASSUME NEW tab, NEW n, Rising(tab, n), NEW h \in Nat
  PROVE  Seeks(Halved(tab, h, n), tab, h, n)
<1> DEFINE f == Halved(tab, h, n)
           Turn(lo, hi) ==
             LET mid == (lo + hi) \div 2 IN
             IF mid >= n THEN -1
             ELSE IF tab[mid + 1].hash = h THEN mid
             ELSE IF lo >= hi THEN -1
             ELSE IF tab[mid + 1].hash >= h THEN f[<<lo, mid>>]
             ELSE f[<<mid + 1, hi>>]
<1>1. n \in Nat
  BY DEF Rising
<1>2. ASSUME NEW lo \in 0 .. n, NEW hi \in 0 .. n PROVE f[<<lo, hi>>] = Turn(lo, hi)
  <2>1. PICK mid \in 0 .. n : /\ mid = (lo + hi) \div 2 /\ (lo <= hi => lo <= mid /\ mid <= hi)
                              /\ lo < hi => mid < hi
    BY <1>1, Mids
  <2>2. f[<<lo, hi>>] = IF lo <= hi THEN Found(tab, h, n, lo, hi)
                        ELSE IF mid < n /\ tab[mid + 1].hash = h THEN mid ELSE -1
    BY <1>1, <2>1, HalvedAt
  <2>3. CASE lo > hi
    <3>1. ~(lo <= hi) /\ lo >= hi
      BY <1>1, <2>3
    <3>2. mid < n <=> ~(mid >= n)
      BY <1>1
    <3> HIDE DEF f
    <3> QED BY <2>1, <2>2, <3>1, <3>2
  <2>4. CASE lo <= hi
    <3>1. f[<<lo, mid>>] = Found(tab, h, n, lo, mid)
      BY <1>1, <2>1, <2>4, HalvedAt
    <3>2. lo < hi => f[<<mid + 1, hi>>] = Found(tab, h, n, mid + 1, hi)
      <4> HAVE lo < hi
      <4>1. mid + 1 \in 0 .. n /\ mid + 1 <= hi
        BY <1>1, <2>1
      <4> QED BY <1>1, <4>1, HalvedAt
    <3>3. f[<<lo, hi>>] =
            IF mid >= n THEN -1
            ELSE IF tab[mid + 1].hash = h THEN mid
            ELSE IF lo >= hi THEN -1
            ELSE IF tab[mid + 1].hash >= h THEN Found(tab, h, n, lo, mid)
            ELSE Found(tab, h, n, mid + 1, hi)
      BY <2>1, <2>2, <2>4, FoundStep
    <3>4. lo < hi <=> ~(lo >= hi)
      BY <1>1
    <3> HIDE DEF f
    <3> QED BY <2>1, <3>1, <3>2, <3>3, <3>4
  <2> QED BY <1>1, <2>3, <2>4
<1>3. f = [p \in (0 .. n) \X (0 .. n) |-> f[p]]
  BY DEF Halved
<1>4. ASSUME NEW p \in (0 .. n) \X (0 .. n) PROVE f[p] = Turn(p[1], p[2])
  <2>1. PICK lo \in 0 .. n, hi \in 0 .. n : p = <<lo, hi>>
    OBVIOUS
  <2>2. p[1] = lo /\ p[2] = hi
    BY <2>1
  <2> HIDE DEF f, Turn
  <2> QED BY <1>2, <2>1, <2>2
<1>5. f = [p \in (0 .. n) \X (0 .. n) |-> Turn(p[1], p[2])]
  <2> HIDE DEF f, Turn
  <2> QED BY <1>3, <1>4
<1> HIDE DEF f
<1> QED BY <1>5, Zenon DEF Seeks, f

(* The halving search finds a hash that is there, and only that: whatever  *)
(* function satisfies the text, by induction on what is left to halve.     *)
LEMMA SearchRight ==
  ASSUME NEW tab, NEW n, Rising(tab, n), NEW h \in Nat
  PROVE  CarFind(tab, h) = Found(tab, h, n, 0, n)
<1>1. n \in Nat \ {0} /\ Len(tab) = n
  BY DEF Rising
<1>2. PICK f : Seeks(f, tab, h, n) /\ CarFind(tab, h) = f[<<0, n>>]
  <2>1. Seeks(CHOOSE f : Seeks(f, tab, h, n), tab, h, n)
    BY SeekExists
  <2> QED BY <1>1, <2>1, CarFindIs
<1> DEFINE Good == {m \in 0 .. n : \A lo, hi \in 0 .. n : lo <= hi /\ hi - lo <= m =>
                                     f[<<lo, hi>>] = Found(tab, h, n, lo, hi)}
<1>3. ASSUME NEW lo \in 0 .. n, NEW hi \in 0 .. n, lo <= hi,
             NEW m \in Nat, hi - lo <= m,
             \A x, y \in 0 .. n : x <= y /\ y - x < m => f[<<x, y>>] = Found(tab, h, n, x, y)
      PROVE  f[<<lo, hi>>] = Found(tab, h, n, lo, hi)
  <2>1. PICK mid \in 0 .. n : /\ mid = (lo + hi) \div 2 /\ lo <= mid /\ mid <= hi
                              /\ lo < hi => mid < hi
    BY <1>1, <1>3, Mids
  <2>2. f[<<lo, hi>>] = IF mid >= n THEN -1
                        ELSE IF tab[mid + 1].hash = h THEN mid
                        ELSE IF lo >= hi THEN -1
                        ELSE IF tab[mid + 1].hash >= h THEN f[<<lo, mid>>]
                        ELSE f[<<mid + 1, hi>>]
    BY <1>1, <1>2, <2>1, SeeksAt
  <2>3. lo < hi => f[<<lo, mid>>] = Found(tab, h, n, lo, mid)
    <3> HAVE lo < hi
    <3>1. mid - lo < m
      BY <1>1, <1>3, <2>1
    <3> QED BY <1>3, <2>1, <3>1
  <2>4. lo < hi => f[<<mid + 1, hi>>] = Found(tab, h, n, mid + 1, hi)
    <3> HAVE lo < hi
    <3>1. mid + 1 \in 0 .. n /\ mid + 1 <= hi /\ hi - (mid + 1) < m
      BY <1>1, <1>3, <2>1
    <3> QED BY <1>3, <3>1
  <2>5. lo < hi <=> ~(lo >= hi)
    BY <1>1
  <2>6. Found(tab, h, n, lo, hi) =
          IF mid >= n THEN -1
          ELSE IF tab[mid + 1].hash = h THEN mid
          ELSE IF lo >= hi THEN -1
          ELSE IF tab[mid + 1].hash >= h THEN Found(tab, h, n, lo, mid)
          ELSE Found(tab, h, n, mid + 1, hi)
    BY <1>3, <2>1, FoundStep
  <2> QED BY <2>2, <2>3, <2>4, <2>5, <2>6
<1>4. 0 \in Good
  <2> SUFFICES ASSUME NEW lo \in 0 .. n, NEW hi \in 0 .. n, lo <= hi, hi - lo <= 0
               PROVE  f[<<lo, hi>>] = Found(tab, h, n, lo, hi)
    BY <1>1
  <2>1. \A x, y \in 0 .. n : ~(x <= y /\ y - x < 0)
    BY <1>1
  <2> QED BY <1>3, <2>1
<1>5. ASSUME NEW k \in 0 .. n - 1, k \in Good PROVE k + 1 \in Good
  <2>1. k + 1 \in 0 .. n /\ k + 1 \in Nat
    BY <1>1
  <2> SUFFICES ASSUME NEW lo \in 0 .. n, NEW hi \in 0 .. n, lo <= hi, hi - lo <= k + 1
               PROVE  f[<<lo, hi>>] = Found(tab, h, n, lo, hi)
    BY <2>1
  <2>2. \A x, y \in 0 .. n : x <= y /\ y - x < k + 1 => y - x <= k
    BY <1>1
  <2>3. \A x, y \in 0 .. n : x <= y /\ y - x < k + 1 => f[<<x, y>>] = Found(tab, h, n, x, y)
    BY <1>5, <2>2
  <2> QED BY <1>3, <2>1, <2>3
<1>6. Good = 0 .. n
  <2>1. Good \in SUBSET (0 .. n)
    OBVIOUS
  <2> HIDE DEF Good
  <2> QED BY <1>1, <1>4, <1>5, <2>1, StepByStep
<1>7. n \in Good /\ 0 \in 0 .. n /\ n \in 0 .. n /\ 0 <= n /\ n - 0 <= n
  <2> HIDE DEF Good
  <2> QED BY <1>1, <1>6
<1> QED BY <1>2, <1>7

-----------------------------------------------------------------------------
(* A listing of files behind a link.                                       *)
LEMMA FilesListed ==
  ASSUME NEW L, NEW list, Lists(L, list), OnlyFiles(list)
  PROVE  /\ Len(list) \in Nat \ {0} /\ Len(L) = Len(list) /\ DOMAIN L = 1 .. Len(list)
         /\ L \in Seq(Slots)
         /\ \A k \in 1 .. Len(list) :
              /\ L[k].name = list[k].name /\ L[k].dir = (k = 1) /\ L[k].end = (k = Len(list))
              /\ list[k].name \in DOMAIN Short /\ Hash[list[k].name] \in Nat
              /\ Digit[list[k].name] \in BOOLEAN /\ Skip[list[k].name] \in BOOLEAN
              /\ k > 1 => L[k].next = list[k].to /\ list[k].to > 1 /\ list[k].to \in Nat
<1>1. /\ Len(list) \in Nat \ {0} /\ Len(L) = Len(list) /\ DOMAIN L = 1 .. Len(list)
      /\ L \in Seq(Slots) /\ list \in Seq(Entries)
  BY DEF Lists
<1>2. ASSUME NEW k \in 1 .. Len(list)
      PROVE  /\ L[k].name = list[k].name /\ L[k].dir = (k = 1) /\ L[k].end = (k = Len(list))
             /\ list[k].name \in DOMAIN Short /\ Hash[list[k].name] \in Nat
             /\ Digit[list[k].name] \in BOOLEAN /\ Skip[list[k].name] \in BOOLEAN
             /\ k > 1 => L[k].next = list[k].to /\ list[k].to > 1 /\ list[k].to \in Nat
  <2>1. /\ L[k].name = list[k].name /\ L[k].dir = list[k].dir /\ L[k].end = (k = Len(list))
        /\ list[k].name \in DOMAIN Short
        /\ ~list[k].dir => L[k].next = list[k].to /\ list[k].to > 1
    BY DEF Lists
  <2>2. list[k] \in Entries
    BY <1>1
  <2>3. list[k].to \in Nat /\ list[k].dir \in BOOLEAN
    BY <2>2 DEF Entries
  <2>4. k > 1 => ~list[k].dir
    BY <1>1 DEF OnlyFiles
  <2>5. k = 1 => list[k].dir
    BY DEF OnlyFiles
  <2>6. list[k].dir = (k = 1)
    <3>1. k = 1 \/ k > 1
      BY <1>1
    <3>2. k > 1 => k # 1
      BY <1>1
    <3> QED BY <2>3, <2>4, <2>5, <3>1, <3>2, Zenon
  <2>7. /\ Hash[list[k].name] \in Nat
        /\ Digit[list[k].name] \in BOOLEAN /\ Skip[list[k].name] \in BOOLEAN
    <3>1. Hash \in [DOMAIN Short -> Nat] /\ Digit \in [DOMAIN Short -> BOOLEAN]
          /\ Skip \in [DOMAIN Short -> BOOLEAN]
      BY ImageAssumption
    <3> QED BY <2>1, <3>1, Zenon
  <2> QED BY <2>1, <2>3, <2>4, <2>6, <2>7, Zenon
<1> QED BY <1>1, <1>2

(* An entry behind the link is a file, known by its number.                *)
LEMMA FileOf ==
  ASSUME NEW L, NEW list, Lists(L, list), OnlyFiles(list), NEW k \in 2 .. Len(list)
  PROVE  L[k].name = list[k].name /\ L[k].next = list[k].to /\ list[k].to > 1 /\ list[k].to \in Nat
<1>1. Len(list) \in Nat
  BY FilesListed
<1>2. k \in 1 .. Len(list) /\ k > 1
  BY <1>1
<1>3. L[k].name = list[k].name
  BY <1>2, FilesListed
<1>4. k > 1 => L[k].next = list[k].to /\ list[k].to > 1 /\ list[k].to \in Nat
  BY <1>2, FilesListed
<1> QED BY <1>2, <1>3, <1>4

(* The first file stands behind the link.                                  *)
LEMMA FirstIsTwo ==
  ASSUME NEW L, NEW list, Lists(L, list), OnlyFiles(list), Len(list) > 1
  PROVE  FirstFile(L) = 2 /\ ~(\A j \in DOMAIN L : L[j].dir)
<1> DEFINE S == {j \in DOMAIN L : ~L[j].dir}
<1>1. /\ Len(list) \in Nat \ {0} /\ DOMAIN L = 1 .. Len(list)
      /\ \A k \in 1 .. Len(list) : L[k].dir = (k = 1)
  BY FilesListed
<1>2. 2 \in DOMAIN L
  BY <1>1
<1>3. ~L[2].dir
  <2>1. L[2].dir = (2 = 1)
    BY <1>1, <1>2
  <2>2. 2 # 1
    OBVIOUS
  <2> QED BY <2>1, <2>2
<1>4. ASSUME NEW x \in S PROVE 2 <= x
  <2>1. x \in 1 .. Len(list) /\ ~L[x].dir /\ L[x].dir = (x = 1)
    BY <1>1
  <2>2. x # 1
    BY <2>1
  <2> QED BY <1>1, <2>1, <2>2
<1>5. S \in SUBSET Int
  BY <1>1
<1>6. 2 \in S
  BY <1>2, <1>3
<1>7. Min(S) = 2
  <2> HIDE DEF S
  <2> QED BY <1>4, <1>5, <1>6, MinIs
<1> QED BY <1>2, <1>3, <1>7 DEF FirstFile

(* Every fourth place up to 4n - 2 is n places.                            *)
LEMMA Fourths ==
  ASSUME NEW n \in Nat, NEW S, S = {j \in 2 .. 4 * n - 2 : (j - 2) % 4 = 0}
  PROVE  Cardinality(S) = n
<1> DEFINE f == [k \in 1 .. n |-> 4 * k - 2]
<1>1. ASSUME NEW k \in 1 .. n PROVE 4 * k - 2 \in S
  <2>1. 4 * k - 2 \in 2 .. 4 * n - 2
    OBVIOUS
  <2>2. (4 * k - 2) - 2 = 4 * (k - 1) /\ (4 * (k - 1)) % 4 = 0
    OBVIOUS
  <2> QED BY <2>1, <2>2
<1>2. ASSUME NEW j \in S PROVE \E k \in 1 .. n : 4 * k - 2 = j
  <2>1. j \in 2 .. 4 * n - 2 /\ (j - 2) % 4 = 0 /\ j \in Int
    OBVIOUS
  <2>2. PICK q \in Int : j - 2 = 4 * q
    <3>1. j - 2 = 4 * ((j - 2) \div 4) /\ (j - 2) \div 4 \in Int
      BY <2>1
    <3> QED BY <3>1
  <2>3. q + 1 \in 1 .. n /\ 4 * (q + 1) - 2 = j
    BY <2>1, <2>2
  <2> QED BY <2>3
<1>3. f \in [1 .. n -> S]
  BY <1>1
<1>4. \A a, b \in 1 .. n : f[a] = f[b] => a = b
  OBVIOUS
<1>5. \A s \in S : \E k \in 1 .. n : f[k] = s
  BY <1>2
<1>6. f \in Bijection(1 .. n, S)
  <2> DOMAIN f = 1 .. n
    OBVIOUS
  <2> HIDE DEF f
  <2> QED BY <1>3, <1>4, <1>5 DEF Bijection, Injection, Surjection, IsInjective
<1>7. ExistsBijection(1 .. n, S)
  BY <1>6 DEF ExistsBijection
<1> QED BY <1>7, FS_CountingElements

(* A directory of n cars.                                                  *)
IsGarage(list, n) == HoldsCars(list) /\ n = Len(list) \div 4
CarAt(list, k) == [hash |-> Hash[list[4 * k - 2].name], index |-> list[4 * k - 2].to, z |-> 0]

LEMMA GarageIs ==
  ASSUME NEW L, NEW list, Lists(L, list), NEW n, IsGarage(list, n)
  PROVE  /\ n \in Nat \ {0} /\ Len(list) = 4 * n + 1
         /\ Fours(list) = [k \in 1 .. n |-> list[4 * k - 2]]
         /\ Len(Fours(list)) = n /\ DOMAIN Fours(list) = 1 .. n
         /\ \A k \in 1 .. n : /\ 4 * k - 2 \in 2 .. Len(list)
                              /\ Hash[list[4 * k - 2].name] \in Nat
<1>1. Len(list) \in Nat \ {0} /\ Len(list) % 4 = 1 /\ Len(list) > 1 /\ n = Len(list) \div 4
  BY DEF HoldsCars, IsGarage, Lists
<1>2. n \in Nat \ {0} /\ Len(list) = 4 * n + 1
  BY <1>1
<1>3. Fours(list) = [k \in 1 .. n |-> list[4 * k - 2]]
  BY <1>1 DEF Fours
<1>4. Len(Fours(list)) = n /\ DOMAIN Fours(list) = 1 .. n
  BY <1>2, <1>3
<1>5. ASSUME NEW k \in 1 .. n
      PROVE  4 * k - 2 \in 2 .. Len(list) /\ Hash[list[4 * k - 2].name] \in Nat
  <2>1. 4 * k - 2 \in 2 .. Len(list) /\ 4 * k - 2 \in 1 .. Len(list)
    BY <1>2
  <2>2. OnlyFiles(list)
    BY DEF HoldsCars, IsGarage
  <2> QED BY <2>1, <2>2, FilesListed
<1> QED BY <1>2, <1>3, <1>4, <1>5

(* The walk in fours stops at the last group: it has seen n cars.          *)
LEMMA HeadsOfCars ==
  ASSUME NEW L, NEW list, Lists(L, list), NEW n, IsGarage(list, n)
  PROVE  Cardinality(CarHeads(L)) = n
<1>1. OnlyFiles(list) /\ n \in Nat \ {0} /\ Len(list) = 4 * n + 1
  BY GarageIs DEF HoldsCars, IsGarage
<1>2. FirstFile(L) = 2
  BY <1>1, FirstIsTwo
<1>3. Len(L) = 4 * n + 1
  BY <1>1, FilesListed
<1> DEFINE heads == {j \in 2 .. 4 * n + 1 : (j - 2) % 4 = 0}
           ends  == {j \in heads : EndsGroup(L, j)}
           last  == 4 * n - 2
<1>4. CarHeads(L) = {j \in heads : j <= Min(ends)}
  BY <1>2, <1>3 DEF CarHeads
<1>5. last \in heads
  <2>1. (4 * n - 2) - 2 = 4 * (n - 1) /\ (4 * (n - 1)) % 4 = 0
    BY <1>1
  <2>2. 4 * n - 2 \in 2 .. 4 * n + 1
    BY <1>1
  <2> QED BY <2>1, <2>2
<1>6. ASSUME NEW j \in heads, j < last PROVE ~EndsGroup(L, j)
  <2>1. j \in 2 .. 4 * n + 1 /\ j \in Int
    BY <1>1
  <2>2. j + 3 \in 1 .. 4 * n + 1 /\ j + 3 # 4 * n + 1 /\ ~(j + 3 > 4 * n + 1)
    BY <1>1, <1>6, <2>1
  <2>3. L[j + 3].end = (j + 3 = 4 * n + 1)
    BY <1>1, <2>2, FilesListed
  <2> QED BY <1>3, <2>2, <2>3 DEF EndsGroup
<1>7. EndsGroup(L, last)
  <2>1. last + 3 = 4 * n + 1 /\ 4 * n + 1 \in 1 .. 4 * n + 1
    BY <1>1
  <2>2. L[4 * n + 1].end = (4 * n + 1 = Len(list))
    BY <1>1, <2>1, FilesListed
  <2>3. L[last + 3].end
    BY <1>1, <2>1, <2>2
  <2> QED BY <2>3 DEF EndsGroup
<1>8. Min(ends) = last
  <2>1. ends \in SUBSET Int
    BY <1>1
  <2>2. last \in ends
    BY <1>5, <1>7
  <2>3. ASSUME NEW x \in ends PROVE last <= x
    <3>1. x \in heads /\ EndsGroup(L, x) /\ x \in Int
      BY <2>1
    <3>2. ~(x < last)
      BY <1>6, <3>1
    <3> QED BY <1>1, <3>1, <3>2
  <2> HIDE DEF ends, last
  <2> QED BY <2>1, <2>2, <2>3, MinIs
<1>9. {j \in heads : j <= last} = {j \in 2 .. 4 * n - 2 : (j - 2) % 4 = 0}
  BY <1>1
<1>10. Cardinality({j \in 2 .. 4 * n - 2 : (j - 2) % 4 = 0}) = n
  BY <1>1, Fourths
<1> HIDE DEF heads, ends, last
<1> QED BY <1>4, <1>8, <1>9, <1>10

(* Its car table: refused where there is no room for the mark.             *)
LEMMA CarTableIs ==
  ASSUME NEW L, NEW list, Lists(L, list), NEW n, IsGarage(list, n)
  PROVE  CarTable(L, Hash, CarCap) =
           IF n >= CarCap THEN << >> ELSE [k \in 1 .. n |-> CarAt(list, k)]
<1>1. OnlyFiles(list) /\ n \in Nat \ {0} /\ Len(list) = 4 * n + 1 /\ Len(list) > 1
  BY GarageIs DEF HoldsCars, IsGarage
<1>2. FirstFile(L) = 2 /\ ~(\A j \in DOMAIN L : L[j].dir)
  BY <1>1, FirstIsTwo
<1>3. Cardinality(CarHeads(L)) = n
  BY HeadsOfCars
<1> DEFINE Row(k) == LET e == L[2 + 4 * (k - 1)]
                     IN  [hash |-> Hash[e.name], index |-> e.next, z |-> 0]
<1>4. CarTable(L, Hash, CarCap) = IF n >= CarCap THEN << >> ELSE [k \in 1 .. n |-> Row(k)]
  BY <1>2, <1>3 DEF CarTable
<1>5. ASSUME NEW k \in 1 .. n PROVE Row(k) = CarAt(list, k)
  <2>1. 2 + 4 * (k - 1) = 4 * k - 2 /\ 4 * k - 2 \in 1 .. Len(list) /\ 4 * k - 2 > 1
    BY <1>1
  <2>2. L[4 * k - 2].name = list[4 * k - 2].name /\ L[4 * k - 2].next = list[4 * k - 2].to
    <3>1. PICK m \in 2 .. Len(list) : m = 4 * k - 2
      BY <1>1, <2>1
    <3>2. L[m].name = list[m].name /\ L[m].next = list[m].to
      BY <1>1, <3>1, FileOf
    <3> QED BY <3>1, <3>2
  <2> QED BY <2>1, <2>2 DEF CarAt
<1>6. [k \in 1 .. n |-> Row(k)] = [k \in 1 .. n |-> CarAt(list, k)]
  <2> HIDE DEF Row
  <2> QED BY <1>5
<1> HIDE DEF Row
<1> QED BY <1>4, <1>6

(* What rises from each place to the next rises from any to any later.     *)
LEMMA StepsRise ==
  ASSUME NEW n \in Nat, NEW f, \A k \in 1 .. n : f[k] \in Nat, \A k \in 2 .. n : f[k - 1] < f[k],
         NEW j \in 1 .. n, NEW k \in 1 .. n, j < k
  PROVE  f[j] < f[k]
<1> DEFINE Good == {m \in 0 .. n : m > j => f[j] < f[m]}
<1>1. 0 \in Good
  OBVIOUS
<1>2. ASSUME NEW m \in 0 .. n - 1, m \in Good PROVE m + 1 \in Good
  <2>1. m + 1 \in 0 .. n
    OBVIOUS
  <2> SUFFICES ASSUME m + 1 > j PROVE f[j] < f[m + 1]
    BY <2>1
  <2>2. m \in 1 .. n /\ m + 1 \in 2 .. n /\ m + 1 \in 1 .. n /\ (m + 1) - 1 = m
    OBVIOUS
  <2>3. f[m] < f[m + 1] /\ f[m] \in Nat /\ f[m + 1] \in Nat /\ f[j] \in Nat
    <3>1. f[(m + 1) - 1] < f[m + 1]
      BY <2>2
    <3> QED BY <2>2, <3>1
  <2>4. m = j \/ m > j
    OBVIOUS
  <2>5. m > j => f[j] < f[m]
    BY <1>2
  <2> QED BY <2>3, <2>4, <2>5
<1>3. Good = 0 .. n
  <2>1. Good \in SUBSET (0 .. n)
    OBVIOUS
  <2> HIDE DEF Good
  <2> QED BY <1>1, <1>2, <2>1, StepByStep
<1>4. k \in Good
  <2> HIDE DEF Good
  <2> QED BY <1>3
<1> QED BY <1>4

(* A directory in the order of its hashes gives a table in that order.     *)
LEMMA CarsRise ==
  ASSUME NEW L, NEW list, Lists(L, list), NEW n, IsGarage(list, n)
  PROVE  Rising([k \in 1 .. n |-> CarAt(list, k)], n)
<1> DEFINE tab == [k \in 1 .. n |-> CarAt(list, k)]
           f   == [k \in 1 .. n |-> Hash[list[4 * k - 2].name]]
<1>1. /\ n \in Nat \ {0} /\ Fours(list) = [k \in 1 .. n |-> list[4 * k - 2]]
      /\ Len(Fours(list)) = n
      /\ \A k \in 1 .. n : Hash[list[4 * k - 2].name] \in Nat
  BY GarageIs
<1>2. \A k \in 1 .. n : tab[k].hash = f[k] /\ f[k] \in Nat
  BY <1>1 DEF CarAt
<1>3. Len(tab) = n
  BY <1>1
<1>4. \A k \in 2 .. n : f[k - 1] < f[k]
  <2> SUFFICES ASSUME NEW k \in 2 .. n PROVE f[k - 1] < f[k]
    OBVIOUS
  <2>1. Hash[Fours(list)[k - 1].name] < Hash[Fours(list)[k].name]
    BY <1>1 DEF IsGarage, HoldsCars, Ordered
  <2>2. k - 1 \in 1 .. n /\ k \in 1 .. n
    BY <1>1
  <2> QED BY <1>1, <2>1, <2>2
<1> HIDE DEF tab, f
<1>5. ASSUME NEW j \in 1 .. n, NEW k \in 1 .. n, j < k PROVE tab[j].hash < tab[k].hash
  <2>1. f[j] < f[k]
    BY <1>1, <1>2, <1>4, <1>5, StepsRise
  <2> QED BY <1>2, <2>1
<1>6. Rising(tab, n)
  BY <1>1, <1>2, <1>3, <1>5 DEF Rising
<1> QED BY <1>6 DEF tab

(* In that table a car is found by its hash, and nothing else is.          *)
LEMMA GarageSearch ==
  ASSUME NEW L, NEW list, Lists(L, list), NEW n, IsGarage(list, n), NEW h \in Nat,
         NEW tab, tab = [k \in 1 .. n |-> CarAt(list, k)]
  PROVE  /\ \A k \in 1 .. n : Hash[list[4 * k - 2].name] = h => CarFind(tab, h) = k - 1
         /\ (\A k \in 1 .. n : Hash[list[4 * k - 2].name] # h) => CarFind(tab, h) = -1
<1>1. n \in Nat \ {0}
  BY GarageIs
<1>2. Rising(tab, n)
  BY CarsRise
<1>3. CarFind(tab, h) = Found(tab, h, n, 0, n)
  BY <1>2, SearchRight
<1>4. \A k \in 1 .. n : tab[k].hash = Hash[list[4 * k - 2].name]
  BY DEF CarAt
<1>5. ASSUME NEW k \in 1 .. n, Hash[list[4 * k - 2].name] = h PROVE CarFind(tab, h) = k - 1
  <2>1. k - 1 \in 0 .. n /\ k - 1 < n /\ (k - 1) + 1 = k /\ 0 \in 0 .. n /\ n \in 0 .. n
    BY <1>1
  <2>2. tab[(k - 1) + 1].hash = h
    BY <1>4, <1>5, <2>1
  <2> QED BY <1>2, <1>3, <2>1, <2>2, FoundAt
<1>6. ASSUME \A k \in 1 .. n : Hash[list[4 * k - 2].name] # h PROVE CarFind(tab, h) = -1
  <2>1. \A k \in 0 .. n : k < n => tab[k + 1].hash # h
    <3> SUFFICES ASSUME NEW k \in 0 .. n, k < n PROVE tab[k + 1].hash # h
      OBVIOUS
    <3>1. k + 1 \in 1 .. n
      BY <1>1
    <3> QED BY <1>4, <1>6, <3>1
  <2> QED BY <1>3, <2>1, FoundNone
<1> QED BY <1>5, <1>6

(* The car table names the cars, and its search finds them.                *)
LEMMA CarsKnown ==
  ASSUME Types, Repacked
  PROVE  Cars
<1>1. PICK T : T = source.tree
  OBVIOUS
<1>2. WellFormed(T) /\ Naming(T, LastValid) /\ BlobSlots = SlotsOf(T)
  BY <1>1, TreeKept
<1>3. PICK b : Laid(SlotsOf(T), b, T)
  BY <1>2, TreeSlots DEF Laid
<1> SUFFICES ASSUME NEW path \in Paths, NEW means, means = Meaning(T, path),
                    NEW list, list = T[means.to], NEW tab,
                    tab = CarTable(ListDir(BlobSlots, path), Hash, CarCap),
                    means.st = "IS_DIR", HoldsCars(list)
             PROVE  /\ Len(Fours(list)) >= CarCap => tab = << >>
                    /\ Len(Fours(list)) < CarCap =>
                         /\ Len(tab) = Len(Fours(list))
                         /\ \A k \in DOMAIN Fours(list) :
                              /\ CarFind(tab, Hash[Fours(list)[k].name]) = k - 1
                              /\ tab[k].index = Fours(list)[k].to
                    /\ \A h \in HashesNear :
                         (\A k \in DOMAIN Fours(list) : Hash[Fours(list)[k].name] # h) =>
                           CarFind(tab, h) = -1
  BY <1>1 DEF Cars
<1>4. path \in Seq(STRING)
  BY ImageAssumption
<1>5. PICK L : Listing(BlobSlots, path) = [st |-> "OK", list |-> L] /\ Lists(L, list)
  BY <1>2, <1>3, <1>4, PathLists
<1>6. PICK n : IsGarage(list, n)
  BY DEF IsGarage
<1>7. tab = IF n >= CarCap THEN << >> ELSE [k \in 1 .. n |-> CarAt(list, k)]
  <2>1. ListDir(BlobSlots, path) = L
    BY <1>5 DEF ListDir
  <2> QED BY <1>5, <1>6, <2>1, CarTableIs
<1>8. /\ n \in Nat \ {0} /\ CarCap \in Nat
      /\ Fours(list) = [k \in 1 .. n |-> list[4 * k - 2]] /\ Len(Fours(list)) = n
      /\ DOMAIN Fours(list) = 1 .. n
  <2>1. CarCap \in Nat
    BY ImageAssumption
  <2> QED BY <1>5, <1>6, <2>1, GarageIs
<1>9. HashesNear \subseteq Nat
  <2>1. Hash \in [DOMAIN Short -> Nat]
    BY ImageAssumption
  <2> QED BY <2>1 DEF HashesNear, Range
<1>10. CASE n >= CarCap
  <2>1. tab = << >> /\ ~(n < CarCap)
    BY <1>7, <1>8, <1>10
  <2>2. \A h : CarFind(tab, h) = -1
    BY <2>1 DEF CarFind
  <2> QED BY <1>8, <2>1, <2>2
<1>11. CASE n < CarCap
  <2>1. tab = [k \in 1 .. n |-> CarAt(list, k)] /\ ~(n >= CarCap)
    BY <1>7, <1>8, <1>11
  <2>2. Len(tab) = n
    BY <1>8, <2>1
  <2>3. ASSUME NEW k \in 1 .. n
        PROVE  /\ CarFind(tab, Hash[Fours(list)[k].name]) = k - 1
               /\ tab[k].index = Fours(list)[k].to
    <3>1. Fours(list)[k] = list[4 * k - 2] /\ tab[k] = CarAt(list, k)
      BY <1>8, <2>1
    <3>2. CarFind(tab, Hash[list[4 * k - 2].name]) = k - 1
      <4>1. Hash[list[4 * k - 2].name] \in Nat
        BY <1>5, <1>6, GarageIs
      <4> QED BY <1>5, <1>6, <2>1, <4>1, GarageSearch
    <3> QED BY <3>1, <3>2 DEF CarAt
  <2>4. ASSUME NEW h \in HashesNear, \A k \in 1 .. n : Hash[Fours(list)[k].name] # h
        PROVE  CarFind(tab, h) = -1
    <3>1. h \in Nat
      BY <1>9
    <3>2. \A k \in 1 .. n : Hash[list[4 * k - 2].name] # h
      BY <1>8, <2>4
    <3> QED BY <1>5, <1>6, <2>1, <3>1, <3>2, GarageSearch
  <2> QED BY <1>8, <2>1, <2>2, <2>3, <2>4
<1> QED BY <1>8, <1>10, <1>11

-----------------------------------------------------------------------------
(* What is left of a listing behind its links.                             *)
LEMMA RestIs ==
  ASSUME NEW L \in Seq(Slots)
  PROVE  /\ Rest(L) \in Seq(Slots) /\ Len(Rest(L)) \in Nat /\ DOMAIN Rest(L) = 1 .. Len(Rest(L))
         /\ Rest(L) # << >> =>
              \E c \in 0 .. Len(L) - 1 : /\ Len(Rest(L)) = Len(L) - c
                                         /\ \A k \in 1 .. Len(Rest(L)) : Rest(L)[k] = L[c + k]
<1> DEFINE F == {j \in DOMAIN L : ~L[j].dir}
<1>1. Len(L) \in Nat /\ DOMAIN L = 1 .. Len(L)
  OBVIOUS
<1>2. CASE \A j \in DOMAIN L : L[j].dir
  <2>1. Rest(L) = << >>
    BY <1>2 DEF Rest
  <2> QED BY <2>1
<1>3. CASE ~(\A j \in DOMAIN L : L[j].dir)
  <2>1. F # {} /\ F \in SUBSET Nat
    BY <1>1, <1>3
  <2>2. PICK m \in 1 .. Len(L) : m = FirstFile(L)
    <3>1. Min(F) \in F
      <4> HIDE DEF F
      <4> QED BY <2>1, MinOf
    <3> QED BY <1>1, <3>1 DEF FirstFile
  <2>3. Rest(L) = SubSeq(L, m, Len(L))
    BY <1>3, <2>2 DEF Rest
  <2>4. \A k \in m .. Len(L) : L[k] \in Slots
    BY <1>1
  <2>5. /\ Rest(L) \in Seq(Slots) /\ Len(Rest(L)) = Len(L) - m + 1
        /\ \A k \in 1 .. Len(L) - m + 1 : Rest(L)[k] = L[m + k - 1]
    <3>1. m \in Int /\ Len(L) \in Int /\ m <= Len(L)
      BY <1>1
    <3>2. /\ SubSeq(L, m, Len(L)) \in Seq(Slots)
          /\ Len(SubSeq(L, m, Len(L))) = IF m <= Len(L) THEN Len(L) - m + 1 ELSE 0
          /\ \A k \in 1 .. Len(L) - m + 1 : SubSeq(L, m, Len(L))[k] = L[m + k - 1]
      BY <2>4, <3>1, SubSeqProperties
    <3> QED BY <2>3, <3>1, <3>2
  <2>6. m - 1 \in 0 .. Len(L) - 1 /\ Len(Rest(L)) = Len(L) - (m - 1)
    BY <1>1, <2>5
  <2>7. ASSUME NEW k \in 1 .. Len(Rest(L)) PROVE Rest(L)[k] = L[(m - 1) + k]
    <3>1. k \in 1 .. Len(L) - m + 1 /\ (m - 1) + k = m + k - 1
      BY <2>5
    <3> QED BY <2>5, <3>1
  <2>8. Len(Rest(L)) \in Nat /\ DOMAIN Rest(L) = 1 .. Len(Rest(L))
    BY <2>5
  <2>9. \E c \in 0 .. Len(L) - 1 : /\ Len(Rest(L)) = Len(L) - c
                                   /\ \A k \in 1 .. Len(Rest(L)) : Rest(L)[k] = L[c + k]
    <3>1. PICK c : c = m - 1
      OBVIOUS
    <3>2. c \in 0 .. Len(L) - 1 /\ Len(Rest(L)) = Len(L) - c
      BY <2>6, <3>1
    <3>3. \A k \in 1 .. Len(Rest(L)) : Rest(L)[k] = L[c + k]
      BY <2>7, <3>1
    <3> QED BY <3>2, <3>3
  <2> QED BY <2>5, <2>8, <2>9
<1> QED BY <1>2, <1>3

Files(rest, list) ==
  /\ Len(list) \in Nat \ {0} /\ rest \in Seq(Slots) /\ Len(rest) = Len(list) - 1
  /\ \A k \in 1 .. Len(rest) :
       /\ rest[k].name = list[k + 1].name /\ ~rest[k].dir /\ rest[k].end = (k = Len(rest))
       /\ rest[k].next = list[k + 1].to

(* In a directory of files, that is all but the link.                      *)
LEMMA FilesRest ==
  ASSUME NEW L, NEW list, Lists(L, list), OnlyFiles(list)
  PROVE  Files(Rest(L), list)
<1>1. /\ Len(list) \in Nat \ {0} /\ Len(L) = Len(list) /\ DOMAIN L = 1 .. Len(list)
      /\ L \in Seq(Slots)
  BY FilesListed
<1>2. \A k \in 1 .. Len(list) : L[k].dir = (k = 1) /\ L[k].end = (k = Len(list))
  BY FilesListed
<1>3. CASE Len(list) = 1
  <2>1. \A j \in DOMAIN L : L[j].dir
    <3> SUFFICES ASSUME NEW j \in DOMAIN L PROVE L[j].dir
      OBVIOUS
    <3>1. j \in 1 .. Len(list) /\ j = 1
      BY <1>1, <1>3
    <3>2. L[j].dir = (j = 1)
      BY <1>2, <3>1
    <3> QED BY <3>1, <3>2
  <2>2. Rest(L) = << >>
    BY <2>1 DEF Rest
  <2> QED BY <1>3, <2>2 DEF Files
<1>4. CASE Len(list) > 1
  <2>1. FirstFile(L) = 2 /\ ~(\A j \in DOMAIN L : L[j].dir)
    BY <1>4, FirstIsTwo
  <2>2. PICK rest : rest = Rest(L) /\ rest = SubSeq(L, 2, Len(list))
    BY <1>1, <2>1 DEF Rest
  <2>3. rest \in Seq(Slots) /\ Len(rest) = Len(list) - 1
        /\ \A k \in 1 .. Len(rest) : rest[k] = L[k + 1]
    <3>1. \A k \in 2 .. Len(list) : L[k] \in Slots
      BY <1>1
    <3>2. 2 \in Int /\ Len(list) \in Int /\ 2 <= Len(list)
      BY <1>1, <1>4
    <3>3. /\ SubSeq(L, 2, Len(list)) \in Seq(Slots)
          /\ Len(SubSeq(L, 2, Len(list))) = IF 2 <= Len(list) THEN Len(list) - 2 + 1 ELSE 0
          /\ \A k \in 1 .. Len(list) - 2 + 1 : SubSeq(L, 2, Len(list))[k] = L[2 + k - 1]
      BY <3>1, <3>2, SubSeqProperties
    <3>4. Len(rest) = Len(list) - 1 /\ Len(list) - 2 + 1 = Len(list) - 1
      BY <1>1, <2>2, <3>2, <3>3
    <3>5. ASSUME NEW k \in 1 .. Len(rest) PROVE rest[k] = L[k + 1]
      <4>1. k \in 1 .. Len(list) - 2 + 1 /\ 2 + k - 1 = k + 1
        BY <3>4
      <4> QED BY <2>2, <3>3, <4>1
    <3> QED BY <2>2, <3>3, <3>4, <3>5
  <2>4. ASSUME NEW k \in 1 .. Len(rest)
        PROVE  /\ rest[k].name = list[k + 1].name /\ ~rest[k].dir /\ rest[k].end = (k = Len(rest))
               /\ rest[k].next = list[k + 1].to
    <3>1. PICK m \in 2 .. Len(list) : m = k + 1 /\ m \in 1 .. Len(list) /\ m # 1
      BY <1>1, <2>3
    <3>2. L[m].name = list[m].name /\ L[m].next = list[m].to
      BY <3>1, FileOf
    <3>3. L[m].dir = (m = 1) /\ L[m].end = (m = Len(list))
      BY <1>2, <3>1
    <3>4. m = Len(list) <=> k = Len(rest)
      BY <1>1, <2>3, <3>1
    <3>5. rest[k] = L[m]
      BY <2>3, <3>1
    <3>6. ~L[m].dir
      BY <3>1, <3>3
    <3>7. L[m].end = (k = Len(rest))
      BY <3>3, <3>4, Zenon
    <3> QED BY <3>1, <3>2, <3>5, <3>6, <3>7, Zenon
  <2> QED BY <1>1, <2>2, <2>3, <2>4 DEF Files
<1> QED BY <1>1, <1>3, <1>4

LEMMA CodeIs ==
  ASSUME NEW L, NEW list, Lists(L, list), NEW k \in 1 .. Len(L)
  PROVE  Hash[L[k].name] \in Nat
<1>1. L[k].name \in DOMAIN Short
  BY DEF Lists
<1>2. Hash \in [DOMAIN Short -> Nat]
  BY ImageAssumption
<1> QED BY <1>1, <1>2, Zenon

(* The course map takes a part from the front: all, where all are files.   *)
LEMMA UpToIs ==
  ASSUME NEW rest \in Seq(Slots)
  PROVE  \E m \in 0 .. Len(rest) :
           /\ UpToDir(rest) = SubSeq(rest, 1, m)
           /\ (\A k \in 1 .. Len(rest) : ~rest[k].dir) => m = Len(rest)
<1> DEFINE S == {Len(rest) + 1} \cup {k \in DOMAIN rest : rest[k].dir}
<1>1. Len(rest) \in Nat /\ DOMAIN rest = 1 .. Len(rest)
  OBVIOUS
<1>2. S \in SUBSET Nat /\ S # {} /\ Len(rest) + 1 \in S
  BY <1>1
<1>3. Min(S) \in S /\ Min(S) <= Len(rest) + 1
  <2> HIDE DEF S
  <2> QED BY <1>2, MinOf
<1>4. Min(S) \in 1 .. Len(rest) + 1
  BY <1>1, <1>3
<1>5. (\A k \in 1 .. Len(rest) : ~rest[k].dir) => Min(S) = Len(rest) + 1
  BY <1>1, <1>3
<1>6. UpToDir(rest) = SubSeq(rest, 1, Min(S) - 1)
  BY DEF UpToDir
<1> HIDE DEF S
<1>7. Min(S) - 1 \in 0 .. Len(rest) /\ (Min(S) = Len(rest) + 1 => Min(S) - 1 = Len(rest))
  BY <1>1, <1>4
<1> QED BY <1>5, <1>6, <1>7

CodesOf(rest) == [k \in DOMAIN rest |-> Hash[rest[k].name]]

(* The two maps, where the listing was read and has a file.                *)
LEMMA MapsIs ==
  ASSUME NEW l, NEW L, l = [st |-> "OK", list |-> L], NEW map, map = CrsMap(l, Hash, MapCap),
         NEW wheel, wheel = Wheels(l, Hash, MapCap), NEW rest, rest = Rest(L), rest # << >>
  PROVE  /\ map = IF Len(UpToDir(rest)) > MapCap THEN Refused("NOSPACE")
                  ELSE [st |-> "OK", codes |-> CodesOf(UpToDir(rest)), first |-> rest[1].next]
         /\ wheel = IF Len(rest) > MapCap THEN Refused("NOSPACE")
                    ELSE [st |-> "OK", codes |-> CodesOf(rest), first |-> Missing]
BY DEF CrsMap, Wheels, Taken, CodesOf

(* Whatever the directory, the course map begins the wheels.               *)
LEMMA MapsAgree ==
  ASSUME NEW L, NEW list, Lists(L, list), NEW l, l = [st |-> "OK", list |-> L],
         NEW map, map = CrsMap(l, Hash, MapCap),
         NEW wheel, wheel = Wheels(l, Hash, MapCap), wheel.st = "OK"
  PROVE  map.codes = SubSeq(wheel.codes, 1, Len(map.codes))
<1>1. PICK rest : rest = Rest(L)
  OBVIOUS
<1>2. L \in Seq(Slots)
  BY DEF Lists
<1>3. rest \in Seq(Slots) /\ Len(rest) \in Nat /\ DOMAIN rest = 1 .. Len(rest)
  BY <1>1, <1>2, RestIs
<1>4. rest # << >>
  <2>1. rest = << >> => wheel = Refused("TRUNCATED")
    BY <1>1 DEF Wheels
  <2> QED BY <2>1 DEF Refused
<1>5. PICK m \in 0 .. Len(rest) : UpToDir(rest) = SubSeq(rest, 1, m)
  BY <1>3, UpToIs
<1>6. PICK part : part = UpToDir(rest) /\ part \in Seq(Slots) /\ Len(part) = m
                  /\ DOMAIN part = 1 .. m /\ \A k \in 1 .. m : part[k] = rest[k]
  <2>1. \A k \in 1 .. m : rest[k] \in Slots
    BY <1>3
  <2>2. /\ SubSeq(rest, 1, m) \in Seq(Slots)
        /\ Len(SubSeq(rest, 1, m)) = IF 1 <= m THEN m - 1 + 1 ELSE 0
        /\ \A k \in 1 .. m - 1 + 1 : SubSeq(rest, 1, m)[k] = rest[1 + k - 1]
    BY <2>1, SubSeqProperties
  <2>3. Len(SubSeq(rest, 1, m)) = m
    BY <1>3, <2>2
  <2>4. ASSUME NEW k \in 1 .. m PROVE SubSeq(rest, 1, m)[k] = rest[k]
    <3>1. k \in 1 .. m - 1 + 1 /\ 1 + k - 1 = k
      OBVIOUS
    <3> QED BY <2>2, <3>1
  <2>5. DOMAIN SubSeq(rest, 1, m) = 1 .. m
    BY <2>2, <2>3
  <2> QED BY <1>5, <2>2, <2>3, <2>4, <2>5
<1>7. /\ map = IF m > MapCap THEN Refused("NOSPACE")
               ELSE [st |-> "OK", codes |-> CodesOf(part), first |-> rest[1].next]
      /\ wheel = IF Len(rest) > MapCap THEN Refused("NOSPACE")
                 ELSE [st |-> "OK", codes |-> CodesOf(rest), first |-> Missing]
  BY <1>1, <1>4, <1>6, MapsIs
<1>8. ~(Len(rest) > MapCap) /\ wheel.codes = CodesOf(rest)
  BY <1>7 DEF Refused
<1>9. ~(m > MapCap) /\ map.codes = CodesOf(part)
  <2>1. MapCap \in Nat
    BY ImageAssumption
  <2>2. ~(m > MapCap)
    BY <1>3, <1>8, <2>1
  <2> QED BY <1>7, <2>2
<1>10. ASSUME NEW k \in 1 .. Len(rest) PROVE Hash[rest[k].name] \in Nat
  <2>1. PICK c \in 0 .. Len(L) - 1 : Len(rest) = Len(L) - c /\ rest[k] = L[c + k]
    BY <1>1, <1>2, <1>4, RestIs
  <2>2. c + k \in 1 .. Len(L)
    BY <1>2, <1>3, <2>1
  <2> QED BY <2>1, <2>2, CodeIs
<1>11. PICK codes : codes = CodesOf(rest) /\ \A k \in 1 .. Len(rest) : codes[k] = Hash[rest[k].name]
                    /\ codes[k] \in Nat
  <2>1. \A k \in 1 .. Len(rest) : CodesOf(rest)[k] = Hash[rest[k].name]
    BY <1>3 DEF CodesOf
  <2> QED BY <1>10, <2>1
<1>12. /\ SubSeq(codes, 1, m) \in Seq(Nat) /\ Len(SubSeq(codes, 1, m)) = m
       /\ \A k \in 1 .. m : SubSeq(codes, 1, m)[k] = codes[k]
  <2>1. \A k \in 1 .. m : codes[k] \in Nat
    BY <1>3, <1>11
  <2>2. /\ SubSeq(codes, 1, m) \in Seq(Nat)
        /\ Len(SubSeq(codes, 1, m)) = IF 1 <= m THEN m - 1 + 1 ELSE 0
        /\ \A k \in 1 .. m - 1 + 1 : SubSeq(codes, 1, m)[k] = codes[1 + k - 1]
    BY <2>1, SubSeqProperties
  <2>3. Len(SubSeq(codes, 1, m)) = m
    BY <1>3, <2>2
  <2>4. ASSUME NEW k \in 1 .. m PROVE SubSeq(codes, 1, m)[k] = codes[k]
    <3>1. k \in 1 .. m - 1 + 1 /\ 1 + k - 1 = k
      OBVIOUS
    <3> QED BY <2>2, <3>1
  <2> QED BY <2>2, <2>3, <2>4
<1>13. CodesOf(part) = [k \in 1 .. m |-> codes[k]]
  <2>1. \A k \in 1 .. m : codes[k] = Hash[rest[k].name]
    BY <1>3, <1>11
  <2> QED BY <1>6, <2>1 DEF CodesOf
<1>14. PICK sub : sub = SubSeq(codes, 1, m) /\ sub = [k \in 1 .. m |-> codes[k]]
  <2>1. PICK sub : sub = SubSeq(codes, 1, m)
    OBVIOUS
  <2>2. sub \in Seq(Nat) /\ Len(sub) = m /\ \A k \in 1 .. m : sub[k] = codes[k]
    BY <1>12, <2>1
  <2>3. sub = [k \in 1 .. m |-> sub[k]]
    BY <2>2
  <2>4. sub = [k \in 1 .. m |-> codes[k]]
    BY <2>2, <2>3
  <2> QED BY <2>1, <2>4
<1>15. Len([k \in 1 .. m |-> codes[k]]) = m
  BY <1>3
<1> QED BY <1>8, <1>9, <1>11, <1>13, <1>14, <1>15

(* A directory of files has all its codes in both, if they fit.            *)
LEMMA MapsOfFiles ==
  ASSUME NEW L, NEW list, Lists(L, list), OnlyFiles(list), Len(list) > 1,
         NEW l, l = [st |-> "OK", list |-> L],
         NEW map, map = CrsMap(l, Hash, MapCap), NEW wheel, wheel = Wheels(l, Hash, MapCap)
  PROVE  /\ Len(list) <= MapCap + 1 =>
              map.codes = Codes(list) /\ wheel.codes = Codes(list) /\ map.first = list[2].to
         /\ Len(list) > MapCap + 1 => map.st = "NOSPACE" /\ wheel.st = "NOSPACE"
<1>1. PICK rest : rest = Rest(L)
  OBVIOUS
<1>2. Files(rest, list)
  BY <1>1, FilesRest
<1>3. /\ Len(list) \in Nat \ {0} /\ rest \in Seq(Slots) /\ Len(rest) = Len(list) - 1
      /\ \A k \in 1 .. Len(rest) : rest[k].name = list[k + 1].name /\ ~rest[k].dir
                                   /\ rest[k].next = list[k + 1].to
  BY <1>2 DEF Files
<1>4. rest # << >> /\ 1 \in 1 .. Len(rest) /\ 1 + 1 = 2
  BY <1>3
<1>5. UpToDir(rest) = rest
  <2>1. UpToDir(rest) = SubSeq(rest, 1, Len(rest))
    BY <1>3, UpToIs
  <2> QED BY <1>3, <2>1
<1>6. /\ map = IF Len(rest) > MapCap THEN Refused("NOSPACE")
               ELSE [st |-> "OK", codes |-> CodesOf(rest), first |-> rest[1].next]
      /\ wheel = IF Len(rest) > MapCap THEN Refused("NOSPACE")
                 ELSE [st |-> "OK", codes |-> CodesOf(rest), first |-> Missing]
  BY <1>1, <1>4, <1>5, MapsIs
<1>7. CodesOf(rest) = Codes(list)
  <2>1. DOMAIN rest = 1 .. Len(list) - 1
    BY <1>3
  <2> QED BY <1>3, <2>1 DEF CodesOf, Codes
<1>8. rest[1].next = list[2].to
  BY <1>3, <1>4
<1>9. MapCap \in Nat
  BY ImageAssumption
<1>10. CASE Len(list) <= MapCap + 1
  <2>1. ~(Len(rest) > MapCap) /\ ~(Len(list) > MapCap + 1)
    BY <1>3, <1>9, <1>10
  <2> QED BY <1>6, <1>7, <1>8, <2>1
<1>11. CASE Len(list) > MapCap + 1
  <2>1. Len(rest) > MapCap /\ ~(Len(list) <= MapCap + 1)
    BY <1>3, <1>9, <1>11
  <2> QED BY <1>6, <2>1 DEF Refused
<1> QED BY <1>3, <1>9, <1>10, <1>11

(* The course map and the wheels name the files of their directory.        *)
LEMMA MapsKnown ==
  ASSUME Types, Repacked
  PROVE  Maps
<1>1. PICK T : T = source.tree
  OBVIOUS
<1>2. WellFormed(T) /\ Naming(T, LastValid) /\ BlobSlots = SlotsOf(T)
  BY <1>1, TreeKept
<1>3. PICK b : Laid(SlotsOf(T), b, T)
  BY <1>2, TreeSlots DEF Laid
<1> SUFFICES ASSUME NEW path \in Paths \ {<< >>}, NEW means, means = Meaning(T, path),
                    NEW list, list = T[means.to], NEW l, l = Listing(BlobSlots, path),
                    NEW map, map = CrsMap(l, Hash, MapCap),
                    NEW wheel, wheel = Wheels(l, Hash, MapCap)
             PROVE  IF means.st # "IS_DIR"
                    THEN map.st = IF means.st = "NOT_FOUND" THEN "NOT_FOUND" ELSE "INVAL"
                    ELSE /\ wheel.st = "OK" => map.codes = SubSeq(wheel.codes, 1, Len(map.codes))
                         /\ OnlyFiles(list) /\ Len(list) \in 2 .. MapCap + 1 =>
                              map.codes = Codes(list) /\ wheel.codes = Codes(list)
                                /\ map.first = list[2].to
                         /\ OnlyFiles(list) /\ Len(list) > MapCap + 1 =>
                              map.st = "NOSPACE" /\ wheel.st = "NOSPACE"
  BY <1>1 DEF Maps
<1>4. path \in Seq(STRING) /\ path # << >>
  BY ImageAssumption
<1>5. CASE means.st # "IS_DIR"
  <2>1. l.st = IF means.st = "OK" THEN "IS_DIR" ELSE means.st
    BY <1>2, <1>3, <1>4, <1>5, PathLists
  <2>2. map = Refused(ReadAs(l.st))
    BY <1>5, <2>1 DEF CrsMap
  <2> QED BY <1>5, <2>1, <2>2 DEF Refused, ReadAs
<1>6. CASE means.st = "IS_DIR"
  <2>1. PICK L : l = [st |-> "OK", list |-> L] /\ Lists(L, list)
    BY <1>2, <1>3, <1>4, <1>6, PathLists
  <2>2. wheel.st = "OK" => map.codes = SubSeq(wheel.codes, 1, Len(map.codes))
    BY <2>1, MapsAgree
  <2>3. Len(list) \in Nat \ {0} /\ MapCap \in Nat
    <3>1. MapCap \in Nat
      BY ImageAssumption
    <3> QED BY <2>1, <3>1 DEF Lists
  <2>4. ASSUME OnlyFiles(list), Len(list) \in 2 .. MapCap + 1
        PROVE  map.codes = Codes(list) /\ wheel.codes = Codes(list) /\ map.first = list[2].to
    <3>1. Len(list) > 1 /\ Len(list) <= MapCap + 1
      BY <2>3, <2>4
    <3> QED BY <2>1, <2>4, <3>1, MapsOfFiles
  <2>5. ASSUME OnlyFiles(list), Len(list) > MapCap + 1
        PROVE  map.st = "NOSPACE" /\ wheel.st = "NOSPACE"
    <3>1. Len(list) > 1
      BY <2>3, <2>5
    <3> QED BY <2>1, <2>5, <3>1, MapsOfFiles
  <2> QED BY <1>6, <2>2, <2>4, <2>5
<1> QED BY <1>5, <1>6

-----------------------------------------------------------------------------
(* The engines of a directory of files: as many as the nines that begin    *)
(* with a digit, up to the first that does not.                            *)
Voice(list, m) == Digit[list[9 * m + 2].name]
UpToVoice(list, q, n) ==
  /\ q \in Nat /\ Len(list) = 9 * q + 1 /\ n \in 0 .. q
  /\ \A m \in 0 .. n - 1 : Voice(list, m)
  /\ n < q => ~Voice(list, n)

(* The places the engines are looked for at.                               *)
LEMMA NinesAre ==
  ASSUME NEW list, NEW q \in Nat, Len(list) = 9 * q + 1
  PROVE  /\ \A m \in 0 .. q - 1 : 9 * m + 2 \in Nines(list)
         /\ \A k \in Nines(list) : \E m \in 0 .. q - 1 : k = 9 * m + 2
<1>1. ASSUME NEW m \in 0 .. q - 1 PROVE 9 * m + 2 \in Nines(list)
  <2>1. 9 * m + 2 \in 2 .. 9 * q + 1 /\ (9 * m + 2) % 9 = 2
    OBVIOUS
  <2> QED BY <2>1 DEF Nines
<1>2. ASSUME NEW k \in Nines(list) PROVE \E m \in 0 .. q - 1 : k = 9 * m + 2
  <2>1. k \in 2 .. 9 * q + 1 /\ k % 9 = 2 /\ k \in Int
    BY DEF Nines
  <2>2. PICK m \in Int : m = k \div 9
    BY <2>1
  <2>3. k = 9 * m + 2
    BY <2>1, <2>2
  <2>4. m \in 0 .. q - 1
    BY <2>1, <2>3
  <2> QED BY <2>3, <2>4
<1> QED BY <1>1, <1>2

(* The count the property names is where the digits end.                   *)
LEMMA VoicesCounted ==
  ASSUME NEW list, NEW q \in Nat, Len(list) = 9 * q + 1, NEW n,
         n = Voices(list)
  PROVE  UpToVoice(list, q, n)
<1>1. (\A m \in 0 .. q - 1 : 9 * m + 2 \in Nines(list))
      /\ (\A k \in Nines(list) : \E m \in 0 .. q - 1 : k = 9 * m + 2)
  BY NinesAre
<1>2. \A m \in 0 .. q - 1 : 9 * m + 2 \in Silent(list) <=> ~Voice(list, m)
  BY <1>1 DEF Silent, Voice
<1>3. CASE Silent(list) = {}
  <2>1. n = q
    BY <1>3 DEF Voices
  <2>2. \A m \in 0 .. q - 1 : Voice(list, m)
    BY <1>2, <1>3
  <2> QED BY <2>1, <2>2 DEF UpToVoice
<1>4. CASE Silent(list) # {}
  <2>1. Silent(list) \in SUBSET Nat
    <3>1. \A k \in Nines(list) : k \in Nat
      BY <1>1
    <3> QED BY <3>1 DEF Silent
  <2>2. Min(Silent(list)) \in Silent(list) /\ \A x \in Silent(list) : Min(Silent(list)) <= x
    BY <1>4, <2>1, MinOf
  <2>3. PICK j \in 0 .. q - 1 : Min(Silent(list)) = 9 * j + 2
    BY <1>1, <2>2 DEF Silent
  <2>4. n = j
    <3>1. n = (9 * j + 2) \div 9
      BY <1>4, <2>3 DEF Voices
    <3> QED BY <3>1
  <2>5. ~Voice(list, j)
    BY <1>2, <2>2, <2>3
  <2>6. ASSUME NEW m \in 0 .. j - 1 PROVE Voice(list, m)
    <3>1. m \in 0 .. q - 1 /\ ~(9 * j + 2 <= 9 * m + 2)
      OBVIOUS
    <3>2. 9 * m + 2 \notin Silent(list)
      BY <2>2, <2>3, <3>1
    <3> QED BY <1>2, <3>1, <3>2
  <2>7. j \in 0 .. q
    OBVIOUS
  <2> QED BY <2>4, <2>5, <2>6, <2>7 DEF UpToVoice
<1> QED BY <1>3, <1>4

(* The walk in nines stops there.                                          *)
LEMMA EnginesEnd ==
  ASSUME NEW rest, NEW list, Files(rest, list), NEW q, NEW n, UpToVoice(list, q, n), n > 0,
         NEW ends, ends = {k \in DOMAIN rest : k % 9 = 1 /\ EndsNine(rest, Digit, k)}
  PROVE  Min(ends) = 9 * n - 8
<1>1. q \in Nat /\ n \in 1 .. q /\ Len(rest) = 9 * q /\ DOMAIN rest = 1 .. 9 * q
      /\ n \in Nat
  BY DEF Files, UpToVoice
<1>2. ASSUME NEW m \in 1 .. q, m < q
      PROVE  EndsNine(rest, Digit, 9 * m - 8) <=> ~Voice(list, m)
  <2>1. (9 * m - 8) + 8 = 9 * m /\ (9 * m - 8) + 9 = 9 * m + 1 /\ 9 * m \in 1 .. Len(rest)
        /\ 9 * m + 1 \in 1 .. Len(rest) /\ ~(9 * m > Len(rest)) /\ 9 * m # Len(rest)
        /\ (9 * m + 1) + 1 = 9 * m + 2
    BY <1>1, <1>2
  <2>2. ~rest[9 * m].end
    <3>1. rest[9 * m].end = (9 * m = Len(rest))
      BY <2>1 DEF Files
    <3> QED BY <2>1, <3>1
  <2>3. rest[9 * m + 1].name = list[9 * m + 2].name
    <3>1. PICK k \in 1 .. Len(rest) : k = 9 * m + 1 /\ k + 1 = 9 * m + 2
      BY <2>1
    <3>2. rest[k].name = list[k + 1].name
      BY DEF Files
    <3> QED BY <3>1, <3>2
  <2> QED BY <2>1, <2>2, <2>3 DEF EndsNine, Voice
<1>3. EndsNine(rest, Digit, 9 * q - 8)
  <2>1. (9 * q - 8) + 8 = 9 * q /\ 9 * q \in 1 .. Len(rest)
    BY <1>1
  <2>2. rest[9 * q].end = (9 * q = Len(rest))
    BY <2>1 DEF Files
  <2> QED BY <1>1, <2>1, <2>2 DEF EndsNine
<1>4. 9 * n - 8 \in ends
  <2>1. 9 * n - 8 \in 1 .. 9 * q /\ (9 * n - 8) % 9 = 1
    <3>1. 9 * n - 8 \in 1 .. 9 * q
      BY <1>1
    <3>2. 9 * n - 8 = 9 * (n - 1) + 1
      BY <1>1
    <3> QED BY <1>1, <3>1, <3>2
  <2>2. EndsNine(rest, Digit, 9 * n - 8)
    <3>1. n < q => ~Voice(list, n)
      BY DEF UpToVoice
    <3>2. n < q \/ n = q
      BY <1>1
    <3> QED BY <1>1, <1>2, <1>3, <3>1, <3>2
  <2> QED BY <1>1, <2>1, <2>2
<1>5. ASSUME NEW x \in ends PROVE 9 * n - 8 <= x
  <2>1. x \in 1 .. 9 * q /\ x % 9 = 1 /\ EndsNine(rest, Digit, x)
    BY <1>1
  <2>2. PICK m \in Int : m = (x + 8) \div 9
    BY <1>1, <2>1
  <2>3. x = 9 * m - 8
    BY <1>1, <2>1, <2>2
  <2>4. m \in 1 .. q
    BY <1>1, <2>1, <2>3
  <2>5. m < n => FALSE
    <3> HAVE m < n
    <3>1. m < q /\ m \in 0 .. n - 1
      BY <1>1, <2>4
    <3>2. Voice(list, m)
      BY <3>1 DEF UpToVoice
    <3>3. ~Voice(list, m)
      BY <1>2, <2>1, <2>3, <2>4, <3>1
    <3> QED BY <3>2, <3>3
  <2> QED BY <1>1, <2>3, <2>4, <2>5
<1>6. ends \in SUBSET Int
  BY <1>1
<1> QED BY <1>4, <1>5, <1>6, MinIs

Sounding(list, n) == [m \in 1 .. n |-> Hash[list[9 * m - 7].name]]

(* So the engines are the codes of the nines in front of that place.       *)
LEMMA EnginesAre ==
  ASSUME NEW L, NEW list, Lists(L, list), OnlyFiles(list), NEW q, NEW n, UpToVoice(list, q, n),
         NEW l, l = [st |-> "OK", list |-> L]
  PROVE  Engines(l, Hash, Digit, MapCap).codes =
           IF n > MapCap THEN << >> ELSE Sounding(list, n)
<1>1. PICK rest : rest = Rest(L)
  OBVIOUS
<1>2. Files(rest, list)
  BY <1>1, FilesRest
<1>3. q \in Nat /\ n \in 0 .. q /\ n \in Nat /\ Len(rest) = 9 * q /\ MapCap \in Nat
      /\ rest \in Seq(Slots) /\ DOMAIN rest = 1 .. 9 * q
  <2>1. MapCap \in Nat
    BY ImageAssumption
  <2> QED BY <1>2, <2>1 DEF Files, UpToVoice
<1> DEFINE heads == {k \in DOMAIN rest : k % 9 = 1}
           ends  == {k \in heads : EndsNine(rest, Digit, k)}
           eng   == [m \in 1 .. (Min(ends) + 8) \div 9 |-> rest[9 * m - 8]]
<1>4. Engines(l, Hash, Digit, MapCap) =
        IF rest = << >> THEN Refused("TRUNCATED")
        ELSE IF ~Digit[rest[1].name] THEN Taken(<< >>, Hash, MapCap, Missing)
        ELSE Taken(eng, Hash, MapCap, Missing)
  BY <1>1 DEF Engines
<1>5. q > 0 => rest # << >> /\ (Digit[rest[1].name] <=> Voice(list, 0))
  <2> HAVE q > 0
  <2>1. rest # << >> /\ 1 \in 1 .. Len(rest) /\ 1 + 1 = 2 /\ 9 * 0 + 2 = 2
    BY <1>3
  <2>2. rest[1].name = list[1 + 1].name
    BY <1>2, <2>1 DEF Files
  <2> QED BY <2>1, <2>2 DEF Voice
<1>6. CASE n = 0
  <2>1. Sounding(list, n) = << >>
    BY <1>6 DEF Sounding
  <2>2. ~(n > MapCap)
    BY <1>3, <1>6
  <2>3. CASE q = 0
    <3>1. rest = << >>
      BY <1>3, <2>3
    <3> HIDE DEF eng
    <3> QED BY <1>4, <2>1, <2>2, <3>1 DEF Refused
  <2>4. CASE q > 0
    <3>1. ~Voice(list, 0)
      BY <1>3, <1>6, <2>4 DEF UpToVoice
    <3>2. Engines(l, Hash, Digit, MapCap) = Taken(<< >>, Hash, MapCap, Missing)
      <4> HIDE DEF eng
      <4> QED BY <1>4, <1>5, <2>4, <3>1
    <3>3. Taken(<< >>, Hash, MapCap, Missing).codes = << >>
      <4>1. ~(Len(<< >>) > MapCap)
        BY <1>3
      <4>2. Taken(<< >>, Hash, MapCap, Missing) =
              [st |-> "OK", codes |-> [k \in DOMAIN << >> |-> Hash[<< >>[k].name]], first |-> Missing]
        BY <4>1 DEF Taken
      <4>3. [k \in DOMAIN << >> |-> Hash[<< >>[k].name]] = << >>
        OBVIOUS
      <4> QED BY <4>2, <4>3
    <3> QED BY <2>1, <2>2, <3>2, <3>3
  <2> QED BY <1>3, <2>3, <2>4
<1>7. CASE n > 0
  <2>1. q > 0
    BY <1>3, <1>7
  <2>2. Voice(list, 0)
    BY <1>3, <1>7 DEF UpToVoice
  <2>3. Engines(l, Hash, Digit, MapCap) = Taken(eng, Hash, MapCap, Missing)
    <3> HIDE DEF eng
    <3> QED BY <1>4, <1>5, <2>1, <2>2
  <2>4. Min(ends) = 9 * n - 8
    <3>1. ends = {k \in DOMAIN rest : k % 9 = 1 /\ EndsNine(rest, Digit, k)}
      OBVIOUS
    <3> HIDE DEF ends
    <3> QED BY <1>2, <1>7, <3>1, EnginesEnd
  <2>5. eng = [m \in 1 .. n |-> rest[9 * m - 8]]
    <3>1. ((9 * n - 8) + 8) \div 9 = n
      BY <1>3
    <3> HIDE DEF ends
    <3> QED BY <2>4, <3>1
  <2> HIDE DEF eng
  <2>6. Len(eng) = n /\ DOMAIN eng = 1 .. n
    BY <1>3, <2>5
  <2>7. [k \in DOMAIN eng |-> Hash[eng[k].name]] = Sounding(list, n)
    <3>1. ASSUME NEW m \in 1 .. n PROVE eng[m].name = list[9 * m - 7].name
      <4>1. PICK k \in 1 .. Len(rest) : k = 9 * m - 8 /\ k + 1 = 9 * m - 7
        BY <1>3
      <4>2. rest[k].name = list[k + 1].name
        BY <1>2 DEF Files
      <4> QED BY <2>5, <4>1, <4>2
    <3> QED BY <2>6, <3>1 DEF Sounding
  <2>8. Taken(eng, Hash, MapCap, Missing).codes = IF n > MapCap THEN << >> ELSE Sounding(list, n)
    <3>1. Taken(eng, Hash, MapCap, Missing) =
            IF n > MapCap THEN Refused("NOSPACE")
            ELSE [st |-> "OK", codes |-> Sounding(list, n), first |-> Missing]
      BY <2>6, <2>7 DEF Taken
    <3> QED BY <3>1 DEF Refused
  <2> QED BY <2>3, <2>8
<1> QED BY <1>3, <1>6, <1>7

LEMMA OneOfNine ==
  ASSUME NEW m \in Nat, m % 9 = 1
  PROVE  \E q \in Nat : m = 9 * q + 1
<1>1. m = 9 * (m \div 9) + 1 /\ m \div 9 \in Nat
  OBVIOUS
<1> QED BY <1>1

LEMMA SoundsKnown ==
  ASSUME Types, Repacked
  PROVE  Sounds
<1>1. PICK T : T = source.tree
  OBVIOUS
<1>2. WellFormed(T) /\ Naming(T, LastValid) /\ BlobSlots = SlotsOf(T)
  BY <1>1, TreeKept
<1>3. PICK b : Laid(SlotsOf(T), b, T)
  BY <1>2, TreeSlots DEF Laid
<1> DEFINE Right(path, list, n) ==
             Engines(Listing(BlobSlots, path), Hash, Digit, MapCap).codes =
               IF n > MapCap THEN << >> ELSE [m \in 1 .. n |-> Hash[list[9 * m - 7].name]]
           Kept(path, means, list, n) ==
             means.st = "IS_DIR" /\ OnlyFiles(list) /\ Len(list) % 9 = 1 => Right(path, list, n)
<1> SUFFICES ASSUME NEW path \in Paths, NEW means, means = Meaning(T, path),
                    NEW list, list = T[means.to], NEW n, n = Voices(list),
                    means.st = "IS_DIR", OnlyFiles(list), Len(list) % 9 = 1
             PROVE  Right(path, list, n)
  <2>1. Sounds <=> \A path \in Paths :
                     Kept(path, Meaning(T, path), T[Meaning(T, path).to], Voices(T[Meaning(T, path).to]))
    BY <1>1, Zenon DEF Sounds
  <2> HIDE DEF Right
  <2> QED BY <2>1
<1> HIDE DEF Right
<1>4. path \in Seq(STRING)
  BY ImageAssumption
<1>5. PICK L : Listing(BlobSlots, path) = [st |-> "OK", list |-> L] /\ Lists(L, list)
  BY <1>2, <1>3, <1>4, PathLists
<1>6. PICK q \in Nat : Len(list) = 9 * q + 1
  <2>1. Len(list) \in Nat \ {0}
    BY <1>5 DEF Lists
  <2> QED BY <2>1, OneOfNine
<1>7. UpToVoice(list, q, n)
  BY <1>6, VoicesCounted
<1>8. Engines(Listing(BlobSlots, path), Hash, Digit, MapCap).codes =
        IF n > MapCap THEN << >> ELSE Sounding(list, n)
  BY <1>5, <1>7, EnginesAre
<1> QED BY <1>8 DEF Right, Sounding

-----------------------------------------------------------------------------
LEMMA MaxIs ==
  ASSUME NEW S \in SUBSET Int, NEW m \in S, \A x \in S : x <= m
  PROVE  Max(S) = m
<1>1. PICK x : x = Max(S)
  OBVIOUS
<1>2. x \in S /\ \A y \in S : x >= y
  <2>1. \E y \in S : \A z \in S : y >= z
    BY DEF Max
  <2> QED BY <1>1, <2>1 DEF Max
<1>3. x <= m /\ m <= x /\ x \in Int /\ m \in Int
  BY <1>2
<1> QED BY <1>1, <1>3

(* What a car's z is when the logos up to the e-th entry have been marked. *)
ZIs(z, list, h, e) ==
  \/ z = 0 /\ \A x \in LogoHits(list, h) : x > e
  \/ \E x \in LogoHits(list, h) :
       x <= e /\ z = list[x].to /\ \A y \in LogoHits(list, h) : y <= e => y <= x

LEMMA HitsEven ==
  ASSUME NEW list, NEW h, Len(list) \in Nat
  PROVE  \A x \in LogoHits(list, h) : x \in 2 .. Len(list) /\ x \in Nat /\ x % 2 = 0
BY DEF LogoHits

LEMMA ZStart ==
  ASSUME NEW list, NEW h, Len(list) \in Nat
  PROVE  ZIs(0, list, h, 0)
<1>1. \A x \in LogoHits(list, h) : x > 0
  BY HitsEven
<1> QED BY <1>1 DEF ZIs

(* An entry that is no logo of the car leaves its z right.                 *)
LEMMA ZSkip ==
  ASSUME NEW list, NEW h, Len(list) \in Nat, NEW j \in Nat, NEW z, ZIs(z, list, h, 2 * j),
         2 * j + 2 \notin LogoHits(list, h)
  PROVE  ZIs(z, list, h, 2 * j + 2)
<1>1. ASSUME NEW x \in LogoHits(list, h) PROVE x <= 2 * j + 2 <=> x <= 2 * j
  <2>1. x \in Nat /\ x % 2 = 0 /\ x # 2 * j + 2
    BY HitsEven
  <2>2. x # 2 * j + 1
    <3>1. (2 * j + 1) % 2 = 1
      OBVIOUS
    <3> QED BY <2>1, <3>1
  <2> QED BY <2>1, <2>2
<1>2. CASE z = 0 /\ \A x \in LogoHits(list, h) : x > 2 * j
  <2>1. \A x \in LogoHits(list, h) : x > 2 * j + 2
    <3> SUFFICES ASSUME NEW x \in LogoHits(list, h) PROVE x > 2 * j + 2
      OBVIOUS
    <3>1. x \in Nat /\ x > 2 * j
      BY <1>2, HitsEven
    <3>2. ~(x <= 2 * j + 2)
      BY <1>1, <3>1
    <3> QED BY <3>1, <3>2
  <2> QED BY <1>2, <2>1 DEF ZIs
<1>3. CASE \E x \in LogoHits(list, h) :
             x <= 2 * j /\ z = list[x].to /\ \A y \in LogoHits(list, h) : y <= 2 * j => y <= x
  <2>1. PICK x \in LogoHits(list, h) :
          x <= 2 * j /\ z = list[x].to /\ \A y \in LogoHits(list, h) : y <= 2 * j => y <= x
    BY <1>3
  <2>2. x <= 2 * j + 2
    BY <1>1, <2>1
  <2>3. \A y \in LogoHits(list, h) : y <= 2 * j + 2 => y <= x
    BY <1>1, <2>1
  <2> QED BY <2>1, <2>2, <2>3 DEF ZIs
<1> QED BY <1>2, <1>3 DEF ZIs

(* An entry that is one makes it right.                                    *)
LEMMA ZHit ==
  ASSUME NEW list, NEW h, NEW e, e \in LogoHits(list, h), Len(list) \in Nat
  PROVE  ZIs(list[e].to, list, h, e)
<1>1. e <= e
  BY HitsEven
<1> QED BY <1>1 DEF ZIs

(* In the end z is the file of the last hit.                               *)
LEMMA ZEnd ==
  ASSUME NEW list, NEW h, Len(list) \in Nat, NEW e \in Nat, NEW z, ZIs(z, list, h, e),
         \A x \in LogoHits(list, h) : x <= e
  PROVE  /\ LogoHits(list, h) = {} => z = 0
         /\ LogoHits(list, h) # {} => /\ Max(LogoHits(list, h)) \in LogoHits(list, h)
                                      /\ z = list[Max(LogoHits(list, h))].to
<1> DEFINE S == LogoHits(list, h)
<1>1. S \in SUBSET Int
  BY HitsEven
<1>2. CASE S = {}
  BY <1>2 DEF ZIs
<1>3. CASE S # {}
  <2>1. PICK y \in S : y <= e
    BY <1>3
  <2>2. y \in Nat /\ \A x \in S : x \in Nat
    BY HitsEven
  <2>3. PICK x \in S : z = list[x].to /\ \A w \in S : w <= e => w <= x
    <3>1. ASSUME \A w \in S : w > e PROVE FALSE
      <4>1. y > e /\ y <= e
        BY <2>1, <3>1
      <4> QED BY <2>2, <4>1
    <3> QED BY <3>1 DEF ZIs
  <2>4. \A w \in S : w <= x
    BY <2>3
  <2>5. Max(S) = x
    <3> HIDE DEF S
    <3> QED BY <1>1, <2>4, MaxIs
  <2> QED BY <1>3, <2>3, <2>5
<1> QED BY <1>2, <1>3

Rows == [hash : Nat, index : Nat, z : Nat]

(* The table of n cars when the logos up to the e-th entry are marked.     *)
Marked(t, from, n, list, e) ==
  /\ t \in [1 .. n -> Rows]
  /\ \A k \in 1 .. n : /\ t[k].hash = Hash[from[4 * k - 2].name]
                       /\ ZIs(t[k].z, list, t[k].hash, e)

LEMMA MarkedRises ==
  ASSUME NEW L, NEW from, Lists(L, from), NEW n, IsGarage(from, n),
         NEW t, NEW list, NEW e, Marked(t, from, n, list, e)
  PROVE  Rising(t, n) /\ Len(t) = n
<1> DEFINE tab == [k \in 1 .. n |-> CarAt(from, k)]
<1>1. Rising(tab, n)
  BY CarsRise
<1>2. \A k \in 1 .. n : tab[k].hash = Hash[from[4 * k - 2].name]
  BY DEF CarAt
<1>3. \A k \in 1 .. n : tab[k].hash = t[k].hash
  BY <1>2 DEF Marked
<1> HIDE DEF tab
<1>4. n \in Nat \ {0}
  BY <1>1 DEF Rising
<1>5. Len(t) = n
  BY <1>4 DEF Marked
<1> QED BY <1>1, <1>3, <1>5 DEF Rising

(* Marking keeps the hashes, so the search stays right between the marks.  *)
LEMMA MarkedFinds ==
  ASSUME NEW t, NEW n, Rising(t, n), NEW h \in Nat
  PROVE  \/ \E k \in 1 .. n : t[k].hash = h /\ CarFind(t, h) = k - 1
         \/ CarFind(t, h) = -1 /\ \A k \in 1 .. n : t[k].hash # h
<1>1. n \in Nat \ {0}
  BY DEF Rising
<1>2. CarFind(t, h) = Found(t, h, n, 0, n)
  BY SearchRight
<1>3. CASE \E k \in 1 .. n : t[k].hash = h
  <2>1. PICK k \in 1 .. n : t[k].hash = h
    BY <1>3
  <2>2. k - 1 \in 0 .. n /\ k - 1 < n /\ (k - 1) + 1 = k /\ 0 \in 0 .. n /\ n \in 0 .. n
    BY <1>1
  <2>3. t[(k - 1) + 1].hash = h
    BY <2>1, <2>2
  <2>4. Found(t, h, n, 0, n) = k - 1
    BY <2>2, <2>3, FoundAt
  <2> QED BY <1>2, <2>1, <2>4
<1>4. CASE \A k \in 1 .. n : t[k].hash # h
  <2>1. \A k \in 0 .. n : k < n => t[k + 1].hash # h
    <3> SUFFICES ASSUME NEW k \in 0 .. n, k < n PROVE t[k + 1].hash # h
      OBVIOUS
    <3>1. k + 1 \in 1 .. n
      BY <1>1
    <3> QED BY <1>4, <3>1
  <2> QED BY <1>2, <1>4, <2>1, FoundNone
<1> QED BY <1>3, <1>4

Written(u, t, n, k, z) ==
  /\ u \in [1 .. n -> Rows] /\ u[k].hash = t[k].hash /\ u[k].z = z
  /\ \A m \in 1 .. n : m # k => u[m] = t[m]

LEMMA MarkOnce ==
  ASSUME NEW t, NEW n \in Nat, t \in [1 .. n -> Rows], NEW entry, NEW k \in 1 .. n,
         ~Skip[entry.name], CarFind(t, Hash[entry.name]) = k - 1, entry.next \in Nat
  PROVE  Written(Marks(t, entry, Hash, Skip), t, n, k, entry.next)
<1>1. (k - 1) + 1 = k /\ ~(k - 1 < 0)
  OBVIOUS
<1>2. Marks(t, entry, Hash, Skip) = [t EXCEPT ![k].z = entry.next]
  BY <1>1 DEF Marks
<1>3. PICK u : u = [t EXCEPT ![k] = [t[k] EXCEPT !.z = entry.next]]
  OBVIOUS
<1>4. [t EXCEPT ![k].z = entry.next] = u
  BY <1>3
<1>5. [t[k] EXCEPT !.z = entry.next] \in Rows
  <2>1. t[k] \in Rows
    OBVIOUS
  <2> QED BY <2>1 DEF Rows
<1>6. u \in [1 .. n -> Rows]
  BY <1>3, <1>5
<1>7. \A m \in 1 .. n : u[m] = IF m = k THEN [t[k] EXCEPT !.z = entry.next] ELSE t[m]
  BY <1>3
<1>8. u[k].hash = t[k].hash /\ u[k].z = entry.next
  <2>1. t[k] \in Rows /\ u[k] = [t[k] EXCEPT !.z = entry.next]
    BY <1>7
  <2> QED BY <2>1 DEF Rows
<1>9. Written(u, t, n, k, entry.next)
  BY <1>6, <1>7, <1>8 DEF Written
<1> QED BY <1>2, <1>4, <1>9

(* One pair of logos.                                                      *)
LEMMA MarkStep ==
  ASSUME NEW L, NEW from, Lists(L, from), NEW n, IsGarage(from, n),
         NEW list, Len(list) \in Nat, NEW j \in Nat, NEW x \in 2 .. Len(list), x = 2 * j + 2,
         NEW t, Marked(t, from, n, list, 2 * j), NEW entry,
         entry.name = list[x].name, entry.next = list[x].to, entry.next \in Nat,
         Hash[entry.name] \in Nat
  PROVE  Marked(Marks(t, entry, Hash, Skip), from, n, list, 2 * j + 2)
<1>1. n \in Nat \ {0} /\ Rising(t, n)
  BY MarkedRises DEF Rising
<1>2. PICK h \in Nat : h = Hash[entry.name]
  OBVIOUS
<1>3. \A g : x \in LogoHits(list, g) <=> ~Skip[entry.name] /\ g = h
  <2>1. x % 2 = 0
    OBVIOUS
  <2> QED BY <1>2, <2>1 DEF LogoHits
<1>4. /\ t \in [1 .. n -> Rows]
      /\ \A k \in 1 .. n : /\ t[k].hash = Hash[from[4 * k - 2].name]
                           /\ ZIs(t[k].z, list, t[k].hash, 2 * j)
  BY DEF Marked
<1>5. CASE Skip[entry.name] \/ (CarFind(t, h) = -1 /\ \A k \in 1 .. n : t[k].hash # h)
  <2>1. Marks(t, entry, Hash, Skip) = t
    <3>1. -1 < 0
      OBVIOUS
    <3> QED BY <1>2, <1>5, <3>1 DEF Marks
  <2>2. ASSUME NEW k \in 1 .. n PROVE ZIs(t[k].z, list, t[k].hash, 2 * j + 2)
    <3>1. 2 * j + 2 \notin LogoHits(list, t[k].hash)
      BY <1>3, <1>5
    <3> QED BY <1>4, <3>1, ZSkip
  <2> QED BY <1>4, <2>1, <2>2 DEF Marked
<1>6. CASE ~Skip[entry.name] /\ \E k \in 1 .. n : t[k].hash = h /\ CarFind(t, h) = k - 1
  <2>1. PICK k \in 1 .. n : t[k].hash = h /\ CarFind(t, h) = k - 1
    BY <1>6
  <2>2. PICK u : u = Marks(t, entry, Hash, Skip)
    OBVIOUS
  <2>3. Written(u, t, n, k, entry.next)
    <3>1. CarFind(t, Hash[entry.name]) = k - 1 /\ n \in Nat
      BY <1>1, <1>2, <2>1
    <3>2. t \in [1 .. n -> Rows] /\ ~Skip[entry.name]
      BY <1>4, <1>6
    <3> QED BY <2>2, <3>1, <3>2, MarkOnce
  <2>4. u \in [1 .. n -> Rows] /\ u[k].hash = t[k].hash /\ u[k].z = list[x].to
    BY <2>3 DEF Written
  <2>5. ZIs(u[k].z, list, u[k].hash, 2 * j + 2)
    <3>1. x \in LogoHits(list, t[k].hash)
      BY <1>3, <1>6, <2>1
    <3>2. ZIs(list[x].to, list, t[k].hash, x)
      BY <3>1, ZHit
    <3> QED BY <2>4, <3>2
  <2>6. ASSUME NEW m \in 1 .. n, m # k
        PROVE  u[m] = t[m] /\ ZIs(u[m].z, list, u[m].hash, 2 * j + 2)
    <3>1. u[m] = t[m]
      BY <2>3, <2>6 DEF Written
    <3>2. t[m].hash # h
      <4>1. m < k => t[m].hash < t[k].hash
        BY <1>1 DEF Rising
      <4>2. k < m => t[k].hash < t[m].hash
        BY <1>1 DEF Rising
      <4>3. m < k \/ k < m
        BY <1>1, <2>6
      <4>4. t[m].hash \in Nat
        BY <1>1 DEF Rising
      <4> QED BY <2>1, <4>1, <4>2, <4>3, <4>4
    <3>3. 2 * j + 2 \notin LogoHits(list, t[m].hash)
      BY <1>3, <3>2
    <3>4. ZIs(t[m].z, list, t[m].hash, 2 * j + 2)
      BY <1>4, <3>3, ZSkip
    <3> QED BY <3>1, <3>4
  <2>7. \A m \in 1 .. n : /\ u[m].hash = Hash[from[4 * m - 2].name]
                          /\ ZIs(u[m].z, list, u[m].hash, 2 * j + 2)
    <3> SUFFICES ASSUME NEW m \in 1 .. n
                 PROVE  /\ u[m].hash = Hash[from[4 * m - 2].name]
                        /\ ZIs(u[m].z, list, u[m].hash, 2 * j + 2)
      OBVIOUS
    <3>1. CASE m = k
      BY <1>4, <2>4, <2>5, <3>1
    <3>2. CASE m # k
      BY <1>4, <2>6, <3>2
    <3> QED BY <3>1, <3>2
  <2> QED BY <2>2, <2>4, <2>7 DEF Marked
<1>7. \/ \E k \in 1 .. n : t[k].hash = h /\ CarFind(t, h) = k - 1
      \/ CarFind(t, h) = -1 /\ \A k \in 1 .. n : t[k].hash # h
  BY <1>1, MarkedFinds
<1> QED BY <1>5, <1>6, <1>7

Passes(f, tab, rest, m) ==
  f = [k \in 0 .. m |-> IF k = 0 THEN tab ELSE Marks(f[k - 1], rest[2 * k - 1], Hash, Skip)]

(* The passes over the pairs, as a function.                               *)
LEMMA PassesExist ==
  ASSUME NEW m \in Nat, NEW tab, NEW rest
  PROVE  \E f : Passes(f, tab, rest, m)
<1> DEFINE Good == {k \in 0 .. m : \E f : Passes(f, tab, rest, k)}
           Turn(t, k) == Marks(t, rest[2 * k - 1], Hash, Skip)
<1>1. 0 \in Good
  <2>1. Passes([k \in 0 .. 0 |-> tab], tab, rest, 0)
    <3>1. \A k \in 0 .. 0 : k = 0
      OBVIOUS
    <3> QED BY <3>1 DEF Passes
  <2> QED BY <2>1
<1>2. ASSUME NEW k \in 0 .. m - 1, k \in Good PROVE k + 1 \in Good
  <2>1. PICK f : Passes(f, tab, rest, k)
    BY <1>2
  <2> HIDE DEF Turn
  <2> DEFINE h == [d \in 0 .. k + 1 |-> IF d = k + 1 THEN Turn(f[k], k + 1) ELSE f[d]]
  <2>2. ASSUME NEW d \in 0 .. k + 1
        PROVE  h[d] = IF d = 0 THEN tab ELSE Turn(h[d - 1], d)
    <3>1. CASE d = k + 1
      <4>1. d # 0 /\ d - 1 = k /\ k \in 0 .. k + 1 /\ k # k + 1
        BY <3>1
      <4>2. h[d - 1] = f[k]
        BY <4>1
      <4> QED BY <3>1, <4>1, <4>2
    <3>2. CASE d # k + 1
      <4>1. d \in 0 .. k /\ h[d] = f[d]
        BY <3>2
      <4>2. f[d] = IF d = 0 THEN tab ELSE Turn(f[d - 1], d)
        BY <2>1, <4>1 DEF Passes, Turn
      <4>3. d # 0 => h[d - 1] = f[d - 1]
        BY <4>1
      <4> QED BY <4>1, <4>2, <4>3
    <3> QED BY <3>1, <3>2
  <2>3. Passes(h, tab, rest, k + 1)
    <3>1. h = [d \in 0 .. k + 1 |-> h[d]]
      OBVIOUS
    <3> HIDE DEF h
    <3>2. h = [d \in 0 .. k + 1 |-> IF d = 0 THEN tab ELSE Turn(h[d - 1], d)]
      BY <2>2, <3>1
    <3> QED BY <3>2 DEF Passes, Turn
  <2>4. k + 1 \in 0 .. m
    OBVIOUS
  <2> QED BY <2>3, <2>4
<1>3. Good = 0 .. m
  <2>1. Good \in SUBSET (0 .. m)
    OBVIOUS
  <2> HIDE DEF Good
  <2> QED BY <1>1, <1>2, <2>1, StepByStep
<1>4. m \in Good
  BY <1>3
<1> QED BY <1>4

Finished(out, last, tab, z) ==
  out = [k \in DOMAIN tab |-> IF last[k].z = 0 THEN [last[k] EXCEPT !.z = z] ELSE last[k]]

LEMMA AnnotateIs ==
  ASSUME NEW l, l.st = "OK", NEW m \in Nat, Rest(l.list) # << >>, Len(Rest(l.list)) = 2 * m, NEW tab
  PROVE  \E f : /\ Passes(f, tab, Rest(l.list), m)
                /\ Finished(Annotate(l, tab, Hash, Skip).tab, f[m], tab, Rest(l.list)[1].next)
<1> DEFINE rest == Rest(l.list)
           F == CHOOSE f : Passes(f, tab, rest, m)
           D == CHOOSE f : Passes(f, tab, rest, Len(rest) \div 2)
           T == D[Len(rest) \div 2]
<1>1. Len(rest) \div 2 = m /\ Len(rest) % 2 # 1
  OBVIOUS
<1>2. Passes(F, tab, rest, m)
  BY PassesExist
<1>3. D = F
  BY <1>1
<1>4. Annotate(l, tab, Hash, Skip) =
        IF l.st # "OK" THEN [st |-> ReadAs(l.st), tab |-> tab]
        ELSE IF rest = << >> \/ Len(rest) % 2 = 1 THEN [st |-> "TRUNCATED", tab |-> T]
        ELSE [st |-> "OK",
              tab |-> [k \in DOMAIN tab |->
                         IF T[k].z = 0 THEN [T[k] EXCEPT !.z = rest[1].next] ELSE T[k]]]
  BY Zenon DEF Annotate, Passes
<1>5. T = F[m]
  BY <1>1, <1>3
<1>6. rest # << >>
  OBVIOUS
<1> HIDE DEF T, D, F, rest
<1>7. Annotate(l, tab, Hash, Skip).tab =
        [k \in DOMAIN tab |-> IF T[k].z = 0 THEN [T[k] EXCEPT !.z = rest[1].next] ELSE T[k]]
  BY <1>1, <1>4, <1>6
<1>8. Finished(Annotate(l, tab, Hash, Skip).tab, F[m], tab, rest[1].next)
  BY <1>5, <1>7 DEF Finished
<1> QED BY <1>2, <1>8 DEF rest

Coded(list) == \A k \in 2 .. Len(list) : Hash[list[k].name] \in Nat /\ list[k].to \in Nat \ {0}

(* All pairs.                                                              *)
LEMMA PassesMark ==
  ASSUME NEW L, NEW from, Lists(L, from), NEW n, IsGarage(from, n),
         NEW list, NEW rest, Files(rest, list), NEW m \in Nat, Len(rest) = 2 * m,
         Coded(list),
         NEW tab, Marked(tab, from, n, list, 0), NEW f, Passes(f, tab, rest, m)
  PROVE  Marked(f[m], from, n, list, 2 * m)
<1> DEFINE Good == {k \in 0 .. m : Marked(f[k], from, n, list, 2 * k)}
<1>1. 0 \in Good
  <2>1. f[0] = tab
    BY DEF Passes
  <2>2. 2 * 0 = 0 /\ 0 \in 0 .. m
    OBVIOUS
  <2> QED BY <2>1, <2>2
<1>2. ASSUME NEW k \in 0 .. m - 1, k \in Good PROVE k + 1 \in Good
  <2>1. PICK x : x = 2 * k + 2
    OBVIOUS
  <2>2. Len(list) \in Nat /\ Len(list) = 2 * m + 1
    <3>1. Len(list) \in Nat \ {0} /\ Len(rest) = Len(list) - 1
      BY DEF Files
    <3> QED BY <3>1
  <2>3. k + 1 \in 0 .. m /\ k + 1 # 0 /\ (k + 1) - 1 = k /\ 2 * (k + 1) - 1 = x - 1
        /\ 2 * (k + 1) = 2 * k + 2 /\ k \in Nat
    BY <2>1
  <2>4. x \in 2 .. Len(list) /\ x \in 1 .. Len(list) /\ x > 1
        /\ x - 1 \in 1 .. Len(rest) /\ (x - 1) + 1 = x
    BY <2>1, <2>2
  <2>5. PICK entry : entry = rest[x - 1]
    OBVIOUS
  <2>6. f[k + 1] = Marks(f[k], entry, Hash, Skip)
    <3>1. f[k + 1] = IF k + 1 = 0 THEN tab
                     ELSE Marks(f[(k + 1) - 1], rest[2 * (k + 1) - 1], Hash, Skip)
      BY <2>3 DEF Passes
    <3> QED BY <2>3, <2>5, <3>1
  <2>7. entry.name = list[x].name /\ entry.next = list[x].to
    <3>1. entry.name = list[(x - 1) + 1].name /\ entry.next = list[(x - 1) + 1].to
      BY <2>4, <2>5 DEF Files
    <3> QED BY <2>4, <3>1
  <2>8. Hash[entry.name] \in Nat /\ entry.next \in Nat
    BY <2>4, <2>7 DEF Coded
  <2>9. Marked(f[k], from, n, list, 2 * k)
    BY <1>2
  <2>10. Marked(Marks(f[k], entry, Hash, Skip), from, n, list, 2 * k + 2)
    BY <2>1, <2>2, <2>3, <2>4, <2>7, <2>8, <2>9, MarkStep
  <2> QED BY <2>3, <2>6, <2>10
<1>3. Good = 0 .. m
  <2>1. Good \in SUBSET (0 .. m)
    OBVIOUS
  <2> HIDE DEF Good
  <2> QED BY <1>1, <1>2, <2>1, StepByStep
<1>4. m \in Good
  BY <1>3
<1> QED BY <1>4

LEMMA MarkedFirst ==
  ASSUME NEW L, NEW from, Lists(L, from), NEW n, IsGarage(from, n),
         NEW list, Len(list) \in Nat
  PROVE  Marked([k \in 1 .. n |-> CarAt(from, k)], from, n, list, 0)
<1>1. n \in Nat \ {0} /\ Len(from) = 4 * n + 1 /\ OnlyFiles(from)
  BY GarageIs DEF IsGarage, HoldsCars
<1>2. ASSUME NEW k \in 1 .. n
      PROVE  /\ CarAt(from, k) \in Rows /\ CarAt(from, k).hash = Hash[from[4 * k - 2].name]
             /\ CarAt(from, k).z = 0
  <2>1. Hash[from[4 * k - 2].name] \in Nat
    BY GarageIs
  <2>2. from[4 * k - 2].to \in Nat
    <3>1. PICK x \in 2 .. Len(from) : x = 4 * k - 2
      BY <1>1
    <3>2. from[x].to \in Nat
      BY <1>1, FileOf
    <3> QED BY <3>1, <3>2
  <2> QED BY <2>1, <2>2 DEF CarAt, Rows
<1>3. \A h : ZIs(0, list, h, 0)
  BY ZStart
<1> QED BY <1>2, <1>3 DEF Marked

LEMMA FilesCoded ==
  ASSUME NEW L, NEW list, Lists(L, list), OnlyFiles(list)
  PROVE  Coded(list)
<1> SUFFICES ASSUME NEW k \in 2 .. Len(list)
             PROVE  Hash[list[k].name] \in Nat /\ list[k].to \in Nat \ {0}
  BY DEF Coded
<1>1. list[k].to > 1 /\ list[k].to \in Nat
  BY FileOf
<1>2. list[k].to \in Nat \ {0}
  BY <1>1
<1>3. Len(list) \in Nat
  BY FilesListed
<1>4. k \in 1 .. Len(list)
  BY <1>3
<1>5. Hash[list[k].name] \in Nat
  BY <1>4, FilesListed
<1> QED BY <1>2, <1>5

(* A table of n cars, and a listing l of the pairs of logos.               *)
CarsOf(tab, from, n) ==
  /\ \E F : Lists(F, from)
  /\ IsGarage(from, n) /\ tab = [k \in 1 .. n |-> CarAt(from, k)]
LogoPairs(l, list) ==
  /\ \E L : Lists(L, list) /\ l = [st |-> "OK", list |-> L]
  /\ OnlyFiles(list) /\ Len(list) > 2 /\ Len(list) % 2 = 1

(* Each car has the last logo of its hash, or the first of all.            *)
LEMMA LogosAre ==
  ASSUME NEW from, NEW n, NEW tab, CarsOf(tab, from, n), NEW list, NEW l, LogoPairs(l, list),
         NEW k \in 1 .. n
  PROVE  Annotate(l, tab, Hash, Skip).tab[k].z =
           LogoOf(list, tab[k].hash)
<1> PICK F : Lists(F, from)
  BY DEF CarsOf
<1> PICK L : Lists(L, list) /\ l = [st |-> "OK", list |-> L]
  BY DEF LogoPairs
<1>1. IsGarage(from, n) /\ tab = [x \in 1 .. n |-> CarAt(from, x)]
  BY DEF CarsOf
<1>2. OnlyFiles(list) /\ Len(list) > 2 /\ Len(list) % 2 = 1
  BY DEF LogoPairs
<1>3. PICK rest : rest = Rest(L)
  OBVIOUS
<1>4. Files(rest, list)
  BY <1>3, <1>2, FilesRest
<1>5. PICK c \in Nat : c = Len(list) /\ c > 2 /\ c % 2 = 1
  BY <1>2, FilesListed
<1>6. PICK m \in Nat : c = 2 * m + 1 /\ m > 0
  <2>1. c = 2 * (c \div 2) + 1 /\ c \div 2 \in Nat /\ c \div 2 > 0
    BY <1>5
  <2> QED BY <2>1
<1>7. Len(rest) = 2 * m /\ rest # << >> /\ 1 \in 1 .. Len(rest)
  <2>1. Len(rest) = c - 1
    BY <1>4, <1>5 DEF Files
  <2>2. Len(rest) = 2 * m /\ 1 \in 1 .. Len(rest)
    BY <1>6, <2>1
  <2>3. rest # << >>
    BY <2>2
  <2> QED BY <2>2, <2>3
<1>8. rest[1].next = list[2].to
  <2>1. rest[1].next = list[1 + 1].to
    BY <1>4, <1>7 DEF Files
  <2> QED BY <2>1
<1>9. PICK f : /\ Passes(f, tab, rest, m)
               /\ Finished(Annotate(l, tab, Hash, Skip).tab, f[m], tab, rest[1].next)
  <2>1. l.st = "OK" /\ Rest(l.list) = rest
    BY <1>3
  <2> QED BY <1>7, <2>1, AnnotateIs
<1>10. Marked(tab, from, n, list, 0)
  BY <1>5, <1>1, MarkedFirst
<1>11. Marked(f[m], from, n, list, 2 * m)
  BY <1>4, <1>7, <1>9, <1>10, <1>1, <1>2, FilesCoded, PassesMark
<1>12. PICK row : row = f[m][k] /\ row \in Rows /\ row.hash = tab[k].hash
                  /\ ZIs(row.z, list, tab[k].hash, 2 * m)
  <2>1. f[m][k] \in Rows /\ f[m][k].hash = Hash[from[4 * k - 2].name]
        /\ ZIs(f[m][k].z, list, f[m][k].hash, 2 * m)
    BY <1>11 DEF Marked
  <2>2. tab[k].hash = Hash[from[4 * k - 2].name]
    BY <1>1 DEF CarAt
  <2> QED BY <2>1, <2>2
<1>13. Annotate(l, tab, Hash, Skip).tab[k] =
         IF row.z = 0 THEN [row EXCEPT !.z = list[2].to] ELSE row
  <2>1. PICK out, last : out = Annotate(l, tab, Hash, Skip).tab /\ last = f[m]
    OBVIOUS
  <2>2. Finished(out, last, tab, list[2].to) /\ row = last[k]
    BY <1>8, <1>9, <1>12, <2>1
  <2>3. out = [x \in DOMAIN tab |->
                 IF last[x].z = 0 THEN [last[x] EXCEPT !.z = list[2].to] ELSE last[x]]
    BY <2>2 DEF Finished
  <2>4. k \in DOMAIN tab
    BY <1>1
  <2>5. out[k] = IF last[k].z = 0 THEN [last[k] EXCEPT !.z = list[2].to] ELSE last[k]
    BY <2>3, <2>4, Zenon
  <2> QED BY <2>1, <2>2, <2>5
<1>14. Annotate(l, tab, Hash, Skip).tab[k].z = IF row.z = 0 THEN list[2].to ELSE row.z
  BY <1>12, <1>13 DEF Rows
<1>15. PICK S : S = LogoHits(list, tab[k].hash)
  OBVIOUS
<1>16. (S = {} => row.z = 0) /\ (S # {} => Max(S) \in S /\ row.z = list[Max(S)].to)
  <2>1. ASSUME NEW x \in S PROVE x <= 2 * m
    <3>1. x \in 2 .. c /\ x \in Nat /\ x % 2 = 0
      BY <1>5, <1>15, HitsEven
    <3>2. x # 2 * m + 1
      <4>1. (2 * m + 1) % 2 = 1
        OBVIOUS
      <4> QED BY <3>1, <4>1
    <3> QED BY <1>6, <3>1, <3>2
  <2>2. 2 * m \in Nat /\ Len(list) \in Nat
    BY <1>5
  <2> QED BY <1>12, <1>15, <2>1, <2>2, ZEnd
<1>17. S # {} => row.z # 0
  <2> HAVE S # {}
  <2>1. Max(S) \in 2 .. Len(list)
    BY <1>5, <1>15, <1>16, HitsEven
  <2>2. list[Max(S)].to \in Nat \ {0}
    BY <1>2, <2>1, FilesCoded DEF Coded
  <2> QED BY <1>16, <2>2
<1> QED BY <1>14, <1>15, <1>16, <1>17 DEF LogoOf

LEMMA LogosKnown ==
  ASSUME Types, Repacked
  PROVE  Logos
<1>1. PICK T : T = source.tree
  OBVIOUS
<1>2. WellFormed(T) /\ Naming(T, LastValid) /\ BlobSlots = SlotsOf(T)
  BY <1>1, TreeKept
<1>3. PICK b : Laid(SlotsOf(T), b, T)
  BY <1>2, TreeSlots DEF Laid
<1> DEFINE Right(path, at, from, list, tab) ==
             HoldsCars(from) /\ OnlyFiles(list) /\ Len(list) > 2 /\ Len(list) % 2 = 1 =>
               \A k \in DOMAIN tab :
                 Annotate(Listing(BlobSlots, at), tab, Hash, Skip).tab[k].z =
                   LogoOf(list, tab[k].hash)
<1> SUFFICES ASSUME NEW path \in Paths, NEW at \in Paths,
                    Meaning(T, path).st = "IS_DIR", Meaning(T, at).st = "IS_DIR",
                    NEW from, from = T[Meaning(T, path).to], NEW list, list = T[Meaning(T, at).to],
                    NEW tab, tab = CarTable(ListDir(BlobSlots, path), Hash, CarCap)
             PROVE  Right(path, at, from, list, tab)
  <2>1. Logos <=> \A path, at \in {p \in Paths : Meaning(T, p).st = "IS_DIR"} :
                    Right(path, at, T[Meaning(T, path).to], T[Meaning(T, at).to],
                          CarTable(ListDir(BlobSlots, path), Hash, CarCap))
    BY <1>1, Zenon DEF Logos
  <2> HIDE DEF Right
  <2> QED BY <2>1
<1> SUFFICES ASSUME HoldsCars(from), OnlyFiles(list), Len(list) > 2, Len(list) % 2 = 1,
                    NEW k \in DOMAIN tab, NEW l, l = Listing(BlobSlots, at)
             PROVE  Annotate(l, tab, Hash, Skip).tab[k].z = LogoOf(list, tab[k].hash)
  OBVIOUS
<1> HIDE DEF Right
<1>4. path \in Seq(STRING) /\ at \in Seq(STRING)
  BY ImageAssumption
<1>5. PICK F : Listing(BlobSlots, path) = [st |-> "OK", list |-> F] /\ Lists(F, from)
  BY <1>2, <1>3, <1>4, PathLists
<1>6. PICK L : l = [st |-> "OK", list |-> L] /\ Lists(L, list)
  BY <1>2, <1>3, <1>4, PathLists
<1>7. PICK n : IsGarage(from, n)
  BY DEF IsGarage
<1>8. tab = IF n >= CarCap THEN << >> ELSE [x \in 1 .. n |-> CarAt(from, x)]
  <2>1. ListDir(BlobSlots, path) = F
    BY <1>5 DEF ListDir
  <2> QED BY <1>5, <1>7, <2>1, CarTableIs
<1>9. tab = [x \in 1 .. n |-> CarAt(from, x)] /\ k \in 1 .. n
  <2>1. DOMAIN << >> = {}
    OBVIOUS
  <2> QED BY <1>8, <2>1
<1>10. CarsOf(tab, from, n)
  BY <1>5, <1>7, <1>9 DEF CarsOf
<1>11. LogoPairs(l, list)
  BY <1>6 DEF LogoPairs
<1>12. k \in 1 .. n
  BY <1>9
<1>13. LogoPairs(l, list) /\ CarsOf(tab, from, n) =>
         \A x \in 1 .. n : Annotate(l, tab, Hash, Skip).tab[x].z = LogoOf(list, tab[x].hash)
  BY LogosAre
<1> QED BY <1>10, <1>11, <1>12, <1>13, Zenon

LEMMA TablesKnown ==
  ASSUME Types, Enough /\ Delivered => Repacked
  PROVE  TablesName
BY PinsKnown, CarsKnown, MapsKnown, SoundsKnown, LogosKnown DEF TablesName, Enough

(* If the sizes sum up to an offset, the tables that are built by walking  *)
(* the repacked volume name the files the source's tree names: the index   *)
(* cache a path's file or a directory's first; the car table each car's    *)
(* first file, found again by the halving search from the car's hash and   *)
(* from no other, and for its logo the last of its hash or the first of    *)
(* all; the course map and the wheels every file of their directory in its *)
(* order, and the engines one of nine up to the first without a digit      *)
(* (gt2_q2_cache_build and gt2_crsmap_build, asset.c; gt2_car_index_build, *)
(* gt2_car_find, gt2_car_logo_annotate, gt2_wheel_build and                *)
(* gt2_engine_build, car.c).                                               *)
THEOREM TablesKept == Spec => []TablesName
<1> DEFINE Inv == PackInv /\ (Enough /\ Delivered => Repacked)
<1>1. Init => Inv
  BY KeptInit DEF Init, Delivered
<1>2. Inv /\ [Next]_vars => Inv'
  BY KeptStep, RepackedStep
<1>3. Inv => TablesName
  BY TablesKnown DEF PackInv
<1> QED BY <1>1, <1>2, <1>3, PTL DEF Spec
=============================================================================
