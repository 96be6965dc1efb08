------------------------------ MODULE McdProofs ------------------------------
(***************************************************************************)
(* Proofs about the memory-card image, for every number of entries, every  *)
(* set of names and every set of bodies.                                   *)
(*   - any legal calls: the image is well typed and its chains climb;      *)
(*   - calls that delete whole files only: blocks and frames stay paired,  *)
(*     files are whole and disjoint, a call leaves the other files alone,  *)
(*     and the card is the map from names to bodies its callers see.       *)
(***************************************************************************)
EXTENDS McdCard, FiniteSetTheorems, WellFoundedInduction, TLAPS

(* Frames in use are marked by Live, and the start of a file is one.       *)
LEMMA FirstsInUse == Firsts \subseteq InUse
  BY DEF Firsts, InUse, Live

(* A chain holds its first frame, is made of frames, is closed under next, *)
(* and lies inside every closed set that holds its first frame.            *)
LEMMA ChainBasics ==
  ASSUME TypeOK, NEW f \in Frames
  PROVE  /\ f \in Chain(f)
         /\ Chain(f) \subseteq Frames
         /\ Closed(Chain(f))
         /\ \A S \in SUBSET Frames : f \in S /\ Closed(S) => Chain(f) \subseteq S
<1>1. f \in Chain(f) /\ Chain(f) \subseteq Frames
  BY DEF Chain
<1>2. \A S \in SUBSET Frames : f \in S /\ Closed(S) => Chain(f) \subseteq S
  BY DEF Chain
<1>3. ASSUME NEW g \in Chain(f), dir[g].next # End
      PROVE  dir[g].next \in Chain(f)
  <2>1. g \in Frames /\ dir[g].next \in Frames
    BY <1>1, <1>3 DEF TypeOK
  <2>2. ASSUME NEW S \in SUBSET Frames, f \in S, Closed(S)
        PROVE  dir[g].next \in S
    BY <2>2, <1>2, <1>3 DEF Closed
  <2> QED BY <2>1, <2>2 DEF Chain
<1>4. Closed(Chain(f))
  BY <1>3 DEF Closed
<1> QED BY <1>1, <1>2, <1>4

(* A block is unused when no chain of an entry in use goes through it.     *)
LEMMA UnusedIs ==
  Unused = {b \in Blocks : \A f \in InUse : b - 1 \notin Chain(f)}
  BY DEF Unused

(* An unused block's own frame is free: used_blocks starts every walk at   *)
(* the frame itself.                                                       *)
LEMMA UnusedIsUnset ==
  ASSUME TypeOK
  PROVE  \A b \in Unused : b - 1 \in Unset
<1> SUFFICES ASSUME NEW b \in Unused PROVE b - 1 \in Unset
  OBVIOUS
<1>1. b - 1 \in Frames
  BY EntriesAssumption, UnusedIs DEF Blocks, Frames
<1>2. b - 1 \in Chain(b - 1)
  BY <1>1, ChainBasics
<1> QED BY <1>1, <1>2, UnusedIs DEF Unset

----------------------------------------------------------------------------
(* Counting: places in a finite set of numbers.                            *)
LEMMA PlaceType ==
  ASSUME NEW S \in SUBSET (0..Entries), NEW x \in S
  PROVE  /\ IsFiniteSet({y \in S : y <= x})
         /\ Place(S, x) \in Nat
         /\ Place(S, x) >= 1
<1>1. IsFiniteSet(0..Entries)
  BY FS_Interval, EntriesAssumption
<1>2. IsFiniteSet(S)
  BY <1>1, FS_Subset
<1>3. {y \in S : y <= x} \in SUBSET S /\ x \in {y \in S : y <= x}
  BY EntriesAssumption
<1>4. IsFiniteSet({y \in S : y <= x})
  BY <1>2, <1>3, FS_Subset
<1>5. Place(S, x) \in Nat /\ Place(S, x) # 0
  BY <1>3, <1>4, FS_CardinalityType, FS_EmptySet DEF Place
<1> QED BY <1>4, <1>5

(* No two members of a set have the same place.                            *)
LEMMA PlaceInjective ==
  ASSUME NEW S \in SUBSET (0..Entries), NEW x \in S, NEW y \in S,
         Place(S, x) = Place(S, y)
  PROVE  x = y
<1>1. ASSUME NEW u \in S, NEW v \in S, u < v
      PROVE  Place(S, u) # Place(S, v)
  <2> DEFINE A == {z \in S : z <= u}
             B == {z \in S : z <= v}
  <2>1. IsFiniteSet(B)
    BY PlaceType
  <2>2. A \in SUBSET B
    <3>1. \A z \in S : z \in Int
      BY EntriesAssumption
    <3>2. \A z \in S : z <= u => z <= v
      BY <3>1, <1>1
    <3> QED BY <3>2
  <2>3. v \in B /\ v \notin A
    BY <1>1, EntriesAssumption
  <2>4. Cardinality(A) # Cardinality(B)
    <3> HIDE DEF A, B
    <3> QED BY <2>1, <2>2, <2>3, FS_Subset
  <2> QED BY <2>4 DEF Place
<1>2. x < y \/ y < x \/ x = y
  BY EntriesAssumption
<1> QED BY <1>1, <1>2

(* The scan over blocks is never behind the scan over frames: the          *)
(* (k+1)-th unused block lies above the frame taken k-th, and more.        *)
LEMMA ScanAhead ==
  ASSUME NEW U \in SUBSET Blocks, NEW F \in SUBSET Frames,
         \A b \in U : b - 1 \in F,
         NEW b \in U, NEW f \in F, Place(U, b) = Place(F, f) + 1
  PROVE  b - 1 > f
<1> DEFINE A == {y \in U : y <= b}
           B == {z \in F : z <= f}
<1>1. U \in SUBSET (0..Entries) /\ F \in SUBSET (0..Entries)
  BY EntriesAssumption DEF Blocks, Frames
<1>2. IsFiniteSet(B) /\ Place(F, f) \in Nat
  BY <1>1, PlaceType
<1>3. SUFFICES ASSUME b - 1 <= f PROVE FALSE
  BY EntriesAssumption DEF Blocks, Frames
<1>4. \A y \in A : y - 1 \in B
  BY <1>3, EntriesAssumption DEF Blocks, Frames
<1>5. [y \in A |-> y - 1] \in Injection(A, B)
  <2>1. [y \in A |-> y - 1] \in [A -> B]
    BY <1>4
  <2>2. \A y, z \in A : y - 1 = z - 1 => y = z
    BY EntriesAssumption DEF Blocks
  <2> QED BY <2>1, <2>2 DEF Injection, IsInjective
<1>6. Cardinality(A) <= Cardinality(B)
  <2> HIDE DEF A, B
  <2> QED BY <1>2, <1>5, FS_Injection
<1> QED BY <1>2, <1>6 DEF Place

----------------------------------------------------------------------------
(* What an accepted write stores, frame by frame and block by block.       *)
LEMMA StoreFacts ==
  ASSUME TypeOK, NEW name, NEW body \in Bodies, Store(name, body),
         Finds(Unused, Len(body)), NEW f \in Frames
  PROVE  LET n == Len(body)
             k == Place(Unset, f)
             t == Nth(Unused, k + 1)
         IN  /\ n \in Nat
             /\ ~(f \in Unset /\ k <= n) => dir'[f] = dir[f]
             /\ f \in Unset /\ k <= n =>
                  /\ k \in Nat /\ k >= 1
                  /\ dir'[f] = Entry(name, n, k, t)
                  /\ k < n => /\ t \in Unused
                              /\ Place(Unused, t) = k + 1
                              /\ t - 1 \in Unset
                              /\ t - 1 > f
<1> DEFINE n == Len(body)
           k == Place(Unset, f)
           t == Nth(Unused, k + 1)
<1>1. n \in Nat
  BY BodiesAssumption
<1>2. dir'[f] = IF f \in Unset /\ k <= n THEN Entry(name, n, k, t) ELSE dir[f]
  BY DEF Store
<1>3. Unset \in SUBSET Frames /\ Frames \in SUBSET (0..Entries)
  BY EntriesAssumption DEF Unset, Frames
<1>4. f \in Unset => k \in Nat /\ k >= 1
  BY <1>3, PlaceType
<1>5. ASSUME f \in Unset, k < n
      PROVE  t \in Unused /\ Place(Unused, t) = k + 1
  <2>1. k + 1 \in 1..n
    BY <1>1, <1>4, <1>5
  <2>2. \E x \in Unused : Place(Unused, x) = k + 1
    BY <2>1 DEF Finds
  <2> QED BY <2>2 DEF Nth
<1>6. ASSUME f \in Unset, k < n
      PROVE  t - 1 \in Unset /\ t - 1 > f
  <2>1. Unused \in SUBSET Blocks
    BY UnusedIs
  <2> HIDE DEF t
  <2>2. t - 1 \in Unset
    BY <1>5, <1>6, UnusedIsUnset
  <2> QED BY <1>5, <1>6, <1>3, <2>1, <2>2, UnusedIsUnset, ScanAhead
<1> HIDE DEF n, k, t
<1> QED BY <1>1, <1>2, <1>4, <1>5, <1>6 DEF n, k, t

(* The blocks an accepted write leaves alone, and what the others hold.    *)
LEMMA StoreBlocks ==
  ASSUME TypeOK, NEW name, NEW body \in Bodies, Store(name, body)
  PROVE  /\ blk' \in [Blocks -> Chunks]
         /\ \A b \in Blocks \ Unused : blk'[b] = blk[b]
<1>1. Len(body) \in Nat /\ DOMAIN body = 1..Len(body)
  BY BodiesAssumption
<1>2. ASSUME NEW b \in Unused, Place(Unused, b) <= Len(body)
      PROVE  body[Place(Unused, b)] \in Chunks
  <2>1. Unused \in SUBSET (0..Entries)
    BY EntriesAssumption, UnusedIs DEF Blocks
  <2>2. Place(Unused, b) \in Nat /\ Place(Unused, b) >= 1
    BY <2>1, PlaceType
  <2>3. Place(Unused, b) \in DOMAIN body
    BY <1>1, <1>2, <2>2
  <2> QED BY <2>3 DEF Chunks
<1>3. blk \in [Blocks -> Chunks]
  BY DEF TypeOK
<1> QED BY <1>2, <1>3 DEF Store

(* The type of the image, preserved by each call.                          *)
LEMMA TypeStep == TypeOK /\ [Next]_vars => TypeOK'
<1> SUFFICES ASSUME TypeOK, [Next]_vars PROVE TypeOK'
  OBVIOUS
<1> DEFINE Entry_ == [state : Live \cup Dead, size : Nat,
                      next : Frames \cup {End}, name : Names \cup {NoName}]
<1>1. CASE Format
  BY <1>1 DEF Format, TypeOK, FreshEntry, Dead, Status, Chunks
<1>2. ASSUME NEW name \in Names \cup {NoName}, NEW body \in Bodies, Write(name, body)
      PROVE  TypeOK'
  <2>1. ret' \in Status
    BY <1>2 DEF Write, WriteStatus, Status
  <2>2. CASE ret' # "OK"
    BY <1>2, <2>1, <2>2 DEF Write, TypeOK
  <2>3. CASE ret' = "OK"
    <3>1. Store(name, body) /\ Finds(Unused, Len(body)) /\ name \in Names
      BY <1>2, <2>3 DEF Write, WriteStatus
    <3>2. ASSUME NEW f \in Frames PROVE dir'[f] \in Entry_
      <4>1. CASE ~(f \in Unset /\ Place(Unset, f) <= Len(body))
        BY <3>1, <4>1, StoreFacts DEF TypeOK
      <4>2. CASE f \in Unset /\ Place(Unset, f) <= Len(body)
        <5> DEFINE n == Len(body)
                   k == Place(Unset, f)
                   t == Nth(Unused, k + 1)
        <5>1. /\ n \in Nat /\ k \in Nat
              /\ dir'[f] = Entry(name, n, k, t)
              /\ k < n => t - 1 \in Unset
          BY <3>1, <4>2, StoreFacts
        <5>2. (IF k < n THEN t - 1 ELSE End) \in Frames \cup {End}
          BY <5>1 DEF Unset
        <5> HIDE DEF n, k, t
        <5> QED BY <3>1, <5>1, <5>2 DEF Entry, EntryWith, Live, Dead
      <4> QED BY <4>1, <4>2
    <3>3. dir' = [f \in Frames |-> dir'[f]]
      BY <3>1 DEF Store
    <3>4. blk' \in [Blocks -> Chunks]
      BY <3>1, StoreBlocks
    <3> QED BY <2>1, <3>2, <3>3, <3>4 DEF TypeOK
  <2> QED BY <2>2, <2>3
<1>3. ASSUME NEW f \in Frames, Delete(f) PROVE TypeOK'
  BY <1>3 DEF Delete, Mark, TypeOK, Dead, Status
<1>4. CASE UNCHANGED vars
  BY <1>4 DEF vars, TypeOK, InUse
<1> QED BY <1>1, <1>2, <1>3, <1>4 DEF Next, Writes

(* Every state of every run is well typed, whatever a caller deletes.      *)
THEOREM TypeCorrect == Spec => []TypeOK
<1>1. Init => TypeOK
  BY DEF Init, TypeOK, FreshEntry, Dead, Status, Chunks
<1> QED BY <1>1, TypeStep, PTL DEF Spec

----------------------------------------------------------------------------
(* Termination of the chain walks.                                         *)
LEMMA ClimbStep == TypeOK /\ ChainsClimb /\ [Next]_vars => ChainsClimb'
<1> SUFFICES ASSUME TypeOK, ChainsClimb, [Next]_vars,
                    NEW f \in Frames
             PROVE  dir'[f].next > f
  BY DEF ChainsClimb
<1>0. End > f
  BY EntriesAssumption DEF Frames, End
<1>1. CASE Format
  BY <1>0, <1>1 DEF Format, FreshEntry
<1>2. ASSUME NEW name \in Names \cup {NoName}, NEW body \in Bodies, Write(name, body)
      PROVE  dir'[f].next > f
  <2>1. CASE ret' # "OK"
    BY <1>2, <2>1 DEF Write, ChainsClimb
  <2>2. CASE ret' = "OK"
    <3>1. Store(name, body) /\ Finds(Unused, Len(body))
      BY <1>2, <2>2 DEF Write, WriteStatus
    <3>2. CASE ~(f \in Unset /\ Place(Unset, f) <= Len(body))
      BY <3>1, <3>2, StoreFacts DEF ChainsClimb
    <3>3. CASE f \in Unset /\ Place(Unset, f) <= Len(body)
      <4> DEFINE n == Len(body)
                 k == Place(Unset, f)
                 t == Nth(Unused, k + 1)
      <4>1. /\ dir'[f] = Entry(name, n, k, t)
            /\ k < n => t - 1 > f
        BY <3>1, <3>3, StoreFacts
      <4> HIDE DEF n, k, t
      <4> QED BY <1>0, <4>1 DEF Entry, EntryWith
    <3> QED BY <3>2, <3>3
  <2> QED BY <2>1, <2>2
<1>3. ASSUME NEW g \in Frames, Delete(g) PROVE dir'[f].next > f
  BY <1>3 DEF Delete, Mark, ChainsClimb, TypeOK
<1>4. CASE UNCHANGED vars
  BY <1>4 DEF vars, ChainsClimb
<1> QED BY <1>1, <1>2, <1>3, <1>4 DEF Next, Writes

(* Chains climb in every state of every run, so the loops of used_blocks   *)
(* and gt2_mcd_delete end after at most Entries steps.                     *)
THEOREM WalksEnd == Spec => []ChainsClimb
<1>1. Init => ChainsClimb
  BY EntriesAssumption DEF Init, ChainsClimb, FreshEntry, End, Frames
<1> QED BY <1>1, TypeCorrect, ClimbStep, PTL DEF Spec

----------------------------------------------------------------------------
(* Callers that delete whole files.  The links among the entries in use    *)
(* stay among them, no two entries link to the same one, and none links to *)
(* the start of a file.  This is inductive; what it implies is not.        *)
LinkInv ==
  /\ Closed(InUse)
  /\ \A g, h \in InUse :
       dir[g].next # End /\ dir[g].next = dir[h].next => g = h
  /\ \A g \in InUse : dir[g].next \notin Firsts

(* The chain of an entry in use stays within the entries in use.           *)
LEMMA ChainInUse ==
  ASSUME TypeOK, LinkInv, NEW f \in InUse
  PROVE  Chain(f) \subseteq InUse
  BY ChainBasics DEF LinkInv, InUse

(* Blocks and frames are paired.                                           *)
LEMMA LinkPairs == TypeOK /\ LinkInv => FrameIsBlock
<1> SUFFICES ASSUME TypeOK, LinkInv PROVE FrameIsBlock
  OBVIOUS
<1>1. ASSUME NEW f \in Unset PROVE f + 1 \in Unused
  <2>1. f \in Frames /\ f \notin InUse
    BY DEF Unset
  <2>2. f + 1 \in Blocks /\ (f + 1) - 1 = f
    BY <2>1, EntriesAssumption DEF Frames, Blocks
  <2> QED BY <2>1, <2>2, ChainInUse, UnusedIs
<1>2. ASSUME NEW b \in Unused PROVE b - 1 \in Unset /\ b = (b - 1) + 1
  <2>1. b \in Int
    BY EntriesAssumption, UnusedIs DEF Blocks
  <2> QED BY <2>1, UnusedIsUnset
<1> QED BY <1>1, <1>2 DEF FrameIsBlock

(* Every entry of a file's chain but the first is linked to from within.   *)
LEMMA ChainPredecessor ==
  ASSUME TypeOK, NEW f \in Frames, NEW h \in Chain(f), h # f
  PROVE  \E x \in Chain(f) : dir[x].next = h
<1> SUFFICES ASSUME \A x \in Chain(f) : dir[x].next # h PROVE FALSE
  OBVIOUS
<1>1. Chain(f) \ {h} \in SUBSET Frames /\ f \in Chain(f) \ {h}
  BY ChainBasics
<1>2. Closed(Chain(f) \ {h})
  BY ChainBasics DEF Closed
<1> QED BY <1>1, <1>2, ChainBasics

(* A link from outside a file's chain never leads into it.                 *)
LEMMA ChainSealed ==
  ASSUME TypeOK, LinkInv, NEW f \in Firsts, NEW g \in InUse, g \notin Chain(f)
  PROVE  dir[g].next \notin Chain(f)
<1> SUFFICES ASSUME dir[g].next \in Chain(f) PROVE FALSE
  OBVIOUS
<1>1. f \in InUse /\ f \in Frames
  BY FirstsInUse DEF InUse
<1>2. dir[g].next # f
  BY DEF LinkInv
<1>3. PICK x \in Chain(f) : dir[x].next = dir[g].next
  BY <1>1, <1>2, ChainPredecessor
<1>4. x \in InUse
  BY <1>1, ChainInUse
<1>5. dir[g].next # End
  <2>1. dir[g].next \in Frames
    BY <1>1, ChainBasics
  <2> QED BY <2>1, EntriesAssumption DEF Frames, End
<1> QED BY <1>3, <1>4, <1>5 DEF LinkInv

(* The chains of two files do not meet.                                    *)
LEMMA LinkDisjoint == TypeOK /\ LinkInv => ChainsDisjoint
<1> SUFFICES ASSUME TypeOK, LinkInv, NEW f \in Firsts, NEW g \in Firsts, f # g
             PROVE  Chain(f) \cap Chain(g) = {}
  BY DEF ChainsDisjoint
<1>1. f \in InUse /\ g \in InUse /\ f \in Frames /\ g \in Frames
  BY FirstsInUse DEF InUse
<1>2. f \notin Chain(g)
  <2> SUFFICES ASSUME f \in Chain(g) PROVE FALSE
    OBVIOUS
  <2>1. PICK x \in Chain(g) : dir[x].next = f
    BY <1>1, ChainPredecessor
  <2>2. x \in InUse
    BY <1>1, ChainInUse
  <2> QED BY <2>1, <2>2 DEF LinkInv
<1> DEFINE S == Chain(f) \ Chain(g)
<1>3. S \in SUBSET Frames /\ f \in S
  BY <1>1, <1>2, ChainBasics
<1>4. Closed(S)
  <2> SUFFICES ASSUME NEW x \in S, dir[x].next # End PROVE dir[x].next \in S
    BY DEF Closed
  <2>1. dir[x].next \in Chain(f)
    BY <1>1, ChainBasics DEF Closed
  <2>2. x \in InUse /\ x \notin Chain(g)
    BY <1>1, ChainInUse
  <2> QED BY <2>1, <2>2, ChainSealed
<1> QED BY <1>1, <1>3, <1>4, ChainBasics

----------------------------------------------------------------------------
(* With blocks and frames paired, a block has the place its frame has.     *)
LEMMA PairedPlaces ==
  ASSUME TypeOK, LinkInv, NEW b \in Unused
  PROVE  Place(Unset, b - 1) = Place(Unused, b)
<1> DEFINE A == {y \in Unused : y <= b}
           B == {z \in Unset : z <= b - 1}
           shift == [y \in A |-> y - 1]
<1>1. Unused = {f + 1 : f \in Unset} /\ Unset \subseteq Frames
  BY LinkPairs DEF FrameIsBlock, Unset
<1>2. Unused \in SUBSET (0..Entries) /\ \A z \in Unset : z \in Int
  BY <1>1, EntriesAssumption, UnusedIs DEF Blocks, Frames
<1>3. b \in Int /\ \A y \in Unused : y \in Int /\ y - 1 \in Unset
  BY <1>2, UnusedIsUnset
<1>4. shift \in [A -> B] /\ shift \in Injection(A, B)
  <2>0. \A y \in A : y - 1 \in B
    <3> SUFFICES ASSUME NEW y \in Unused, y <= b PROVE y - 1 \in Unset /\ y - 1 <= b - 1
      OBVIOUS
    <3>1. y \in Int /\ y - 1 \in Unset /\ b \in Int
      BY <1>3
    <3> QED BY <3>1
  <2>1. shift \in [A -> B]
    BY <2>0
  <2>2. \A y, z \in A : y - 1 = z - 1 => y = z
    BY <1>3
  <2> QED BY <2>1, <2>2 DEF Injection, IsInjective
<1>5. \A z \in B : z + 1 \in A /\ (z + 1) - 1 = z
  BY <1>1, <1>2, <1>3
<1>6. shift \in Surjection(A, B)
  <2>1. shift \in [A -> B]
    BY <1>4
  <2>2. \A z \in B : \E y \in A : shift[y] = z
    BY <1>5
  <2> HIDE DEF A, B, shift
  <2> QED BY <2>1, <2>2 DEF Surjection
<1>7. IsFiniteSet(A)
  BY <1>2, PlaceType
<1>8. Cardinality(A) = Cardinality(B)
  <2> HIDE DEF A, B, shift
  <2> QED BY <1>4, <1>6, <1>7, FS_Surjection
<1> QED BY <1>8 DEF Place

(* An accepted write, once blocks and frames are paired: the entries in    *)
(* use grow by the frames taken, and each frame taken links to the next    *)
(* one taken, which is not the start of a file.                            *)
Taken(n) == {f \in Unset : Place(Unset, f) <= n}

LEMMA StoreLinks ==
  ASSUME TypeOK, LinkInv, NEW name, NEW body \in Bodies, Store(name, body),
         Finds(Unused, Len(body))
  PROVE  /\ InUse' = InUse \cup Taken(Len(body))
         /\ \A f \in InUse : dir'[f] = dir[f]
         /\ \A f \in Taken(Len(body)) :
              dir'[f].next # End =>
                /\ dir'[f].next \in Taken(Len(body)) \ Firsts'
                /\ Place(Unset, dir'[f].next) = Place(Unset, f) + 1
<1> DEFINE n == Len(body)
<1>1. ASSUME NEW f \in InUse PROVE dir'[f] = dir[f]
  BY StoreFacts DEF InUse, Unset
<1>2. ASSUME NEW f \in Taken(n)
      PROVE  /\ dir'[f].state \in Live
             /\ dir'[f].state = "FIRST" => Place(Unset, f) = 1
  <2> DEFINE k == Place(Unset, f)
             t == Nth(Unused, k + 1)
  <2>1. k \in Nat /\ k >= 1 /\ dir'[f] = Entry(name, n, k, t)
    BY StoreFacts DEF Taken, Unset
  <2> HIDE DEF k, t
  <2>2. dir'[f].state \in Live /\ (dir'[f].state = "FIRST" => k = 1)
    BY <2>1 DEF Entry, EntryWith, Live
  <2> QED BY <2>2 DEF k
<1>3. ASSUME NEW f \in Frames, f \notin InUse, f \notin Taken(n)
      PROVE  dir'[f] = dir[f]
  BY <1>3, StoreFacts DEF Taken, Unset
<1>4. InUse' = InUse \cup Taken(n)
  BY <1>1, <1>2, <1>3 DEF InUse, Taken, Unset
<1>5. ASSUME NEW f \in Taken(n), dir'[f].next # End
      PROVE  /\ dir'[f].next \in Taken(n) \ Firsts'
             /\ Place(Unset, dir'[f].next) = Place(Unset, f) + 1
  <2> DEFINE k == Place(Unset, f)
             t == Nth(Unused, k + 1)
  <2>1. /\ n \in Nat /\ k \in Nat /\ k >= 1
        /\ dir'[f] = Entry(name, n, k, t)
        /\ k < n => t \in Unused /\ Place(Unused, t) = k + 1 /\ t - 1 \in Unset
    BY StoreFacts DEF Taken, Unset
  <2>2. k < n /\ dir'[f].next = t - 1
    <3> HIDE DEF k, t
    <3> QED BY <2>1, <1>5 DEF Entry, EntryWith
  <2>3. Place(Unset, t - 1) = k + 1
    <3> HIDE DEF k, t
    <3>1. t \in Unused /\ Place(Unused, t) = k + 1 /\ t - 1 \in Unset
      BY <2>1, <2>2
    <3> QED BY <3>1, PairedPlaces
  <2>4. t - 1 \in Taken(n)
    BY <2>1, <2>2, <2>3 DEF Taken
  <2>5. t - 1 \notin Firsts'
    BY <1>2, <2>1, <2>3, <2>4 DEF Firsts
  <2> QED BY <2>2, <2>3, <2>4, <2>5
<1> QED BY <1>1, <1>4, <1>5

----------------------------------------------------------------------------
(* A delete of a file: the entries in use lose exactly its chain.          *)
LEMMA MarkLinks ==
  ASSUME TypeOK, LinkInv, NEW f \in Firsts, Mark(f)
  PROVE  /\ InUse' = InUse \ Chain(f)
         /\ Firsts' \subseteq Firsts
         /\ \A g \in Frames : dir'[g].next = dir[g].next
         /\ \A g \in Frames \ Chain(f) : dir'[g] = dir[g]
<1>1. f \in InUse /\ Chain(f) \subseteq InUse /\ Chain(f) \subseteq Frames
  BY FirstsInUse, ChainInUse, ChainBasics DEF InUse
<1>2. ASSUME NEW g \in Frames
      PROVE  /\ dir'[g].next = dir[g].next
             /\ g \notin Chain(f) => dir'[g] = dir[g]
             /\ g \in Chain(f) => dir'[g].state \in Dead
  BY DEF Mark, Dead, TypeOK
<1>3. InUse' = InUse \ Chain(f)
  BY <1>1, <1>2 DEF InUse, Live, Dead
<1>4. Firsts' \subseteq Firsts
  BY <1>1, <1>2 DEF Firsts, Dead
<1> QED BY <1>2, <1>3, <1>4

LEMMA LinkStep == TypeOK /\ LinkInv /\ [NextFile]_vars => LinkInv'
<1> SUFFICES ASSUME TypeOK, LinkInv, [NextFile]_vars PROVE LinkInv'
  OBVIOUS
<1>1. CASE Format
  <2>1. InUse' = {} /\ Firsts' = {}
    BY <1>1 DEF Format, FreshEntry, InUse, Firsts, Live
  <2> QED BY <2>1 DEF LinkInv, Closed
<1>2. ASSUME NEW name \in Names \cup {NoName}, NEW body \in Bodies, Write(name, body)
      PROVE  LinkInv'
  <2>1. CASE ret' # "OK"
    BY <1>2, <2>1 DEF Write, LinkInv, Closed, InUse, Firsts
  <2>2. CASE ret' = "OK"
    <3> DEFINE T == Taken(Len(body))
    <3>1. Store(name, body) /\ Finds(Unused, Len(body))
      BY <1>2, <2>2 DEF Write, WriteStatus
    <3>2. /\ InUse' = InUse \cup T
          /\ \A f \in InUse : dir'[f] = dir[f]
          /\ \A f \in T :
               dir'[f].next # End =>
                 /\ dir'[f].next \in T \ Firsts'
                 /\ Place(Unset, dir'[f].next) = Place(Unset, f) + 1
      BY <3>1, StoreLinks
    <3>3. T \cap InUse = {} /\ T \subseteq Unset /\ Unset \in SUBSET (0..Entries)
      BY EntriesAssumption DEF Taken, Unset, Frames
    <3>4. Closed(InUse)'
      <4> SUFFICES ASSUME NEW f \in InUse' PROVE dir'[f].next \in InUse' \cup {End}
        BY DEF Closed
      <4>1. CASE f \in InUse
        BY <3>2, <4>1 DEF LinkInv, Closed
      <4>2. CASE f \in T
        BY <3>2, <4>2
      <4> QED BY <3>2, <4>1, <4>2
    <3>5. ASSUME NEW g \in InUse', NEW h \in InUse',
                 dir'[g].next # End, dir'[g].next = dir'[h].next
          PROVE  g = h
      <4>1. ASSUME g \in InUse, h \in InUse PROVE g = h
        BY <3>2, <3>5, <4>1 DEF LinkInv
      <4>2. ASSUME g \in T, h \in T PROVE g = h
        <5>1. Place(Unset, g) + 1 = Place(Unset, h) + 1
          BY <3>2, <3>5, <4>2
        <5>2. Place(Unset, g) \in Nat /\ Place(Unset, h) \in Nat
          BY <3>3, <4>2, PlaceType
        <5>3. Place(Unset, g) = Place(Unset, h)
          BY <5>1, <5>2
        <5>4. g \in Unset /\ h \in Unset
          BY <3>3, <4>2
        <5> QED BY <3>3, <5>3, <5>4, PlaceInjective
      <4>3. \A x \in InUse, y \in T :
              ~(dir'[x].next = dir'[y].next /\ dir'[x].next # End)
        BY <3>2, <3>3 DEF LinkInv, Closed
      <4> QED BY <3>2, <3>5, <4>1, <4>2, <4>3
    <3>6. ASSUME NEW g \in InUse' PROVE dir'[g].next \notin Firsts'
      <4>1. CASE g \in T
        <5>1. End \notin Firsts'
          BY EntriesAssumption DEF Firsts, Frames, End
        <5> QED BY <3>2, <4>1, <5>1
      <4>2. CASE g \in InUse
        <5>1. dir'[g].next = dir[g].next /\ dir[g].next \notin Firsts
          BY <3>2, <4>2 DEF LinkInv
        <5>2. dir[g].next \in InUse \cup {End}
          BY <4>2 DEF LinkInv, Closed
        <5>3. End \notin Firsts'
          BY EntriesAssumption DEF Firsts, Frames, End
        <5> QED BY <3>2, <5>1, <5>2, <5>3 DEF Firsts
      <4> QED BY <3>2, <4>1, <4>2
    <3> QED BY <3>4, <3>5, <3>6 DEF LinkInv
  <2> QED BY <2>1, <2>2
<1>3. ASSUME NEW f \in Frames, dir[f].state \notin {"MID", "LAST"}, Delete(f)
      PROVE  LinkInv'
  <2>1. CASE f \notin InUse
    BY <1>3, <2>1 DEF Delete, LinkInv, Closed, InUse, Firsts
  <2>2. CASE f \in InUse
    <3>1. f \in Firsts /\ Mark(f)
      BY <1>3, <2>2 DEF Delete, InUse, Live, Firsts
    <3>2. /\ InUse' = InUse \ Chain(f)
          /\ Firsts' \subseteq Firsts
          /\ \A g \in InUse : dir'[g].next = dir[g].next
      BY <3>1, MarkLinks DEF InUse
    <3>3. \A g \in InUse' : dir[g].next \notin Chain(f)
      BY <3>1, <3>2, ChainSealed
    <3>4. Closed(InUse)'
      BY <3>2, <3>3 DEF LinkInv, Closed
    <3> QED BY <3>2, <3>4 DEF LinkInv
  <2> QED BY <2>1, <2>2
<1>4. CASE UNCHANGED vars
  BY <1>4 DEF vars, LinkInv, Closed, InUse, Firsts
<1> QED BY <1>1, <1>2, <1>3, <1>4 DEF NextFile, Writes

(* The callers of FileSpec make a subset of the legal calls.               *)
LEMMA FileIsNext == [NextFile]_vars => [Next]_vars
  BY DEF NextFile, Next

(* The inductive invariant of the disciplined card.                        *)
LEMMA LinkCorrect == FileSpec => [](TypeOK /\ LinkInv)
<1>1. Init => TypeOK
  BY DEF Init, TypeOK, FreshEntry, Dead, Status, Chunks
<1>2. Init => LinkInv
  BY DEF Init, LinkInv, Closed, InUse, FreshEntry, Live
<1> QED BY <1>1, <1>2, TypeStep, FileIsNext, LinkStep, PTL DEF FileSpec

(* On a card whose files are only deleted whole, a block is taken exactly  *)
(* when its frame is in use: what lets gt2_mcd_write scan them separately. *)
THEOREM BlocksPaired == FileSpec => []FrameIsBlock
  BY LinkCorrect, LinkPairs, PTL

(* On such a card no two files share a frame, hence no two share a block.  *)
THEOREM FilesDisjoint == FileSpec => []ChainsDisjoint
  BY LinkCorrect, LinkDisjoint, PTL

----------------------------------------------------------------------------
(* A chain whose entries a call leaves alone is the same chain afterwards. *)
LEMMA ChainKept ==
  ASSUME TypeOK, TypeOK', NEW f \in Frames,
         \A g \in Chain(f) : dir'[g] = dir[g]
  PROVE  Chain(f)' = Chain(f)
<1>1. /\ f \in Chain(f) /\ Chain(f) \in SUBSET Frames /\ Closed(Chain(f))
      /\ \A S \in SUBSET Frames : f \in S /\ Closed(S) => Chain(f) \subseteq S
  BY ChainBasics
<1> DEFINE ClosedNext(S) == \A g \in S : dir'[g].next \in S \cup {End}
<1>2. Chain(f)' = {g \in Frames : \A S \in SUBSET Frames :
                                   f \in S /\ ClosedNext(S) => g \in S}
  BY DEF Chain, Closed
<1>3. ClosedNext(Chain(f))
  BY <1>1 DEF Closed
<1>4. ASSUME NEW S \in SUBSET Frames, f \in S, ClosedNext(S)
      PROVE  Chain(f) \subseteq S
  <2>1. S \cap Chain(f) \in SUBSET Frames /\ f \in S \cap Chain(f)
    BY <1>1, <1>4
  <2>2. Closed(S \cap Chain(f))
    BY <1>1, <1>4 DEF Closed
  <2> QED BY <1>1, <2>1, <2>2
<1>5. ASSUME NEW D, D = Chain(f) PROVE Chain(f)' = D
  <2>1. D \in SUBSET Frames /\ f \in D /\ ClosedNext(D)
    BY <1>1, <1>3, <1>5
  <2>2. \A S \in SUBSET Frames : f \in S /\ ClosedNext(S) => D \subseteq S
    BY <1>4, <1>5
  <2> HIDE DEF ClosedNext
  <2> QED BY <1>2, <2>1, <2>2
<1> QED BY <1>5

(* A call of a disciplined caller leaves every other file alone.           *)
LEMMA OthersStep ==
  TypeOK /\ LinkInv /\ [NextFile]_vars =>
    \A f \in Firsts : f \in Firsts' => SameFile(f)
<1> SUFFICES ASSUME TypeOK, LinkInv, [NextFile]_vars,
                    NEW f \in Firsts, f \in Firsts'
             PROVE  SameFile(f)
  OBVIOUS
<1>1. f \in InUse /\ f \in Frames /\ Chain(f) \subseteq InUse
  BY FirstsInUse, ChainInUse DEF InUse
<1>2. TypeOK'
  BY TypeStep, FileIsNext
<1>3. ASSUME \A g \in Chain(f) : dir'[g] = dir[g],
             \A g \in InUse : blk'[g + 1] = blk[g + 1]
      PROVE  SameFile(f)
  BY <1>1, <1>2, <1>3, ChainKept DEF SameFile
<1>4. CASE Format
  BY <1>4 DEF Format, FreshEntry, Firsts
<1>5. ASSUME NEW name \in Names \cup {NoName}, NEW body \in Bodies, Write(name, body)
      PROVE  SameFile(f)
  <2>1. CASE ret' # "OK"
    BY <1>3, <1>5, <2>1 DEF Write
  <2>2. CASE ret' = "OK"
    <3>1. Store(name, body) /\ Finds(Unused, Len(body))
      BY <1>5, <2>2 DEF Write, WriteStatus
    <3>2. \A g \in InUse : dir'[g] = dir[g]
      BY <3>1, StoreLinks
    <3>3. ASSUME NEW g \in InUse PROVE blk'[g + 1] = blk[g + 1]
      <4>1. g \in Frames /\ g + 1 \in Blocks /\ (g + 1) - 1 = g
        BY EntriesAssumption DEF InUse, Frames, Blocks
      <4>2. g + 1 \notin Unused
        BY <4>1, UnusedIsUnset DEF Unset
      <4> QED BY <3>1, <4>1, <4>2, StoreBlocks
    <3> QED BY <1>1, <1>3, <3>2, <3>3
  <2> QED BY <2>1, <2>2
<1>6. ASSUME NEW e \in Frames, dir[e].state \notin {"MID", "LAST"}, Delete(e)
      PROVE  SameFile(f)
  <2>1. CASE e \notin InUse
    BY <1>3, <1>6, <2>1 DEF Delete
  <2>2. CASE e \in InUse
    <3>1. e \in Firsts /\ Mark(e) /\ UNCHANGED blk
      BY <1>6, <2>2 DEF Delete, InUse, Live, Firsts
    <3>2. /\ InUse' = InUse \ Chain(e)
          /\ \A g \in Frames \ Chain(e) : dir'[g] = dir[g]
      BY <3>1, MarkLinks
    <3>3. f \in InUse'
      BY FirstsInUse DEF Firsts, InUse, Live
    <3>4. f # e
      BY <1>6, <3>2, <3>3, ChainBasics
    <3>5. Chain(f) \cap Chain(e) = {}
      BY <3>1, <3>4, LinkDisjoint DEF ChainsDisjoint
    <3>6. Chain(f) \subseteq Frames
      BY <1>1, ChainBasics
    <3> QED BY <1>3, <3>1, <3>2, <3>5, <3>6
  <2> QED BY <2>1, <2>2
<1>7. CASE UNCHANGED vars
  BY <1>3, <1>7 DEF vars
<1> QED BY <1>4, <1>5, <1>6, <1>7 DEF NextFile, Writes

(* No call of a disciplined caller changes a file it does not name: its    *)
(* frames, its links and its blocks stay as they were.                     *)
THEOREM FilesKept == FileSpec => OthersKept
<1>1. TypeOK /\ LinkInv /\ [NextFile]_vars =>
        [\A f \in Firsts : f \in Firsts' => SameFile(f)]_vars
  BY OthersStep
<1> QED BY <1>1, LinkCorrect, PTL DEF FileSpec, OthersKept
----------------------------------------------------------------------------
(* Files as threads of frames.  The frames of a file stand in a row: the   *)
(* first starts it, each links to the next, none comes twice and the last  *)
(* carries the end mark; and every entry in use belongs to such a file.    *)
Threads(f, h) ==
  LET n == dir[f].size IN
  /\ h \in [1 .. n -> Chain(f)]
  /\ h[1] = f
  /\ \A k \in 1 .. n : dir[h[k]].next = IF k = n THEN End ELSE h[k + 1]
  /\ \A j, k \in 1 .. n : h[j] = h[k] => j = k

ThreadInv ==
  /\ InUse = UNION {Chain(f) : f \in Firsts}
  /\ \A f \in Firsts : dir[f].size \in 1 .. Entries /\ \E h : Threads(f, h)

(* What holds of 1 and is handed on from each number to the next holds of  *)
(* all up to n.                                                            *)
LEMMA StepByStep ==
  ASSUME NEW n \in Nat, NEW Good \in SUBSET (1 .. n), n > 0 => 1 \in Good,
         \A i \in 1 .. n - 1 : i \in Good => i + 1 \in Good
  PROVE  Good = 1 .. n
<1> DEFINE Bad == (1 .. n) \ Good
<1>1. SUFFICES ASSUME Bad # {} PROVE FALSE
  BY DEF Bad
<1>2. \E i \in Bad : \A j \in Bad : <<j, i>> \notin OpToRel(<, Nat)
  <2>1. Bad \subseteq Nat
    OBVIOUS
  <2> HIDE DEF Bad
  <2> QED BY <1>1, <2>1, NatLessThanWellFounded, WFMin
<1>3. PICK i \in Bad : \A j \in Bad : ~(j < i)
  <2>1. \A i, j \in Bad : j < i => <<j, i>> \in OpToRel(<, Nat)
    BY DEF OpToRel
  <2> QED BY <1>2, <2>1
<1>4. i # 1 /\ i - 1 \in 1 .. n - 1 /\ (i - 1) + 1 = i
  OBVIOUS
<1>5. i - 1 \in Good
  BY <1>3, <1>4
<1> QED BY <1>4, <1>5

(* The chain of a thread is its frames.                                    *)
LEMMA ThreadIsChain ==
  ASSUME TypeOK, NEW f \in Frames, dir[f].size \in 1 .. Entries,
         NEW h, Threads(f, h)
  PROVE  \A g \in Chain(f) : \E k \in 1 .. dir[f].size : g = h[k]
<1> DEFINE n == dir[f].size
           R == {h[k] : k \in 1 .. n}
<1>1. R \in SUBSET Frames
  BY ChainBasics DEF Threads
<1>2. f \in R
  BY DEF Threads
<1>3. Closed(R)
  <2> SUFFICES ASSUME NEW k \in 1 .. n PROVE dir[h[k]].next \in R \cup {End}
    BY DEF Closed
  <2>1. dir[h[k]].next = IF k = n THEN End ELSE h[k + 1]
    BY DEF Threads
  <2>2. k # n => k + 1 \in 1 .. n
    OBVIOUS
  <2> QED BY <2>1, <2>2
<1> QED BY <1>1, <1>2, <1>3, ChainBasics

(* The frames an accepted write takes: there is one at each place.         *)
LEMMA TakenPlaces ==
  ASSUME TypeOK, NEW n \in Nat, Finds(Unset, n)
  PROVE  \A k \in 1 .. n : /\ Nth(Unset, k) \in Taken(n)
                           /\ Place(Unset, Nth(Unset, k)) = k
<1> SUFFICES ASSUME NEW k \in 1 .. n
             PROVE  Nth(Unset, k) \in Taken(n) /\ Place(Unset, Nth(Unset, k)) = k
  OBVIOUS
<1>1. \E x \in Unset : Place(Unset, x) = k
  BY DEF Finds
<1>2. Nth(Unset, k) \in Unset /\ Place(Unset, Nth(Unset, k)) = k
  BY <1>1 DEF Nth
<1> QED BY <1>2 DEF Taken

(* The frame of each place, once more: the place a frame taken has.        *)
LEMMA PlaceTaken ==
  ASSUME TypeOK, NEW n \in Nat, NEW f \in Taken(n)
  PROVE  Place(Unset, f) \in 1 .. n /\ Nth(Unset, Place(Unset, f)) = f
<1>1. Unset \in SUBSET (0 .. Entries) /\ f \in Unset /\ Place(Unset, f) <= n
  BY EntriesAssumption DEF Unset, Frames, Taken
<1>2. Place(Unset, f) \in 1 .. n
  <2>1. Place(Unset, f) \in Nat /\ Place(Unset, f) >= 1
    BY <1>1, PlaceType
  <2> QED BY <1>1, <2>1
<1>3. Nth(Unset, Place(Unset, f)) \in Unset
      /\ Place(Unset, Nth(Unset, Place(Unset, f))) = Place(Unset, f)
  BY <1>1 DEF Nth
<1>4. Nth(Unset, Place(Unset, f)) = f
  BY <1>1, <1>3, PlaceInjective
<1> QED BY <1>2, <1>4

(* What an accepted write leaves in the frames it takes and in the blocks  *)
(* of these frames.                                                        *)
LEMMA StoreEntries ==
  ASSUME TypeOK, LinkInv, NEW name, NEW body \in Bodies, Store(name, body),
         Finds(Unused, Len(body)), NEW f \in Taken(Len(body))
  PROVE  LET n == Len(body)
             k == Place(Unset, f)
         IN  /\ dir'[f].state \in Live
             /\ dir'[f].state = "FIRST" <=> k = 1
             /\ dir'[f].size = n
             /\ dir'[f].name = IF k = 1 THEN name ELSE NoName
             /\ k = n => dir'[f].next = End
             /\ k < n => dir'[f].next = Nth(Unset, k + 1)
             /\ blk'[f + 1] = body[k]
<1> DEFINE n == Len(body)
           k == Place(Unset, f)
           t == Nth(Unused, k + 1)
<1>0. f \in Frames /\ f \in Unset /\ k <= n /\ n \in Nat
  BY BodiesAssumption DEF Taken, Unset
<1>1. /\ k \in Nat /\ k >= 1
      /\ dir'[f] = Entry(name, n, k, t)
      /\ k < n => /\ t \in Unused /\ Place(Unused, t) = k + 1
                  /\ t - 1 \in Unset /\ t - 1 > f
  BY <1>0, StoreFacts
<1>2. ASSUME k < n PROVE t - 1 = Nth(Unset, k + 1)
  <2>1. t - 1 \in Unset /\ t \in Unused /\ Place(Unused, t) = k + 1
    BY <1>1, <1>2
  <2>2. Place(Unset, t - 1) = k + 1
    <3> HIDE DEF k, t
    <3> QED BY <2>1, PairedPlaces
  <2>3. k + 1 \in Nat /\ k + 1 <= n
    BY <1>0, <1>1, <1>2
  <2>4. t - 1 \in Taken(n)
    BY <2>1, <2>2, <2>3 DEF Taken
  <2> HIDE DEF k, t, n
  <2>5. Nth(Unset, Place(Unset, t - 1)) = t - 1
    BY <1>0, <2>4, PlaceTaken
  <2> QED BY <2>2, <2>5
<1>3. blk'[f + 1] = body[k]
  <2>1. f + 1 \in Blocks /\ f + 1 \in Unused /\ (f + 1) - 1 = f
    <3>1. FrameIsBlock
      BY LinkPairs
    <3> QED BY <1>0, <3>1, EntriesAssumption DEF FrameIsBlock, Frames, Blocks
  <2>2. PICK b \in Blocks : b = f + 1
    BY <2>1
  <2>3. b \in Unused /\ b - 1 = f
    BY <2>1, <2>2
  <2>4. Place(Unused, b) = k
    BY <2>3, PairedPlaces
  <2>5. blk'[b] = IF b \in Unused /\ Place(Unused, b) <= Len(body)
                  THEN body[Place(Unused, b)] ELSE blk[b]
    BY DEF Store
  <2>6. blk'[b] = body[k]
    BY <1>0, <2>3, <2>4, <2>5
  <2> QED BY <2>2, <2>6
<1> HIDE DEF n, k, t
<1>4. /\ dir'[f].state = IF k = 1 THEN "FIRST" ELSE IF k < n THEN "MID" ELSE "LAST"
      /\ dir'[f].size = n
      /\ dir'[f].next = IF k < n THEN t - 1 ELSE End
      /\ dir'[f].name = IF k = 1 THEN name ELSE NoName
  BY <1>1 DEF Entry, EntryWith
<1>5. dir'[f].state \in Live /\ (dir'[f].state = "FIRST" <=> k = 1)
  BY <1>4 DEF Live
<1>6. (k = n => dir'[f].next = End) /\ (k < n => dir'[f].next = Nth(Unset, k + 1))
  BY <1>0, <1>1, <1>2, <1>4
<1> QED BY <1>3, <1>4, <1>5, <1>6 DEF n, k

(* An accepted write adds one file, whose thread is the frames taken.      *)
ChainsAre ==
  \A f \in Frames :
    /\ f \in Chain(f)
    /\ Chain(f) \subseteq Frames
    /\ Closed(Chain(f))
    /\ \A S \in SUBSET Frames : f \in S /\ Closed(S) => Chain(f) \subseteq S

LEMMA ChainsNow == TypeOK => ChainsAre
  BY ChainBasics DEF ChainsAre
LEMMA ChainsNext == TypeOK' => ChainsAre'
  BY ChainsNow, PTL

LEMMA WriteThread ==
  ASSUME TypeOK, TypeOK', LinkInv, NEW name, NEW body \in Bodies,
         Store(name, body), Finds(Unused, Len(body)), Finds(Unset, Len(body)),
         Len(body) \in 1 .. Entries
  PROVE  \E h :
           LET n == Len(body) IN
             /\ h[1] \in Unset
             /\ Firsts' = Firsts \cup {h[1]}
             /\ InUse' = InUse \cup Chain(h[1])'
             /\ dir'[h[1]].size = n
             /\ dir'[h[1]].name = name
             /\ \A g \in InUse' \ InUse : g # h[1] => dir'[g].name = NoName
             /\ Chain(h[1])' = Taken(n)
             /\ Threads(h[1], h)'
             /\ \A k \in 1 .. n : blk'[h[k] + 1] = body[k]
<1> DEFINE n == Len(body)
<1>h. PICK h : h = [k \in 1 .. n |-> Nth(Unset, k)]
  OBVIOUS
<1>0. n \in Nat /\ n >= 1 /\ 1 \in 1 .. n /\ n \in 1 .. n
  BY BodiesAssumption
<1>1. \A k \in 1 .. n : h[k] \in Taken(n) /\ Place(Unset, h[k]) = k
  BY <1>0, <1>h, TakenPlaces
<1>2. \A f \in Taken(n) : Place(Unset, f) \in 1 .. n /\ f = h[Place(Unset, f)]
  BY <1>0, <1>h, PlaceTaken
<1>3. \A k \in 1 .. n :
        /\ dir'[h[k]].state \in Live
        /\ dir'[h[k]].state = "FIRST" <=> k = 1
        /\ dir'[h[k]].size = n
        /\ dir'[h[k]].name = IF k = 1 THEN name ELSE NoName
        /\ k = n => dir'[h[k]].next = End
        /\ k < n => dir'[h[k]].next = Nth(Unset, k + 1)
        /\ blk'[h[k] + 1] = body[k]
  <2> SUFFICES ASSUME NEW k \in 1 .. n
               PROVE  /\ dir'[h[k]].state \in Live
                      /\ dir'[h[k]].state = "FIRST" <=> k = 1
                      /\ dir'[h[k]].size = n
                      /\ dir'[h[k]].name = IF k = 1 THEN name ELSE NoName
                      /\ k = n => dir'[h[k]].next = End
                      /\ k < n => dir'[h[k]].next = Nth(Unset, k + 1)
                      /\ blk'[h[k] + 1] = body[k]
    OBVIOUS
  <2>1. PICK f \in Taken(n) : f = h[k]
    BY <1>1
  <2>2. Place(Unset, f) = k
    BY <1>1, <2>1
  <2>3. LET m == Len(body)
            j == Place(Unset, f)
        IN  /\ dir'[f].state \in Live
            /\ dir'[f].state = "FIRST" <=> j = 1
            /\ dir'[f].size = m
            /\ dir'[f].name = IF j = 1 THEN name ELSE NoName
            /\ j = m => dir'[f].next = End
            /\ j < m => dir'[f].next = Nth(Unset, j + 1)
            /\ blk'[f + 1] = body[j]
    BY StoreEntries
  <2> QED BY <2>1, <2>2, <2>3
<1>4. \A k \in 1 .. n - 1 : dir'[h[k]].next = h[k + 1]
  BY <1>0, <1>3, <1>h
<1>5. /\ InUse' = InUse \cup Taken(n)
      /\ \A f \in InUse : dir'[f] = dir[f]
  BY StoreLinks
<1>6. Taken(n) \subseteq Unset /\ Unset \subseteq Frames /\ Unset \cap InUse = {}
      /\ InUse \subseteq Frames
  BY DEF Taken, Unset, InUse
<1> HIDE DEF n
<1>7. Firsts' = Firsts \cup {h[1]}
  <2>1. ASSUME NEW f \in Firsts' PROVE f \in Firsts \cup {h[1]}
    <3>1. f \in InUse' /\ f \in Frames /\ dir'[f].state = "FIRST"
      BY DEF Firsts, InUse, Live
    <3>2. CASE f \in InUse
      BY <1>5, <3>1, <3>2 DEF Firsts
    <3>3. CASE f \in Taken(n)
      BY <1>2, <1>3, <3>1, <3>3
    <3> QED BY <1>5, <3>1, <3>2, <3>3
  <2>2. \A f \in Firsts : f \in Firsts'
    BY <1>5, FirstsInUse DEF Firsts
  <2>3. h[1] \in Firsts'
    BY <1>0, <1>1, <1>3, <1>6 DEF Firsts
  <2> QED BY <2>1, <2>2, <2>3
<1>8. Chain(h[1])' = Taken(n)
  <2>1. h[1] \in Frames /\ Taken(n) \in SUBSET Frames /\ h[1] \in Taken(n)
    BY <1>0, <1>1, <1>6
  <2> DEFINE C == Chain(h[1])'
             Good == {k \in 1 .. n : h[k] \in C}
  <2>2. PICK f \in Frames : f = h[1]
    BY <2>1
  <2>3. /\ f \in C /\ C \subseteq Frames
        /\ Closed(Chain(f))'
        /\ \A S \in SUBSET Frames : (f \in S /\ Closed(S)' => C \subseteq S)
    <3>0. C = Chain(f)'
      BY <2>2
    <3>1. /\ f \in Chain(f)' /\ Chain(f)' \subseteq Frames
          /\ Closed(Chain(f))'
          /\ \A S \in SUBSET Frames : (f \in S /\ Closed(S)' => Chain(f)' \subseteq S)
      BY ChainsNext DEF ChainsAre
    <3> QED BY <3>0, <3>1
  <2>4. C \subseteq Taken(n)
    <3>1. \A g \in Taken(n) : dir'[g].next \in Taken(n) \cup {End}
      BY <1>5, StoreLinks DEF n
    <3>2. ASSUME NEW T, T = Taken(n) PROVE Closed(T)'
      BY <3>1, <3>2 DEF Closed
    <3> HIDE DEF C
    <3>3. ASSUME NEW T, T = Taken(n) PROVE C \subseteq T
      BY <2>1, <2>2, <2>3, <3>2, <3>3
    <3> QED BY <3>3
  <2>5. \A g \in C : dir'[g].next \in C \cup {End}
    BY <2>2, <2>3 DEF Closed
  <2>6. Good = 1 .. n
    <3> HIDE DEF C
    <3>1. 1 \in Good
      BY <1>0, <2>2, <2>3
    <3>2. ASSUME NEW k \in 1 .. n - 1, k \in Good PROVE k + 1 \in Good
      <4>1. k \in 1 .. n /\ k + 1 \in 1 .. n
        BY <1>0
      <4>2. h[k + 1] \in Taken(n) /\ dir'[h[k]].next = h[k + 1]
        BY <1>1, <1>4, <4>1
      <4>3. h[k + 1] # End
        BY <1>6, <4>2, EntriesAssumption DEF Frames, End
      <4> QED BY <2>5, <3>2, <4>1, <4>2, <4>3
    <3>3. Good \in SUBSET (1 .. n)
      OBVIOUS
    <3> HIDE DEF Good
    <3> QED BY <1>0, <3>1, <3>2, <3>3, StepByStep
  <2>7. Taken(n) \subseteq C
    <3> HIDE DEF C
    <3> QED BY <1>2, <2>6
  <2> QED BY <2>4, <2>7
<1>9. Threads(h[1], h)'
  <2>1. h \in [1 .. n -> Taken(n)]
    <3> QED BY <1>1, <1>h
  <2>2. dir'[h[1]].size = n
    BY <1>0, <1>3
  <2>3. \A k \in 1 .. n : dir'[h[k]].next = IF k = n THEN End ELSE h[k + 1]
    BY <1>0, <1>3, <1>4
  <2>4. \A j, k \in 1 .. n : h[j] = h[k] => j = k
    BY <1>1
  <2> QED BY <1>8, <2>1, <2>2, <2>3, <2>4 DEF Threads
<1>10. \A g \in InUse' \ InUse : g # h[1] => dir'[g].name = NoName
  BY <1>2, <1>3, <1>5
<1>11. h[1] \in Unset /\ dir'[h[1]].size = n /\ dir'[h[1]].name = name
  BY <1>0, <1>1, <1>3, <1>6
<1>12. \A k \in 1 .. n : blk'[h[k] + 1] = body[k]
  BY <1>3
<1>13. InUse' = InUse \cup Chain(h[1])'
  BY <1>5, <1>8
<1> QED BY <1>7, <1>8, <1>9, <1>10, <1>11, <1>12, <1>13 DEF n

(* A file left alone keeps its thread.                                     *)
LEMMA ThreadKept ==
  ASSUME TypeOK, NEW f \in Frames, SameFile(f), NEW h, Threads(f, h)
  PROVE  dir'[f] = dir[f] /\ Threads(f, h)'
<1>1. dir'[f] = dir[f]
  BY ChainBasics DEF SameFile
<1> QED BY <1>1 DEF Threads, SameFile

(* A delete leaves the other files, and only them.                         *)
LEMMA DeleteFirsts ==
  ASSUME TypeOK, LinkInv, NEW f \in Firsts, Mark(f)
  PROVE  Firsts' = Firsts \ {f}
<1>1. f \in Frames /\ f \in Chain(f) /\ Chain(f) \subseteq Frames
  BY ChainBasics DEF Firsts
<1>2. f \notin Firsts'
  <2>1. InUse' = InUse \ Chain(f)
    BY MarkLinks
  <2> QED BY <1>1, <2>1 DEF Firsts, InUse, Live
<1>3. ASSUME NEW g \in Firsts, g # f PROVE g \in Firsts'
  <2>1. g \in Frames /\ g \in Chain(g)
    BY ChainBasics DEF Firsts
  <2>2. g \notin Chain(f)
    BY <1>3, <2>1, LinkDisjoint DEF ChainsDisjoint
  <2> QED BY <1>3, <2>1, <2>2, MarkLinks DEF Firsts
<1> QED BY <1>2, <1>3, MarkLinks

LEMMA ThreadStep ==
  TypeOK /\ LinkInv /\ ThreadInv /\ [NextFile]_vars => ThreadInv'
<1> SUFFICES ASSUME TypeOK, LinkInv, ThreadInv, [NextFile]_vars PROVE ThreadInv'
  OBVIOUS
<1>1. TypeOK'
  BY TypeStep, FileIsNext
<1>2. ASSUME NEW f \in Firsts, f \in Firsts'
      PROVE  /\ Chain(f)' = Chain(f)
             /\ dir'[f].size \in 1 .. Entries
             /\ (\E h : Threads(f, h))'
  <2>1. f \in Frames /\ SameFile(f)
    BY <1>2, OthersStep DEF Firsts
  <2>2. PICK h : Threads(f, h)
    BY DEF ThreadInv
  <2>3. dir'[f] = dir[f] /\ Threads(f, h)'
    BY <2>1, <2>2, ThreadKept
  <2> QED BY <2>1, <2>3 DEF SameFile, ThreadInv
<1>3. CASE Format
  <2>1. InUse' = {} /\ Firsts' = {}
    BY <1>3 DEF Format, FreshEntry, InUse, Firsts, Live
  <2> QED BY <2>1 DEF ThreadInv
<1>4. ASSUME Firsts' = Firsts, InUse' = InUse PROVE ThreadInv'
  BY <1>2, <1>4 DEF ThreadInv
<1>5. ASSUME NEW name \in Names \cup {NoName}, NEW body \in Bodies, Write(name, body)
      PROVE  ThreadInv'
  <2>1. CASE ret' # "OK"
    BY <1>4, <1>5, <2>1 DEF Write, Firsts, InUse
  <2>2. CASE ret' = "OK"
    <3>1. /\ Store(name, body)
          /\ Finds(Unused, Len(body)) /\ Finds(Unset, Len(body))
          /\ Len(body) \in 1 .. Entries
      BY <1>5, <2>2 DEF Write, WriteStatus
    <3>2. PICK h : /\ Firsts' = Firsts \cup {h[1]}
                   /\ InUse' = InUse \cup Chain(h[1])'
                   /\ dir'[h[1]].size = Len(body)
                   /\ Threads(h[1], h)'
      BY <1>1, <3>1, WriteThread
    <3>3. InUse' = (UNION {Chain(f) : f \in Firsts}) \cup Chain(h[1])'
      BY <3>2 DEF ThreadInv
    <3>4. \A f \in Firsts : Chain(f)' = Chain(f)
      BY <1>2, <3>2
    <3>5. InUse' = (UNION {Chain(f) : f \in Firsts})'
      <4>1. \A x : x \in InUse' <=> \E f \in Firsts' : x \in Chain(f)'
        BY <3>2, <3>3, <3>4
      <4> QED BY <4>1
    <3>6. \A f \in Firsts' : dir'[f].size \in 1 .. Entries /\ (\E g : Threads(f, g))'
      BY <1>2, <3>1, <3>2
    <3> QED BY <3>5, <3>6 DEF ThreadInv
  <2> QED BY <2>1, <2>2
<1>6. ASSUME NEW f \in Frames, dir[f].state \notin {"MID", "LAST"}, Delete(f)
      PROVE  ThreadInv'
  <2>1. CASE f \notin InUse
    BY <1>4, <1>6, <2>1 DEF Delete, Firsts, InUse
  <2>2. CASE f \in InUse
    <3>1. f \in Firsts /\ Mark(f)
      BY <1>6, <2>2 DEF Delete, InUse, Live, Firsts
    <3>2. InUse' = InUse \ Chain(f) /\ Firsts' = Firsts \ {f}
      BY <3>1, MarkLinks, DeleteFirsts
    <3>3. \A g \in Firsts \ {f} : Chain(g)' = Chain(g) /\ Chain(g) \cap Chain(f) = {}
      BY <1>2, <3>1, <3>2, LinkDisjoint DEF ChainsDisjoint
    <3>4. \A x : x \in InUse' <=> \E g \in Firsts \ {f} : x \in Chain(g)
      BY <3>1, <3>2, <3>3 DEF ThreadInv
    <3>5. \A x : x \in InUse' <=> \E g \in Firsts' : x \in Chain(g)'
      BY <3>2, <3>3, <3>4
    <3>6. InUse' = (UNION {Chain(g) : g \in Firsts})'
      BY <3>5
    <3> QED BY <1>2, <3>2, <3>6 DEF ThreadInv
  <2> QED BY <2>1, <2>2
<1>7. CASE UNCHANGED vars
  BY <1>4, <1>7 DEF vars, Firsts, InUse
<1> QED BY <1>3, <1>5, <1>6, <1>7 DEF NextFile, Writes

LEMMA ThreadCorrect == FileSpec => [](TypeOK /\ LinkInv /\ ThreadInv)
<1>1. Init => ThreadInv
  <2>1. Init => InUse = {} /\ Firsts = {}
    BY DEF Init, InUse, Firsts, FreshEntry, Live
  <2> QED BY <2>1 DEF ThreadInv
<1> QED BY <1>1, LinkCorrect, ThreadStep, PTL DEF FileSpec

(* A thread pairs its numbers with the frames of its chain.                *)
LEMMA ThreadWhole ==
  TypeOK /\ ThreadInv => FilesWhole
<1> SUFFICES ASSUME TypeOK, ThreadInv, NEW f \in Firsts
             PROVE  Cardinality(Chain(f)) = dir[f].size
  BY DEF ThreadInv, FilesWhole
<1> DEFINE n == dir[f].size
<1>1. n \in 1 .. Entries /\ f \in Frames
  BY DEF ThreadInv, Firsts
<1>2. PICK h : Threads(f, h)
  BY DEF ThreadInv
<1>3. h \in Injection(1 .. n, Chain(f))
  BY <1>2 DEF Threads, Injection, IsInjective
<1>4. h \in Surjection(1 .. n, Chain(f))
  <2>1. \A g \in Chain(f) : \E k \in 1 .. n : h[k] = g
    BY <1>1, <1>2, ThreadIsChain
  <2>2. h \in [1 .. n -> Chain(f)]
    BY <1>2 DEF Threads
  <2> QED BY <2>1, <2>2 DEF Surjection
<1> HIDE DEF n
<1>5. IsFiniteSet(1 .. n) /\ Cardinality(1 .. n) = n
  <2>1. n \in Int /\ ~(1 > n) /\ n - 1 + 1 = n
    BY <1>1, EntriesAssumption
  <2> QED BY <2>1, FS_Interval
<1>6. Cardinality(Chain(f)) = n
  BY <1>3, <1>4, <1>5, FS_Surjection
<1> QED BY <1>6 DEF n

(* Every entry in use belongs to a file, and a file's chain has the number *)
(* of entries its first one says.                                          *)
THEOREM FilesComplete == FileSpec => []FilesWhole
  BY ThreadCorrect, ThreadWhole, PTL

----------------------------------------------------------------------------
(* The names: each file has one of its own, and the entries that do not    *)
(* start a file carry none.                                                *)
NameInv ==
  /\ \A f \in Firsts : dir[f].name \in Names
  /\ \A f, g \in Firsts : dir[f].name = dir[g].name => f = g
  /\ \A f \in InUse \ Firsts : dir[f].name = NoName

LEMMA NameStep ==
  TypeOK /\ LinkInv /\ NameInv /\ [NextFile]_vars => NameInv'
<1> SUFFICES ASSUME TypeOK, LinkInv, NameInv, [NextFile]_vars PROVE NameInv'
  OBVIOUS
<1>1. TypeOK'
  BY TypeStep, FileIsNext
<1>2. CASE Format
  <2>1. InUse' = {} /\ Firsts' = {}
    BY <1>2 DEF Format, FreshEntry, InUse, Firsts, Live
  <2> QED BY <2>1 DEF NameInv
<1>3. CASE UNCHANGED dir
  BY <1>3 DEF NameInv, InUse, Firsts
<1>4. ASSUME NEW name \in Names \cup {NoName}, NEW body \in Bodies, Write(name, body)
      PROVE  NameInv'
  <2>1. CASE ret' # "OK"
    BY <1>3, <1>4, <2>1 DEF Write
  <2>2. CASE ret' = "OK"
    <3>1. /\ Store(name, body) /\ name \in Names
          /\ Finds(Unused, Len(body)) /\ Finds(Unset, Len(body))
          /\ Len(body) \in 1 .. Entries
          /\ \A f \in InUse : dir[f].name # name
      BY <1>4, <2>2 DEF Write, WriteStatus
    <3>2. PICK h : /\ h[1] \in Unset
                   /\ Firsts' = Firsts \cup {h[1]}
                   /\ dir'[h[1]].name = name
                   /\ \A g \in InUse' \ InUse : g # h[1] => dir'[g].name = NoName
      BY <1>1, <3>1, WriteThread
    <3>3. \A f \in InUse : dir'[f] = dir[f]
      BY <3>1, StoreLinks
    <3>4. Firsts \subseteq InUse /\ h[1] \notin InUse
      BY <3>2, FirstsInUse DEF Unset
    <3> QED BY <3>1, <3>2, <3>3, <3>4 DEF NameInv
  <2> QED BY <2>1, <2>2
<1>5. ASSUME NEW f \in Frames, dir[f].state \notin {"MID", "LAST"}, Delete(f)
      PROVE  NameInv'
  <2>1. CASE f \notin InUse
    BY <1>3, <1>5, <2>1 DEF Delete
  <2>2. CASE f \in InUse
    <3>1. f \in Firsts /\ Mark(f)
      BY <1>5, <2>2 DEF Delete, InUse, Live, Firsts
    <3>2. /\ InUse' = InUse \ Chain(f) /\ Firsts' = Firsts \ {f}
          /\ \A g \in Frames \ Chain(f) : dir'[g] = dir[g]
      BY <3>1, MarkLinks, DeleteFirsts
    <3>3. \A g \in InUse' : g \in Frames \ Chain(f) /\ g \in InUse
      BY <3>2 DEF InUse
    <3>4. Firsts' \subseteq InUse'
      BY DEF Firsts, InUse, Live
    <3>5. f \in Chain(f)
      BY <1>5, ChainBasics
    <3> QED BY <3>2, <3>3, <3>4, <3>5 DEF NameInv
  <2> QED BY <2>1, <2>2
<1>6. CASE UNCHANGED vars
  BY <1>3, <1>6 DEF vars
<1> QED BY <1>2, <1>4, <1>5, <1>6 DEF NextFile, Writes

CardInv == TypeOK /\ LinkInv /\ ThreadInv /\ NameInv

LEMMA CardInvCorrect == FileSpec => []CardInv
<1>1. Init => NameInv
  <2>1. Init => InUse = {} /\ Firsts = {}
    BY DEF Init, InUse, Firsts, FreshEntry, Live
  <2> QED BY <2>1 DEF NameInv
<1> QED BY <1>1, ThreadCorrect, NameStep, PTL DEF FileSpec, CardInv

----------------------------------------------------------------------------
(* What a read returns: the walk of gt2_mcd_read follows the thread.       *)
Hops(g, f, n) ==
  g = [k \in 1 .. n |-> IF k = 1 THEN f
                        ELSE IF g[k - 1] = End THEN End ELSE dir[g[k - 1]].next]

LEMMA HopIsThread ==
  ASSUME TypeOK, NEW f \in Frames, dir[f].size \in 1 .. Entries,
         NEW h, Threads(f, h)
  PROVE  Hop(f, dir[f].size) = h
<1> DEFINE n == dir[f].size
<1>0. n \in Nat /\ n >= 1 /\ 1 \in 1 .. n
  BY EntriesAssumption
<1>1. /\ h \in [1 .. n -> Frames] /\ h[1] = f
      /\ \A k \in 1 .. n : dir[h[k]].next = IF k = n THEN End ELSE h[k + 1]
  BY ChainBasics DEF Threads
<1> HIDE DEF n
<1>2. \A k \in 1 .. n : h[k] # End
  BY <1>1, EntriesAssumption DEF Frames, End
<1>3. \A k \in 1 .. n : k # 1 => k - 1 \in 1 .. n /\ k - 1 # n /\ (k - 1) + 1 = k
  BY <1>0
<1>4. Hops(h, f, n)
  <2>1. \A k \in 1 .. n : h[k] = IF k = 1 THEN f
                                 ELSE IF h[k - 1] = End THEN End ELSE dir[h[k - 1]].next
    BY <1>1, <1>2, <1>3
  <2> QED BY <1>1, <2>1 DEF Hops
<1> DEFINE g == Hop(f, n)
<1>5. Hops(g, f, n)
  <2>1. g = CHOOSE x : Hops(x, f, n)
    BY DEF Hop, Hops
  <2> HIDE DEF g
  <2> QED BY <1>4, <2>1
<1> HIDE DEF g
<1> DEFINE Good == {k \in 1 .. n : g[k] = h[k]}
<1>6. Good = 1 .. n
  <2>1. 1 \in Good
    BY <1>0, <1>1, <1>5 DEF Hops
  <2>2. ASSUME NEW k \in 1 .. n - 1, k \in Good PROVE k + 1 \in Good
    <3>1. k \in 1 .. n /\ k + 1 \in 1 .. n /\ k + 1 # 1 /\ (k + 1) - 1 = k /\ k # n
      BY <1>0
    <3>2. g[k + 1] = IF g[k] = End THEN End ELSE dir[g[k]].next
      BY <1>5, <3>1 DEF Hops
    <3> QED BY <1>1, <1>2, <2>2, <3>1, <3>2
  <2>3. Good \in SUBSET (1 .. n)
    OBVIOUS
  <2> HIDE DEF Good
  <2> QED BY <1>0, <2>1, <2>2, <2>3, StepByStep
<1>7. g = h
  <2>1. g = [k \in 1 .. n |-> g[k]] /\ h = [k \in 1 .. n |-> h[k]]
    BY <1>1, <1>5 DEF Hops
  <2> QED BY <1>6, <2>1
<1> QED BY <1>7 DEF g, n

LEMMA ReadIsThread ==
  ASSUME TypeOK, NEW f \in Firsts, dir[f].size \in 1 .. Entries,
         NEW h, Threads(f, h)
  PROVE  Read(f) = [k \in 1 .. dir[f].size |-> blk[h[k] + 1]]
<1>0. f \in Frames /\ dir[f].state = "FIRST"
  BY DEF Firsts
<1>1. Hop(f, dir[f].size) = h
  BY <1>0, HopIsThread
<1>2. \A k \in 1 .. dir[f].size : h[k] # End
  <2>1. \A k \in 1 .. dir[f].size : h[k] \in Frames
    BY <1>0, ChainBasics DEF Threads
  <2> QED BY <2>1, EntriesAssumption DEF Frames, End
<1> QED BY <1>0, <1>1, <1>2 DEF Read

ReadsAre ==
  \A f \in Firsts : dir[f].size \in 1 .. Entries =>
    \A h : Threads(f, h) => Read(f) = [k \in 1 .. dir[f].size |-> blk[h[k] + 1]]

LEMMA ReadsNow == TypeOK => ReadsAre
  BY ReadIsThread DEF ReadsAre
LEMMA ReadsNext == TypeOK' => ReadsAre'
  BY ReadsNow, PTL

----------------------------------------------------------------------------
(* The files of the card as CardStore keeps them.                          *)
Kept == [n \in Names |-> IF FileOf(n) = {} THEN << >>
                         ELSE Read(CHOOSE f \in FileOf(n) : TRUE)]

KeptIs ==
  /\ \A n \in Names : FileOf(n) = {} => Kept[n] = << >>
  /\ \A f \in Firsts : FileOf(dir[f].name) = {f}
  /\ \A f \in Firsts : \A h : Threads(f, h) =>
       Kept[dir[f].name] = [k \in 1 .. dir[f].size |-> blk[h[k] + 1]]

LEMMA KeptNow == CardInv => KeptIs
<1> SUFFICES ASSUME CardInv PROVE KeptIs
  OBVIOUS
<1>1. ASSUME NEW f \in Firsts PROVE FileOf(dir[f].name) = {f}
  BY DEF FileOf, CardInv, NameInv
<1>2. ASSUME NEW f \in Firsts, NEW h, Threads(f, h)
      PROVE  Kept[dir[f].name] = [k \in 1 .. dir[f].size |-> blk[h[k] + 1]]
  <2>1. dir[f].name \in Names
    BY DEF CardInv, NameInv
  <2>2. Kept[dir[f].name] = Read(f)
    BY <1>1, <2>1 DEF Kept
  <2>3. Read(f) = [k \in 1 .. dir[f].size |-> blk[h[k] + 1]]
    BY <1>2, ReadIsThread DEF CardInv, ThreadInv
  <2> QED BY <2>2, <2>3
<1>3. \A n \in Names : FileOf(n) = {} => Kept[n] = << >>
  BY DEF Kept
<1> QED BY <1>1, <1>2, <1>3 DEF KeptIs

LEMMA KeptNext == CardInv' => KeptIs'
  BY KeptNow, PTL

(* A name is kept with a body of at least one block just when a file has   *)
(* the name.                                                               *)
LEMMA KeptSome ==
  ASSUME CardInv, NEW f \in Firsts
  PROVE  /\ dir[f].name \in Names
         /\ DOMAIN Kept[dir[f].name] = 1 .. dir[f].size
         /\ Kept[dir[f].name] # << >>
<1>1. dir[f].name \in Names /\ dir[f].size \in 1 .. Entries
  BY DEF CardInv, NameInv, ThreadInv
<1>2. PICK h : Threads(f, h)
  BY DEF CardInv, ThreadInv
<1>3. Kept[dir[f].name] = [k \in 1 .. dir[f].size |-> blk[h[k] + 1]]
  BY <1>2, KeptNow DEF KeptIs
<1>4. DOMAIN Kept[dir[f].name] = 1 .. dir[f].size
  BY <1>3
<1>5. 1 \in DOMAIN Kept[dir[f].name] /\ DOMAIN << >> = {}
  BY <1>1, <1>4, EntriesAssumption
<1> QED BY <1>1, <1>4, <1>5

(* The blocks taken, counted file by file, are the entries in use.         *)
Pairs == {p \in Names \X (1 .. Entries) : p[2] \in DOMAIN Kept[p[1]]}

LEMMA PairsCount ==
  ASSUME CardInv
  PROVE  Cardinality(Pairs) = Cardinality(InUse)
<1> DEFINE F(n) == CHOOSE f \in FileOf(n) : TRUE
           H(f) == CHOOSE h : Threads(f, h)
           at == [p \in Pairs |-> H(F(p[1]))[p[2]]]
<1>1. KeptIs /\ TypeOK /\ ThreadInv /\ ChainsDisjoint /\ NameInv
  BY KeptNow, LinkDisjoint DEF CardInv
<1>2. ASSUME NEW f \in Firsts
      PROVE  /\ f \in Frames /\ Threads(f, H(f)) /\ F(dir[f].name) = f
             /\ H(f) \in [1 .. dir[f].size -> Chain(f)]
             /\ \A j, k \in 1 .. dir[f].size : H(f)[j] = H(f)[k] => j = k
             /\ \A g \in Chain(f) : \E k \in 1 .. dir[f].size : g = H(f)[k]
             /\ dir[f].size \in 1 .. Entries
  <2>1. \E h : Threads(f, h)
    BY <1>1 DEF ThreadInv
  <2>2. Threads(f, H(f))
    BY <2>1
  <2>3. f \in Frames /\ dir[f].size \in 1 .. Entries
    BY <1>1 DEF Firsts, ThreadInv
  <2>4. F(dir[f].name) = f
    BY <1>1 DEF KeptIs
  <2> HIDE DEF H
  <2>5. \A g \in Chain(f) : \E k \in 1 .. dir[f].size : g = H(f)[k]
    BY <1>1, <2>2, <2>3, ThreadIsChain
  <2> QED BY <2>2, <2>3, <2>4, <2>5 DEF Threads
<1>3. ASSUME NEW p \in Pairs
      PROVE  /\ F(p[1]) \in Firsts /\ dir[F(p[1])].name = p[1]
             /\ p[2] \in 1 .. dir[F(p[1])].size
  <2>1. p[1] \in Names /\ p[2] \in DOMAIN Kept[p[1]]
    BY DEF Pairs
  <2>2. FileOf(p[1]) # {}
    BY <1>1, <2>1 DEF KeptIs
  <2>3. F(p[1]) \in FileOf(p[1])
    BY <2>2
  <2>4. F(p[1]) \in Firsts /\ dir[F(p[1])].name = p[1]
    BY <2>3 DEF FileOf
  <2> HIDE DEF F
  <2>5. DOMAIN Kept[p[1]] = 1 .. dir[F(p[1])].size
    BY <2>4, KeptSome
  <2> QED BY <2>1, <2>4, <2>5
<1> HIDE DEF F, H
<1>4. at \in [Pairs -> InUse]
  <2>1. ASSUME NEW p \in Pairs PROVE H(F(p[1]))[p[2]] \in InUse
    BY <1>1, <1>2, <1>3 DEF ThreadInv
  <2> QED BY <2>1
<1>5. ASSUME NEW p \in Pairs, NEW q \in Pairs, at[p] = at[q]
      PROVE  p = q
  <2>1. H(F(p[1]))[p[2]] \in Chain(F(p[1])) /\ H(F(q[1]))[q[2]] \in Chain(F(q[1]))
    BY <1>2, <1>3
  <2>2. F(p[1]) = F(q[1])
    BY <1>1, <1>3, <1>5, <2>1 DEF ChainsDisjoint
  <2>3. p[1] = q[1] /\ p[2] = q[2]
    BY <1>2, <1>3, <1>5, <2>2
  <2> QED BY <2>3 DEF Pairs
<1>6. ASSUME NEW g \in InUse PROVE \E p \in Pairs : at[p] = g
  <2>1. PICK f \in Firsts : g \in Chain(f)
    BY <1>1 DEF ThreadInv
  <2>2. PICK k \in 1 .. dir[f].size : g = H(f)[k]
    BY <1>2, <2>1
  <2>3. k \in 1 .. Entries /\ dir[f].name \in Names
    BY <1>1, <1>2, EntriesAssumption DEF NameInv
  <2>4. <<dir[f].name, k>> \in Pairs
    BY <2>3, KeptSome DEF Pairs
  <2>5. at[<<dir[f].name, k>>] = g
    BY <1>2, <2>2, <2>4
  <2> QED BY <2>4, <2>5
<1>7. IsFiniteSet(InUse)
  <2>1. IsFiniteSet(Frames)
    BY FS_Interval, EntriesAssumption DEF Frames
  <2> QED BY <2>1, FS_Subset DEF InUse
<1> HIDE DEF at
<1>8. at \in Injection(Pairs, InUse) /\ at \in Surjection(Pairs, InUse)
  BY <1>4, <1>5, <1>6 DEF Injection, IsInjective, Surjection
<1> QED BY <1>7, <1>8, FS_Injection

LEMMA TakenIsUse ==
  ASSUME CardInv
  PROVE  Card!Taken = Cardinality(InUse)
<1>1. Card!Taken = Card!Cardinality(Pairs)
  BY DEF Card!Taken, Pairs, Kept
<1>2. \A S : Card!Cardinality(S) = Cardinality(S)
  BY DEF Card!Cardinality, Cardinality
<1> QED BY <1>1, <1>2, PairsCount

(* The frames in use and the free ones are all.                            *)
LEMMA UseAndUnset ==
  /\ IsFiniteSet(InUse) /\ IsFiniteSet(Unset)
  /\ Cardinality(InUse) \in Nat /\ Cardinality(Unset) \in Nat
  /\ Cardinality(InUse) + Cardinality(Unset) = Entries
<1>1. IsFiniteSet(Frames) /\ Cardinality(Frames) = Entries
  <2>1. Entries - 1 \in Int /\ (0 > Entries - 1 <=> Entries = 0) /\ (Entries - 1) - 0 + 1 = Entries
    BY EntriesAssumption
  <2> QED BY <2>1, FS_Interval DEF Frames
<1>2. InUse \in SUBSET Frames /\ Unset = Frames \ InUse /\ Frames \cap InUse = InUse
  BY DEF InUse, Unset
<1>3. IsFiniteSet(InUse) /\ IsFiniteSet(Unset)
  BY <1>1, <1>2, FS_Subset, FS_Difference
<1>4. Cardinality(InUse) \in Nat /\ Cardinality(Unset) \in Nat
  BY <1>3, FS_CardinalityType
<1>5. Cardinality(Unset) = Entries - Cardinality(InUse)
  BY <1>1, <1>2, FS_Difference
<1> QED BY <1>3, <1>4, <1>5, EntriesAssumption

(* The free frames have n places just when they are n or more.             *)
LEMMA RoomIsPlaces ==
  ASSUME TypeOK, LinkInv, NEW n \in Nat
  PROVE  /\ Finds(Unset, n) => n <= Cardinality(Unset)
         /\ n <= Cardinality(Unset) => Finds(Unset, n) /\ Finds(Unused, n)
<1>1. Unset \in SUBSET (0 .. Entries)
  BY EntriesAssumption DEF Unset, Frames
<1>2. IsFiniteSet(Unset) /\ Cardinality(Unset) \in Nat
  BY UseAndUnset
<1>3. ASSUME Finds(Unset, n) PROVE n <= Cardinality(Unset)
  <2> DEFINE h == [k \in 1 .. n |-> Nth(Unset, k)]
  <2>1. \A k \in 1 .. n : h[k] \in Unset /\ Place(Unset, h[k]) = k
    BY <1>3, TakenPlaces DEF Taken
  <2>2. h \in Injection(1 .. n, Unset)
    BY <2>1 DEF Injection, IsInjective
  <2>3. Cardinality(1 .. n) = n
    <3>1. n \in Int /\ (1 > n <=> n = 0) /\ n - 1 + 1 = n
      OBVIOUS
    <3> QED BY <3>1, FS_Interval
  <2> HIDE DEF h
  <2> QED BY <1>2, <2>2, <2>3, FS_Injection
<1>4. ASSUME n <= Cardinality(Unset), NEW k \in 1 .. n
      PROVE  \E x \in Unset : Place(Unset, x) = k
  <2> DEFINE m == Cardinality(Unset)
             h == [x \in Unset |-> Place(Unset, x)]
  <2>1. \A x \in Unset : Place(Unset, x) \in 1 .. m
    <3> SUFFICES ASSUME NEW x \in Unset PROVE Place(Unset, x) \in 1 .. m
      OBVIOUS
    <3>1. Place(Unset, x) \in Nat /\ Place(Unset, x) >= 1
      BY <1>1, PlaceType
    <3>2. Place(Unset, x) <= m
      BY <1>2, FS_Subset DEF Place
    <3> QED BY <1>2, <3>1, <3>2
  <2>2. h \in Injection(Unset, 1 .. m)
    BY <1>1, <2>1, PlaceInjective DEF Injection, IsInjective
  <2>3. IsFiniteSet(1 .. m) /\ Cardinality(1 .. m) = m
    <3>1. m \in Int /\ (1 > m <=> m = 0) /\ m - 1 + 1 = m
      BY <1>2
    <3> HIDE DEF m
    <3> QED BY <1>2, <3>1, FS_Interval
  <2>4. h \in Surjection(Unset, 1 .. m)
    <3> HIDE DEF h
    <3> QED BY <2>2, <2>3, FS_Injection
  <2>5. k \in 1 .. m
    BY <1>2, <1>4
  <2> QED BY <2>4, <2>5 DEF Surjection
<1>5. n <= Cardinality(Unset) => Finds(Unset, n)
  BY <1>4 DEF Finds
<1>6. ASSUME Finds(Unset, n), NEW k \in 1 .. n
      PROVE  \E b \in Unused : Place(Unused, b) = k
  <2>1. PICK x \in Unset : Place(Unset, x) = k
    BY <1>6 DEF Finds
  <2>2. x + 1 \in Unused /\ (x + 1) - 1 = x
    BY <1>1, <2>1, LinkPairs DEF FrameIsBlock
  <2>3. PICK b \in Unused : b = x + 1
    BY <2>2
  <2>4. b - 1 = x
    BY <2>2, <2>3
  <2> QED BY <2>1, <2>4, PairedPlaces
<1> QED BY <1>3, <1>5, <1>6 DEF Finds

----------------------------------------------------------------------------
(* What each call does to the files kept.                                  *)
LEMMA KeptSame ==
  ASSUME CardInv, CardInv', NEW f \in Firsts, f \in Firsts', SameFile(f)
  PROVE  dir'[f].name = dir[f].name /\ Kept'[dir[f].name] = Kept[dir[f].name]
<1>1. f \in Frames /\ TypeOK
  BY DEF Firsts, CardInv
<1>2. PICK h : Threads(f, h)
  BY DEF CardInv, ThreadInv
<1>3. dir'[f] = dir[f] /\ Threads(f, h)'
  BY <1>1, <1>2, ThreadKept
<1>4. Kept[dir[f].name] = [k \in 1 .. dir[f].size |-> blk[h[k] + 1]]
  BY <1>2, KeptNow DEF KeptIs
<1>5. Kept'[dir'[f].name] = [k \in 1 .. dir'[f].size |-> blk'[h[k] + 1]]
  BY <1>3, KeptNext DEF KeptIs
<1>6. \A k \in 1 .. dir[f].size : blk'[h[k] + 1] = blk[h[k] + 1]
  BY <1>2 DEF Threads, SameFile
<1> QED BY <1>3, <1>4, <1>5, <1>6

LEMMA KeptShape == Kept = [n \in Names |-> Kept[n]]
  BY DEF Kept
LEMMA KeptShapeNext == Kept' = [n \in Names |-> Kept'[n]]
  BY DEF Kept

(* A name no file has, before and after.                                   *)
LEMMA KeptNone ==
  ASSUME NEW n \in Names
  PROVE  /\ (\A f \in Firsts : dir[f].name # n) => Kept[n] = << >>
         /\ (\A f \in Firsts' : dir'[f].name # n) => Kept'[n] = << >>
<1>1. (\A f \in Firsts : dir[f].name # n) => FileOf(n) = {}
  BY DEF FileOf
<1>2. (\A f \in Firsts' : dir'[f].name # n) => FileOf(n)' = {}
  BY DEF FileOf
<1>3. FileOf(n) = {} => Kept[n] = << >>
  BY DEF Kept
<1>4. FileOf(n)' = {} => Kept'[n] = << >>
  BY DEF Kept
<1> QED BY <1>1, <1>2, <1>3, <1>4

LEMMA KeptOthers ==
  ASSUME CardInv, CardInv', [NextFile]_vars, NEW n \in Names,
         \A f \in Firsts : dir[f].name = n => f \in Firsts',
         \A f \in Firsts' : dir'[f].name = n => f \in Firsts
  PROVE  Kept'[n] = Kept[n]
<1>1. CASE \E f \in Firsts : dir[f].name = n
  <2>1. PICK f \in Firsts : dir[f].name = n
    BY <1>1
  <2>2. f \in Firsts' /\ SameFile(f)
    BY <2>1, OthersStep DEF CardInv
  <2> QED BY <2>1, <2>2, KeptSame
<1>2. CASE ~\E f \in Firsts : dir[f].name = n
  <2>1. ASSUME NEW f \in Firsts' PROVE dir'[f].name # n
    <3> SUFFICES ASSUME dir'[f].name = n PROVE FALSE
      OBVIOUS
    <3>1. f \in Firsts /\ SameFile(f)
      BY OthersStep DEF CardInv
    <3> QED BY <1>2, <3>1, KeptSame
  <2> QED BY <1>2, <2>1, KeptNone
<1> QED BY <1>1, <1>2

LEMMA PutStep ==
  ASSUME CardInv, CardInv', NEW name \in Names \cup {NoName},
         NEW body \in Bodies, Write(name, body)
  PROVE  Card!Put(name, body)
<1>0. TypeOK /\ LinkInv /\ TypeOK' /\ [NextFile]_vars
  BY DEF CardInv, NextFile, Writes
<1>1. CASE ret' # "OK"
  <2>1. UNCHANGED <<dir, blk>> /\ ret' = WriteStatus(name, body)
    BY <1>1 DEF Write
  <2>2. Kept' = Kept
    BY <2>1 DEF Kept, FileOf, Firsts, Read, Hop
  <2>3. CASE ret' = "INVAL"
    <3>1. name = NoName \/ Len(body) \notin 1 .. Entries
      BY <2>1, <2>3 DEF WriteStatus
    <3> QED BY <2>2, <2>3, <3>1 DEF Card!Put, Card!Malformed, Card!Refuses, Kept
  <2>4. CASE ret' = "EXISTS"
    <3>1. PICK f \in InUse : dir[f].name = name /\ name # NoName
      BY <2>1, <2>4 DEF WriteStatus
    <3>2. f \in Firsts
      BY <3>1 DEF CardInv, NameInv
    <3>3. name \in Names /\ Kept[name] # << >>
      BY <3>1, <3>2, KeptSome
    <3>4. ~(name = NoName \/ Len(body) \notin 1 .. Entries)
      BY <2>1, <2>4 DEF WriteStatus
    <3> QED BY <2>2, <2>4, <3>3, <3>4
        DEF Card!Put, Card!Malformed, Card!Refuses, Card!NoFile, Kept
  <2>5. CASE ret' = "NOSPACE"
    <3>1. /\ Len(body) \in 1 .. Entries
          /\ ~Finds(Unused, Len(body)) \/ ~Finds(Unset, Len(body))
      BY <2>1, <2>5 DEF WriteStatus
    <3>2. Len(body) \in Nat
      BY BodiesAssumption
    <3>3. ~(Len(body) <= Cardinality(Unset))
      BY <1>0, <3>1, <3>2, RoomIsPlaces
    <3>4. Cardinality(InUse) + Len(body) > Entries
      BY <3>2, <3>3, UseAndUnset, EntriesAssumption
    <3>5. Card!Taken + Len(body) > Entries
      BY <3>4, TakenIsUse
    <3>6. name \in Names /\ \A f \in InUse : dir[f].name # name
      BY <2>1, <2>5 DEF WriteStatus
    <3>7. Kept[name] = << >>
      BY <3>6, FirstsInUse, KeptNone
    <3>8. name # NoName
      BY <2>1, <2>5 DEF WriteStatus
    <3> QED BY <2>2, <2>5, <3>1, <3>5, <3>7, <3>8
        DEF Card!Put, Card!Malformed, Card!Refuses, Card!NoFile, Kept
  <2> QED BY <1>1, <2>1, <2>3, <2>4, <2>5 DEF WriteStatus
<1>2. CASE ret' = "OK"
  <2>1. /\ Store(name, body) /\ name \in Names
        /\ Finds(Unused, Len(body)) /\ Finds(Unset, Len(body))
        /\ Len(body) \in 1 .. Entries
        /\ \A f \in InUse : dir[f].name # name
    BY <1>2 DEF Write, WriteStatus
  <2>2. Len(body) \in Nat /\ body = [k \in 1 .. Len(body) |-> body[k]]
    <3>1. body \in Seq({body[i] : i \in DOMAIN body})
      BY BodiesAssumption
    <3>2. ASSUME NEW S, body \in Seq(S)
          PROVE  Len(body) \in Nat /\ body = [k \in 1 .. Len(body) |-> body[k]]
      BY <3>2
    <3> QED BY <3>1, <3>2
  <2>3. PICK h : /\ h[1] \in Unset
                 /\ Firsts' = Firsts \cup {h[1]}
                 /\ dir'[h[1]].size = Len(body)
                 /\ dir'[h[1]].name = name
                 /\ Threads(h[1], h)'
                 /\ \A k \in 1 .. Len(body) : blk'[h[k] + 1] = body[k]
    BY <1>0, <2>1, WriteThread
  <2>4. Kept'[name] = body
    <3>1. PICK f \in Firsts' : f = h[1]
      BY <2>3
    <3>2. Threads(f, h)' /\ dir'[f].name = name /\ dir'[f].size = Len(body)
      BY <2>3, <3>1
    <3>3. Kept'[dir'[f].name] = [k \in 1 .. dir'[f].size |-> blk'[h[k] + 1]]
      BY <3>2, KeptNext DEF KeptIs
    <3> QED BY <2>2, <2>3, <3>2, <3>3
  <2>5. Kept[name] = << >>
    BY <2>1, FirstsInUse, KeptNone
  <2>6. ASSUME NEW n \in Names, n # name PROVE Kept'[n] = Kept[n]
    BY <1>0, <2>3, <2>6, KeptOthers
  <2>7. Kept' = [Kept EXCEPT ![name] = body]
    <3> QED BY <2>4, <2>6, KeptShape, KeptShapeNext
  <2>8. Card!Taken + Len(body) <= Entries
    <3>1. Len(body) <= Cardinality(Unset)
      BY <1>0, <2>1, <2>2, RoomIsPlaces
    <3>2. Cardinality(InUse) + Len(body) <= Entries
      BY <2>2, <3>1, UseAndUnset, EntriesAssumption
    <3> QED BY <3>2, TakenIsUse
  <2>9. name # NoName
    BY <2>1, NamesAssumption
  <2> QED BY <1>2, <2>1, <2>5, <2>7, <2>8, <2>9
      DEF Card!Put, Card!Malformed, Card!NoFile, Kept
<1> QED BY <1>1, <1>2

LEMMA RemoveStep ==
  ASSUME CardInv, CardInv', NEW f \in Frames, dir[f].state \notin {"MID", "LAST"},
         Delete(f)
  PROVE  IF f \in Firsts THEN Card!Remove(dir[f].name) ELSE Card!RemoveNone
<1>0. TypeOK /\ LinkInv /\ TypeOK' /\ [NextFile]_vars
  BY DEF CardInv, NextFile
<1>1. CASE f \notin InUse
  <2>1. UNCHANGED <<dir, blk>> /\ ret' = "NOT_FOUND"
    BY <1>1 DEF Delete
  <2>2. Kept' = Kept
    BY <2>1 DEF Kept, FileOf, Firsts, Read, Hop
  <2>3. f \in Unset
    BY <1>1 DEF Unset
  <2>4. Cardinality(Unset) # 0
    BY <2>3, UseAndUnset, FS_EmptySet
  <2>5. Cardinality(InUse) < Entries
    BY <2>4, UseAndUnset, EntriesAssumption
  <2>6. Card!Taken < Entries
    BY <2>5, TakenIsUse
  <2>7. f \notin Firsts
    BY <1>1, FirstsInUse
  <2> QED BY <2>1, <2>2, <2>6, <2>7 DEF Card!RemoveNone, Card!Refuses, Kept
<1>2. CASE f \in InUse
  <2>1. f \in Firsts /\ Mark(f) /\ ret' = "OK"
    BY <1>2 DEF Delete, InUse, Live, Firsts
  <2>2. Firsts' = Firsts \ {f}
    BY <1>0, <2>1, DeleteFirsts
  <2> DEFINE name == dir[f].name
  <2>3. name \in Names /\ Kept[name] # << >>
    BY <2>1, KeptSome
  <2>4. ASSUME NEW n \in Names, n # name PROVE Kept'[n] = Kept[n]
    BY <1>0, <2>2, <2>4, KeptOthers
  <2>5. Kept'[name] = << >>
    <3>1. ASSUME NEW g \in Firsts' PROVE dir'[g].name # name
      <4>1. g \in Firsts /\ g # f /\ SameFile(g)
        BY <1>0, <2>2, OthersStep
      <4>2. dir'[g].name = dir[g].name
        BY <4>1, KeptSame
      <4> QED BY <2>1, <4>1, <4>2 DEF CardInv, NameInv
    <3>2. ASSUME NEW n \in Names, n = name PROVE Kept'[n] = << >>
      BY <3>1, <3>2, KeptNone
    <3> QED BY <2>3, <3>2
  <2>6. Kept' = [Kept EXCEPT ![name] = << >>]
    <3> QED BY <2>4, <2>5, KeptShape, KeptShapeNext
  <2>7. ASSUME NEW n \in Names, n = name PROVE Card!Remove(n)
    BY <2>1, <2>3, <2>6, <2>7 DEF Card!Remove, Card!NoFile, Kept
  <2> QED BY <2>1, <2>3, <2>7
<1> QED BY <1>1, <1>2

LEMMA FormatStep == Format => Card!Next
<1> SUFFICES ASSUME Format PROVE Card!Next
  OBVIOUS
<1>1. Firsts' = {} /\ ret' = "OK"
  BY DEF Format, FreshEntry, Firsts
<1>2. Kept' = [n \in Names |-> << >>]
  <2>1. \A n \in Names : FileOf(n)' = {}
    BY <1>1 DEF FileOf
  <2> QED BY <2>1 DEF Kept
<1> QED BY <1>1, <1>2 DEF Card!Next, Card!Format, Card!NoFile, Kept

LEMMA CardStep ==
  CardInv /\ CardInv' /\ [NextFile]_vars => [Card!Next]_(Card!vars)
<1> SUFFICES ASSUME CardInv, CardInv', [NextFile]_vars PROVE [Card!Next]_(Card!vars)
  OBVIOUS
<1>1. CASE UNCHANGED vars
  BY <1>1 DEF vars, Card!vars, FileOf, Firsts, Read, Hop
<1>2. CASE Format
  BY <1>2, FormatStep
<1>3. CASE Writes
  <2>1. PICK name \in Names \cup {NoName}, body \in Bodies : Write(name, body)
    BY <1>3 DEF Writes
  <2>2. Card!Put(name, body)
    BY <2>1, PutStep
  <2> QED BY <2>2 DEF Card!Next
<1>4. ASSUME NEW f \in Frames, dir[f].state \notin {"MID", "LAST"}, Delete(f)
      PROVE  Card!Next
  <2>1. f \in Firsts => dir[f].name \in Names
    BY KeptSome
  <2> QED BY <1>4, <2>1, RemoveStep DEF Card!Next
<1> QED BY <1>1, <1>2, <1>3, <1>4 DEF NextFile

(* ... and each call's answer is the one due to its arguments.             *)
LEMMA DueStep == CardInv /\ CardInv' => AnswersDue
  BY PutStep, RemoveStep DEF AnswersDue

(* The card keeps what CardStore promises: each name reads back as the     *)
(* body last written under it, whatever was written and deleted since, and *)
(* each call gets the answer due to its arguments, so that a write is      *)
(* refused for lack of room just when the files leave too little for it.   *)
THEOREM CardKeepsFiles == FileSpec => CardSpec
<1>1. Init => Card!Init
  <2> SUFFICES ASSUME Init PROVE Card!Init
    OBVIOUS
  <2>1. Firsts = {} /\ ret = "OK"
    BY DEF Init, FreshEntry, Firsts
  <2>2. Kept = [n \in Names |-> << >>]
    BY <2>1 DEF Kept, FileOf
  <2> QED BY <2>1, <2>2 DEF Card!Init, Card!NoFile, Kept
<1>2. FileSpec => Init /\ [][NextFile]_vars
  BY DEF FileSpec
<1> QED BY <1>1, <1>2, CardInvCorrect, CardStep, DueStep, PTL DEF CardSpec, Card!Spec
=============================================================================
