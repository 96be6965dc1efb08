----------------------------- MODULE SystemProofs -----------------------------
(***************************************************************************)
(* Proofs about the boot chain and the storage side of a boot.  Of a boot  *)
(* state alone, for any set of volumes and any number of runs: the types,  *)
(* that the window is owned, that the deposit lands last and the records   *)
(* are the window's, and that slots are not lost.  Of the whole, for any containers, archives, volumes and limits:   *)
(* that nothing of it is lost or freed twice, that a packed member which   *)
(* is read lies in front of the next, that a member or a chain of them     *)
(* comes out whole or not at all, that the images and strings in what was  *)
(* unpacked are those it holds, and that what is shown of a boot state     *)
(* alone holds in it.                                                      *)
(***************************************************************************)
EXTENDS BootSystem, FiniteSetTheorems, SequenceTheorems, TLAPS

(* The order of gt2_task_boot_run.                                         *)
LEMMA ChainOrder ==
  /\ Len(Chain) = 17 /\ DOMAIN Chain = 1..17
  /\ Chain[1] = "cache" /\ Chain[2] = "cars" /\ Chain[3] = "logo"
  /\ Chain[4] = "crsmap" /\ Chain[5] = "window" /\ Chain[6] = "crs"
  /\ Chain[7] = "queue" /\ Chain[8] = "gather" /\ Chain[9] = "marks"
  /\ Chain[10] = "slots" /\ Chain[11] = "blocks" /\ Chain[12] = "tails"
  /\ Chain[13] = "b4" /\ Chain[14] = "b5" /\ Chain[15] = "b6"
  /\ Chain[16] = "span" /\ Chain[17] = "deposit"
  BY DEF Chain

LEMMA PartsAreChain == Parts = {Chain[k] : k \in 1..17}
  BY ChainOrder DEF Parts

(* Where the chain is when a part that matters is filled.                  *)
LEMMA PartPlace ==
  ASSUME pc \in -1..17
  PROVE  /\ Part = "window" => pc = 5
         /\ Part = "crs" => pc = 6
         /\ Part = "queue" => pc = 7
         /\ Part = "slots" => pc = 10
         /\ Part = "blocks" => pc = 11
         /\ Part = "deposit" => pc = 17
         /\ Part \in {"marks", "tails", "b4", "b5", "b6"} => pc \in {9, 12, 13, 14, 15}
         /\ Part \in DOMAIN Readers => pc \in {1, 2, 3, 4, 8, 16}
         /\ pc >= 1 => Part = Chain[pc] /\ Part \in Parts
<1>1. DOMAIN Readers = {"cache", "cars", "logo", "crsmap", "gather", "span"}
  BY DEF Readers
<1>2. CASE pc < 1
  BY <1>1, <1>2 DEF Part
<1>3. CASE pc >= 1
  <2>1. Part = Chain[pc] /\ pc \in 1..17
    BY <1>3 DEF Part
  <2> QED BY <1>1, <1>3, <2>1, ChainOrder, PartsAreChain
<1> QED BY <1>2, <1>3
----------------------------------------------------------------------------
(* The inductive invariant.                                                *)

(* The records have been counted once the parser has let them through.     *)
Counted == pc > 6 => vol.crs <= CrsMax

(* The window is freed at the start of a run and is this run's once it is  *)
(* loaded.                                                                 *)
Owns ==
  /\ pc = -1 => live = {}
  /\ pc # -1 => live = {window} \ {0}
  /\ pc \in 1..5 => window = 0
  /\ pc > 5 \/ Done => window = run
  /\ pc >= 1 => run >= 1

(* What the chain has passed, this run has written.                        *)
Filled ==
  /\ \A k \in 1..17 : k < pc => stamp[Chain[k]] = run
  /\ Done => \A p \in Parts : stamp[p] = run

(* The blocks leave the slots in front of them.                            *)
Fitting == {k \in 0..(vol.crs - 1) : k < 128}
Laid ==
  /\ pc = 11 => 0..(vol.crs - 1) \subseteq slots
  /\ pc > 11 \/ Done => Fitting \subseteq slots

----------------------------------------------------------------------------
(* A part that is written leaves the stamps of this run where they were.   *)
LEMMA WritesStamp ==
  ASSUME TypeOK, pc \in 1..17, Writes, run' = run
  PROVE  /\ stamp' \in [Parts -> 0..run']
         /\ stamp'[Chain[pc]] = run
         /\ \A p \in Parts : stamp[p] = run => stamp'[p] = run
<1>1. Part = Chain[pc] /\ Part \in Parts
  BY PartPlace
<1>2. run \in 0..run /\ stamp \in [Parts -> 0..run]
  BY BootAssumption DEF TypeOK
<1> QED BY <1>1, <1>2 DEF Writes

(* Going on stays in the chain or ends it.                                 *)
LEMMA GoesPlace ==
  ASSUME TypeOK, pc \in 1..17, Goes
  PROVE  /\ pc < 17 => pc' = pc + 1 /\ rc' = rc
         /\ pc = 17 => pc' = 0 /\ rc' = "OK"
  BY ChainOrder DEF Goes

(* The statuses of the chain.                                              *)
Statuses == {"none", "OK", "INVAL", "NO_MEM", "IO", "NOT_FOUND", "NOSPACE",
             "TRUNCATED", "BAD_DATA"}

(* The slots of as many records as the parser lets through are in range,   *)
(* and so is a length that the deposit takes.                              *)
LEMMA SlotRange ==
  ASSUME NEW n \in Nat, n <= CrsMax
  PROVE  0..(n - 1) \subseteq 0..(CrsMax - 1)
  BY DEF CrsMax

LEMMA DepositRange ==
  ASSUME NEW n \in Int, ~(n < 0), ~(n > DepositMax)
  PROVE  n \in 0..DepositMax
<1>1. DepositMax \in Int
  BY DEF DepositMax
<1>2. n >= 0 /\ n <= DepositMax
  BY <1>1
<1> QED BY <1>1, <1>2

LEMMA DepositEmpty == 0 \in 0..DepositMax
<1>1. DepositMax \in Int /\ DepositMax >= 0
  BY DEF DepositMax
<1> QED BY <1>1

(* Each step keeps the types; the slots fit because the parser counted     *)
(* them, the window is a run's because a call raises the run's number.     *)
LEMMA BootTypeStep == TypeOK /\ Counted /\ Owns /\ [Next]_vars => TypeOK'
<1> SUFFICES ASSUME TypeOK, Counted, Owns, [Next]_vars PROVE TypeOK'
  OBVIOUS
<1> USE DEF TypeOK
<1>1. CASE Create
  <2>1. stamp' \in [Parts -> 0..run']
    BY <1>1 DEF Create, Zeros
  <2>2. len' \in 0..DepositMax
    BY <1>1, DepositEmpty DEF Create
  <2>3. pc' \in -1..Len(Chain) /\ window' \in 0..run' /\ live' \subseteq 1..run'
    BY <1>1, ChainOrder DEF Create
  <2>4. UNCHANGED <<run, vol>> /\ slots' = {} /\ word' = 0 /\ heap' = 0 /\ xfer' = 0 /\ rc' = "none"
    BY <1>1 DEF Create
  <2> QED BY <2>1, <2>2, <2>3, <2>4
<1>2. CASE Destroy
  <2>1. stamp' \in [Parts -> 0..run']
    BY <1>2 DEF Destroy, Zeros
  <2>2. len' \in 0..DepositMax
    BY <1>2, DepositEmpty DEF Destroy
  <2>3. pc' \in -1..Len(Chain) /\ window' \in 0..run' /\ live' \subseteq 1..run'
    BY <1>2, ChainOrder DEF Destroy
  <2>4. UNCHANGED <<run, vol>> /\ slots' = {} /\ word' = 0 /\ heap' = 0 /\ xfer' = 0 /\ rc' = "none"
    BY <1>2 DEF Destroy
  <2> QED BY <2>1, <2>2, <2>3, <2>4
<1>3. CASE Start
  <2>1. stamp' \in [Parts -> 0..run']
    <3>1. 0..run \subseteq 0..run'
      BY <1>3, BootAssumption DEF Start
    <3> QED BY <1>3, <3>1 DEF Start
  <2> QED BY <1>3, <2>1, ChainOrder, BootAssumption DEF Start, Drops
<1>4. CASE BadCall
  BY <1>4, ChainOrder DEF BadCall
<1>5. CASE Read
  <2>1. pc \in {1, 2, 3, 4, 8, 16} /\ Part \in Parts /\ run' = run
    BY <1>5, PartPlace, ChainOrder DEF Read
  <2>2. stamp' \in [Parts -> 0..run']
    <3>1. [stamp EXCEPT ![Part] = run] \in [Parts -> 0..run]
      BY <2>1
    <3> QED BY <1>5, <2>1, <3>1 DEF Read, Writes
  <2>3. pc' \in -1..17 /\ rc' \in Statuses
    <3>1. CASE Writes /\ Goes
      <4>1. pc \in 1..17 /\ pc < 17
        BY <2>1
      <4>2. pc' = pc + 1 /\ rc' = rc
        BY <3>1, <4>1, GoesPlace, Zenon
      <4>3. rc \in Statuses
        BY Zenon DEF TypeOK, Statuses
      <4> QED BY <4>1, <4>2, <4>3
    <3>2. CASE \E e \in Readers[Part] : Stops(e)
      <4>1. Readers[Part] \subseteq Statuses
        BY <1>5 DEF Read, Readers, Statuses
      <4> QED BY <3>2, <4>1 DEF Stops
    <3> QED BY <1>5, <3>1, <3>2 DEF Read
  <2> QED BY <1>5, <2>2, <2>3, ChainOrder DEF Read, Statuses
<1>6. CASE LoadWindow
  <2>1. pc = 5 /\ run' = run
    BY <1>6, PartPlace, ChainOrder DEF LoadWindow
  <2>2. CASE window' = run /\ live' = live \cup {run} /\ Writes /\ Goes
    <3>1. stamp' \in [Parts -> 0..run']
      BY <2>1, <2>2, WritesStamp
    <3>2. run \in 1..run
      BY <2>1, BootAssumption DEF Owns
    <3> QED BY <1>6, <2>1, <2>2, <3>1, <3>2, GoesPlace, ChainOrder DEF LoadWindow
  <2>3. CASE UNCHANGED <<stamp, window, live>>
    BY <1>6, <2>1, <2>3, ChainOrder, GoesPlace DEF LoadWindow, Stops
  <2> QED BY <1>6, <2>2, <2>3 DEF LoadWindow
<1>7. CASE ParseCrs
  <2>1. pc = 6 /\ run' = run
    BY <1>7, PartPlace, ChainOrder DEF ParseCrs
  <2>2. CASE Writes /\ Goes
    <3>1. stamp' \in [Parts -> 0..run']
      BY <2>1, <2>2, WritesStamp
    <3> QED BY <1>7, <2>1, <2>2, <3>1, GoesPlace, ChainOrder DEF ParseCrs
  <2>3. CASE UNCHANGED stamp
    BY <1>7, <2>1, <2>3, ChainOrder, GoesPlace DEF ParseCrs, Stops
  <2> QED BY <1>7, <2>2, <2>3 DEF ParseCrs
<1>8. CASE QueueB2
  <2>1. pc = 7 /\ run' = run
    BY <1>8, PartPlace, ChainOrder DEF QueueB2
  <2>2. vol.start \in Nat /\ vol.end \in Nat
    BY BootAssumption
  <2>3. heap' \in Nat /\ xfer' \in Int
    BY <1>8, <2>2 DEF QueueB2, HeapInit, Wanted, Floor, Sector
  <2>4. CASE Writes /\ Goes
    <3>1. stamp' \in [Parts -> 0..run']
      BY <2>1, <2>4, WritesStamp
    <3> QED BY <1>8, <2>1, <2>3, <2>4, <3>1, GoesPlace, ChainOrder DEF QueueB2
  <2>5. CASE UNCHANGED stamp /\ \E e \in {"TRUNCATED", "NOT_FOUND"} : Stops(e)
    BY <1>8, <2>1, <2>3, <2>5, ChainOrder DEF QueueB2, Stops
  <2> QED BY <1>8, <2>4, <2>5 DEF QueueB2
<1>9. CASE FillSlots
  <2>1. pc = 10 /\ run' = run /\ Writes /\ Goes
    BY <1>9, PartPlace, ChainOrder DEF FillSlots
  <2>2. stamp' \in [Parts -> 0..run'] /\ pc' = 11 /\ rc' = rc
    BY <2>1, WritesStamp, GoesPlace
  <2>3. vol.crs \in Nat /\ vol.crs <= CrsMax
    BY <2>1, BootAssumption DEF Counted
  <2>4. slots' \subseteq 0..(CrsMax - 1)
    <3>1. slots' = slots \cup 0..(vol.crs - 1)
      BY <1>9 DEF FillSlots
    <3>2. 0..(vol.crs - 1) \subseteq 0..(CrsMax - 1)
      BY <2>3, SlotRange, Zenon
    <3> QED BY <3>1, <3>2
  <2>5. UNCHANGED <<run, vol, window, live, word, heap, xfer, len>>
    BY <1>9 DEF FillSlots
  <2>6. pc' \in -1..Len(Chain) /\ window' \in 0..run' /\ live' \subseteq 1..run'
    BY <2>2, <2>5, ChainOrder
  <2> QED BY <2>2, <2>4, <2>5, <2>6
<1>10. CASE FillBlocks
  <2>1. pc = 11 /\ run' = run /\ Writes /\ Goes
    BY <1>10, PartPlace, ChainOrder DEF FillBlocks
  <2>2. stamp' \in [Parts -> 0..run'] /\ pc' = 12 /\ rc' = rc
    BY <2>1, WritesStamp, GoesPlace
  <2>3. slots' \subseteq 0..(CrsMax - 1)
    BY <1>10 DEF FillBlocks, InBlock
  <2>4. UNCHANGED <<run, vol, window, live, word, heap, xfer, len>>
    BY <1>10 DEF FillBlocks
  <2>5. pc' \in -1..Len(Chain) /\ window' \in 0..run' /\ live' \subseteq 1..run'
    BY <2>2, <2>4, ChainOrder
  <2> QED BY <2>2, <2>3, <2>4, <2>5
<1>11. CASE Fill
  <2>1. pc \in {9, 12, 13, 14, 15} /\ run' = run /\ Writes /\ Goes
    BY <1>11, PartPlace, ChainOrder DEF Fill
  <2>2. stamp' \in [Parts -> 0..run'] /\ pc' = pc + 1 /\ rc' = rc
    BY <2>1, WritesStamp, GoesPlace
  <2> QED BY <1>11, <2>1, <2>2, ChainOrder DEF Fill
<1>12. CASE CompleteB2
  <2>1. pc = 17 /\ run' = run
    BY <1>12, PartPlace, ChainOrder DEF CompleteB2
  <2>2. CASE /\ ~TooLong /\ len' = xfer /\ Writes /\ Goes
             /\ word' = IF xfer >= 20 THEN vol.word ELSE word
    <3>1. stamp' \in [Parts -> 0..run']
      BY <2>1, <2>2, WritesStamp
    <3>2. len' \in 0..DepositMax
      <4>1. ~(xfer < 0) /\ ~(xfer > DepositMax) /\ len' = xfer
        BY <2>2, Zenon DEF TooLong
      <4> QED BY <4>1, DepositRange, Zenon
    <3>3. vol.word \in Nat
      BY BootAssumption
    <3>4. word' \in Nat
      BY <2>2, <3>3
    <3> QED BY <1>12, <2>1, <2>2, <3>1, <3>2, <3>4, GoesPlace, ChainOrder DEF CompleteB2
  <2>3. CASE /\ \E e \in {"NOSPACE", "NO_MEM", "IO", "INVAL"} : Stops(e)
             /\ UNCHANGED <<len, word, stamp>>
    BY <1>12, <2>1, <2>3, ChainOrder DEF CompleteB2, Stops
  <2> QED BY <1>12, <2>2, <2>3 DEF CompleteB2
<1>13. CASE UNCHANGED vars
  BY <1>13 DEF vars
<1> QED BY <1>1, <1>2, <1>3, <1>4, <1>5, <1>6, <1>7, <1>8,
           <1>9, <1>10, <1>11, <1>12, <1>13 DEF Next
----------------------------------------------------------------------------
(* Each action of the chain has its place, ends there with an error or     *)
(* goes on, having written its part; no other writes a window.             *)
LEMMA ChainStep ==
  ASSUME TypeOK,
         Read \/ LoadWindow \/ ParseCrs \/ QueueB2 \/ FillSlots \/ FillBlocks
           \/ Fill \/ CompleteB2
  PROVE  /\ pc \in 1..17 /\ run' = run /\ vol' = vol
         /\ \/ Goes /\ Writes
            \/ pc' = 0 /\ rc' # "OK"
         /\ LoadWindow \/ UNCHANGED <<window, live>>
<1> USE DEF TypeOK
<1>1. CASE Read
  <2>1. pc \in 1..17
    BY <1>1, PartPlace, ChainOrder DEF Read
  <2>2. \A e \in Readers[Part] : e # "OK"
    BY <1>1 DEF Read, Readers
  <2> QED BY <1>1, <2>1, <2>2 DEF Read, Stops
<1>2. CASE LoadWindow
  <2>1. pc \in 1..17
    BY <1>2, PartPlace, ChainOrder DEF LoadWindow
  <2> QED BY <1>2, <2>1 DEF LoadWindow, Stops
<1>3. CASE ParseCrs
  <2>1. pc \in 1..17
    BY <1>3, PartPlace, ChainOrder DEF ParseCrs
  <2> QED BY <1>3, <2>1 DEF ParseCrs, Stops
<1>4. CASE QueueB2
  <2>1. pc \in 1..17
    BY <1>4, PartPlace, ChainOrder DEF QueueB2
  <2> QED BY <1>4, <2>1 DEF QueueB2, Stops
<1>5. CASE FillSlots
  <2>1. pc \in 1..17
    BY <1>5, PartPlace, ChainOrder DEF FillSlots
  <2> QED BY <1>5, <2>1 DEF FillSlots
<1>6. CASE FillBlocks
  <2>1. pc \in 1..17
    BY <1>6, PartPlace, ChainOrder DEF FillBlocks
  <2> QED BY <1>6, <2>1 DEF FillBlocks
<1>7. CASE Fill
  <2>1. pc \in 1..17
    BY <1>7, PartPlace, ChainOrder DEF Fill
  <2> QED BY <1>7, <2>1 DEF Fill
<1>8. CASE CompleteB2
  <2>1. pc \in 1..17
    BY <1>8, PartPlace, ChainOrder DEF CompleteB2
  <2> QED BY <1>8, <2>1 DEF CompleteB2, Stops
<1> QED BY <1>1, <1>2, <1>3, <1>4, <1>5, <1>6, <1>7, <1>8

(* What follows the parser runs only when the parser has gone on.          *)
LEMMA CountedStep == TypeOK /\ Counted /\ [Next]_vars => Counted'
<1> SUFFICES ASSUME TypeOK, Counted, [Next]_vars PROVE Counted'
  OBVIOUS
<1> USE DEF Counted
<1>1. CASE Create \/ Destroy \/ Start \/ BadCall
  BY <1>1 DEF Create, Destroy, Start, BadCall
<1>2. CASE ParseCrs
  <2>1. pc = 6 /\ vol' = vol
    BY <1>2, PartPlace, ChainOrder DEF ParseCrs, TypeOK
  <2> QED BY <1>2, <2>1 DEF ParseCrs, Stops
<1>3. CASE Read \/ LoadWindow \/ QueueB2 \/ FillSlots \/ FillBlocks \/ Fill \/ CompleteB2
  <2>1. pc \in 1..17 /\ vol' = vol /\ (Goes \/ pc' = 0)
    BY <1>3, ChainStep
  <2>2. pc # 6
    BY <1>3, PartPlace, ChainOrder
       DEF Read, LoadWindow, QueueB2, FillSlots, FillBlocks, Fill, CompleteB2, TypeOK
  <2>3. pc' = 0 \/ pc' = pc + 1
    BY <2>1, GoesPlace
  <2> QED BY <2>1, <2>2, <2>3
<1>4. CASE UNCHANGED vars
  BY <1>4 DEF vars
<1> QED BY <1>1, <1>2, <1>3, <1>4 DEF Next

(* The window changes hands at the start of a run and when it is loaded.   *)
LEMMA OwnsStep == TypeOK /\ Owns /\ [Next]_vars => Owns'
<1> SUFFICES ASSUME TypeOK, Owns, [Next]_vars PROVE Owns'
  OBVIOUS
<1>1. CASE Create \/ Destroy \/ BadCall
  BY <1>1 DEF Create, Destroy, BadCall, Owns, Done
<1>2. CASE Start
  <2>1. run' >= 1
    BY <1>2 DEF Start, TypeOK
  <2> QED BY <1>2, <2>1 DEF Start, Drops, Owns, Done
<1>3. CASE LoadWindow
  <2>1. pc = 5 /\ run' = run /\ run >= 1 /\ live = {} /\ window = 0
    BY <1>3, PartPlace, ChainOrder DEF LoadWindow, TypeOK, Owns
  <2>2. CASE window' = run /\ live' = live \cup {run} /\ Goes
    <3>1. pc' = 6 /\ rc' = rc
      BY <2>1, <2>2, GoesPlace
    <3> QED BY <2>1, <2>2, <3>1 DEF Owns, Done
  <2>3. CASE UNCHANGED <<window, live>> /\ pc' = 0 /\ rc' # "OK"
    BY <2>1, <2>3 DEF Owns, Done
  <2> QED BY <1>3, <2>2, <2>3 DEF LoadWindow, Stops
<1>4. CASE Read \/ ParseCrs \/ QueueB2 \/ FillSlots \/ FillBlocks \/ Fill \/ CompleteB2
  <2>1. /\ pc \in 1..17 /\ run' = run
        /\ Goes \/ (pc' = 0 /\ rc' # "OK")
    BY <1>4, ChainStep
  <2>2. UNCHANGED <<window, live>>
    BY <1>4 DEF Read, ParseCrs, QueueB2, FillSlots, FillBlocks, Fill, CompleteB2
  <2>3. pc # 5
    <3>1. Part # "window"
      BY <1>4 DEF Read, Readers, ParseCrs, QueueB2, FillSlots, FillBlocks, Fill, CompleteB2
    <3>2. pc = 5 => Part = "window"
      BY <2>1, PartPlace, ChainOrder
    <3> QED BY <3>1, <3>2
  <2>4. CASE pc' = 0 /\ rc' # "OK"
    BY <2>1, <2>2, <2>4, <2>3 DEF Owns, Done
  <2>5. CASE Goes
    <3>1. (pc < 17 /\ pc' = pc + 1) \/ (pc = 17 /\ pc' = 0)
      BY <2>1, <2>5, GoesPlace
    <3> QED BY <2>1, <2>2, <2>3, <3>1 DEF Owns, Done
  <2> QED BY <2>1, <2>4, <2>5
<1>5. CASE UNCHANGED vars
  BY <1>5 DEF vars, Owns, Done
<1> QED BY <1>1, <1>2, <1>3, <1>4, <1>5 DEF Next

(* A part is stamped when the chain passes it, and no part loses the stamp *)
(* of the run.                                                             *)
LEMMA FilledStep == TypeOK /\ Filled /\ [Next]_vars => Filled'
<1> SUFFICES ASSUME TypeOK, Filled, [Next]_vars PROVE Filled'
  OBVIOUS
<1>1. CASE Create \/ Destroy \/ Start \/ BadCall
  BY <1>1 DEF Create, Destroy, Start, BadCall, Filled, Done
<1>2. CASE Read \/ LoadWindow \/ ParseCrs \/ QueueB2 \/ FillSlots \/ FillBlocks
             \/ Fill \/ CompleteB2
  <2>1. /\ pc \in 1..17 /\ run' = run
        /\ (Goes /\ Writes) \/ (pc' = 0 /\ rc' # "OK")
    BY <1>2, ChainStep
  <2>2. CASE pc' = 0 /\ rc' # "OK"
    BY <2>2 DEF Filled, Done
  <2>3. CASE Goes /\ Writes
    <3>1. \A k \in 1..17 : k <= pc => stamp'[Chain[k]] = run
      BY <2>1, <2>3, WritesStamp, PartsAreChain DEF Filled
    <3>2. CASE pc < 17
      BY <2>1, <2>3, <3>1, <3>2, GoesPlace DEF Filled, Done
    <3>3. CASE pc = 17
      <4>1. \A p \in Parts : stamp'[p] = run'
        BY <2>1, <3>1, <3>3, PartsAreChain
      <4> QED BY <2>1, <2>3, <3>3, <4>1, GoesPlace DEF Filled
    <3> QED BY <2>1, <3>2, <3>3
  <2> QED BY <2>1, <2>2, <2>3
<1>3. CASE UNCHANGED vars
  BY <1>3 DEF vars, Filled, Done
<1> QED BY <1>1, <1>2, <1>3 DEF Next
(* A part is never older than the deposit, and the records are the         *)
(* window's, once the parser has let them through.                         *)
Ordered == DepositLast /\ RecordsOfWindow

LEMMA OrderedStep ==
  TypeOK /\ Owns /\ Filled /\ Ordered /\ [Next]_vars => Ordered'
<1> SUFFICES ASSUME TypeOK, Owns, Filled, Ordered, [Next]_vars PROVE Ordered'
  OBVIOUS
<1>0. Parts # {} /\ "deposit" \in Parts /\ "crs" \in Parts
  BY ChainOrder, PartsAreChain
<1>1. CASE Create \/ Destroy
  BY <1>0, <1>1 DEF Create, Destroy, Ordered, DepositLast, RecordsOfWindow, Zeros
<1>2. CASE Start \/ BadCall
  <2>1. stamp' = stamp
    BY <1>2 DEF Start, BadCall
  <2>2. CASE Start
    BY <2>1, <2>2 DEF Start, Drops, Ordered, DepositLast, RecordsOfWindow
  <2>3. CASE BadCall
    BY <2>1, <2>3 DEF BadCall, Ordered, DepositLast, RecordsOfWindow
  <2> QED BY <1>2, <2>2, <2>3
<1>3. CASE Read \/ LoadWindow \/ ParseCrs \/ QueueB2 \/ FillSlots \/ FillBlocks
             \/ Fill \/ CompleteB2
  <2>1. /\ pc \in 1..17 /\ run' = run
        /\ (Goes /\ Writes) \/ (pc' = 0 /\ rc' # "OK")
        /\ LoadWindow \/ UNCHANGED <<window, live>>
    BY <1>3, ChainStep
  <2>2. Part = Chain[pc] /\ Part \in Parts
    BY <2>1, PartPlace, ChainOrder DEF TypeOK
  <2>3. Part = "deposit" <=> pc = 17
    BY <2>1, <2>2, PartPlace, ChainOrder DEF TypeOK
  <2>4. \/ stamp' = stamp
        \/ stamp' = [stamp EXCEPT ![Part] = run] /\ (pc < 17 \/ (Goes /\ Writes))
    <3>1. CASE Goes /\ Writes
      BY <3>1 DEF Writes
    <3>2. CASE Read
      <4>1. pc < 17
        BY <3>2, <2>1, PartPlace, ChainOrder DEF Read, TypeOK
      <4> QED BY <3>2, <4>1 DEF Read, Writes
    <3>3. CASE ~(Goes /\ Writes) /\ ~Read
      BY <1>3, <3>3 DEF LoadWindow, ParseCrs, QueueB2, FillSlots, FillBlocks,
                        Fill, CompleteB2
    <3> QED BY <3>1, <3>2, <3>3
  <2>5. \A p \in Parts : stamp[p] \in 0..run /\ stamp'[p] \in {stamp[p], run}
    BY <2>2, <2>4 DEF TypeOK
  <2>6. DepositLast'
    <3> SUFFICES ASSUME NEW p \in Parts PROVE stamp'["deposit"] <= stamp'[p]
      BY DEF DepositLast
    <3>1. stamp["deposit"] <= stamp[p] /\ stamp["deposit"] \in 0..run
      BY <1>0, <2>5 DEF Ordered, DepositLast
    <3>2. run \in Nat
      BY BootAssumption DEF TypeOK
    <3>3. CASE pc < 17
      <4>1. stamp'["deposit"] = stamp["deposit"]
        BY <1>0, <2>3, <2>4, <3>3 DEF TypeOK
      <4> QED BY <2>5, <3>1, <3>2, <4>1
    <3>4. CASE pc = 17
      <4>1. CASE stamp' = stamp
        BY <3>1, <4>1
      <4>2. CASE stamp' = [stamp EXCEPT !["deposit"] = run]
        <5>1. p # "deposit" => stamp[p] = run
          <6>1. \A k \in 1..16 : stamp[Chain[k]] = run
            BY <3>4 DEF Filled
          <6>2. PICK k \in 1..17 : p = Chain[k]
            BY PartsAreChain
          <6> QED BY <6>1, <6>2, ChainOrder
        <5>2. stamp'[p] = run /\ stamp'["deposit"] = run
          BY <1>0, <4>2, <5>1 DEF TypeOK
        <5> QED BY <3>2, <5>2
      <4> QED BY <2>3, <2>4, <3>4, <4>1, <4>2
    <3> QED BY <2>1, <3>3, <3>4
  <2>7. RecordsOfWindow'
    <3>1. CASE pc = 6
      <4>1. ParseCrs /\ window = run /\ window' = window
        <5>1. Part = "crs"
          BY <2>2, <3>1, ChainOrder
        <5>2. ParseCrs
          BY <1>3, <5>1 DEF Read, Readers, LoadWindow, QueueB2, FillSlots, FillBlocks,
                            Fill, CompleteB2
        <5> QED BY <3>1, <5>2 DEF ParseCrs, Owns
      <4>2. CASE Writes /\ Goes
        BY <1>0, <2>2, <3>1, <4>1, <4>2, ChainOrder DEF Writes, TypeOK, RecordsOfWindow
      <4>3. CASE pc' = 0 /\ rc' \in {"NOSPACE", "INVAL", "BAD_DATA", "TRUNCATED"}
        BY <4>3 DEF RecordsOfWindow
      <4> QED BY <4>1, <4>2, <4>3 DEF ParseCrs, Stops
    <3>2. CASE pc < 6
      <4>1. CASE pc' = 0 /\ rc' # "OK" /\ window' = 0
        BY <4>1 DEF RecordsOfWindow
      <4>2. CASE Goes
        BY <2>1, <3>2, <4>2, GoesPlace DEF RecordsOfWindow
      <4>3. CASE ~Goes
        <5>1. pc' = 0 /\ rc' # "OK" /\ window = 0
          BY <2>1, <3>2, <4>3 DEF Owns
        <5>2. window' = window
          BY <2>1, <4>3 DEF LoadWindow
        <5> QED BY <4>1, <5>1, <5>2
      <4> QED BY <4>2, <4>3
    <3>3. CASE pc > 6
      <4>1. window = run /\ stamp["crs"] = run
        BY <2>1, <3>3, ChainOrder DEF Owns, Filled
      <4>2. window' = window
        <5>1. ~LoadWindow
          BY <2>1, <3>3, PartPlace, ChainOrder DEF LoadWindow, TypeOK
        <5> QED BY <2>1, <5>1
      <4> QED BY <1>0, <2>5, <4>1, <4>2 DEF RecordsOfWindow
    <3> QED BY <2>1, <3>1, <3>2, <3>3
  <2> QED BY <2>6, <2>7 DEF Ordered
<1>4. CASE UNCHANGED vars
  BY <1>4 DEF vars, Ordered, DepositLast, RecordsOfWindow
<1> QED BY <1>1, <1>2, <1>3, <1>4 DEF Next

(* The slots in front of the blocks.                                       *)
LEMMA Cut ==
  ASSUME NEW n \in Nat, NEW S, 0..(n - 1) \subseteq S
  PROVE  {k \in 0..(n - 1) : k < 128} \subseteq {k \in S : SlotEnd(k) <= Blocks}
<1>1. ASSUME NEW k \in 0..(n - 1) PROVE SlotEnd(k) <= Blocks <=> k < 128
  BY <1>1 DEF SlotEnd, Blocks
<1> QED BY <1>1

(* The slots are laid out, then cut, and nothing clears them after that.   *)
LEMMA LaidStep == TypeOK /\ Laid /\ [Next]_vars => Laid'
<1> SUFFICES ASSUME TypeOK, Laid, [Next]_vars PROVE Laid'
  OBVIOUS
<1>1. CASE Create \/ Destroy \/ Start \/ BadCall
  BY <1>1 DEF Create, Destroy, Start, BadCall, Laid, Fitting, Done
<1>2. CASE FillSlots
  <2>1. pc = 10 /\ Goes
    BY <1>2, PartPlace, ChainOrder DEF FillSlots, TypeOK
  <2>2. pc' = 11
    BY <2>1, GoesPlace
  <2> QED BY <1>2, <2>2 DEF FillSlots, Laid, Done
<1>3. CASE FillBlocks
  <2>1. pc = 11 /\ Goes /\ vol' = vol
    BY <1>3, PartPlace, ChainOrder DEF FillBlocks, TypeOK
  <2>2. pc' = 12
    BY <2>1, GoesPlace
  <2>3. Fitting \subseteq slots'
    <3>1. vol.crs \in Nat
      BY BootAssumption DEF TypeOK
    <3>2. 0..(vol.crs - 1) \subseteq slots
      BY <2>1 DEF Laid
    <3>3. {k \in slots : SlotEnd(k) <= Blocks} \subseteq slots'
      BY <1>3 DEF FillBlocks
    <3> QED BY <3>1, <3>2, <3>3, Cut, Zenon DEF Fitting
  <2> QED BY <2>1, <2>2, <2>3 DEF Laid, Fitting, Done
<1>4. CASE Read \/ LoadWindow \/ ParseCrs \/ QueueB2 \/ Fill \/ CompleteB2
  <2>1. /\ pc \in 1..17 /\ vol' = vol
        /\ Goes \/ (pc' = 0 /\ rc' # "OK")
    BY <1>4, ChainStep
  <2>2. slots' = slots
    BY <1>4 DEF Read, LoadWindow, ParseCrs, QueueB2, Fill, CompleteB2
  <2>3. pc \notin {10, 11}
    <3>1. Part \notin {"slots", "blocks"}
      BY <1>4 DEF Read, Readers, LoadWindow, ParseCrs, QueueB2, Fill, CompleteB2
    <3>2. pc \in {10, 11} => Part \in {"slots", "blocks"}
      BY <2>1, PartPlace, ChainOrder
    <3> QED BY <3>1, <3>2
  <2>4. CASE pc' = 0 /\ rc' # "OK"
    BY <2>4 DEF Laid, Done
  <2>5. CASE Goes
    <3>1. (pc < 17 /\ pc' = pc + 1) \/ (pc = 17 /\ pc' = 0)
      BY <2>1, <2>5, GoesPlace
    <3> QED BY <2>1, <2>2, <2>3, <3>1 DEF Laid, Fitting, Done
  <2> QED BY <2>1, <2>4, <2>5
<1>5. CASE UNCHANGED vars
  BY <1>5 DEF vars, Laid, Fitting, Done
<1> QED BY <1>1, <1>2, <1>3, <1>4, <1>5 DEF Next

----------------------------------------------------------------------------
BootInv == TypeOK /\ Counted /\ Owns /\ Filled /\ Laid /\ Ordered

LEMMA BootInit == Init => BootInv
<1> SUFFICES ASSUME Init PROVE BootInv
  OBVIOUS
<1>1. TypeOK
  BY BootAssumption, ChainOrder, DepositEmpty DEF Init, TypeOK, Zeros
<1>2. Counted /\ Owns /\ Filled /\ Laid
  BY DEF Init, Counted, Owns, Filled, Laid, Done
<1>3. Ordered
  BY ChainOrder, PartsAreChain DEF Init, Ordered, DepositLast, RecordsOfWindow, Zeros
<1> QED BY <1>1, <1>2, <1>3 DEF BootInv

LEMMA BootStep == BootInv /\ [Next]_vars => BootInv'
  BY BootTypeStep, CountedStep, OwnsStep, FilledStep, LaidStep, OrderedStep DEF BootInv

LEMMA BootCorrect == Spec => []BootInv
  BY BootInit, BootStep, PTL DEF Spec

(* Each state of the chain is well typed, however many runs it has seen    *)
(* (task.c, gt2_task_boot_run).                                            *)
THEOREM BootTypeCorrect == Spec => []TypeOK
<1>1. BootInv => TypeOK
  BY DEF BootInv
<1> QED BY <1>1, BootCorrect, PTL

(* The window is freed once by each call that follows its load, wherever   *)
(* the runs between have failed (task.c:322).                              *)
THEOREM WindowKept == Spec => []WindowOwned
<1>1. BootInv => WindowOwned
  BY DEF BootInv, Owns, WindowOwned
<1> QED BY <1>1, BootCorrect, PTL

(* The deposit is never younger than another part of the boot state, and   *)
(* the records are the window's, over whatever volumes and wherever the    *)
(* runs before have failed (task.c:322, task.h:110).                       *)
THEOREM DepositLands == Spec => []PartsInOrder
<1>1. BootInv => PartsInOrder
  BY DEF BootInv, Ordered, PartsInOrder
<1> QED BY <1>1, BootCorrect, PTL

(* Whatever the count of records and whatever runs were before, each slot  *)
(* of a record that lies in front of the blocks is there after a good run  *)
(* (task.c:370).                                                           *)
THEOREM SlotsCut == Spec => []SlotsWhole
<1>1. BootInv => SlotsWhole
  BY DEF BootInv, Laid, Fitting, SlotsWhole
<1> QED BY <1>1, BootCorrect, PTL

-----------------------------------------------------------------------------
(* The whole: handles, members and the boot states in it.                  *)
Ats   == {"shut", "open", "cd", "volcd", "vol", "tbl", "names", "slots", "ovl", "header"}
Steps == {"idle", "read", "buffer", "init", "inflate", "next"}
Codes == {"none", "OK", "NO_MEM", "IO", "BAD_IMAGE"}

(* What the handle holds is known from the place in the open ...           *)
LiveAt(a) ==
  CASE a = "shut"  -> {}
    [] a = "cd"    -> {"boot"}
    [] a = "volcd" -> {"boot", "cd"}
    [] a = "vol"   -> {"boot", "cd", "volcd"}
    [] a = "tbl"   -> {"boot", "cd", "volcd", "vol"}
    [] a = "names" -> {"boot", "cd", "volcd", "vol", "tbl"}
    [] a = "slots" -> {"boot", "cd", "volcd", "vol", "tbl", "names"}
    [] a = "ovl"   -> {"boot", "cd", "volcd", "vol", "tbl", "names", "slots"}
    [] OTHER       -> {"boot", "cd", "volcd", "vol", "tbl", "names", "slots", "ovl"}

(* ... and so are the pointers that the close functions follow.            *)
PtrAt(a) ==
  CASE a \in {"shut", "cd"}      -> {}
    [] a \in {"volcd", "vol"}    -> {"cd"}
    [] a = "tbl"                 -> {"cd", "volcd"}
    [] a = "names"               -> {"cd", "volcd", "tbl"}
    [] a = "slots"               -> {"cd", "volcd", "tbl", "names"}
    [] a \in {"ovl", "header"}   -> {"cd", "volcd", "tbl", "names", "slots", "vol"}
    [] OTHER                     -> {"cd", "volcd", "tbl", "names", "slots", "vol", "ovl"}

(* What a call holds is known from its step.                               *)
CallAt(c, s, u) ==
  CASE s = "idle"                -> IF u = "OK" THEN {"plain"} ELSE {}
    [] s \in {"read", "buffer"}  -> {"packed"}
    [] s = "next"                -> {"plain"}
    [] s = "init"                -> IF c = "ovl" THEN {"packed", "plain"} ELSE {"plain"}
    [] OTHER -> IF c = "ovl" THEN {"packed", "plain", "stream"} ELSE {"plain", "stream"}

Holding(S) == [q \in Objects |-> Once(q \in S)]

(* A call is made on an open handle, and its result is taken before the    *)
(* next.                                                                   *)
Places ==
  /\ at \in Ats /\ brc \in Codes /\ step \in Steps /\ call \in {"ovl", "join"}
  /\ step # "idle" => at = "open" /\ urc = "none"
  /\ urc # "none" => at = "open"
  /\ step \in {"read", "buffer"} => call = "ovl"
  /\ step = "next" => call = "join"

Kept == /\ Places
        /\ held = Holding(LiveAt(at) \cup CallAt(call, step, urc))
        /\ ptr = PtrAt(at)
----------------------------------------------------------------------------
LEMMA TakesOne ==
  ASSUME NEW S, NEW r \in Objects, r \notin S, held = Holding(S), held' = Takes(r)
  PROVE  held' = Holding(S \cup {r})
  BY DEF Holding, Takes, Once

LEMMA FreesTwo ==
  ASSUME NEW S, NEW I, NEW O, I \cap O = {}, I \cup O \subseteq S,
         held = Holding(S), held' = Frees(I, O)
  PROVE  held' = Holding(S \ (I \cup O))
<1>1. ASSUME NEW q \in Objects
      PROVE  held[q] - Once(q \in I) - Once(q \in O) = Once(q \in S \ (I \cup O))
  <2>1. held[q] = Once(q \in S)
    BY DEF Holding
  <2>2. CASE q \in I
    BY <2>1, <2>2 DEF Once
  <2>3. CASE q \in O
    BY <2>1, <2>3 DEF Once
  <2>4. CASE q \notin I /\ q \notin O
    BY <2>1, <2>4 DEF Once
  <2> QED BY <2>2, <2>3, <2>4
<1> QED BY <1>1 DEF Holding, Frees

LEMMA KeptInit == SystemInit => Kept
  BY DEF SystemInit, HandleInit, UnpackInit, Kept, Places, Holding, LiveAt, CallAt,
         PtrAt, Once, Ats, Codes, Steps

(* The parts of the open: one that has its object, one that fails and      *)
(* frees what there is.                                                    *)
LEMMA GetsKeeps ==
  ASSUME Kept, step = "idle", urc = "none", UNCHANGED <<call, step, urc>>,
         NEW here, NEW r \in Handles, NEW set, NEW next \in Ats,
         Gets(here, r, set, next), r \notin LiveAt(here),
         LiveAt(next) = LiveAt(here) \cup {r}, PtrAt(next) = PtrAt(here) \cup set
  PROVE  Kept'
<1>1. CallAt(call, step, urc) = {} /\ CallAt(call, step, urc)' = {}
  BY DEF CallAt
<1>2. at = here /\ at' = next /\ held' = Takes(r) /\ ptr' = ptr \cup set /\ brc' = brc
  BY DEF Gets
<1>3. held = Holding(LiveAt(here))
  BY <1>1, <1>2 DEF Kept
<1>4. held' = Holding(LiveAt(here) \cup {r})
  BY <1>3, <1>2, TakesOne DEF Objects
<1>5. Places'
  BY <1>2 DEF Kept, Places
<1> QED BY <1>1, <1>2, <1>4, <1>5 DEF Kept

LEMMA FailKeeps ==
  ASSUME Kept, step = "idle", urc = "none", UNCHANGED <<call, step, urc>>,
         NEW here, NEW I, NEW O, NEW e \in Codes,
         Fail(here, I, O, e), I \cap O = {}, I \cup O = LiveAt(here)
  PROVE  Kept'
<1>1. CallAt(call, step, urc) = {} /\ CallAt(call, step, urc)' = {}
  BY DEF CallAt
<1>2. at = here /\ at' = "shut" /\ held' = Frees(I, O) /\ ptr' = {} /\ brc' = e
  BY DEF Fail
<1>3. held = Holding(LiveAt(here))
  BY <1>1, <1>2 DEF Kept
<1>4. held' = Holding({})
  <2>1. LiveAt(here) \ (I \cup O) = {}
    OBVIOUS
  <2> QED BY <1>2, <1>3, <2>1, FreesTwo
<1>5. Places'
  BY <1>2 DEF Kept, Places, Ats
<1>6. LiveAt("shut") = {} /\ PtrAt("shut") = {}
  BY DEF LiveAt, PtrAt
<1> QED BY <1>1, <1>2, <1>4, <1>5, <1>6 DEF Kept

(* What the close functions free, from where they are called.              *)
LEMMA CloseFrees ==
  ASSUME ptr = PtrAt(at), at \in Ats
  PROVE  /\ at \in {"volcd", "vol", "tbl", "names", "slots"} => CloseBoot = {"boot", "cd"}
         /\ at = "tbl"   => CloseVol = {"vol", "volcd"}
         /\ at = "names" => CloseVol = {"vol", "volcd", "tbl"}
         /\ at = "slots" => CloseVol = {"vol", "volcd", "tbl", "names"}
         /\ at \in {"ovl", "header"} => CloseBoot = LiveAt("ovl")
         /\ at = "open" => CloseBoot = LiveAt("open")
<1>1. CASE at \in {"volcd", "vol"}
  BY <1>1 DEF PtrAt, CloseBoot
<1>2. CASE at = "tbl"
  BY <1>2 DEF PtrAt, CloseBoot, CloseVol
<1>3. CASE at = "names"
  BY <1>3 DEF PtrAt, CloseBoot, CloseVol
<1>4. CASE at = "slots"
  BY <1>4 DEF PtrAt, CloseBoot, CloseVol
<1>5. CASE at \in {"ovl", "header"}
  BY <1>5 DEF PtrAt, CloseBoot, CloseVol, LiveAt
<1>6. CASE at = "open"
  BY <1>6 DEF PtrAt, CloseBoot, CloseVol, LiveAt
<1>7. CASE at \in {"shut", "cd"}
  BY <1>7
<1> QED BY <1>1, <1>2, <1>3, <1>4, <1>5, <1>6, <1>7 DEF Ats

(* One part of the open after the other: what is there grows by one.       *)
Grows(here, r, set, next) ==
  /\ r \in Handles /\ next \in Ats /\ r \notin LiveAt(here)
  /\ LiveAt(next) = LiveAt(here) \cup {r} /\ PtrAt(next) = PtrAt(here) \cup set

LEMMA AllGrow ==
  /\ Grows("shut", "boot", {}, "cd")
  /\ Grows("cd", "cd", {"cd"}, "volcd")
  /\ Grows("volcd", "volcd", {}, "vol")
  /\ Grows("vol", "vol", {"volcd"}, "tbl")
  /\ Grows("tbl", "tbl", {"tbl"}, "names")
  /\ Grows("names", "names", {"names"}, "slots")
  /\ Grows("slots", "slots", {"slots", "vol"}, "ovl")
  /\ Grows("ovl", "ovl", {}, "header")
<1>1. Grows("shut", "boot", {}, "cd")
  BY DEF Grows, LiveAt, PtrAt, Ats, Handles
<1>2. Grows("cd", "cd", {"cd"}, "volcd")
  BY DEF Grows, LiveAt, PtrAt, Ats, Handles
<1>3. Grows("volcd", "volcd", {}, "vol")
  BY DEF Grows, LiveAt, PtrAt, Ats, Handles
<1>4. Grows("vol", "vol", {"volcd"}, "tbl")
  BY DEF Grows, LiveAt, PtrAt, Ats, Handles
<1>5. Grows("tbl", "tbl", {"tbl"}, "names")
  BY DEF Grows, LiveAt, PtrAt, Ats, Handles
<1>6. Grows("names", "names", {"names"}, "slots")
  BY DEF Grows, LiveAt, PtrAt, Ats, Handles
<1>7. Grows("slots", "slots", {"slots", "vol"}, "ovl")
  BY DEF Grows, LiveAt, PtrAt, Ats, Handles
<1>8. Grows("ovl", "ovl", {}, "header")
  BY DEF Grows, LiveAt, PtrAt, Ats, Handles
<1> QED BY <1>1, <1>2, <1>3, <1>4, <1>5, <1>6, <1>7, <1>8

LEMMA HandleKeeps ==
  ASSUME Kept, step = "idle", urc = "none", UNCHANGED <<call, step, urc>>, HandleNext
  PROVE  Kept'
<1>f. ptr = PtrAt(at) /\ at \in Ats
  BY DEF Kept, Places
<1>g. ASSUME NEW here, NEW r, NEW set, NEW next,
             Grows(here, r, set, next), Gets(here, r, set, next)
      PROVE  Kept'
  BY <1>g, GetsKeeps DEF Grows
<1>1. CASE OpenBoot
  <2>1. CASE Gets("shut", "boot", {}, "cd")
    BY <2>1, <1>g, AllGrow
  <2>2. CASE Fail("shut", {}, {}, "NO_MEM")
    <3>3. {} \cap {} = {} /\ {} \cup {} = LiveAt("shut")
      BY DEF LiveAt
    <3> QED BY <2>2, <3>3, FailKeeps DEF Codes
  <2> QED BY <1>1, <2>1, <2>2 DEF OpenBoot
<1>2. CASE OpenCd
  <2>1. CASE Gets("cd", "cd", {"cd"}, "volcd")
    BY <2>1, <1>g, AllGrow
  <2>2. CASE Fail("cd", {}, {"boot"}, "IO")
    <3>3. {} \cap {"boot"} = {} /\ {} \cup {"boot"} = LiveAt("cd")
      BY DEF LiveAt
    <3> QED BY <2>2, <3>3, FailKeeps DEF Codes
  <2> QED BY <1>2, <2>1, <2>2 DEF OpenCd
<1>3. CASE OpenVolCd
  <2>1. CASE Gets("volcd", "volcd", {}, "vol")
    BY <2>1, <1>g, AllGrow
  <2>2. CASE Fail("volcd", {}, CloseBoot, "BAD_IMAGE")
    <3>1. at = "volcd"
      BY <2>2 DEF Fail
    <3>2. CloseBoot = {"boot", "cd"}
      BY <3>1, <1>f, CloseFrees
    <3>3. {} \cap CloseBoot = {} /\ {} \cup CloseBoot = LiveAt("volcd")
      BY <3>2 DEF LiveAt
    <3> QED BY <2>2, <3>3, FailKeeps DEF Codes
  <2> QED BY <1>3, <2>1, <2>2 DEF OpenVolCd
<1>4. CASE OpenVol
  <2>1. CASE Gets("vol", "vol", {"volcd"}, "tbl")
    BY <2>1, <1>g, AllGrow
  <2>2. CASE Fail("vol", {"volcd"}, CloseBoot, "BAD_IMAGE")
    <3>1. at = "vol"
      BY <2>2 DEF Fail
    <3>2. CloseBoot = {"boot", "cd"}
      BY <3>1, <1>f, CloseFrees
    <3>3. {"volcd"} \cap CloseBoot = {} /\ {"volcd"} \cup CloseBoot = LiveAt("vol")
      BY <3>2 DEF LiveAt
    <3> QED BY <2>2, <3>3, FailKeeps DEF Codes
  <2> QED BY <1>4, <2>1, <2>2 DEF OpenVol
<1>5. CASE ReadTable
  <2>1. CASE Gets("tbl", "tbl", {"tbl"}, "names")
    BY <2>1, <1>g, AllGrow
  <2>2. CASE Fail("tbl", CloseVol, CloseBoot, "BAD_IMAGE")
    <3>1. at = "tbl"
      BY <2>2 DEF Fail
    <3>2. CloseBoot = {"boot", "cd"} /\ CloseVol = {"vol", "volcd"}
      BY <3>1, <1>f, CloseFrees
    <3>3. CloseVol \cap CloseBoot = {} /\ CloseVol \cup CloseBoot = LiveAt("tbl")
      BY <3>2 DEF LiveAt
    <3> QED BY <2>2, <3>3, FailKeeps DEF Codes
  <2> QED BY <1>5, <2>1, <2>2 DEF ReadTable, FailTables
<1>6. CASE ReadNames
  <2>1. CASE Gets("names", "names", {"names"}, "slots")
    BY <2>1, <1>g, AllGrow
  <2>2. CASE Fail("names", CloseVol, CloseBoot, "BAD_IMAGE")
    <3>1. at = "names"
      BY <2>2 DEF Fail
    <3>2. CloseBoot = {"boot", "cd"} /\ CloseVol = {"vol", "volcd", "tbl"}
      BY <3>1, <1>f, CloseFrees
    <3>3. CloseVol \cap CloseBoot = {} /\ CloseVol \cup CloseBoot = LiveAt("names")
      BY <3>2 DEF LiveAt
    <3> QED BY <2>2, <3>3, FailKeeps DEF Codes
  <2> QED BY <1>6, <2>1, <2>2 DEF ReadNames, FailTables
<1>7. CASE ReadSlots
  <2>1. CASE Gets("slots", "slots", {"slots", "vol"}, "ovl")
    BY <2>1, <1>g, AllGrow
  <2>2. CASE Fail("slots", CloseVol, CloseBoot, "BAD_IMAGE")
    <3>1. at = "slots"
      BY <2>2 DEF Fail
    <3>2. CloseBoot = {"boot", "cd"} /\ CloseVol = {"vol", "volcd", "tbl", "names"}
      BY <3>1, <1>f, CloseFrees
    <3>3. CloseVol \cap CloseBoot = {} /\ CloseVol \cup CloseBoot = LiveAt("slots")
      BY <3>2 DEF LiveAt
    <3> QED BY <2>2, <3>3, FailKeeps DEF Codes
  <2> QED BY <1>7, <2>1, <2>2 DEF ReadSlots, FailTables
<1>8. CASE OpenOvl
  <2>1. CASE Gets("ovl", "ovl", {}, "header")
    BY <2>1, <1>g, AllGrow
  <2>2. CASE Fail("ovl", {}, CloseBoot, "BAD_IMAGE")
    <3>1. at = "ovl"
      BY <2>2 DEF Fail
    <3>2. CloseBoot = LiveAt("ovl")
      BY <3>1, <1>f, CloseFrees
    <3>3. {} \cap CloseBoot = {} /\ {} \cup CloseBoot = LiveAt("ovl")
      BY <3>2 DEF LiveAt
    <3> QED BY <2>2, <3>3, FailKeeps DEF Codes
  <2> QED BY <1>8, <2>1, <2>2 DEF OpenOvl
<1>9. CASE ReadHeader
  <2>1. at = "header"
    BY <1>9 DEF ReadHeader, Fail
  <2>2. CASE at' = "open" /\ ptr' = ptr \cup {"ovl"} /\ held' = held /\ brc' = "OK"
    <3>1. LiveAt(at') = LiveAt(at) /\ PtrAt(at') = ptr'
      BY <2>1, <2>2, <1>f DEF LiveAt, PtrAt
    <3>2. CallAt(call, step, urc)' = CallAt(call, step, urc)
      OBVIOUS
    <3> QED BY <2>2, <3>1, <3>2 DEF Kept, Places, Ats, Codes
  <2>3. CASE Fail("header", {"ovl"}, CloseBoot, "BAD_IMAGE")
    <3>1. CloseBoot = LiveAt("ovl")
      BY <2>1, <1>f, CloseFrees
    <3> QED BY <2>3, <3>1, FailKeeps DEF LiveAt, Codes
  <2> QED BY <1>9, <2>2, <2>3 DEF ReadHeader
<1>10. CASE Close
  <2>1. /\ at = "open" /\ at' = "shut" /\ brc' = brc
        /\ held' = Frees({}, CloseBoot) /\ ptr' = {}
    BY <1>10 DEF Close
  <2>2. CloseBoot = LiveAt("open")
    BY <2>1, <1>f, CloseFrees
  <2>3. CallAt(call, step, urc) = {} /\ CallAt(call, step, urc)' = {}
    BY DEF CallAt
  <2>4. held = Holding(LiveAt("open"))
    BY <2>1, <2>3 DEF Kept
  <2>5. held' = Holding({})
    <3>1. LiveAt("open") \ ({} \cup CloseBoot) = {}
      BY <2>2
    <3> QED BY <2>1, <2>2, <2>4, <3>1, FreesTwo
  <2>6. LiveAt("shut") = {} /\ PtrAt("shut") = {}
    BY DEF LiveAt, PtrAt
  <2> QED BY <2>1, <2>3, <2>5, <2>6 DEF Kept, Places, Ats
<1> QED BY <1>1, <1>2, <1>3, <1>4, <1>5, <1>6, <1>7, <1>8, <1>9, <1>10 DEF HandleNext

-----------------------------------------------------------------------------
(* A call takes and frees objects of its own.                              *)
Mine     == CallAt(call, step, urc)
MineNext == CallAt(call', step', urc')

LEMMA CallTakes ==
  ASSUME Kept, UNCHANGED <<at, ptr>>, NEW r \in Calls, held' = Takes(r),
         r \notin Mine, MineNext = Mine \cup {r}, Places'
  PROVE  Kept'
<1>1. r \notin LiveAt(at)
  BY DEF LiveAt, Calls
<1>2. held' = Holding((LiveAt(at) \cup Mine) \cup {r})
  BY <1>1, TakesOne DEF Kept, Objects, Mine
<1>3. (LiveAt(at) \cup Mine) \cup {r} = LiveAt(at) \cup MineNext
  OBVIOUS
<1> QED BY <1>2, <1>3 DEF Kept, MineNext

LEMMA CallFrees ==
  ASSUME Kept, UNCHANGED <<at, ptr>>, NEW I, held' = Frees(I, {}),
         I \subseteq Mine, MineNext = Mine \ I, Places'
  PROVE  Kept'
<1>1. Mine \subseteq Calls
  BY DEF Mine, CallAt, Calls
<1>2. LiveAt(at) \cap Calls = {}
  BY DEF LiveAt, Calls
<1>3. held' = Holding((LiveAt(at) \cup Mine) \ (I \cup {}))
  BY FreesTwo DEF Kept, Mine
<1>4. (LiveAt(at) \cup Mine) \ (I \cup {}) = LiveAt(at) \cup MineNext
  BY <1>1, <1>2
<1> QED BY <1>3, <1>4 DEF Kept, MineNext

LEMMA CallSame ==
  ASSUME Kept, UNCHANGED <<at, ptr, held>>, MineNext = Mine, Places'
  PROVE  Kept'
  BY DEF Kept, Mine, MineNext

(* It goes on, or is over.                                                 *)
LEMMA OnPlaces ==
  ASSUME Places, step # "idle", NEW next \in Steps, GoesOn(next),
         next \in {"read", "buffer"} => call = "ovl",
         next = "next" => call = "join"
  PROVE  Places' /\ MineNext = CallAt(call, next, urc) /\ UNCHANGED <<at, ptr>>
  BY DEF Places, GoesOn, MineNext

LEMMA ReturnsKeep ==
  ASSUME Kept, step # "idle", NEW e, NEW I, NEW short, Returns(e, I, short),
         e # "none", I \subseteq Mine,
         Mine \ I = IF e = "OK" THEN {"plain"} ELSE {}
  PROVE  Kept'
<1>1. Places'
  BY DEF Kept, Places, Returns, Steps
<1>2. MineNext = Mine \ I
  BY DEF MineNext, CallAt, Returns
<1> QED BY <1>1, <1>2, CallFrees DEF Returns

LEMMA JoinEndsKeep ==
  ASSUME Kept, step \in {"next", "init"}, call = "join", NEW bad, NEW short,
         bad # "none", JoinEnds(bad, short)
  PROVE  Kept'
<1>1. Mine = {"plain"}
  BY DEF Mine, CallAt
<1>2. CASE \E e : e \notin {"none", "OK"} /\ Returns(e, {"plain"}, short)
  BY <1>1, <1>2, ReturnsKeep
<1>3. CASE Returns("OK", {}, short)
  BY <1>1, <1>3, ReturnsKeep
<1> QED BY <1>2, <1>3 DEF JoinEnds, Fails

LEMMA BeginsKeeps ==
  ASSUME Kept, NEW a, NEW k, NEW c, NEW r, NEW next, Begins(c, a, k, r, next),
         \/ c = "ovl" /\ r = "packed" /\ next = "read"
         \/ c = "join" /\ r = "plain" /\ next = "next"
  PROVE  Kept'
<1>1. Mine = {} /\ UNCHANGED <<at, ptr>>
  BY DEF Mine, CallAt, Begins
<1>2. Places'
  BY DEF Kept, Places, Begins, Steps
<1>3. CASE held' = Takes(r) /\ step' = next /\ urc' = "none"
  <2>1. MineNext = {r}
    BY <1>3 DEF MineNext, CallAt, Begins
  <2>2. r \in Calls
    BY DEF Calls
  <2> QED BY <1>1, <1>2, <1>3, <2>1, <2>2, CallTakes
<1>4. CASE UNCHANGED held /\ step' = "idle" /\ urc' = "NO_MEM"
  <2>1. MineNext = {}
    BY <1>4 DEF MineNext, CallAt
  <2> QED BY <1>1, <1>2, <1>4, <2>1, CallSame
<1> QED BY <1>3, <1>4 DEF Begins

LEMMA UnpackKeeps ==
  ASSUME Kept, UnpackNext
  PROVE  Kept'
<1>p. Places
  BY DEF Kept
<1>1. CASE LoadOverlay
  BY <1>1, BeginsKeeps DEF LoadOverlay
<1>2. CASE Join
  BY <1>2, BeginsKeeps DEF Join
<1>3. CASE ReadPacked
  <2>1. Mine = {"packed"} /\ call = "ovl"
    BY <1>3, <1>p DEF ReadPacked, Mine, CallAt, Places
  <2>2. CASE GoesOn("buffer") /\ UNCHANGED held
    <3>1. Places' /\ MineNext = CallAt(call, "buffer", urc) /\ UNCHANGED <<at, ptr>>
      BY <2>1, <2>2, <1>3, <1>p, OnPlaces DEF ReadPacked, Steps
    <3>2. MineNext = {"packed"}
      BY <3>1 DEF CallAt
    <3> QED BY <2>1, <2>2, <3>1, <3>2, CallSame
  <2>3. CASE Returns("IO", {"packed"}, FALSE)
    BY <1>3, <2>1, <2>3, ReturnsKeep DEF ReadPacked
  <2> QED BY <1>3, <2>2, <2>3 DEF ReadPacked, Fails
<1>4. CASE TakeBuffer
  <2>1. Mine = {"packed"} /\ call = "ovl" /\ step = "buffer"
    BY <1>4, <1>p DEF TakeBuffer, Mine, CallAt, Places
  <2>2. CASE GoesOn("init") /\ held' = Takes("plain")
    <3>1. Places' /\ MineNext = CallAt(call, "init", urc) /\ UNCHANGED <<at, ptr>>
      BY <2>1, <2>2, <1>p, OnPlaces DEF Steps
    <3>2. MineNext = {"packed", "plain"}
      BY <2>1, <3>1 DEF CallAt
    <3>3. "plain" \in Calls /\ "plain" \notin Mine /\ MineNext = Mine \cup {"plain"}
      BY <2>1, <3>2 DEF Calls
    <3> QED BY <2>2, <3>1, <3>3, CallTakes
  <2>3. CASE Returns("NO_MEM", {"packed"}, TRUE)
    BY <2>1, <2>3, ReturnsKeep
  <2> QED BY <1>4, <2>2, <2>3 DEF TakeBuffer, Fails
<1>5. CASE NextMember
  <2>1. Mine = {"plain"} /\ call = "join" /\ step = "next"
    BY <1>5, <1>p DEF NextMember, Mine, CallAt, Places
  <2>2. CASE \E bad \in {"OK", "TRUNCATED"} : JoinEnds(bad, FALSE)
    BY <2>1, <2>2, JoinEndsKeep
  <2>3. CASE GoesOn("init") /\ UNCHANGED held
    <3>1. Places' /\ MineNext = CallAt(call, "init", urc) /\ UNCHANGED <<at, ptr>>
      BY <2>1, <2>3, <1>p, OnPlaces DEF Steps
    <3>2. MineNext = {"plain"}
      BY <2>1, <3>1 DEF CallAt
    <3> QED BY <2>1, <2>3, <3>1, <3>2, CallSame
  <2> QED BY <1>5, <2>2, <2>3 DEF NextMember
<1>6. CASE Init2
  <2>1. step = "init" /\ Mine = IF call = "ovl" THEN {"packed", "plain"} ELSE {"plain"}
    BY <1>6 DEF Init2, Mine, CallAt
  <2>2. CASE GoesOn("inflate") /\ held' = Takes("stream")
    <3>1. Places' /\ MineNext = CallAt(call, "inflate", urc) /\ UNCHANGED <<at, ptr>>
      BY <2>1, <2>2, <1>p, OnPlaces DEF Steps
    <3>2. MineNext = IF call = "ovl" THEN {"packed", "plain", "stream"} ELSE {"plain", "stream"}
      BY <3>1 DEF CallAt
    <3>3. "stream" \in Calls /\ "stream" \notin Mine /\ MineNext = Mine \cup {"stream"}
      BY <2>1, <3>2 DEF Calls
    <3> QED BY <2>2, <3>1, <3>3, CallTakes
  <2>3. CASE call = "ovl" /\ Returns("NO_MEM", {"packed", "plain"}, TRUE)
    BY <2>1, <2>3, ReturnsKeep
  <2>4. CASE call = "join" /\ JoinEnds("NO_MEM", TRUE)
    BY <2>1, <2>4, JoinEndsKeep
  <2> QED BY <1>6, <2>2, <2>3, <2>4 DEF Init2, Fails
<1>7. CASE Inflate
  <2> DEFINE all == {"stream", "plain"} \cup IF call = "ovl" THEN {"packed"} ELSE {}
  <2>1. step = "inflate" /\ Mine = all /\ call \in {"ovl", "join"}
    BY <1>7, <1>p DEF Inflate, Mine, CallAt, Places
  <2>2. CASE \E e, short : e \notin {"none", "OK"} /\ Returns(e, all, short)
    BY <2>1, <2>2, ReturnsKeep
  <2>3. CASE GoesOn("inflate") /\ UNCHANGED held
    <3>1. Places' /\ MineNext = CallAt(call, "inflate", urc) /\ UNCHANGED <<at, ptr>>
      BY <2>1, <2>3, <1>p, OnPlaces DEF Steps
    <3>2. MineNext = Mine
      BY <2>1, <3>1 DEF CallAt, Mine
    <3> QED BY <2>3, <3>1, <3>2, CallSame
  <2>4. CASE call = "ovl" /\ Returns("OK", {"stream", "packed"}, FALSE)
    <3>1. Mine \ {"stream", "packed"} = {"plain"}
      BY <2>1, <2>4
    <3> QED BY <2>1, <2>4, <3>1, ReturnsKeep
  <2>5. CASE call = "join" /\ GoesOn("next") /\ held' = Frees({"stream"}, {})
    <3>1. Places' /\ MineNext = CallAt(call, "next", urc) /\ UNCHANGED <<at, ptr>>
      BY <2>1, <2>5, <1>p, OnPlaces DEF Steps
    <3>2. MineNext = {"plain"} /\ Mine = {"stream", "plain"}
      BY <2>1, <2>5, <3>1 DEF CallAt
    <3> QED BY <2>5, <3>1, <3>2, CallFrees
  <2>6. CASE CannotGrow
    BY <2>6, <2>2 DEF CannotGrow, Fails
  <2>7. CASE \E o : InflateOn(o)
    BY <2>7, <2>3 DEF InflateOn
  <2>8. CASE \E o : EndOvl(o)
    BY <2>8, <2>4 DEF EndOvl
  <2>9. CASE \E o : EndJoin(o)
    BY <2>9, <2>5 DEF EndJoin
  <2>10. CASE \E o : Broken(o)
    BY <2>10, <2>2 DEF Broken, Fails
  <2> HIDE DEF all
  <2> QED BY <1>7, <2>6, <2>7, <2>8, <2>9, <2>10 DEF Inflate
<1>8. CASE Leave
  <2>1. Mine = IF urc = "OK" THEN {"plain"} ELSE {}
    BY <1>8 DEF Leave, Mine, CallAt
  <2>2. MineNext = {} /\ UNCHANGED <<at, ptr>>
    BY <1>8 DEF Leave, MineNext, CallAt
  <2>3. Places'
    BY <1>8, <1>p DEF Leave, Places
  <2>4. held' = Frees(Mine, {})
    BY <1>8, <2>1 DEF Leave
  <2> QED BY <2>2, <2>3, <2>4, CallFrees
<1> QED BY <1>1, <1>2, <1>3, <1>4, <1>5, <1>6, <1>7, <1>8 DEF UnpackNext

-----------------------------------------------------------------------------
LEMMA KeptStep == Kept /\ [SystemNext]_systemVars => Kept'
<1> SUFFICES ASSUME Kept, [SystemNext]_systemVars PROVE Kept'
  OBVIOUS
<1>1. CASE UNCHANGED <<handleVars, unpackVars>>
  BY <1>1, CallSame DEF handleVars, unpackVars, Kept, Places, Mine, MineNext
<1>2. CASE Boots
  BY <1>2, <1>1 DEF Boots
<1>3. CASE Opens
  BY <1>3, HandleKeeps DEF Opens, unpackVars
<1>4. CASE Unpacks
  BY <1>4, UnpackKeeps DEF Unpacks
<1>5. CASE UNCHANGED systemVars
  BY <1>5, <1>1 DEF systemVars
<1> QED BY <1>2, <1>3, <1>4, <1>5 DEF SystemNext

-----------------------------------------------------------------------------
(* What the header's check, the read of the packed bytes and the disc's    *)
(* end say of the member that is read.                                     *)
Taken ==
  /\ ovl \in Containers /\ mem \in DOMAIN ovl.off
  /\ at = "open" => HeadTaken(ovl)
  /\ call = "ovl" /\ step \in {"buffer", "init", "inflate"} =>
       ((OvlBase + ovl.off[mem]) % Word) + ovl.comp[mem] <= DiscEnd

LEMMA ModSmall ==
  ASSUME NEW w \in Nat \ {0}, NEW x \in Nat, x < w
  PROVE  x % w = x
  OBVIOUS

(* A sum that wraps in the check lies behind the disc's end in the read.   *)
LEMMA TakenApart == Kept /\ Taken => MembersApart
<1> SUFFICES ASSUME Kept, Taken, call = "ovl", step \in {"buffer", "init", "inflate"}
             PROVE  ovl.off[mem] + ovl.comp[mem] <= OffAfter(ovl, mem)
  BY DEF MembersApart
<1> DEFINE o == ovl.off[mem]
           c == ovl.comp[mem]
           n == OffAfter(ovl, mem)
<1>1. HeadTaken(ovl) /\ ovl \in Containers /\ mem \in DOMAIN ovl.off
  BY DEF Kept, Places, Taken
<1>2. /\ Word \in Nat \ {0} /\ OvlBase \in Nat /\ DiscEnd \in Nat /\ DiscEnd < Word
      /\ ovl.size \in Nat /\ OvlBase + ovl.size <= DiscEnd
      /\ ovl.off \in Seq(0 .. Word - 1) /\ ovl.comp \in Seq(0 .. Word - 1)
      /\ Len(ovl.comp) = Len(ovl.off)
  BY <1>1, HandleAssumption
<1>3. o \in 0 .. Word - 1 /\ c \in 0 .. Word - 1 /\ mem \in 1 .. Len(ovl.off)
  <2>1. DOMAIN ovl.off = 1 .. Len(ovl.off)
    BY <1>2
  <2>2. mem \in 1 .. Len(ovl.off) /\ mem \in 1 .. Len(ovl.comp)
    BY <1>1, <1>2, <2>1
  <2>3. o \in 0 .. Word - 1
    BY <1>2, <2>2
  <2>4. c \in 0 .. Word - 1
    BY <1>2, <2>2
  <2> QED BY <2>2, <2>3, <2>4
<1>4. ((o + c) % Word) <= n /\ n <= ovl.size
  BY <1>1 DEF HeadTaken
<1>5. o <= ovl.size
  <2>1. CASE mem = 1
    BY <1>1, <1>2, <2>1 DEF HeadTaken
  <2>2. CASE mem # 1
    <3>1. mem - 1 \in DOMAIN ovl.off /\ mem - 1 < Len(ovl.off)
      BY <1>2, <1>3, <2>2
    <3>2. OffAfter(ovl, mem - 1) = o
      BY <1>3, <3>1 DEF OffAfter
    <3> QED BY <1>1, <3>1, <3>2 DEF HeadTaken
  <2> QED BY <2>1, <2>2
<1>6. ((OvlBase + o) % Word) + c <= DiscEnd
  BY DEF Taken
<1> HIDE DEF o, c, n
<1>7. (OvlBase + o) % Word = OvlBase + o
  <2>1. OvlBase + o \in Nat /\ OvlBase + o < Word
    BY <1>2, <1>3, <1>5
  <2> QED BY <1>2, <2>1, ModSmall
<1>8. o + c < Word
  BY <1>2, <1>3, <1>6, <1>7
<1>9. (o + c) % Word = o + c
  <2>1. o + c \in Nat
    BY <1>2, <1>3
  <2> QED BY <1>2, <1>8, <2>1, ModSmall
<1> QED BY <1>4, <1>9 DEF o, c, n

LEMMA TakenInit == SystemInit => Taken
<1> SUFFICES ASSUME SystemInit PROVE Taken
  OBVIOUS
<1>1. ovl \in Containers /\ mem = 1 /\ at = "shut" /\ step = "idle"
  BY DEF SystemInit, HandleInit, UnpackInit
<1>2. ovl.off \in Seq(0 .. Word - 1) \ {<< >>}
  BY <1>1, HandleAssumption
<1>3. 1 \in DOMAIN ovl.off
  <2> DEFINE s == ovl.off
  <2>1. s \in Seq(0 .. Word - 1) /\ s # << >>
    BY <1>2
  <2> HIDE DEF s
  <2>2. 1 \in DOMAIN s
    BY <2>1
  <2> QED BY <2>2 DEF s
<1> QED BY <1>1, <1>3 DEF Taken

(* The container stays as it is; only a header that was taken opens it.    *)
LEMMA TakenHandle ==
  ASSUME Taken, step = "idle", UNCHANGED unpackVars, HandleNext
  PROVE  Taken'
<1>1. UNCHANGED <<mem, step, call>>
  BY DEF unpackVars
<1>2. ovl' = ovl
  BY DEF HandleNext, OpenBoot, OpenCd, OpenVolCd, OpenVol, ReadTable, ReadNames,
         ReadSlots, FailTables, OpenOvl, ReadHeader, Close, Gets, Fail
<1>3. at' = "open" => HeadTaken(ovl)
  BY DEF HandleNext, OpenBoot, OpenCd, OpenVolCd, OpenVol, ReadTable, ReadNames,
         ReadSlots, FailTables, OpenOvl, ReadHeader, Close, Gets, Fail
<1> QED BY <1>1, <1>2, <1>3 DEF Taken, HeadTaken, OffAfter

LEMMA TakenUnpack ==
  ASSUME Taken, Places, UnpackNext
  PROVE  Taken'
<1> DEFINE Fits == ((OvlBase + ovl.off[mem]) % Word) + ovl.comp[mem] <= DiscEnd
           Reads == call = "ovl" /\ step \in {"buffer", "init", "inflate"}
<1>1. UNCHANGED <<ovl, at>>
  BY DEF UnpackNext, LoadOverlay, ReadPacked, TakeBuffer, Join, NextMember, JoinEnds,
         Init2, Inflate, InflateOn, EndOvl, EndJoin, Broken, CannotGrow, Leave, Begins,
         GoesOn, Returns, Fails
<1>2. 1 \in DOMAIN ovl.off
  <2>1. ovl.off \in Seq(0 .. Word - 1) \ {<< >>}
    BY HandleAssumption DEF Taken
  <2> DEFINE s == ovl.off
  <2>2. s \in Seq(0 .. Word - 1) /\ s # << >>
    BY <2>1
  <2> HIDE DEF s
  <2>3. 1 \in DOMAIN s
    BY <2>2
  <2> QED BY <2>3 DEF s
<1> SUFFICES mem' \in DOMAIN ovl.off /\ (Reads' => Fits')
  BY <1>1 DEF Taken, HeadTaken, OffAfter
<1>3. ASSUME mem' = mem, call' = call, Reads' => Reads
      PROVE  mem' \in DOMAIN ovl.off /\ (Reads' => Fits')
  BY <1>1, <1>3 DEF Taken
<1>4. ASSUME step' \in {"idle", "read", "next"}, mem' = mem \/ mem' \in DOMAIN ovl.off
      PROVE  mem' \in DOMAIN ovl.off /\ (Reads' => Fits')
  BY <1>4 DEF Taken
<1>5. ASSUME NEW e, NEW I, NEW short, Returns(e, I, short)
      PROVE  mem' \in DOMAIN ovl.off /\ (Reads' => Fits')
  BY <1>5, <1>4 DEF Returns
<1>6. ASSUME NEW next, GoesOn(next), next \in {"init", "inflate"}, step # "read" \/ call = "join",
             step \notin {"idle", "next"} \/ call = "join"
      PROVE  mem' \in DOMAIN ovl.off /\ (Reads' => Fits')
  <2>1. mem' = mem /\ call' = call /\ step' = next
    BY <1>6 DEF GoesOn
  <2>2. Reads' => Reads
    BY <1>6, <2>1 DEF Places, Steps
  <2> QED BY <2>1, <2>2, <1>3
<1> HIDE DEF Fits, Reads
<1>a. CASE LoadOverlay
  BY <1>a, <1>4 DEF LoadOverlay, Begins
<1>b. CASE Join
  BY <1>b, <1>2, <1>4 DEF Join, Begins
<1>c. CASE ReadPacked
  <2>1. CASE GoesOn("buffer") /\ Fits
    BY <2>1, <1>1 DEF Taken, GoesOn, Fits
  <2>2. CASE Returns("IO", {"packed"}, FALSE)
    BY <2>2, <1>5
  <2> QED BY <1>c, <2>1, <2>2 DEF ReadPacked, Fails, Fits
<1>d. CASE TakeBuffer
  <2>1. CASE step = "buffer" /\ GoesOn("init")
    BY <2>1, <1>6
  <2>2. CASE Returns("NO_MEM", {"packed"}, TRUE)
    BY <2>2, <1>5
  <2> QED BY <1>d, <2>1, <2>2 DEF TakeBuffer, Fails
<1>e. ASSUME NEW bad, NEW short, JoinEnds(bad, short)
      PROVE  mem' \in DOMAIN ovl.off /\ (Reads' => Fits')
  BY <1>e, <1>5 DEF JoinEnds, Fails
<1>f. CASE NextMember
  <2>1. step = "next" /\ call = "join"
    BY <1>f DEF NextMember, Places
  <2>2. CASE GoesOn("init")
    BY <2>1, <2>2, <1>6
  <2>3. CASE \E bad : JoinEnds(bad, FALSE)
    BY <2>3, <1>e
  <2> QED BY <1>f, <2>2, <2>3 DEF NextMember
<1>g. CASE Init2
  <2>1. CASE step = "init" /\ GoesOn("inflate")
    BY <2>1, <1>6
  <2>2. CASE \E e, I : Returns(e, I, TRUE)
    BY <2>2, <1>5
  <2>3. CASE JoinEnds("NO_MEM", TRUE)
    BY <2>3, <1>e
  <2> QED BY <1>g, <2>1, <2>2, <2>3 DEF Init2, Fails
<1>h. CASE Inflate
  <2>1. CASE \E e, I, short : Returns(e, I, short)
    BY <2>1, <1>5
  <2>2. CASE step = "inflate" /\ GoesOn("inflate")
    BY <2>2, <1>6
  <2>3. CASE GoesOn("next")
    BY <2>3, <1>4 DEF GoesOn
  <2> QED BY <1>h, <2>1, <2>2, <2>3
          DEF Inflate, InflateOn, EndOvl, EndJoin, Broken, CannotGrow, Fails
<1>i. CASE Leave
  BY <1>i, <1>2, <1>4 DEF Leave
<1> QED BY <1>a, <1>b, <1>c, <1>d, <1>f, <1>g, <1>h, <1>i DEF UnpackNext

LEMMA TakenStep == Kept /\ Taken /\ [SystemNext]_systemVars => Taken'
<1> SUFFICES ASSUME Kept, Taken, [SystemNext]_systemVars PROVE Taken'
  OBVIOUS
<1>1. CASE UNCHANGED <<handleVars, unpackVars>>
  BY <1>1 DEF handleVars, unpackVars, Taken, HeadTaken, OffAfter
<1>2. CASE Boots
  BY <1>2, <1>1 DEF Boots
<1>3. CASE Opens
  BY <1>3, TakenHandle DEF Opens
<1>4. CASE Unpacks
  BY <1>4, TakenUnpack DEF Unpacks, Kept
<1>5. CASE UNCHANGED systemVars
  BY <1>5, <1>1 DEF systemVars
<1> QED BY <1>2, <1>3, <1>4, <1>5 DEF SystemNext

LEMMA KeptOwned == Kept /\ Taken => HandlesOwned
<1> SUFFICES ASSUME Kept, Taken PROVE HandlesOwned
  OBVIOUS
<1>1. held = Holding(LiveAt(at) \cup Mine)
  BY DEF Kept, Mine
<1>2. Mine \subseteq Calls /\ LiveAt(at) \subseteq Handles /\ Handles \cap Calls = {}
  BY DEF Mine, CallAt, LiveAt, Handles, Calls
<1>3. \A r \in Objects : held[r] = Once(r \in LiveAt(at) \cup Mine)
  BY <1>1 DEF Holding
<1>4. \A r \in Handles : held[r] = Once(r \in LiveAt(at))
  BY <1>2, <1>3 DEF Objects
<1>5. \A r \in Calls : held[r] = Once(r \in Mine)
  BY <1>2, <1>3 DEF Objects
<1>6. \A r \in Objects : held[r] \in {0, 1}
  BY <1>3 DEF Once
<1>7. at = "shut" => \A r \in Handles : held[r] = 0
  BY <1>4 DEF LiveAt, Once
<1>8. at = "open" => \A r \in Handles : held[r] = 1
  BY <1>4 DEF LiveAt, Once, Handles
<1>9. ASSUME step = "idle"
      PROVE  held["packed"] = 0 /\ held["stream"] = 0 /\ (held["plain"] = 1 <=> urc = "OK")
  <2>1. Mine = IF urc = "OK" THEN {"plain"} ELSE {}
    BY <1>9 DEF Mine, CallAt
  <2>2. {"packed", "plain", "stream"} = Calls
    BY DEF Calls
  <2>3. held["packed"] = 0 /\ held["stream"] = 0
    BY <1>5, <2>1, <2>2 DEF Once
  <2>4. CASE urc = "OK"
    BY <1>5, <2>1, <2>2, <2>3, <2>4 DEF Once
  <2>5. CASE urc # "OK"
    BY <1>5, <2>1, <2>2, <2>3, <2>5 DEF Once
  <2> QED BY <2>4, <2>5
<1>10. HandleTypeOK
  <2>1. held \in [Objects -> Int]
    BY <1>1 DEF Holding, Once
  <2>2. ptr \subseteq Handles
    BY DEF Kept, PtrAt, Handles
  <2> QED BY <2>1, <2>2 DEF HandleTypeOK, Kept, Places, Taken, Ats, Codes
<1> QED BY <1>6, <1>7, <1>8, <1>9, <1>10 DEF HandlesOwned

(* However the open fails, and however a call does, each object of the     *)
(* handle and of the call is freed once and none is lost (boot.c, vol.c,   *)
(* ovl.c, tim.c).                                                          *)
THEOREM HandlesKept == SystemSpec => []HandlesOwned
<1>1. SystemInit => Kept /\ Taken
  BY KeptInit, TakenInit
<1>2. Kept /\ Taken /\ [SystemNext]_systemVars => (Kept /\ Taken)'
  BY KeptStep, TakenStep
<1>3. Kept /\ Taken => HandlesOwned
  BY KeptOwned
<1> QED BY <1>1, <1>2, <1>3, PTL DEF SystemSpec

(* A member that is read ends where the next one begins, or before, for    *)
(* any container of 32-bit offsets and lengths (gt2_ovl_open,              *)
(* gt2_ovl_read_member).                                                   *)
THEOREM MembersKeptApart == SystemSpec => []MembersApart
<1>1. SystemInit => Kept /\ Taken
  BY KeptInit, TakenInit
<1>2. Kept /\ Taken /\ [SystemNext]_systemVars => (Kept /\ Taken)'
  BY KeptStep, TakenStep
<1>3. Kept /\ Taken => MembersApart
  BY TakenApart
<1> QED BY <1>1, <1>2, <1>3, PTL DEF SystemSpec

-----------------------------------------------------------------------------
(* Whatever holds of a finite set when it holds of all smaller ones holds  *)
(* of every finite set: there is no least set it fails for.                *)
LEMMA LeastSet ==
  ASSUME NEW S, IsFiniteSet(S), NEW Bad \in SUBSET SUBSET S, Bad # {}
  PROVE  \E t \in Bad : \A u \in SUBSET t : u # t => u \notin Bad
<1>1. IsWellFoundedOn(StrictSubsetOrdering(S), SUBSET S)
  BY FS_StrictSubsetOrderingWellFounded, FS_FiniteSubsetsOfFinite
<1>2. PICK t \in Bad : \A u \in Bad : <<u, t>> \notin StrictSubsetOrdering(S)
  BY <1>1, WFMin
<1> QED BY <1>2 DEF StrictSubsetOrdering

-----------------------------------------------------------------------------
(* Sums.                                                                   *)
Pick(t) == CHOOSE x \in t : TRUE
Rest(t) == t \ {Pick(t)}
Summed(g, v, t) == IF t = {} THEN 0 ELSE v[Pick(t)] + g[Rest(t)]
Sums(g, v, S) == g \in [SUBSET S -> Int] /\ \A t \in SUBSET S : g[t] = Summed(g, v, t)

LEMMA PickIn == ASSUME NEW t, t # {} PROVE Pick(t) \in t /\ Rest(t) \in SUBSET t /\ Rest(t) # t
BY DEF Pick, Rest

LEMMA SumsAgree ==
  ASSUME NEW S, IsFiniteSet(S), NEW T, IsFiniteSet(T), NEW v, NEW g, NEW h,
         Sums(g, v, S), Sums(h, v, T), NEW s \in SUBSET (S \cap T)
  PROVE  g[s] = h[s]
<1> DEFINE Bad == {t \in SUBSET (S \cap T) : g[t] # h[t]}
<1>1. SUFFICES ASSUME Bad # {} PROVE FALSE
  OBVIOUS
<1>2. PICK t \in Bad : \A u \in SUBSET t : u # t => u \notin Bad
  <2>1. IsFiniteSet(S \cap T)
    BY FS_Intersection
  <2>2. Bad \in SUBSET SUBSET (S \cap T)
    OBVIOUS
  <2> HIDE DEF Bad
  <2> QED BY <1>1, <2>1, <2>2, LeastSet
<1>3. t # {}
  BY <1>2 DEF Sums, Summed
<1>4. g[Rest(t)] = h[Rest(t)]
  BY <1>2, <1>3, PickIn
<1> QED BY <1>2, <1>3, <1>4 DEF Sums, Summed

LEMMA SumsExist ==
  ASSUME NEW S, IsFiniteSet(S), NEW v, \A x \in S : v[x] \in Int
  PROVE  \E g : Sums(g, v, S)
<1> DEFINE Bad == {t \in SUBSET S : ~ \E g : Sums(g, v, t)}
<1>1. SUFFICES ASSUME Bad # {} PROVE FALSE
  OBVIOUS
<1>2. PICK t \in Bad : \A u \in SUBSET t : u # t => u \notin Bad
  <2>1. Bad \in SUBSET SUBSET S
    OBVIOUS
  <2> HIDE DEF Bad
  <2> QED BY <1>1, <2>1, LeastSet
<1> DEFINE G(u) == CHOOSE g : Sums(g, v, u)
           f == [u \in SUBSET t |-> IF u = {} THEN 0 ELSE v[Pick(u)] + G(Rest(u))[Rest(u)]]
<1>3. ASSUME NEW u \in SUBSET t, u # t
      PROVE  Sums(G(u), v, u)
  <2>1. \E g : Sums(g, v, u)
    BY <1>2, <1>3
  <2> QED BY <2>1
<1>4. ASSUME NEW u \in SUBSET t, u # t
      PROVE  G(u)[u] \in Int /\ f[u] = G(u)[u]
  <2>1. Sums(G(u), v, u)
    BY <1>3, <1>4
  <2> HIDE DEF G
  <2>2. G(u)[u] = Summed(G(u), v, u) /\ G(u)[u] \in Int
    BY <2>1 DEF Sums
  <2>3. ASSUME u # {} PROVE G(u)[Rest(u)] = G(Rest(u))[Rest(u)]
    <3>1. Rest(u) \in SUBSET t /\ Rest(u) # t /\ Rest(u) \in SUBSET u
      BY <1>4, <2>3, PickIn
    <3>2. Sums(G(Rest(u)), v, Rest(u))
      BY <1>3, <3>1 DEF G
    <3>3. IsFiniteSet(u) /\ IsFiniteSet(Rest(u))
      BY <1>2, <3>1, FS_Subset
    <3>4. Rest(u) \in SUBSET (u \cap Rest(u))
      BY <3>1
    <3> QED BY <2>1, <3>2, <3>3, <3>4, SumsAgree
  <2> QED BY <2>2, <2>3 DEF Summed
<1>5. ASSUME NEW u \in SUBSET t
      PROVE  f[u] \in Int /\ f[u] = Summed(f, v, u)
  <2>1. CASE u = {}
    BY <2>1 DEF Summed
  <2>2. CASE u # {}
    <3>1. Pick(u) \in u /\ Rest(u) \in SUBSET t /\ Rest(u) # t
      BY <2>2, PickIn
    <3>2. G(Rest(u))[Rest(u)] \in Int /\ f[Rest(u)] = G(Rest(u))[Rest(u)]
      BY <1>4, <3>1
    <3>3. v[Pick(u)] \in Int
      BY <1>2, <3>1
    <3> HIDE DEF G
    <3>4. f[u] = v[Pick(u)] + G(Rest(u))[Rest(u)]
      BY <2>2
    <3> HIDE DEF f
    <3> QED BY <2>2, <3>2, <3>3, <3>4 DEF Summed
  <2> QED BY <2>1, <2>2
<1>6. Sums(f, v, t)
  <2>1. DOMAIN f = SUBSET t /\ f = [u \in SUBSET t |-> f[u]]
    BY DEF f
  <2> HIDE DEF f
  <2> QED BY <1>5, <2>1 DEF Sums
<1> QED BY <1>2, <1>6

LEMMA SumFound ==
  ASSUME NEW S, IsFiniteSet(S), NEW v, \A x \in S : v[x] \in Int
  PROVE  \E g : Sums(g, v, S) /\ SumFunctionOnSet(v, S) = g[S]
<1> DEFINE Eq(g) == g = [t \in SUBSET S |-> Summed(g, v, t)]
<1>1. SumFunctionOnSet(v, S) = (CHOOSE g : Eq(g))[S]
  BY DEF SumFunctionOnSet, FoldFunctionOnSet, MapThenFoldSet, Summed, Rest, Pick
<1>2. PICK g : Sums(g, v, S)
  BY SumsExist
<1>3. Eq(g)
  BY <1>2 DEF Sums
<1>4. Eq(CHOOSE h : Eq(h))
  BY <1>3
<1> DEFINE h == CHOOSE h : Eq(h)
<1>5. h = [t \in SUBSET S |-> Summed(h, v, t)]
  BY <1>4
<1> HIDE DEF h
<1> DEFINE Bad == {t \in SUBSET S : h[t] \notin Int}
<1>6. Bad = {}
  <2>1. SUFFICES ASSUME Bad # {} PROVE FALSE
    OBVIOUS
  <2>2. PICK t \in Bad : \A u \in SUBSET t : u # t => u \notin Bad
    <3>1. Bad \in SUBSET SUBSET S
      OBVIOUS
    <3> HIDE DEF Bad
    <3> QED BY <2>1, <3>1, LeastSet
  <2>3. h[t] = Summed(h, v, t)
    BY <1>5, <2>2
  <2>4. t # {}
    BY <2>2, <2>3 DEF Summed
  <2>5. Pick(t) \in S /\ Rest(t) \in SUBSET S /\ h[Rest(t)] \in Int
    BY <2>2, <2>4, PickIn
  <2> QED BY <2>2, <2>3, <2>4, <2>5 DEF Summed
<1>7. Sums(h, v, S)
  <2>1. h \in [SUBSET S -> Int]
    BY <1>5, <1>6
  <2>2. \A t \in SUBSET S : h[t] = Summed(h, v, t)
    BY <1>5
  <2> QED BY <2>1, <2>2 DEF Sums
<1> QED BY <1>1, <1>7 DEF h

LEMMA SumEmpty ==
  ASSUME NEW v PROVE SumFunctionOnSet(v, {}) = 0
<1>1. PICK g : Sums(g, v, {}) /\ SumFunctionOnSet(v, {}) = g[{}]
  BY SumFound, FS_EmptySet
<1> QED BY <1>1 DEF Sums, Summed

(* A sum is that of one term and the rest, whichever term is taken.        *)
LEMMA SumAdds ==
  ASSUME NEW S, IsFiniteSet(S), NEW v, \A x \in S : v[x] \in Int, NEW m \in S
  PROVE  /\ SumFunctionOnSet(v, S) \in Int
         /\ SumFunctionOnSet(v, S) = v[m] + SumFunctionOnSet(v, S \ {m})
<1>1. PICK g : Sums(g, v, S) /\ SumFunctionOnSet(v, S) = g[S]
  BY SumFound
<1> DEFINE Bad == {t \in SUBSET S : \E x \in t : g[t] # v[x] + g[t \ {x}]}
<1>2. Bad = {}
  <2>1. SUFFICES ASSUME Bad # {} PROVE FALSE
    OBVIOUS
  <2>2. PICK t \in Bad : \A u \in SUBSET t : u # t => u \notin Bad
    <3>1. Bad \in SUBSET SUBSET S
      OBVIOUS
    <3> HIDE DEF Bad
    <3> QED BY <2>1, <3>1, LeastSet
  <2>3. PICK x \in t : g[t] # v[x] + g[t \ {x}]
    BY <2>2
  <2> DEFINE y == Pick(t)
             r == t \ {x}
             s == t \ {y}
             q == (t \ {y}) \ {x}
  <2>4. y \in t /\ g[t] = v[y] + g[s] /\ s = Rest(t)
    BY <1>1, <2>2, <2>3, PickIn DEF Sums, Summed, Rest
  <2>5. x # y
    BY <2>3, <2>4
  <2>6. g[s] = v[x] + g[q]
    <3>1. s \in SUBSET t /\ s # t /\ x \in s /\ s \in SUBSET S
      BY <2>2, <2>3, <2>4, <2>5
    <3> QED BY <2>2, <3>1
  <2>7. g[r] = v[y] + g[q]
    <3>1. r \in SUBSET t /\ r # t /\ y \in r /\ r \in SUBSET S /\ q = r \ {y}
      BY <2>2, <2>3, <2>4, <2>5
    <3> QED BY <2>2, <3>1
  <2>8. v[x] \in Int /\ v[y] \in Int /\ g[q] \in Int
    <3>1. q \in SUBSET S /\ x \in S /\ y \in S
      BY <2>2, <2>3, <2>4
    <3> QED BY <1>1, <3>1 DEF Sums
  <2> HIDE DEF r, s, q, y
  <2>9. g[t] = v[x] + g[r]
    BY <2>4, <2>6, <2>7, <2>8
  <2> QED BY <2>3, <2>9 DEF r
<1>3. g[S] = v[m] + g[S \ {m}]
  BY <1>2
<1>4. PICK h : Sums(h, v, S \ {m}) /\ SumFunctionOnSet(v, S \ {m}) = h[S \ {m}]
  <2>1. IsFiniteSet(S \ {m})
    BY FS_Subset
  <2> QED BY <2>1, SumFound
<1>5. g[S \ {m}] = h[S \ {m}]
  <2>1. IsFiniteSet(S \ {m})
    BY FS_Subset
  <2>2. S \ {m} \in SUBSET (S \cap (S \ {m}))
    OBVIOUS
  <2> QED BY <1>1, <1>4, <2>1, <2>2, SumsAgree
<1>6. g[S] \in Int
  BY <1>1 DEF Sums
<1> QED BY <1>1, <1>3, <1>4, <1>5, <1>6

LEMMA SumNat ==
  ASSUME NEW S, IsFiniteSet(S), NEW v, \A x \in S : v[x] \in Nat
  PROVE  SumFunctionOnSet(v, S) \in Nat
<1> DEFINE Bad == {t \in SUBSET S : SumFunctionOnSet(v, t) \notin Nat}
<1>1. SUFFICES ASSUME Bad # {} PROVE FALSE
  OBVIOUS
<1>2. PICK t \in Bad : \A u \in SUBSET t : u # t => u \notin Bad
  <2>1. Bad \in SUBSET SUBSET S
    OBVIOUS
  <2> HIDE DEF Bad
  <2> QED BY <1>1, <2>1, LeastSet
<1>3. PICK m : m \in t
  <2>1. SumFunctionOnSet(v, {}) = 0
    BY SumEmpty
  <2>2. t # {}
    BY <1>2, <2>1
  <2> QED BY <2>2
<1>4. SumFunctionOnSet(v, t) = v[m] + SumFunctionOnSet(v, t \ {m})
  <2>1. IsFiniteSet(t) /\ \A x \in t : v[x] \in Int
    BY <1>2, FS_Subset
  <2> QED BY <1>3, <2>1, SumAdds
<1>5. SumFunctionOnSet(v, t \ {m}) \in Nat
  BY <1>2, <1>3
<1> QED BY <1>2, <1>3, <1>4, <1>5

(* What holds of 1 and is handed on from each number to the next holds of  *)
(* all up to n.                                                            *)
LEMMA StepByStep ==
  ASSUME NEW n \in Nat, NEW Good \in SUBSET (1 .. n), n > 0 => 1 \in Good,
         \A i \in 1 .. n - 1 : i \in Good => i + 1 \in Good
  PROVE  Good = 1 .. n
<1> DEFINE Bad == {t \in SUBSET (1 .. n) : \E i \in 1 .. n : t = 1 .. i /\ i \notin Good}
<1>1. SUFFICES ASSUME Bad # {} PROVE FALSE
  <2>1. ASSUME NEW i \in 1 .. n, i \notin Good PROVE Bad # {}
    <3>1. 1 .. i \in SUBSET (1 .. n)
      OBVIOUS
    <3>2. 1 .. i \in Bad
      BY <2>1, <3>1
    <3> QED BY <3>2
  <2> HIDE DEF Bad
  <2> QED BY <2>1
<1>2. PICK t \in Bad : \A u \in SUBSET t : u # t => u \notin Bad
  <2>1. Bad \in SUBSET SUBSET (1 .. n) /\ IsFiniteSet(1 .. n)
    BY FS_Interval
  <2> HIDE DEF Bad
  <2> QED BY <1>1, <2>1, LeastSet
<1>3. PICK i \in 1 .. n : t = 1 .. i /\ i \notin Good
  BY <1>2
<1>4. i # 1 /\ i - 1 \in 1 .. n - 1
  BY <1>3
<1>5. i - 1 \notin Good
  BY <1>3, <1>4
<1>6. 1 .. i - 1 \in SUBSET t /\ 1 .. i - 1 # t /\ i - 1 \in 1 .. n /\ 1 .. i - 1 \in SUBSET (1 .. n)
  <2>1. i \in 1 .. i /\ i \notin 1 .. i - 1
    BY <1>3
  <2> QED BY <1>3, <1>4, <2>1
<1>7. 1 .. i - 1 \in Bad
  BY <1>5, <1>6
<1> QED BY <1>2, <1>6, <1>7

(* What is summed is what counts, not how it is written.                   *)
LEMMA SumSame ==
  ASSUME NEW S, IsFiniteSet(S), NEW v, NEW w, \A x \in S : v[x] \in Int /\ w[x] = v[x]
  PROVE  SumFunctionOnSet(v, S) = SumFunctionOnSet(w, S)
<1>1. PICK g : Sums(g, v, S) /\ SumFunctionOnSet(v, S) = g[S]
  BY SumFound
<1>2. PICK h : Sums(h, w, S) /\ SumFunctionOnSet(w, S) = h[S]
  <2>1. \A x \in S : w[x] \in Int
    OBVIOUS
  <2> QED BY <2>1, SumFound
<1>3. ASSUME NEW t \in SUBSET S PROVE Summed(g, w, t) = Summed(g, v, t)
  <2>1. t # {} => Pick(t) \in S
    BY PickIn
  <2> QED BY <2>1 DEF Summed
<1>4. Sums(g, w, S)
  BY <1>1, <1>3 DEF Sums
<1> QED BY <1>1, <1>2, <1>4, SumsAgree

-----------------------------------------------------------------------------
(* The two folds of an unpacking: the bytes that are out, and the place of *)
(* a member, are sums over the numbers of what they add up.                *)
Portions == [m : Nat, n : Nat]
Sizes(s) == [k \in DOMAIN s |-> s[k].n]

LEMMA BytesAdd ==
  ASSUME NEW s \in Seq(Portions)
  PROVE  Bytes(s) = SumFunctionOnSet(Sizes(s), 1 .. Len(s)) /\ Bytes(s) \in Nat
<1> DEFINE S == 1 .. Len(s)
           W == Sizes(s)
           Is(g) == g = [t \in SUBSET S |-> IF t = {} THEN 0 ELSE s[Pick(t)].n + g[Rest(t)]]
           Eq(g) == g = [t \in SUBSET S |-> IF t = {} THEN 0 ELSE W[Pick(t)] + g[Rest(t)]]
<1>1. DOMAIN s = S /\ IsFiniteSet(S)
  <2>1. 1 \in Int /\ Len(s) \in Int /\ DOMAIN s = S
    OBVIOUS
  <2> QED BY <2>1, FS_Interval
<1>2. \A x \in S : W[x] = s[x].n /\ W[x] \in Nat
  <2> SUFFICES ASSUME NEW x \in S PROVE W[x] = s[x].n /\ W[x] \in Nat
    OBVIOUS
  <2>1. s[x] \in Portions
    BY <1>1
  <2> QED BY <1>1, <2>1 DEF Sizes, Portions
<1>3. PICK h : h = CHOOSE g : Is(g)
  OBVIOUS
<1>4. Bytes(s) = h[S]
  BY <1>1, <1>3 DEF Bytes, FoldSeq, FoldFunction, FoldFunctionOnSet, MapThenFoldSet, Pick, Rest
<1>5. PICK f : f = CHOOSE g : Eq(g)
  OBVIOUS
<1>6. SumFunctionOnSet(W, S) = f[S]
  BY <1>5 DEF SumFunctionOnSet, FoldFunctionOnSet, MapThenFoldSet, Pick, Rest
<1>7. ASSUME NEW g PROVE Is(g) <=> Eq(g)
  <2>1. ASSUME NEW t \in SUBSET S
        PROVE  (IF t = {} THEN 0 ELSE s[Pick(t)].n + g[Rest(t)])
                 = (IF t = {} THEN 0 ELSE W[Pick(t)] + g[Rest(t)])
    <3>1. t # {} => Pick(t) \in S
      BY PickIn
    <3> QED BY <1>2, <3>1
  <2> HIDE DEF W, S
  <2> QED BY <2>1
<1>8. f = h
  BY <1>3, <1>5, <1>7
<1>9. SumFunctionOnSet(W, S) \in Nat
  <2> HIDE DEF W, S
  <2> QED BY <1>1, <1>2, SumNat
<1> QED BY <1>4, <1>6, <1>8, <1>9

LEMMA BytesEmpty == Bytes(<< >>) = 0
<1>1. << >> \in Seq(Portions) /\ 1 .. Len(<< >>) = {}
  OBVIOUS
<1> QED BY <1>1, BytesAdd, SumEmpty

LEMMA SumLast ==
  ASSUME NEW n \in Nat, NEW v, NEW w,
         \A x \in 1 .. n + 1 : w[x] \in Int, \A x \in 1 .. n : v[x] = w[x]
  PROVE  SumFunctionOnSet(w, 1 .. n + 1) = SumFunctionOnSet(v, 1 .. n) + w[n + 1]
<1>1. IsFiniteSet(1 .. n) /\ IsFiniteSet(1 .. n + 1) /\ n + 1 \in 1 .. n + 1
      /\ (1 .. n + 1) \ {n + 1} = 1 .. n
  <2>1. 1 \in Int /\ n \in Int /\ n + 1 \in Int
    OBVIOUS
  <2>2. IsFiniteSet(1 .. n) /\ IsFiniteSet(1 .. n + 1)
    BY <2>1, FS_Interval
  <2>3. n + 1 \in 1 .. n + 1 /\ (1 .. n + 1) \ {n + 1} = 1 .. n
    OBVIOUS
  <2> QED BY <2>2, <2>3
<1>2. SumFunctionOnSet(w, 1 .. n + 1) = w[n + 1] + SumFunctionOnSet(w, (1 .. n + 1) \ {n + 1})
  BY <1>1, SumAdds
<1>3. \A x \in 1 .. n : v[x] \in Int /\ w[x] = v[x]
  OBVIOUS
<1>4. SumFunctionOnSet(v, 1 .. n) = SumFunctionOnSet(w, 1 .. n)
  BY <1>1, <1>3, SumSame
<1>5. SumFunctionOnSet(v, 1 .. n) \in Int
  <2>1. CASE n = 0
    <3>1. 1 .. n = {}
      BY <2>1
    <3> QED BY <3>1, SumEmpty
  <2>2. CASE n # 0
    <3>1. n \in 1 .. n
      BY <2>2
    <3>2. IsFiniteSet(1 .. n) /\ \A x \in 1 .. n : v[x] \in Int
      BY <1>1, <1>3
    <3> QED BY <3>1, <3>2, SumAdds
  <2> QED BY <2>1, <2>2
<1>6. PICK p \in Int : p = SumFunctionOnSet(v, 1 .. n)
  BY <1>5
<1>7. PICK q \in Int : q = w[n + 1]
  BY <1>1
<1>8. SumFunctionOnSet(w, 1 .. n + 1) = q + p
  BY <1>1, <1>2, <1>4, <1>6, <1>7
<1>9. q + p = p + q
  OBVIOUS
<1> QED BY <1>6, <1>7, <1>8, <1>9

LEMMA BytesAppend ==
  ASSUME NEW s \in Seq(Portions), NEW p \in Portions
  PROVE  /\ Append(s, p) \in Seq(Portions)
         /\ Bytes(Append(s, p)) = Bytes(s) + p.n
<1> DEFINE t == Append(s, p)
           n == Len(s)
<1>1. t \in Seq(Portions) /\ Len(t) = n + 1 /\ n \in Nat
      /\ t[n + 1] = p /\ \A x \in 1 .. n : t[x] = s[x]
  OBVIOUS
<1>2. DOMAIN t = 1 .. n + 1 /\ DOMAIN s = 1 .. n
  BY <1>1
<1> HIDE DEF t, n
<1>3. \A x \in 1 .. n + 1 : Sizes(t)[x] \in Int
  <2> SUFFICES ASSUME NEW x \in 1 .. n + 1 PROVE Sizes(t)[x] \in Int
    OBVIOUS
  <2>1. t[x] \in Portions /\ Sizes(t)[x] = t[x].n
    BY <1>1, <1>2 DEF Sizes
  <2> QED BY <2>1 DEF Portions
<1>4. \A x \in 1 .. n : Sizes(s)[x] = Sizes(t)[x]
  BY <1>1, <1>2 DEF Sizes
<1>5. SumFunctionOnSet(Sizes(t), 1 .. n + 1)
        = SumFunctionOnSet(Sizes(s), 1 .. n) + Sizes(t)[n + 1]
  BY <1>1, <1>3, <1>4, SumLast
<1>6. Sizes(t)[n + 1] = p.n
  BY <1>1, <1>2 DEF Sizes
<1> QED BY <1>1, <1>5, <1>6, BytesAdd DEF t, n

-----------------------------------------------------------------------------
(* Places.                                                                 *)
MembersAt == [comp : Nat, out : Nat, good : BOOLEAN]
Packets(ms)  == [k \in DOMAIN ms |-> RoundUp(ms[k].comp)]

LEMMA Rounds ==
  ASSUME NEW x \in Nat
  PROVE  /\ RoundUp(x) \in Nat /\ RoundUp(x) >= x
         /\ x > 0 => RoundUp(x) > 0
         /\ \E q \in Nat : RoundUp(x) = SectorSize * q
         /\ \A q \in Nat : RoundUp(SectorSize * q + x) = SectorSize * q + RoundUp(x)
BY DEF RoundUp, SectorSize

LEMMA PlaceSum ==
  ASSUME NEW a, a.members \in Seq(MembersAt), NEW k \in 1 .. Len(a.members) + 1
  PROVE  PlaceOf(a, k) = SumFunctionOnSet(Packets(a.members), 1 .. k - 1)
<1> DEFINE ms == a.members
           s == SubSeq(ms, 1, k - 1)
           S == 1 .. k - 1
           W == Packets(ms)
           Is(g) == g = [t \in SUBSET S |->
                           IF t = {} THEN 0 ELSE RoundUp(s[Pick(t)].comp) + g[Rest(t)]]
           Eq(g) == g = [t \in SUBSET S |-> IF t = {} THEN 0 ELSE W[Pick(t)] + g[Rest(t)]]
<1>1. DOMAIN s = S /\ \A x \in S : s[x] = ms[x] /\ x \in DOMAIN ms
  <2>1. ms \in Seq(MembersAt) /\ k - 1 \in 0 .. Len(ms)
    OBVIOUS
  <2> HIDE DEF ms
  <2> QED BY <2>1
<1>2. \A x \in S : W[x] = RoundUp(s[x].comp)
  BY <1>1 DEF Packets
<1>3. PICK h : h = CHOOSE g : Is(g)
  OBVIOUS
<1>4. PlaceOf(a, k) = h[S]
  BY <1>1, <1>3 DEF PlaceOf, FoldSeq, FoldFunction, FoldFunctionOnSet, MapThenFoldSet, Pick, Rest
<1>5. PICK f : f = CHOOSE g : Eq(g)
  OBVIOUS
<1>6. SumFunctionOnSet(W, S) = f[S]
  BY <1>5 DEF SumFunctionOnSet, FoldFunctionOnSet, MapThenFoldSet, Pick, Rest
<1>7. ASSUME NEW g PROVE Is(g) <=> Eq(g)
  <2>1. ASSUME NEW t \in SUBSET S
        PROVE  (IF t = {} THEN 0 ELSE RoundUp(s[Pick(t)].comp) + g[Rest(t)])
                 = (IF t = {} THEN 0 ELSE W[Pick(t)] + g[Rest(t)])
    <3>1. t # {} => Pick(t) \in S
      BY PickIn
    <3> QED BY <1>2, <3>1
  <2> HIDE DEF W, S, s
  <2> QED BY <2>1
<1>8. f = h
  BY <1>3, <1>5, <1>7
<1> QED BY <1>4, <1>6, <1>8

LEMMA PlaceFirst == ASSUME NEW a, a.members \in Seq(MembersAt) PROVE PlaceOf(a, 1) = 0
<1>1. 1 .. 1 - 1 = {} /\ 1 \in 1 .. Len(a.members) + 1
  OBVIOUS
<1> QED BY <1>1, PlaceSum, SumEmpty

LEMMA PlaceNext ==
  ASSUME NEW a, a.members \in Seq(MembersAt), NEW k \in 1 .. Len(a.members)
  PROVE  /\ PlaceOf(a, k) \in Nat
         /\ PlaceOf(a, k + 1) = PlaceOf(a, k) + RoundUp(a.members[k].comp)
<1> DEFINE W == Packets(a.members)
<1>1. \A x \in 1 .. Len(a.members) :
        W[x] = RoundUp(a.members[x].comp) /\ W[x] \in Nat
  <2> SUFFICES ASSUME NEW x \in 1 .. Len(a.members)
               PROVE  W[x] = RoundUp(a.members[x].comp) /\ W[x] \in Nat
    OBVIOUS
  <2>1. a.members[x] \in MembersAt /\ x \in DOMAIN a.members
    OBVIOUS
  <2> QED BY <2>1, Rounds DEF Packets, MembersAt
<1>2. PlaceOf(a, k) = SumFunctionOnSet(W, 1 .. k - 1)
  BY PlaceSum
<1>3. PlaceOf(a, k + 1) = SumFunctionOnSet(W, 1 .. k)
  <2>1. k + 1 \in 1 .. Len(a.members) + 1 /\ (k + 1) - 1 = k
    OBVIOUS
  <2> QED BY <2>1, PlaceSum
<1> HIDE DEF W
<1>4. SumFunctionOnSet(W, 1 .. k - 1) \in Nat
  <2>1. IsFiniteSet(1 .. k - 1)
    <3>1. 1 \in Int /\ k - 1 \in Int
      OBVIOUS
    <3> QED BY <3>1, FS_Interval
  <2>2. \A x \in 1 .. k - 1 : W[x] \in Nat
    BY <1>1
  <2> QED BY <2>1, <2>2, SumNat
<1>5. SumFunctionOnSet(W, 1 .. k) = SumFunctionOnSet(W, 1 .. k - 1) + W[k]
  <2>1. k - 1 \in Nat /\ (k - 1) + 1 = k /\ \A x \in 1 .. (k - 1) + 1 : W[x] \in Int
    BY <1>1
  <2>2. \A x \in 1 .. k - 1 : W[x] = W[x]
    OBVIOUS
  <2>3. SumFunctionOnSet(W, 1 .. (k - 1) + 1) = SumFunctionOnSet(W, 1 .. k - 1) + W[(k - 1) + 1]
    BY <2>1, <2>2, SumLast
  <2> QED BY <2>1, <2>3
<1> QED BY <1>1, <1>2, <1>3, <1>4, <1>5

(* Each place is a sector's, and a member lies in front of all that        *)
(* follow it.                                                              *)
LEMMA PlacesRise ==
  ASSUME NEW a, a.members \in Seq(MembersAt)
  PROVE  \A k \in 1 .. Len(a.members) + 1 :
           /\ \E q \in Nat : PlaceOf(a, k) = SectorSize * q
           /\ \A i \in 1 .. k - 1 : PlaceOf(a, i) + RoundUp(a.members[i].comp) <= PlaceOf(a, k)
<1> DEFINE L == Len(a.members) + 1
           P(k) == /\ \E q \in Nat : PlaceOf(a, k) = SectorSize * q
                   /\ \A i \in 1 .. k - 1 :
                        PlaceOf(a, i) + RoundUp(a.members[i].comp) <= PlaceOf(a, k)
           Good == {k \in 1 .. L : P(k)}
<1>1. 1 \in Good
  <2>1. PlaceOf(a, 1) = SectorSize * 0
    BY PlaceFirst DEF SectorSize
  <2>2. 1 \in 1 .. L /\ 1 .. 1 - 1 = {}
    OBVIOUS
  <2> QED BY <2>1, <2>2
<1>2. ASSUME NEW k \in 1 .. L - 1, k \in Good PROVE k + 1 \in Good
  <2>1. k \in 1 .. Len(a.members) /\ a.members[k] \in MembersAt /\ k + 1 \in 1 .. L
    OBVIOUS
  <2>2. PICK c \in Nat : c = a.members[k].comp
    BY <2>1 DEF MembersAt
  <2>3. PICK r \in Nat : r = RoundUp(c) /\ \E q \in Nat : r = SectorSize * q
    BY Rounds
  <2>4. PlaceOf(a, k) \in Nat /\ PlaceOf(a, k + 1) = PlaceOf(a, k) + r
    BY <2>1, <2>2, <2>3, PlaceNext
  <2>5. \E q \in Nat : PlaceOf(a, k + 1) = SectorSize * q
    <3>1. PICK q \in Nat : r = SectorSize * q
      BY <2>3
    <3>2. PICK p \in Nat : PlaceOf(a, k) = SectorSize * p
      BY <1>2
    <3>3. q + p \in Nat /\ PlaceOf(a, k + 1) = SectorSize * (q + p)
      BY <2>4, <3>1, <3>2 DEF SectorSize
    <3> QED BY <3>3
  <2>6. ASSUME NEW i \in 1 .. (k + 1) - 1
        PROVE  PlaceOf(a, i) + RoundUp(a.members[i].comp) <= PlaceOf(a, k + 1)
    <3>1. CASE i = k
      BY <2>2, <2>3, <2>4, <3>1
    <3>2. CASE i # k
      <4>1. i \in 1 .. k - 1 /\ i \in 1 .. Len(a.members)
        BY <3>2
      <4>2. PlaceOf(a, i) + RoundUp(a.members[i].comp) <= PlaceOf(a, k)
        BY <1>2, <4>1
      <4>3. PlaceOf(a, i) \in Nat
        BY <4>1, PlaceNext
      <4>4. RoundUp(a.members[i].comp) \in Nat
        <5>1. a.members[i] \in MembersAt
          BY <4>1
        <5> QED BY <5>1, Rounds DEF MembersAt
      <4> QED BY <2>4, <4>2, <4>3, <4>4
    <3> QED BY <3>1, <3>2
  <2> QED BY <2>1, <2>5, <2>6
<1>3. Good = 1 .. L
  <2>1. L \in Nat /\ Good \in SUBSET (1 .. L)
    OBVIOUS
  <2> HIDE DEF Good, L
  <2> QED BY <1>1, <1>2, <2>1, StepByStep
<1> QED BY <1>3

-----------------------------------------------------------------------------
(* A call on its way has unpacked the members up to the next, all of them  *)
(* sound, and fits its buffer; one that is over has all or is refused.     *)
Ends   == {"none", "OK", "NO_MEM", "IO", "CORRUPT", "TRUNCATED"}
Chains == [comp : Nat \ {0, 1}, out : Nat, good : BOOLEAN]
Sofar  == [k \in 1 .. members |-> [m |-> k, n |-> todo.members[k].out]]
Fine   == IF call = "ovl" THEN Sound(todo) ELSE Joinable(todo)

Asked ==
  /\ todo.tail \in Nat /\ todo.members \in Seq(MembersAt)
  /\ call = "join" => todo.members \in Seq(Chains)
Counters ==
  /\ members \in 0 .. MaxMembers /\ off \in Nat /\ cap \in Nat
  /\ made \in Seq(Portions) /\ lack \in BOOLEAN /\ urc \in Ends
Underway ==
  step # "idle" =>
    /\ ~lack /\ members <= Len(todo.members)
    /\ \A k \in 1 .. members : todo.members[k].good
    /\ Bytes(made) <= cap
    /\ call = "ovl"  => members = 0 /\ Len(todo.members) = 1
    /\ call = "join" => off = PlaceOf(todo, members + 1)
    /\ step \in {"read", "buffer", "next", "init"} => made = Sofar
    /\ step \in {"init", "inflate"} =>
         members < Len(todo.members) /\ (call = "join" => members < MaxMembers)
    /\ step = "inflate" =>
         \E x \in 0 .. Now.out : made = Append(Sofar, [m |-> members + 1, n |-> x])
Over ==
  step = "idle" =>
    /\ members = 0
    /\ urc = "OK" => made = Whole(todo)
    /\ urc \notin {"none", "IO"} /\ ~lack => (urc = "OK" <=> Fine)
Unpacked == Asked /\ Counters /\ Underway /\ Over

LEMMA SofarTyped ==
  ASSUME Asked, Counters, members <= Len(todo.members)
  PROVE  /\ Sofar \in Seq(Portions) /\ Len(Sofar) = members /\ members \in Nat
         /\ \A k \in 1 .. members : Sofar[k] = [m |-> k, n |-> todo.members[k].out]
<1>1. members \in Nat
  BY UnpackAssumption DEF Counters
<1>2. ASSUME NEW k \in 1 .. members PROVE [m |-> k, n |-> todo.members[k].out] \in Portions
  <2>1. todo.members[k] \in MembersAt
    BY <1>1 DEF Asked
  <2> QED BY <1>1, <2>1 DEF Portions, MembersAt
<1> QED BY <1>1, <1>2 DEF Sofar

LEMMA NowTyped ==
  ASSUME Asked, Counters, members < Len(todo.members)
  PROVE  Now = todo.members[members + 1] /\ Now \in MembersAt
         /\ (call = "join" => Now \in Chains) /\ members + 1 \in 1 .. Len(todo.members)
<1>1. members \in Nat
  BY UnpackAssumption DEF Counters
<1> QED BY <1>1 DEF Asked, Now

(* Where a chain goes on, a member begins, and there is more to read.      *)
LEMMA ChainGoesOn ==
  ASSUME Asked, Counters, call = "join", members <= Len(todo.members),
         off = PlaceOf(todo, members + 1)
  PROVE  /\ members < Len(todo.members) => Magic(todo, off) /\ off + 2 <= Length(todo)
         /\ Magic(todo, off) => members < Len(todo.members)
         /\ members < Len(todo.members) => RoundUp(off + Now.comp) = PlaceOf(todo, members + 2)
         /\ members > 0 /\ members = Len(todo.members) =>
              off = RoundUp(PlaceOf(todo, members) + todo.members[members].comp)
<1> DEFINE ms == todo.members
           L == Len(ms)
<1>1. /\ members \in Nat /\ off \in Nat /\ L \in Nat /\ todo.tail \in Nat
      /\ ms \in Seq(MembersAt) /\ DOMAIN ms = 1 .. L
  BY UnpackAssumption DEF Counters, Asked
<1>2. ASSUME NEW k \in 1 .. L
      PROVE  /\ ms[k].comp \in Nat \ {0, 1} /\ RoundUp(ms[k].comp) \in Nat
             /\ RoundUp(ms[k].comp) >= ms[k].comp
             /\ PlaceOf(todo, k) \in Nat
             /\ PlaceOf(todo, k + 1) = PlaceOf(todo, k) + RoundUp(ms[k].comp)
  <2>1. ms[k] \in Chains
    BY DEF Asked
  <2>2. ms[k].comp \in Nat \ {0, 1}
    BY <2>1 DEF Chains
  <2> QED BY <1>1, <2>2, Rounds, PlaceNext
<1>3. ASSUME NEW k \in 1 .. L + 1
      PROVE  /\ \E q \in Nat : PlaceOf(todo, k) = SectorSize * q
             /\ \A i \in 1 .. k - 1 : PlaceOf(todo, i) + RoundUp(ms[i].comp) <= PlaceOf(todo, k)
  BY <1>1, PlacesRise
<1>4. ASSUME NEW k \in 1 .. L
      PROVE  RoundUp(PlaceOf(todo, k) + ms[k].comp) = PlaceOf(todo, k + 1)
  <2>1. PICK q \in Nat : PlaceOf(todo, k) = SectorSize * q
    BY <1>1, <1>3
  <2> QED BY <1>2, <2>1, Rounds
<1>5. ASSUME members < L PROVE Magic(todo, off) /\ off + 2 <= Length(todo)
  <2>1. members + 1 \in 1 .. L
    BY <1>1, <1>5
  <2>2. Magic(todo, off)
    BY <1>1, <2>1 DEF Magic
  <2>3. Length(todo) = todo.tail + (PlaceOf(todo, L) + ms[L].comp)
    BY <1>1, <2>1 DEF Length
  <2>4. L \in 1 .. L
    BY <2>1, <1>1
  <2>5. PICK p \in Nat : p = PlaceOf(todo, L)
    BY <2>4, <1>2
  <2>6. PICK c \in Nat \ {0, 1} : c = ms[L].comp
    BY <2>4, <1>2
  <2>7. off <= p
    <3>1. CASE members + 1 = L
      BY <1>1, <2>5, <3>1
    <3>2. CASE members + 1 # L
      <4>1. members + 1 \in 1 .. L - 1 /\ L \in 1 .. L + 1
        BY <1>1, <2>1, <3>2
      <4>2. off + RoundUp(ms[members + 1].comp) <= p
        BY <1>3, <2>5, <4>1
      <4>3. RoundUp(ms[members + 1].comp) \in Nat
        BY <1>2, <2>1
      <4> QED BY <1>1, <4>2, <4>3
    <3> QED BY <3>1, <3>2
  <2>8. PICK t \in Nat : t = todo.tail
    BY <1>1
  <2>9. Length(todo) = t + (p + c)
    BY <2>3, <2>5, <2>6, <2>8
  <2> HIDE DEF ms, L
  <2>10. off + 2 <= t + (p + c)
    BY <1>1, <2>7
  <2> QED BY <2>2, <2>9, <2>10
<1>6. ASSUME Magic(todo, off) PROVE members < L
  <2>1. PICK k \in 1 .. L : PlaceOf(todo, k) = off
    BY <1>1, <1>6 DEF Magic
  <2>2. SUFFICES ASSUME members = L PROVE FALSE
    BY <1>1
  <2>3. k \in 1 .. (L + 1) - 1 /\ L + 1 \in 1 .. L + 1
    BY <1>1
  <2>4. off + RoundUp(ms[k].comp) <= off
    BY <1>3, <2>1, <2>2, <2>3
  <2>5. PICK r \in Nat \ {0} : r = RoundUp(ms[k].comp)
    BY <1>2
  <2> QED BY <1>1, <2>4, <2>5
<1>7. ASSUME members < L PROVE RoundUp(off + Now.comp) = PlaceOf(todo, members + 2)
  <2>1. members + 1 \in 1 .. L /\ Now = ms[members + 1] /\ (members + 1) + 1 = members + 2
    BY <1>1, <1>7 DEF Now
  <2> QED BY <2>1, <1>4
<1>8. ASSUME members > 0, members = L
      PROVE  off = RoundUp(PlaceOf(todo, members) + ms[members].comp)
  BY <1>1, <1>4, <1>8
<1> QED BY <1>5, <1>6, <1>7, <1>8

(* A chain of which all that is read has been joined is whole.             *)
LEMMA ChainWhole ==
  ASSUME Unpacked, step = "next", call = "join", members > 0,
         (off + 2 > Length(todo)) \/ (members < MaxMembers /\ ~Magic(todo, off))
  PROVE  Joinable(todo) /\ made = Whole(todo)
<1> DEFINE L == Len(todo.members)
<1>1. Asked /\ Counters /\ members <= L /\ off = PlaceOf(todo, members + 1) /\ made = Sofar
      /\ \A k \in 1 .. members : todo.members[k].good
  BY DEF Unpacked, Underway
<1>2. /\ members \in 0 .. MaxMembers /\ MaxMembers \in Nat /\ off \in Nat /\ L \in Nat
      /\ DOMAIN todo.members = 1 .. L
  BY <1>1, UnpackAssumption DEF Counters, Asked
<1>3. /\ members < L => Magic(todo, off) /\ off + 2 <= Length(todo)
      /\ members = L => off = RoundUp(PlaceOf(todo, L) + todo.members[L].comp)
  BY <1>1, ChainGoesOn
<1>4. members = L
  <2>1. SUFFICES ASSUME members < L PROVE FALSE
    BY <1>1, <1>2
  <2>2. Magic(todo, off) /\ off + 2 <= Length(todo)
    BY <1>3, <2>1
  <2>3. Length(todo) \in Int
    <3>1. L \in 1 .. L /\ todo.members \in Seq(MembersAt) /\ todo.tail \in Nat
      BY <1>1, <1>2, <2>1 DEF Asked
    <3>2. todo.members[L] \in MembersAt
      BY <3>1
    <3>3. PlaceOf(todo, L) \in Nat
      BY <3>1, PlaceNext
    <3> QED BY <1>2, <3>1, <3>2, <3>3 DEF Length, MembersAt
  <2> QED BY <1>2, <2>2, <2>3
<1>5. made = Whole(todo)
  BY <1>1, <1>2, <1>4 DEF Sofar, Whole
<1>6. Sound(todo)
  BY <1>1, <1>2, <1>4 DEF Sound
<1>7. L \in 1 .. MaxMembers
  BY <1>2, <1>4
<1>8. L = MaxMembers => RoundUp(PlaceOf(todo, L) + todo.members[L].comp) + 2 > Length(todo)
  BY <1>2, <1>3, <1>4
<1> QED BY <1>5, <1>6, <1>7, <1>8 DEF Joinable

(* One of which nothing was joined, or more than the limit, cannot be.     *)
LEMMA ChainRefused ==
  ASSUME Unpacked, step = "next", call = "join",
         \/ members = 0 /\ (off + 2 > Length(todo) \/ ~Magic(todo, off))
         \/ members >= MaxMembers /\ off + 2 <= Length(todo)
  PROVE  ~Joinable(todo)
<1> DEFINE L == Len(todo.members)
<1>1. Asked /\ Counters /\ members <= L /\ off = PlaceOf(todo, members + 1)
  BY DEF Unpacked, Underway
<1>2. members \in 0 .. MaxMembers /\ MaxMembers \in Nat /\ off \in Nat /\ L \in Nat
  BY <1>1, UnpackAssumption DEF Counters, Asked
<1>3. SUFFICES ASSUME Joinable(todo) PROVE FALSE
  OBVIOUS
<1>4. L \in 1 .. MaxMembers /\ Length(todo) \in Int
      /\ (L = MaxMembers => RoundUp(PlaceOf(todo, L) + todo.members[L].comp) + 2 > Length(todo))
  <2>1. L \in 1 .. MaxMembers
        /\ (L = MaxMembers => RoundUp(PlaceOf(todo, L) + todo.members[L].comp) + 2 > Length(todo))
    BY <1>3 DEF Joinable
  <2>2. L \in 1 .. L /\ todo.members \in Seq(MembersAt) /\ todo.tail \in Nat
    BY <1>1, <1>2, <2>1 DEF Asked
  <2>3. todo.members[L] \in MembersAt
    BY <2>2
  <2>4. PlaceOf(todo, L) \in Nat
    BY <2>2, PlaceNext
  <2>5. Length(todo) \in Int
    BY <1>2, <2>1, <2>2, <2>3, <2>4 DEF Length, MembersAt
  <2> QED BY <2>1, <2>5
<1>5. /\ members < L => Magic(todo, off) /\ off + 2 <= Length(todo)
      /\ members > 0 /\ members = L => off = RoundUp(PlaceOf(todo, L) + todo.members[L].comp)
  BY <1>1, ChainGoesOn
<1>6. CASE members = 0 /\ (off + 2 > Length(todo) \/ ~Magic(todo, off))
  <2>1. members < L
    BY <1>4, <1>6
  <2> QED BY <1>2, <1>4, <1>5, <1>6, <2>1
<1>7. CASE members >= MaxMembers /\ off + 2 <= Length(todo)
  <2>1. members = L /\ L = MaxMembers /\ members > 0
    BY <1>1, <1>2, <1>4, <1>7
  <2> QED BY <1>2, <1>4, <1>5, <1>7, <2>1
<1> QED BY <1>6, <1>7

-----------------------------------------------------------------------------
(* What the steps do.                                                      *)
LEMMA LimitIsNat == MaxMembers \in Nat /\ 0 \in 0 .. MaxMembers
BY UnpackAssumption

LEMMA ReturnsWhole ==
  ASSUME Unpacked, NEW e \in Ends, NEW I, NEW short \in BOOLEAN, Returns(e, I, short),
         made' \in Seq(Portions), e = "OK" => made' = Whole(todo),
         e \notin {"none", "IO"} /\ ~short => (e = "OK" <=> Fine)
  PROVE  Unpacked'
<1>1. /\ step' = "idle" /\ urc' = e /\ lack' = short /\ off' = 0 /\ members' = 0 /\ cap' = 0
      /\ call' = call /\ todo' = todo
  BY DEF Returns
<1>2. Asked'
  BY <1>1 DEF Unpacked, Asked
<1>3. Counters'
  BY <1>1, LimitIsNat DEF Counters
<1>4. Underway'
  BY <1>1 DEF Underway
<1>5. (Sound(todo))' = Sound(todo) /\ (Joinable(todo))' = Joinable(todo)
      /\ (Whole(todo))' = Whole(todo)
  BY <1>1
<1>6. Fine' = Fine
  BY <1>1, <1>5 DEF Fine
<1>7. Over'
  BY <1>1, <1>5, <1>6 DEF Over
<1> QED BY <1>2, <1>3, <1>4, <1>7 DEF Unpacked

LEMMA FailsWhole ==
  ASSUME Unpacked, NEW e \in Ends, e # "OK", NEW I, NEW short \in BOOLEAN, Fails(e, I, short),
         e # "IO" /\ ~short => ~Fine
  PROVE  Unpacked'
<1>1. Returns(e, I, short) /\ made' = << >>
  BY DEF Fails
<1>2. made' \in Seq(Portions)
  BY <1>1
<1> QED BY <1>1, <1>2, ReturnsWhole

LEMMA BeginsWhole ==
  ASSUME Unpacked, NEW a, NEW p, NEW c \in {"ovl", "join"}, NEW r, NEW next, Begins(c, a, p, r, next),
         cap' \in Nat, a.tail \in Nat, a.members \in Seq(MembersAt),
         \/ c = "ovl" /\ next = "read" /\ Len(a.members) = 1
         \/ c = "join" /\ next = "next" /\ a.members \in Seq(Chains)
  PROVE  Unpacked'
<1>1. /\ call' = c /\ todo' = a /\ made' = << >> /\ off' = 0 /\ members' = 0
      /\ \/ step' = next /\ urc' = "none" /\ lack' = FALSE
         \/ step' = "idle" /\ urc' = "NO_MEM" /\ lack' = TRUE
  BY DEF Begins
<1>2. Asked'
  BY <1>1 DEF Asked
<1>3. Counters'
  <2>1. made' \in Seq(Portions) /\ off' \in Nat
    BY <1>1
  <2>2. lack' \in BOOLEAN /\ urc' \in Ends
    BY <1>1 DEF Ends
  <2> QED BY <1>1, <2>1, <2>2, LimitIsNat DEF Counters
<1>4. Bytes(made') <= cap' /\ PlaceOf(todo', members' + 1) = 0 /\ members' <= Len(todo'.members)
  <2>1. PlaceOf(a, 1) = 0
    BY PlaceFirst
  <2> QED BY <1>1, <2>1, BytesEmpty
<1>5. Sofar' = << >>
  BY <1>1 DEF Sofar
<1>6. Underway'
  <2>1. (Bytes(made))' = Bytes(made') /\ (PlaceOf(todo, members + 1))' = PlaceOf(todo', members' + 1)
    OBVIOUS
  <2>2. \A k \in 1 .. members' : todo'.members[k].good
    BY <1>1
  <2> QED BY <1>1, <1>4, <1>5, <2>1, <2>2 DEF Underway
<1>7. Over'
  BY <1>1 DEF Over
<1> QED BY <1>2, <1>3, <1>6, <1>7 DEF Unpacked

(* A step that moves nothing but the place.                                *)
LEMMA GoesOnWhole ==
  ASSUME Unpacked, NEW next, GoesOn(next), UNCHANGED <<off, members, made>>, cap' \in Nat,
         step # "idle", next # "idle", Bytes(made) <= cap', made = Sofar,
         next # "inflate",
         next = "init" => members < Len(todo.members) /\ (call = "join" => members < MaxMembers)
  PROVE  Unpacked'
<1>1. step' = next /\ UNCHANGED <<call, todo, lack, urc, off, members, made>>
  BY DEF GoesOn
<1>2. Asked' /\ Counters'
  BY <1>1 DEF Unpacked, Asked, Counters
<1>3. Underway'
  <2>1. /\ (Bytes(made))' = Bytes(made) /\ Sofar' = Sofar
        /\ (PlaceOf(todo, members + 1))' = PlaceOf(todo, members + 1)
    BY <1>1 DEF Sofar
  <2> QED BY <1>1, <2>1 DEF Unpacked, Underway
<1>4. Over'
  BY <1>1 DEF Over
<1> QED BY <1>2, <1>3, <1>4 DEF Unpacked

LEMMA JoinEndsWhole ==
  ASSUME Unpacked, call = "join", step # "idle", NEW bad \in {"OK", "NO_MEM", "TRUNCATED"},
         NEW short \in BOOLEAN, JoinEnds(bad, short),
         ~short /\ (members = 0 \/ bad # "OK") => ~Joinable(todo),
         members > 0 /\ bad = "OK" => Joinable(todo) /\ made = Whole(todo)
  PROVE  Unpacked'
<1>1. members \in Nat /\ made \in Seq(Portions)
  BY UnpackAssumption DEF Unpacked, Counters
<1>2. Fine = Joinable(todo)
  BY DEF Fine
<1>3. CASE members = 0
  BY <1>2, <1>3, FailsWhole DEF JoinEnds, Ends
<1>4. CASE members # 0 /\ bad # "OK"
  BY <1>2, <1>4, FailsWhole DEF JoinEnds, Ends
<1>5. CASE members # 0 /\ bad = "OK"
  <2>1. Returns("OK", {}, short) /\ made' = made
    BY <1>5 DEF JoinEnds
  <2>2. Joinable(todo) /\ made = Whole(todo)
    BY <1>1, <1>5
  <2> QED BY <1>1, <1>2, <2>1, <2>2, ReturnsWhole DEF Ends
<1> QED BY <1>3, <1>4, <1>5

LEMMA ElementOf ==
  ASSUME NEW T, NEW s \in Seq(T), NEW k \in 1 .. Len(s)
  PROVE  s[k] \in T
OBVIOUS

LEMMA StartsWhole == ASSUME Unpacked, Taken, LoadOverlay \/ Join PROVE Unpacked'
<1>1. CASE LoadOverlay
  <2>1. PICK k \in DOMAIN ovl.off :
          Begins("ovl", [members |-> <<MemberOf(ovl, k)>>, tail |-> 0], k, "packed", "read")
    BY <1>1 DEF LoadOverlay
  <2>2. /\ ovl.off \in Seq(0 .. Word - 1) /\ ovl.comp \in Seq(0 .. Word - 1)
        /\ ovl.plain \in Seq([out : Nat, good : BOOLEAN])
        /\ Len(ovl.comp) = Len(ovl.off) /\ Len(ovl.plain) = Len(ovl.off)
    <3>1. ovl \in Containers
      BY DEF Taken
    <3> QED BY <3>1, HandleAssumption, UnpackAssumption
  <2>3. MemberOf(ovl, k) \in MembersAt
    <3> DEFINE os == ovl.off
               cs == ovl.comp
               ps == ovl.plain
    <3>1. /\ os \in Seq(0 .. Word - 1) /\ cs \in Seq(0 .. Word - 1)
          /\ ps \in Seq([out : Nat, good : BOOLEAN]) /\ k \in DOMAIN os
          /\ Len(cs) = Len(os) /\ Len(ps) = Len(os)
      BY <2>2
    <3>2. MemberOf(ovl, k) = [comp |-> cs[k], out |-> ps[k].out, good |-> ps[k].good]
      BY DEF MemberOf
    <3> HIDE DEF os, cs, ps
    <3>3. k \in 1 .. Len(cs) /\ k \in 1 .. Len(ps)
      BY <3>1
    <3>4. cs[k] \in 0 .. Word - 1
      BY <3>1, <3>3, ElementOf
    <3>5. ps[k] \in [out : Nat, good : BOOLEAN]
      BY <3>1, <3>3, ElementOf
    <3>6. cs[k] \in Nat /\ ps[k].out \in Nat /\ ps[k].good \in BOOLEAN
      BY <3>4, <3>5
    <3> QED BY <3>2, <3>6 DEF MembersAt
  <2> DEFINE a == [members |-> <<MemberOf(ovl, k)>>, tail |-> 0]
  <2>4. a.tail \in Nat /\ a.members \in Seq(MembersAt) /\ Len(a.members) = 1
    BY <2>3
  <2>5. cap' \in Nat /\ Begins("ovl", a, k, "packed", "read")
    BY <1>1, <2>1 DEF LoadOverlay
  <2> HIDE DEF a
  <2> QED BY <2>4, <2>5, BeginsWhole
<1>2. CASE Join
  <2>1. PICK a \in Archives : Begins("join", a, 1, "plain", "next")
    BY <1>2 DEF Join
  <2>2. a.tail \in Nat /\ a.members \in Seq(Chains) /\ JoinCap \in Nat
    BY UnpackAssumption DEF Chains
  <2>3. a.members \in Seq(MembersAt)
    <3>1. Chains \subseteq MembersAt
      BY DEF Chains, MembersAt
    <3> QED BY <2>2, <3>1
  <2> QED BY <1>2, <2>1, <2>2, <2>3, BeginsWhole DEF Join
<1> QED BY <1>1, <1>2

LEMMA ReadsWhole == ASSUME Unpacked, Places, ReadPacked \/ TakeBuffer PROVE Unpacked'
<1>1. /\ step \in {"read", "buffer"} /\ call = "ovl" /\ made = Sofar /\ Bytes(made) <= cap
      /\ cap \in Nat /\ OvlCap \in Nat /\ members = 0 /\ Len(todo.members) = 1
  <2>1. step \in {"read", "buffer"} /\ call = "ovl"
    BY DEF ReadPacked, TakeBuffer, Places
  <2> QED BY <2>1, UnpackAssumption DEF Unpacked, Underway, Counters
<1>2. Bytes(made) = 0
  <2>1. Sofar = << >>
    BY <1>1 DEF Sofar
  <2> QED BY <1>1, <2>1, BytesEmpty
<1>3. CASE GoesOn("buffer") /\ UNCHANGED <<off, members, cap, made>>
  BY <1>1, <1>3, GoesOnWhole
<1>4. CASE GoesOn("init") /\ UNCHANGED <<off, members, made>> /\ cap' = OvlCap
  BY <1>1, <1>2, <1>4, GoesOnWhole
<1>5. CASE Fails("IO", {"packed"}, FALSE)
  BY <1>5, FailsWhole DEF Ends
<1>6. CASE Fails("NO_MEM", {"packed"}, TRUE)
  BY <1>6, FailsWhole DEF Ends
<1> QED BY <1>3, <1>4, <1>5, <1>6 DEF ReadPacked, TakeBuffer

LEMMA NextWhole == ASSUME Unpacked, Places, NextMember PROVE Unpacked'
<1>1. /\ step = "next" /\ call = "join" /\ made = Sofar /\ Bytes(made) <= cap
      /\ cap \in Nat /\ members <= Len(todo.members) /\ off = PlaceOf(todo, members + 1)
      /\ Asked /\ Counters
  BY DEF NextMember, Places, Unpacked, Underway, Counters
<1>2. members \in Nat /\ MaxMembers \in Nat /\ off \in Nat
  BY <1>1, LimitIsNat DEF Counters
<1>3. Magic(todo, off) => members < Len(todo.members)
  BY <1>1, ChainGoesOn
<1> DEFINE more == off + 2 <= Length(todo)
<1>4. more \/ off + 2 > Length(todo)
  <2>1. Length(todo) \in Int
    <3>1. todo.members \in Seq(MembersAt) /\ todo.tail \in Nat
      BY <1>1 DEF Asked
    <3>2. CASE Len(todo.members) = 0
      BY <3>1, <3>2 DEF Length
    <3>3. CASE Len(todo.members) # 0
      <4>1. Len(todo.members) \in 1 .. Len(todo.members)
        BY <3>1, <3>3
      <4>2. todo.members[Len(todo.members)] \in MembersAt
        BY <3>1, <4>1
      <4>3. PlaceOf(todo, Len(todo.members)) \in Nat
        BY <3>1, <4>1, PlaceNext
      <4> QED BY <3>1, <3>3, <4>2, <4>3 DEF Length, MembersAt
    <3> QED BY <3>2, <3>3
  <2> QED BY <1>2, <2>1
<1> HIDE DEF more
<1>5. CASE ~more
  <2>1. JoinEnds("OK", FALSE) /\ off + 2 > Length(todo)
    BY <1>4, <1>5 DEF NextMember, more
  <2>2. members = 0 => ~Joinable(todo)
    BY <1>1, <2>1, ChainRefused
  <2>3. members > 0 => Joinable(todo) /\ made = Whole(todo)
    BY <1>1, <2>1, ChainWhole
  <2> QED BY <1>1, <2>1, <2>2, <2>3, JoinEndsWhole
<1>6. CASE more /\ members >= MaxMembers
  <2>1. JoinEnds("TRUNCATED", FALSE) /\ off + 2 <= Length(todo)
    BY <1>6 DEF NextMember, more
  <2>2. ~Joinable(todo)
    BY <1>1, <1>6, <2>1, ChainRefused
  <2> QED BY <1>1, <2>1, <2>2, JoinEndsWhole
<1>7. CASE more /\ members < MaxMembers /\ ~Magic(todo, off)
  <2>0. ~(members >= MaxMembers)
    BY <1>2, <1>7
  <2>1. JoinEnds("OK", FALSE)
    BY <1>7, <2>0, Zenon DEF NextMember, more
  <2>2. members = 0 => ~Joinable(todo)
    BY <1>1, <1>7, ChainRefused
  <2>3. members > 0 => Joinable(todo) /\ made = Whole(todo)
    BY <1>1, <1>7, ChainWhole
  <2> QED BY <1>1, <2>1, <2>2, <2>3, JoinEndsWhole
<1>8. CASE more /\ members < MaxMembers /\ Magic(todo, off)
  <2>0. ~(members >= MaxMembers)
    BY <1>2, <1>8
  <2>1. GoesOn("init") /\ UNCHANGED <<off, members, cap, made>>
    BY <1>8, <2>0, Zenon DEF NextMember, more
  <2> QED BY <1>1, <1>3, <1>8, <2>1, GoesOnWhole
<1> QED BY <1>2, <1>5, <1>6, <1>7, <1>8

LEMMA LeavesWhole == ASSUME Unpacked, Leave PROVE Unpacked'
<1>1. /\ step' = "idle" /\ urc' = "none" /\ call' = "join" /\ todo' = Nothing /\ made' = << >>
      /\ lack' = FALSE /\ UNCHANGED <<off, members, cap>> /\ members = 0
  BY DEF Leave, Unpacked, Over
<1>2. Asked'
  BY <1>1 DEF Asked, Nothing
<1>3. Counters'
  <2>1. made' \in Seq(Portions)
    BY <1>1
  <2>2. urc' \in Ends /\ lack' \in BOOLEAN
    BY <1>1 DEF Ends
  <2> QED BY <1>1, <2>1, <2>2 DEF Unpacked, Counters
<1>4. Underway' /\ Over'
  BY <1>1 DEF Underway, Over
<1> QED BY <1>2, <1>3, <1>4 DEF Unpacked

(* The portion that is being made.                                         *)
Portion(x) == [m |-> members + 1, n |-> x]

LEMMA PortionTyped ==
  ASSUME Asked, Counters, members < Len(todo.members), NEW x \in Nat
  PROVE  /\ Portion(x) \in Portions /\ Append(Sofar, Portion(x)) \in Seq(Portions)
         /\ Bytes(Append(Sofar, Portion(x))) = Bytes(Sofar) + x /\ Bytes(Sofar) \in Nat
<1>1. members \in Nat /\ members <= Len(todo.members)
  BY LimitIsNat DEF Counters, Asked
<1>2. Portion(x) \in Portions /\ Portion(x).n = x
  BY <1>1 DEF Portion, Portions
<1>3. Sofar \in Seq(Portions)
  BY <1>1, SofarTyped
<1> QED BY <1>2, <1>3, BytesAppend, BytesAdd

LEMMA InitWhole == ASSUME Unpacked, Places, Init2 PROVE Unpacked'
<1>1. /\ step = "init" /\ made = Sofar /\ Bytes(made) <= cap
      /\ ~lack /\ members < Len(todo.members) /\ Asked /\ Counters /\ call \in {"ovl", "join"}
  BY DEF Init2, Places, Unpacked, Underway
<1>2. CASE GoesOn("inflate") /\ made' = Append(made, [m |-> members + 1, n |-> 0])
           /\ UNCHANGED <<off, members, cap>>
  <2>1. step' = "inflate" /\ UNCHANGED <<call, todo, lack, urc, off, members, cap>>
    BY <1>2 DEF GoesOn
  <2>2. made' = Append(Sofar, Portion(0))
    BY <1>1, <1>2 DEF Portion
  <2>3. made' \in Seq(Portions) /\ Bytes(made') = Bytes(made) + 0 /\ Bytes(made) \in Nat
    BY <1>1, <2>2, PortionTyped
  <2>4. Asked' /\ Counters'
    BY <1>1, <2>1, <2>3 DEF Asked, Counters
  <2>5. Sofar' = Sofar /\ (PlaceOf(todo, members + 1))' = PlaceOf(todo, members + 1)
        /\ Now' = Now /\ (Bytes(made))' = Bytes(made')
    BY <2>1 DEF Sofar, Now
  <2>6. 0 \in 0 .. Now.out
    <3>1. Now \in MembersAt
      BY <1>1, NowTyped
    <3> QED BY <3>1 DEF MembersAt
  <2>7. \E x \in 0 .. Now'.out : made' = Append(Sofar', [m |-> members' + 1, n |-> x])
    BY <2>1, <2>2, <2>5, <2>6 DEF Portion
  <2>8. Bytes(made') <= cap
    BY <1>1, <2>3
  <2>9. Underway'
    BY <1>1, <2>1, <2>5, <2>7, <2>8 DEF Unpacked, Underway
  <2>10. Over'
    BY <2>1 DEF Over
  <2> QED BY <2>4, <2>9, <2>10 DEF Unpacked
<1>3. CASE call = "ovl" /\ Fails("NO_MEM", {"packed", "plain"}, TRUE)
  BY <1>3, FailsWhole DEF Ends
<1>4. CASE call = "join" /\ JoinEnds("NO_MEM", TRUE)
  BY <1>1, <1>4, JoinEndsWhole
<1> QED BY <1>2, <1>3, <1>4 DEF Init2

(* What inflate gives fits in the room and in the member; it ends a sound  *)
(* member with its last byte, and breaks off in one that is not.           *)
LEMMA LeastOfTwo ==
  ASSUME NEW x \in Nat, NEW y \in Nat
  PROVE  Min({x, y}) \in Nat /\ Min({x, y}) <= x /\ Min({x, y}) <= y
         /\ (x <= y => Min({x, y}) = x)
<1>1. \E z \in {x, y} : \A w \in {x, y} : z <= w
  <2>1. CASE x <= y
    BY <2>1
  <2>2. CASE ~(x <= y)
    BY <2>2
  <2> QED BY <2>1, <2>2
<1>2. Min({x, y}) \in {x, y} /\ \A w \in {x, y} : Min({x, y}) <= w
  BY <1>1 DEF Min
<1> QED BY <1>2

LEMMA InflatesFit ==
  ASSUME NEW p \in MembersAt, NEW had \in 0 .. p.out, NEW room \in Nat,
         NEW o \in Inflates(p, had, room)
  PROVE  /\ o.n \in Nat /\ o.n <= room /\ had + o.n \in 0 .. p.out
         /\ o.r = "END" => had + o.n = p.out /\ p.good
         /\ o.r = "BAD" => ~p.good
         /\ o.r \in {"OK", "END", "BAD"}
<1>1. PICK out \in Nat : out = p.out
  BY DEF MembersAt
<1>2. PICK left \in Nat : left = out - had
  BY <1>1
<1>3. PICK n : n = Min({left, room})
  OBVIOUS
<1>4. n \in Nat /\ n <= left /\ n <= room /\ (left <= room => n = left)
  BY <1>3, LeastOfTwo
<1>5. \/ o = [n |-> n, r |-> "OK"]
      \/ o = [n |-> n, r |-> "BAD"] /\ ~p.good
      \/ o = [n |-> n, r |-> "END"] /\ p.good /\ left <= room
  BY <1>1, <1>2, <1>3 DEF Inflates
<1>6. o.n = n /\ had + n \in 0 .. out /\ (left <= room => had + n = out)
  BY <1>1, <1>2, <1>4, <1>5
<1> QED BY <1>1, <1>4, <1>5, <1>6

LEMMA SameSeq ==
  ASSUME NEW T, NEW s \in Seq(T), NEW t, t = [k \in DOMAIN t |-> t[k]], DOMAIN t = 1 .. Len(s),
         \A k \in 1 .. Len(s) : t[k] = s[k]
  PROVE  t = s
<1>1. s = [k \in 1 .. Len(s) |-> s[k]]
  OBVIOUS
<1> QED BY <1>1

LEMMA InflateWhole == ASSUME Unpacked, Places, Inflate PROVE Unpacked'
<1>1. /\ step = "inflate" /\ Bytes(made) <= cap /\ ~lack /\ members < Len(todo.members)
      /\ Asked /\ Counters /\ call \in {"ovl", "join"}
      /\ \A k \in 1 .. members : todo.members[k].good
      /\ call = "ovl"  => members = 0 /\ Len(todo.members) = 1
      /\ call = "join" => off = PlaceOf(todo, members + 1) /\ members < MaxMembers
  BY DEF Inflate, Places, Unpacked, Underway
<1>2. PICK x \in 0 .. Now.out : made = Append(Sofar, Portion(x))
  BY <1>1 DEF Unpacked, Underway, Portion
<1>3. /\ members \in 0 .. MaxMembers /\ members \in Nat /\ MaxMembers \in Nat /\ cap \in Nat
      /\ off \in Nat /\ made \in Seq(Portions) /\ members <= Len(todo.members)
      /\ Len(todo.members) \in Nat /\ DOMAIN todo.members = 1 .. Len(todo.members)
  BY <1>1, LimitIsNat DEF Counters, Asked
<1>4. /\ Now = todo.members[members + 1] /\ Now \in MembersAt /\ Now.out \in Nat
      /\ members + 1 \in 1 .. Len(todo.members)
  BY <1>1, NowTyped DEF MembersAt
<1>5. /\ Sofar \in Seq(Portions) /\ Len(Sofar) = members
      /\ \A k \in 1 .. members : Sofar[k] = [m |-> k, n |-> todo.members[k].out]
  BY <1>1, <1>3, SofarTyped
<1>6. /\ Len(made) = members + 1 /\ made[Len(made)] = Portion(x) /\ made[Len(made)].n = x
      /\ \A d \in Nat : [made EXCEPT ![Len(made)].n = @ + d] = Append(Sofar, Portion(x + d))
  <2>1. Len(made) = members + 1 /\ made[members + 1] = Portion(x)
        /\ \A k \in 1 .. members : made[k] = Sofar[k]
    BY <1>2, <1>3, <1>5
  <2>2. ASSUME NEW d \in Nat
        PROVE  [made EXCEPT ![Len(made)].n = @ + d] = Append(Sofar, Portion(x + d))
    <3> DEFINE e == [made EXCEPT ![members + 1].n = @ + d]
               f == Append(Sofar, Portion(x + d))
    <3>1. made \in Seq(Portions) /\ DOMAIN made = 1 .. members + 1
      BY <1>3, <2>1
    <3>2. DOMAIN e = 1 .. members + 1 /\ e[members + 1] = [made[members + 1] EXCEPT !.n = @ + d]
          /\ \A k \in 1 .. members : e[k] = made[k]
      BY <1>3, <3>1
    <3>3. [made[members + 1] EXCEPT !.n = @ + d] = Portion(x + d)
      BY <2>1 DEF Portion
    <3>4. DOMAIN f = 1 .. members + 1 /\ f[members + 1] = Portion(x + d)
          /\ \A k \in 1 .. members : f[k] = Sofar[k]
      BY <1>3, <1>5
    <3>5. e = [k \in DOMAIN e |-> e[k]]
      BY <3>1
    <3>6. f \in Seq(Portions) /\ Len(f) = members + 1
      <4>1. x + d \in Nat
        BY <1>4
      <4>2. f \in Seq(Portions)
        BY <1>1, <4>1, PortionTyped
      <4> QED BY <1>5, <4>2
    <3> HIDE DEF e, f
    <3>7. \A k \in 1 .. members + 1 : e[k] = f[k]
      BY <1>3, <2>1, <3>2, <3>3, <3>4
    <3>8. e = f
      BY <3>2, <3>5, <3>6, <3>7, SameSeq
    <3> QED BY <2>1, <3>8 DEF e, f
  <2>3. Portion(x).n = x
    BY DEF Portion
  <2> QED BY <2>1, <2>2, <2>3
<1>7. PICK had \in Nat : had = Bytes(made)
  BY <1>3, BytesAdd
<1>8. CASE CannotGrow
  BY <1>1, <1>8, FailsWhole DEF CannotGrow, Ends
<1>9. CASE ~CannotGrow
  <2>1. PICK room : room = IF Full THEN 2 * cap - Bytes(made) ELSE cap - Bytes(made)
    OBVIOUS
  <2>2. PICK o \in Inflates(Now, x, room) : InflateOn(o) \/ EndOvl(o) \/ EndJoin(o) \/ Broken(o)
    BY <1>6, <1>9, <2>1 DEF Inflate
  <2>3. room \in Nat /\ had + room = (IF Full THEN 2 * cap ELSE cap)
    BY <1>1, <1>3, <1>7, <2>1 DEF Full
  <2>4. /\ o.n \in Nat /\ o.n <= room /\ x + o.n \in 0 .. Now.out
        /\ o.r = "END" => x + o.n = Now.out /\ Now.good
        /\ o.r = "BAD" => ~Now.good
    BY <1>4, <2>2, <2>3, InflatesFit
  <2> DEFINE y == x + o.n
  <2>5. y \in Nat /\ y \in 0 .. Now.out
    BY <2>4
  <2>6. ASSUME NEW r, Gave(o, r)
        PROVE  o.r = r /\ made' = Append(Sofar, Portion(y))
    BY <1>6, <2>4, <2>6 DEF Gave, Grown
  <2>7. /\ Append(Sofar, Portion(y)) \in Seq(Portions)
        /\ Bytes(Append(Sofar, Portion(y))) = had + o.n
    <3>1. had = Bytes(Sofar) + x /\ Bytes(Sofar) \in Nat
      BY <1>1, <1>2, <1>7, PortionTyped
    <3>2. Append(Sofar, Portion(y)) \in Seq(Portions)
          /\ Bytes(Append(Sofar, Portion(y))) = Bytes(Sofar) + y
      BY <1>1, <2>5, PortionTyped
    <3> QED BY <2>4, <3>1, <3>2
  <2>8. had + o.n <= (IF Full THEN 2 * cap ELSE cap)
    BY <1>3, <2>3, <2>4
  <2> HIDE DEF y
  <2>9. CASE InflateOn(o)
    <3>1. made' = Append(Sofar, Portion(y)) /\ cap' = (IF Full THEN 2 * cap ELSE cap)
          /\ step' = "inflate" /\ UNCHANGED <<call, todo, lack, urc, off, members>>
      BY <2>6, <2>9 DEF InflateOn, GoesOn
    <3>2. cap' \in Nat /\ Bytes(made') <= cap' /\ made' \in Seq(Portions)
      BY <1>3, <2>7, <2>8, <3>1
    <3>3. Asked' /\ Counters'
      BY <1>1, <3>1, <3>2 DEF Asked, Counters
    <3>4. /\ Sofar' = Sofar /\ (PlaceOf(todo, members + 1))' = PlaceOf(todo, members + 1)
          /\ Now' = Now /\ (Bytes(made))' = Bytes(made')
      BY <3>1 DEF Sofar, Now
    <3>5. \E z \in 0 .. Now'.out : made' = Append(Sofar', [m |-> members' + 1, n |-> z])
      BY <2>5, <3>1, <3>4 DEF Portion
    <3>6. Underway'
      <4>1. /\ ~lack' /\ members' <= Len(todo'.members)
            /\ \A k \in 1 .. members' : todo'.members[k].good
            /\ call' = "ovl"  => members' = 0 /\ Len(todo'.members) = 1
            /\ call' = "join" => off' = PlaceOf(todo, members + 1)
            /\ members' < Len(todo'.members) /\ (call' = "join" => members' < MaxMembers)
        BY <1>1, <1>3, <3>1
      <4> QED BY <3>1, <3>2, <3>4, <3>5, <4>1 DEF Underway
    <3>7. Over'
      BY <3>1 DEF Over
    <3> QED BY <3>3, <3>6, <3>7 DEF Unpacked
  <2>10. CASE EndOvl(o)
    <3>1. call = "ovl" /\ Returns("OK", {"stream", "packed"}, FALSE)
          /\ made' = Append(Sofar, Portion(y)) /\ y = Now.out /\ Now.good
      BY <2>4, <2>6, <2>10 DEF EndOvl, y
    <3>2. members = 0 /\ Len(todo.members) = 1 /\ Now = todo.members[1]
      BY <1>1, <1>4, <3>1
    <3>3. Sofar = << >> /\ Portion(y) = [m |-> 1, n |-> todo.members[1].out]
      BY <1>5, <3>1, <3>2 DEF Portion
    <3>4. made' = Whole(todo)
      <4>1. made' = <<[m |-> 1, n |-> todo.members[1].out]>>
        BY <3>1, <3>3
      <4>2. DOMAIN todo.members = 1 .. 1
        BY <1>3, <3>2
      <4>3. Whole(todo) = [k \in 1 .. 1 |-> [m |-> k, n |-> todo.members[k].out]]
        BY <4>2 DEF Whole
      <4>4. [k \in 1 .. 1 |-> [m |-> k, n |-> todo.members[k].out]]
              = <<[m |-> 1, n |-> todo.members[1].out]>>
        OBVIOUS
      <4> QED BY <4>1, <4>3, <4>4
    <3>5. Sound(todo)
      BY <1>3, <3>1, <3>2 DEF Sound
    <3>6. Fine
      BY <3>1, <3>5 DEF Fine
    <3>7. made' \in Seq(Portions) /\ "OK" \in Ends
      BY <2>7, <3>1 DEF Ends
    <3> QED BY <3>1, <3>4, <3>6, <3>7, ReturnsWhole
  <2>11. CASE EndJoin(o)
    <3>1. /\ call = "join" /\ made' = Append(Sofar, Portion(y)) /\ y = Now.out /\ Now.good
          /\ cap' = (IF Full THEN 2 * cap ELSE cap) /\ members' = members + 1
          /\ off' = RoundUp(off + Now.comp) /\ step' = "next"
          /\ UNCHANGED <<call, todo, lack, urc>>
      BY <2>4, <2>6, <2>11 DEF EndJoin, GoesOn, y
    <3>2. cap' \in Nat /\ Bytes(made') <= cap' /\ made' \in Seq(Portions)
      BY <1>3, <2>7, <2>8, <3>1
    <3>3. off' = PlaceOf(todo, members + 2) /\ off' \in Nat /\ off = PlaceOf(todo, members + 1)
      <4>1. off' = PlaceOf(todo, members + 2) /\ off = PlaceOf(todo, members + 1)
        BY <1>1, <1>3, <3>1, ChainGoesOn
      <4>2. off + Now.comp \in Nat
        BY <1>3, <1>4 DEF MembersAt
      <4> QED BY <3>1, <4>1, <4>2, Rounds
    <3>4. Asked'
      BY <1>1, <3>1 DEF Asked
    <3>5. members' \in 0 .. MaxMembers
      BY <1>1, <1>3, <3>1
    <3>6. Counters'
      BY <1>1, <3>1, <3>2, <3>3, <3>5 DEF Counters
    <3>7. made' = Sofar'
      <4>1. Sofar' = [k \in 1 .. members + 1 |-> [m |-> k, n |-> todo.members[k].out]]
        BY <3>1 DEF Sofar
      <4> DEFINE f == Append(Sofar, Portion(y))
                 e == [k \in 1 .. members + 1 |-> [m |-> k, n |-> todo.members[k].out]]
      <4>2. DOMAIN f = 1 .. members + 1 /\ f[members + 1] = Portion(y)
            /\ \A k \in 1 .. members : f[k] = Sofar[k]
        BY <1>3, <1>5
      <4>3. f \in Seq(Portions) /\ Len(f) = members + 1
        BY <1>5, <2>7
      <4>4. Portion(y) = [m |-> members + 1, n |-> todo.members[members + 1].out]
        BY <1>4, <3>1 DEF Portion
      <4> HIDE DEF f
      <4>5. \A k \in 1 .. members + 1 : f[k] = e[k]
        BY <1>3, <1>5, <4>2, <4>4
      <4>6. e = f
        <5>1. DOMAIN e = 1 .. members + 1 /\ e = [k \in DOMAIN e |-> e[k]]
          OBVIOUS
        <5> HIDE DEF e
        <5> QED BY <4>3, <4>5, <5>1, SameSeq
      <4> QED BY <3>1, <4>1, <4>6 DEF f
    <3>8. \A k \in 1 .. members' : todo'.members[k].good
      BY <1>1, <1>3, <1>4, <3>1
    <3>9. (PlaceOf(todo, members + 1))' = PlaceOf(todo, (members + 1) + 1)
          /\ (members + 1) + 1 = members + 2 /\ (Bytes(made))' = Bytes(made')
      BY <1>3, <3>1
    <3>10. members' <= Len(todo'.members)
      BY <1>1, <1>3, <3>1
    <3>11. Underway'
      BY <1>1, <3>1, <3>2, <3>3, <3>7, <3>8, <3>9, <3>10 DEF Underway
    <3>12. Over'
      BY <3>1 DEF Over
    <3> QED BY <3>4, <3>6, <3>11, <3>12 DEF Unpacked
  <2>12. CASE Broken(o)
    <3>1. ~Now.good
      BY <2>4, <2>12 DEF Broken
    <3>2. ~Sound(todo)
      BY <1>3, <1>4, <3>1 DEF Sound
    <3>3. ~Fine
      BY <3>2 DEF Fine, Joinable
    <3> QED BY <1>1, <2>12, <3>3, FailsWhole DEF Broken, Ends
  <2> QED BY <2>2, <2>9, <2>10, <2>11, <2>12
<1> QED BY <1>8, <1>9

-----------------------------------------------------------------------------
LEMMA UnpackedInit == SystemInit => Unpacked
<1> SUFFICES ASSUME SystemInit PROVE Unpacked
  OBVIOUS
<1>1. /\ call = "join" /\ step = "idle" /\ todo = Nothing /\ off = 0 /\ members = 0
      /\ cap = 0 /\ made = << >> /\ lack = FALSE /\ urc = "none"
  BY DEF SystemInit, UnpackInit
<1>2. Asked
  BY <1>1 DEF Asked, Nothing
<1>3. Counters
  <2>1. made \in Seq(Portions)
    BY <1>1
  <2> QED BY <1>1, <2>1, LimitIsNat DEF Counters, Ends
<1>4. Underway /\ Over
  BY <1>1 DEF Underway, Over
<1> QED BY <1>2, <1>3, <1>4 DEF Unpacked

LEMMA UnpackedStep == Kept /\ Taken /\ Unpacked /\ [SystemNext]_systemVars => Unpacked'
<1> SUFFICES ASSUME Kept, Taken, Unpacked, [SystemNext]_systemVars PROVE Unpacked'
  OBVIOUS
<1>1. CASE UNCHANGED unpackVars
  <2>1. UNCHANGED <<call, step, todo, mem, off, members, cap, made, lack, urc>>
    BY <1>1 DEF unpackVars
  <2>2. /\ (Sound(todo))' = Sound(todo) /\ (Joinable(todo))' = Joinable(todo)
        /\ (Whole(todo))' = Whole(todo) /\ (Bytes(made))' = Bytes(made)
        /\ (PlaceOf(todo, members + 1))' = PlaceOf(todo, members + 1)
    BY <2>1
  <2>3. Fine' = Fine /\ Sofar' = Sofar /\ Now' = Now
    BY <2>1, <2>2 DEF Fine, Sofar, Now
  <2>4. Asked' /\ Counters'
    BY <2>1 DEF Unpacked, Asked, Counters
  <2>5. Underway'
    BY <2>1, <2>2, <2>3 DEF Unpacked, Underway
  <2>6. Over'
    BY <2>1, <2>2, <2>3 DEF Unpacked, Over
  <2> QED BY <2>4, <2>5, <2>6 DEF Unpacked
<1>2. CASE Boots \/ Opens \/ UNCHANGED systemVars
  BY <1>1, <1>2 DEF Boots, Opens, systemVars
<1>3. CASE Unpacks
  BY <1>3, StartsWhole, ReadsWhole, NextWhole, InitWhole, InflateWhole, LeavesWhole
     DEF Unpacks, UnpackNext, Kept
<1> QED BY <1>2, <1>3 DEF SystemNext

LEMMA UnpackedMembers == Kept /\ Taken /\ Unpacked => MembersWhole
<1> SUFFICES ASSUME Kept, Taken, Unpacked PROVE MembersWhole
  OBVIOUS
<1>1. MembersApart
  BY TakenApart
<1>2. UnpackTypeOK
  BY DEF UnpackTypeOK, Unpacked, Counters, Portions, Ends, Kept, Places, Steps, Taken
<1>3. step = "idle" /\ urc = "OK" => made = Whole(todo)
  BY DEF Unpacked, Over
<1>4. step = "idle" /\ urc \notin {"none", "IO"} /\ ~lack =>
        (urc = "OK" <=> IF call = "ovl" THEN Sound(todo) ELSE Joinable(todo))
  BY DEF Unpacked, Over, Fine
<1> QED BY <1>1, <1>2, <1>3, <1>4 DEF MembersWhole

(* Whatever a container or a chain holds, and however often the buffer     *)
(* grew: a call that ends well has given each member's bytes, whole and in *)
(* order, and it ends well whenever there was memory and the archive is    *)
(* sound (gt2_ovl_read_member, gt2_gunzip_join).                           *)
THEOREM MembersComeWhole == SystemSpec => []MembersWhole
<1>1. SystemInit => Kept /\ Taken /\ Unpacked
  BY KeptInit, TakenInit, UnpackedInit
<1>2. Kept /\ Taken /\ Unpacked /\ [SystemNext]_systemVars => (Kept /\ Taken /\ Unpacked)'
  BY KeptStep, TakenStep, UnpackedStep
<1>3. Kept /\ Taken /\ Unpacked => MembersWhole
  BY UnpackedMembers
<1> QED BY <1>1, <1>2, <1>3, PTL DEF SystemSpec

-----------------------------------------------------------------------------
LEMMA StepUp ==
  ASSUME NEW n \in Nat, NEW Good \in SUBSET (0 .. n), 0 \in Good,
         \A k \in 0 .. n - 1 : k \in Good => k + 1 \in Good
  PROVE  Good = 0 .. n
<1> DEFINE Next1 == {i \in 1 .. n + 1 : i - 1 \in Good}
<1>1. n + 1 \in Nat /\ Next1 \in SUBSET (1 .. n + 1) /\ 1 \in Next1
  OBVIOUS
<1>2. ASSUME NEW i \in 1 .. (n + 1) - 1, i \in Next1 PROVE i + 1 \in Next1
  <2>1. i - 1 \in Good /\ i - 1 \in 0 .. n - 1 /\ (i - 1) + 1 = i
    BY <1>2
  <2>2. i \in Good /\ (i + 1) - 1 = i /\ i + 1 \in 1 .. n + 1
    BY <2>1
  <2> QED BY <2>2
<1>3. Next1 = 1 .. n + 1
  <2> HIDE DEF Next1
  <2> QED BY <1>1, <1>2, StepByStep
<1>4. ASSUME NEW k \in 0 .. n PROVE k \in Good
  <2>1. k + 1 \in Next1 /\ (k + 1) - 1 = k
    BY <1>3
  <2> QED BY <2>1
<1> QED BY <1>4

Header == [flag : Nat, clen : Nat, cw : Nat, ch : Nat, ilen : Nat, w : Nat, h : Nat]
Data(d) ==
  /\ d.len \in Nat /\ DOMAIN d.heads \in SUBSET Nat
  /\ \A o \in DOMAIN d.heads : d.heads[o] \in Header

(* What makes bytes an image, and what is said of it.                      *)
Fits(d, o, overshoot) ==
  LET h == d.heads[o]
      p == o + 8 + ClutBytes(h)
  IN  /\ o + 8 <= d.len /\ o \in DOMAIN d.heads
      /\ h.flag <= 15 /\ Mode(h) <= 3
      /\ HasClut(h) => ~BadClut(h, o + 8, d.len) /\ ~OddClut(h)
      /\ p + 12 <= d.len /\ h.ilen >= 12 /\ ~OddImage(h)
      /\ overshoot \/ p + h.ilen <= d.len
      /\ h.ilen <= ImageMax

LEMMA ImageFits ==
  ASSUME NEW d, NEW o \in Nat, NEW overshoot \in BOOLEAN, Data(d)
  PROVE  /\ Extent(d, o, overshoot).st = "OK" <=> Fits(d, o, overshoot)
         /\ Fits(d, o, overshoot) =>
              LET h == d.heads[o] IN
              Extent(d, o, overshoot) =
                [st |-> "OK", off |-> o, total |-> ImageBytes(h), mode |-> Mode(h),
                 clut |-> HasClut(h), colours |-> Colours(h), clutAt |-> o + 20,
                 cw |-> h.cw, ch |-> h.ch, pix |-> o + 8 + ClutBytes(h) + 12,
                 pixLen |-> h.ilen - 12, w |-> h.w, h |-> h.h]
<1> DEFINE h == d.heads[o]
           p == o + 8 + ClutBytes(h)
           cut == o + 8 > d.len
           none == o \notin DOMAIN d.heads
           odd == h.flag > 15 \/ Mode(h) > 3
           badClut == HasClut(h) /\ BadClut(h, o + 8, d.len)
           oddClut == HasClut(h) /\ OddClut(h)
           bad == p + 12 > d.len \/ h.ilen < 12
           oddImage == OddImage(h)
           over == ~overshoot /\ p + h.ilen > d.len
           huge == h.ilen > ImageMax
           e == [st |-> "OK", off |-> o, total |-> ImageBytes(h), mode |-> Mode(h),
                 clut |-> HasClut(h), colours |-> Colours(h), clutAt |-> o + 20,
                 cw |-> h.cw, ch |-> h.ch, pix |-> p + 12,
                 pixLen |-> h.ilen - 12, w |-> h.w, h |-> h.h]
<1>1. Extent(d, o, overshoot) =
        IF cut THEN NoImage("TRUNCATED") ELSE IF none THEN NoImage("MAGIC")
        ELSE IF odd THEN NoImage("MODE") ELSE IF badClut THEN NoImage("TRUNCATED")
        ELSE IF oddClut THEN NoImage("MODE") ELSE IF bad THEN NoImage("TRUNCATED")
        ELSE IF oddImage THEN NoImage("MODE") ELSE IF over THEN NoImage("TRUNCATED")
        ELSE IF huge THEN NoImage("TRUNCATED") ELSE e
  BY DEF Extent
<1>2. \A x \in {"TRUNCATED", "MAGIC", "MODE"} : NoImage(x).st # "OK"
  BY DEF NoImage
<1>3. e.st = "OK"
  OBVIOUS
<1>4. ImageMax \in Nat /\ d.len \in Nat /\ o \in Nat /\ (~none => h \in Header)
  BY DEF Data, ImageMax
<1>5. ASSUME h \in Header PROVE ClutBytes(h) \in Nat /\ Mode(h) \in Nat /\ h.flag \in Nat /\ h.ilen \in Nat
  BY <1>5 DEF Header, ClutBytes, Mode
<1>6. Fits(d, o, overshoot) <=>
        ~cut /\ ~none /\ ~odd /\ ~badClut /\ ~oddClut /\ ~bad /\ ~oddImage /\ ~over /\ ~huge
  <2>1. CASE none
    BY <2>1 DEF Fits
  <2>2. CASE ~none
    <3>1. h \in Header /\ p \in Nat /\ ClutBytes(h) \in Nat /\ Mode(h) \in Nat
          /\ h.flag \in Nat /\ h.ilen \in Nat
      BY <1>4, <1>5, <2>2
    <3> HIDE DEF h, p
    <3>2. /\ (o + 8 <= d.len <=> ~(o + 8 > d.len))
          /\ (h.flag <= 15 <=> ~(h.flag > 15)) /\ (Mode(h) <= 3 <=> ~(Mode(h) > 3))
          /\ (p + 12 <= d.len <=> ~(p + 12 > d.len)) /\ (h.ilen >= 12 <=> ~(h.ilen < 12))
          /\ (p + h.ilen <= d.len <=> ~(p + h.ilen > d.len))
          /\ (h.ilen <= ImageMax <=> ~(h.ilen > ImageMax))
      BY <1>4, <3>1
    <3> QED BY <2>2, <3>2, Zenon DEF Fits, h, p
  <2> QED BY <2>1, <2>2
<1> HIDE DEF cut, none, odd, badClut, oddClut, bad, oddImage, over, huge, e
<1>7. Fits(d, o, overshoot) => Extent(d, o, overshoot) = e
  BY <1>1, <1>6
<1>8. ~Fits(d, o, overshoot) => Extent(d, o, overshoot).st # "OK"
  BY <1>1, <1>2, <1>6
<1> QED BY <1>3, <1>7, <1>8 DEF e, p, h

LEMMA ImageIs ==
  ASSUME NEW d, NEW o \in Nat, NEW overshoot \in BOOLEAN, Data(d)
  PROVE  LET e == Extent(d, o, overshoot)
             h == d.heads[o]
         IN  /\ e.st = "OK" <=> Fits(d, o, overshoot)
             /\ Fits(d, o, overshoot) =>
                  /\ e.off = o /\ e.total = ImageBytes(h) /\ e.mode = Mode(h)
                  /\ e.clut = HasClut(h) /\ e.colours = Colours(h) /\ e.clutAt = o + 20
                  /\ e.cw = h.cw /\ e.ch = h.ch
                  /\ e.pix = o + 8 + ClutBytes(h) + 12 /\ e.pixLen = h.ilen - 12
                  /\ e.w = h.w /\ e.h = h.h
<1> DEFINE e == Extent(d, o, overshoot)
           h == d.heads[o]
<1>1. e.st = "OK" <=> Fits(d, o, overshoot)
  BY ImageFits
<1>2. Fits(d, o, overshoot) =>
        e = [st |-> "OK", off |-> o, total |-> ImageBytes(h), mode |-> Mode(h),
             clut |-> HasClut(h), colours |-> Colours(h), clutAt |-> o + 20,
             cw |-> h.cw, ch |-> h.ch, pix |-> o + 8 + ClutBytes(h) + 12,
             pixLen |-> h.ilen - 12, w |-> h.w, h |-> h.h]
  BY ImageFits
<1> HIDE DEF e, h
<1>3. Fits(d, o, overshoot) =>
        /\ e.off = o /\ e.total = ImageBytes(h) /\ e.mode = Mode(h)
        /\ e.clut = HasClut(h) /\ e.colours = Colours(h) /\ e.clutAt = o + 20
        /\ e.cw = h.cw /\ e.ch = h.ch
        /\ e.pix = o + 8 + ClutBytes(h) + 12 /\ e.pixLen = h.ilen - 12
        /\ e.w = h.w /\ e.h = h.h
  BY <1>2
<1> QED BY <1>1, <1>3 DEF e, h

(* As count, info and decode ask for it: whole.                            *)
IsImage(d, o) == Fits(d, o, FALSE)

LEMMA WholeImage ==
  ASSUME NEW d, NEW o \in Nat, Data(d)
  PROVE  LET e == ImageAt(d, o)
             h == d.heads[o]
         IN  /\ e.st = "OK" <=> IsImage(d, o)
             /\ IsImage(d, o) =>
                  /\ e.off = o /\ e.total = ImageBytes(h) /\ e.mode = Mode(h)
                  /\ e.clut = HasClut(h) /\ e.colours = Colours(h) /\ e.clutAt = o + 20
                  /\ e.cw = h.cw /\ e.ch = h.ch
                  /\ e.pix = o + 8 + ClutBytes(h) + 12 /\ e.pixLen = h.ilen - 12
                  /\ e.w = h.w /\ e.h = h.h
BY ImageIs, Zenon DEF ImageAt, IsImage

(* As a logo is looked for.                                                *)
IsHead(d, o) == Fits(d, o, TRUE)

LEMMA HeadImage ==
  ASSUME NEW d, NEW o \in Nat, Data(d)
  PROVE  /\ HeadAt(d, o).st = "OK" <=> IsHead(d, o)
         /\ IsHead(d, o) => HeadAt(d, o).clut = HasClut(d.heads[o])
BY ImageIs, Zenon DEF HeadAt, IsHead

(* An image lies inside its data, its colours in front of its pixels.      *)
LEMMA ImageInside ==
  ASSUME NEW d, NEW o \in Nat, Data(d), ImageAt(d, o).st = "OK"
  PROVE  LET e == ImageAt(d, o) IN
         /\ e.off = o /\ e.total \in Nat /\ e.total > 0 /\ o + e.total <= d.len
         /\ e.clut => e.clutAt + 2 * e.colours <= e.pix - 12
         /\ e.pix + e.pixLen = o + e.total
<1> DEFINE h == d.heads[o]
           e == ImageAt(d, o)
           c == ClutBytes(h)
<1>1. IsImage(d, o) /\ h \in Header /\ d.len \in Nat
  BY WholeImage DEF Data, IsImage, Fits
<1>2. /\ e.off = o /\ e.total = ImageBytes(h) /\ e.clut = HasClut(h)
      /\ e.colours = Colours(h) /\ e.clutAt = o + 20
      /\ e.pix = o + 8 + c + 12 /\ e.pixLen = h.ilen - 12
  BY <1>1, WholeImage
<1>3. /\ h.ilen \in Nat /\ h.clen \in Nat /\ h.ilen >= 12 /\ c \in Nat
      /\ o + 8 + c + h.ilen <= d.len
  BY <1>1 DEF IsImage, Fits, Header, ClutBytes
<1>4. HasClut(h) => c = h.clen /\ h.clen >= 12
  BY <1>1 DEF IsImage, Fits, BadClut, ClutBytes, Header
<1>5. ImageBytes(h) = 8 + c + h.ilen
  BY DEF ImageBytes
<1>6. HasClut(h) => Colours(h) \in Nat /\ 2 * Colours(h) <= c - 12
  <2> SUFFICES ASSUME HasClut(h) PROVE Colours(h) \in Nat /\ 2 * Colours(h) <= c - 12
    OBVIOUS
  <2>1. Colours(h) = (h.clen - 12) \div 2 /\ h.clen - 12 \in Nat
    BY <1>3, <1>4 DEF Colours
  <2>2. \A n \in Nat : n \div 2 \in Nat /\ 2 * (n \div 2) <= n
    OBVIOUS
  <2> QED BY <1>4, <2>1, <2>2
<1> HIDE DEF e, h, c
<1>7. e.total \in Nat /\ e.total > 0 /\ o + e.total <= d.len /\ e.pix + e.pixLen = o + e.total
  BY <1>1, <1>2, <1>3, <1>5
<1>8. e.clut => e.clutAt + 2 * e.colours <= e.pix - 12
  BY <1>2, <1>3, <1>6
<1> QED BY <1>2, <1>7, <1>8 DEF e

(* The same head, wherever it stands, describes the same image, if there   *)
(* are bytes enough.                                                       *)
LEMMA SameImage ==
  ASSUME NEW d, NEW o \in Nat, Data(d), ImageAt(d, o).st = "OK",
         NEW f, NEW q \in Nat, Data(f), q \in DOMAIN f.heads, f.heads[q] = d.heads[o],
         q + ImageAt(d, o).total <= f.len
  PROVE  ImageAt(f, q).st = "OK" /\ ImageAt(f, q).total = ImageAt(d, o).total
<1> DEFINE h == d.heads[o]
           c == ClutBytes(h)
<1>1. IsImage(d, o) /\ h \in Header /\ d.len \in Nat /\ f.len \in Nat
  BY WholeImage DEF Data, IsImage, Fits
<1>2. ImageAt(d, o).total = ImageBytes(h)
  BY <1>1, WholeImage
<1>3. /\ h.ilen \in Nat /\ h.clen \in Nat /\ h.ilen >= 12 /\ c \in Nat
      /\ q + 8 + c + h.ilen <= f.len
  <2>1. h.ilen \in Nat /\ h.clen \in Nat /\ h.ilen >= 12 /\ c \in Nat
    BY <1>1 DEF IsImage, Fits, Header, ClutBytes
  <2>2. q + (8 + c + h.ilen) <= f.len
    BY <1>2 DEF ImageBytes
  <2> QED BY <1>1, <2>1, <2>2
<1>4. HasClut(h) => ~BadClut(h, q + 8, f.len)
  <2> SUFFICES ASSUME HasClut(h) PROVE ~BadClut(h, q + 8, f.len)
    OBVIOUS
  <2>1. c = h.clen /\ ~(h.clen < 12)
    BY <1>1 DEF IsImage, Fits, BadClut, ClutBytes
  <2>2. ~(q + 8 + 12 > f.len) /\ ~(q + 8 + h.clen > f.len)
    BY <1>1, <1>3, <2>1
  <2> QED BY <2>1, <2>2 DEF BadClut
<1>5. q + 8 <= f.len /\ q + 8 + c + 12 <= f.len
  BY <1>1, <1>3
<1>6. IsImage(f, q)
  BY <1>1, <1>3, <1>4, <1>5 DEF IsImage, Fits
<1>7. ImageAt(f, q).st = "OK" /\ ImageAt(f, q).total = ImageBytes(f.heads[q])
  BY <1>6, WholeImage
<1> QED BY <1>2, <1>7

(* What is written of an image reads as that image.                        *)
LEMMA EncodesBack ==
  ASSUME NEW d, NEW o \in Nat, Data(d), ImageAt(d, o).st = "OK"
  PROVE  LET e == ImageAt(d, o)
             again == ImageAt([len |-> d.len, heads |-> OnlyAt(e.off, Encode(e))], e.off)
         IN  \A f \in {"mode", "clut", "colours", "w", "h", "pixLen"} : again[f] = e[f]
<1> DEFINE h == d.heads[o]
           e == ImageAt(d, o)
           g == Encode(e)
           f == [len |-> d.len, heads |-> OnlyAt(o, g)]
<1>1. IsImage(d, o) /\ h \in Header /\ d.len \in Nat
  BY WholeImage DEF Data, IsImage, Fits
<1>2. /\ e.off = o /\ e.mode = Mode(h) /\ e.clut = HasClut(h)
      /\ e.colours = Colours(h) /\ e.cw = h.cw /\ e.ch = h.ch
      /\ e.pixLen = h.ilen - 12 /\ e.w = h.w /\ e.h = h.h
  BY <1>1, WholeImage
<1>3. /\ h.flag \in Nat /\ h.clen \in Nat /\ h.cw \in Nat /\ h.ch \in Nat /\ h.ilen \in Nat
      /\ h.w \in Nat /\ h.h \in Nat
  BY <1>1 DEF Header
<1>4. Mode(h) \in 0 .. 3
  BY <1>1, <1>3 DEF IsImage, Fits, Mode
<1>5. HasClut(h) \in BOOLEAN
  BY DEF HasClut
<1>6. Colours(h) \in Nat /\ (HasClut(h) => Colours(h) \in 1 .. 256 /\ 12 + 2 * Colours(h) <= h.clen)
  <2>1. CASE HasClut(h)
    <3>1. Colours(h) = (h.clen - 12) \div 2 /\ h.clen - 12 \in Nat /\ Colours(h) \in 1 .. 256
      BY <1>1, <1>3, <2>1 DEF Colours, IsImage, Fits, BadClut, OddClut
    <3>2. \A n \in Nat : n \div 2 \in Nat /\ 2 * (n \div 2) <= n
      OBVIOUS
    <3> QED BY <1>3, <3>1, <3>2
  <2>2. CASE ~HasClut(h)
    BY <2>2 DEF Colours
  <2> QED BY <2>1, <2>2
<1>7. /\ g.flag = Mode(h) + (IF HasClut(h) THEN 8 ELSE 0)
      /\ g.clen = (IF HasClut(h) THEN 12 + 2 * Colours(h) ELSE 0)
      /\ g.cw = h.cw /\ g.ch = h.ch /\ g.ilen = 12 + (h.ilen - 12) /\ g.w = h.w /\ g.h = h.h
      /\ g = [flag |-> g.flag, clen |-> g.clen, cw |-> g.cw, ch |-> g.ch,
              ilen |-> g.ilen, w |-> g.w, h |-> g.h]
  BY <1>2 DEF Encode
<1> HIDE DEF e, h, g
<1>8. g.ilen = h.ilen /\ g.flag \in Nat /\ g.clen \in Nat
  BY <1>3, <1>4, <1>6, <1>7
<1>9. g \in Header
  BY <1>3, <1>7, <1>8 DEF Header
<1>10. /\ HasClut(g) = HasClut(h) /\ Mode(g) = Mode(h) /\ g.flag <= 15
  BY <1>4, <1>5, <1>7 DEF HasClut, Mode
<1>11. Colours(g) = Colours(h)
  <2>1. CASE HasClut(h)
    <3>1. Colours(g) = ((12 + 2 * Colours(h)) - 12) \div 2
      BY <1>7, <1>10, <2>1 DEF Colours
    <3> QED BY <1>6, <3>1
  <2>2. CASE ~HasClut(h)
    BY <1>10, <2>2 DEF Colours
  <2> QED BY <2>1, <2>2
<1>12. ClutBytes(g) \in Nat /\ ClutBytes(h) \in Nat /\ ClutBytes(g) <= ClutBytes(h)
       /\ (HasClut(g) => ClutBytes(g) = g.clen /\ g.clen >= 12)
  BY <1>3, <1>6, <1>7, <1>8, <1>10 DEF ClutBytes
<1>13. f.len = d.len /\ DOMAIN f.heads = {o} /\ f.heads[o] = g
  BY DEF OnlyAt
<1>14. Data(f)
  BY <1>1, <1>9, <1>13 DEF Data
<1>15. /\ o + 8 <= d.len /\ h.ilen >= 12 /\ o + 8 + ClutBytes(h) + h.ilen <= d.len
       /\ h.ilen <= ImageMax /\ ~OddImage(h) /\ (HasClut(h) => ~OddClut(h))
  BY <1>1 DEF IsImage, Fits, h
<1>16. o + 8 + ClutBytes(g) + g.ilen <= d.len /\ o + 8 + ClutBytes(g) + 12 <= d.len
       /\ (HasClut(g) => o + 8 + 12 <= d.len)
  BY <1>1, <1>3, <1>8, <1>12, <1>15
<1>17. HasClut(g) => ~BadClut(g, o + 8, d.len)
  <2> SUFFICES ASSUME HasClut(g) PROVE ~BadClut(g, o + 8, d.len)
    OBVIOUS
  <2>1. ~(o + 8 + g.clen > d.len) /\ ~(g.clen < 12)
    BY <1>1, <1>3, <1>8, <1>12, <1>16
  <2> QED BY <1>1, <1>16, <2>1 DEF BadClut
<1>18. (HasClut(g) => ~OddClut(g)) /\ ~OddImage(g)
  BY <1>7, <1>10, <1>11, <1>15 DEF OddClut, OddImage
<1>19. Mode(g) <= 3
  BY <1>4, <1>10
<1>20. IsImage(f, o)
  <2> HIDE DEF f
  <2> QED BY <1>8, <1>10, <1>13, <1>15, <1>16, <1>17, <1>18, <1>19 DEF IsImage, Fits
<1>21. LET again == ImageAt(f, o) IN
       /\ again.mode = Mode(g) /\ again.clut = HasClut(g) /\ again.colours = Colours(g)
       /\ again.w = g.w /\ again.h = g.h /\ again.pixLen = g.ilen - 12
  <2> HIDE DEF f
  <2> QED BY <1>13, <1>14, <1>20, WholeImage
<1> DEFINE again == ImageAt(f, o)
<1> HIDE DEF again
<1>22. again.mode = e.mode /\ again.clut = e.clut /\ again.colours = e.colours
       /\ again.w = e.w /\ again.h = e.h /\ again.pixLen = e.pixLen
  BY <1>2, <1>7, <1>8, <1>10, <1>11, <1>21 DEF again
<1>23. \A x \in {"mode", "clut", "colours", "w", "h", "pixLen"} : again[x] = e[x]
  BY <1>22
<1> QED BY <1>2, <1>23 DEF again, e, g

(* A scan forward: v[o] is what stands at o and to[o] where to go on, up   *)
(* to a place of `stop', which every one from n on is.                     *)
Scan(n, stop, to) ==
  /\ n \in Nat /\ stop \in SUBSET Nat /\ \A o \in Nat : o >= n => o \in stop
  /\ \A o \in Nat : o \notin stop => to[o] \in Nat /\ to[o] > o
Scans(f, stop, v, to) ==
  f = [o \in Nat |-> IF o \in stop THEN << >> ELSE <<v[o]>> \o f[to[o]]]

LEMMA ScanExists ==
  ASSUME NEW n, NEW stop, NEW v, NEW to, Scan(n, stop, to)
  PROVE  \E f : Scans(f, stop, v, to)
<1> DEFINE Is(f, o) == f[o] = IF o \in stop THEN << >> ELSE <<v[o]>> \o f[to[o]]
           On(f, k) == f = [o \in Nat |-> f[o]] /\ \A o \in Nat : o >= n - k => Is(f, o)
           Good == {k \in 0 .. n : \E f : On(f, k)}
<1>0. n \in Nat
  BY DEF Scan
<1>1. 0 \in Good
  <2> DEFINE f == [o \in Nat |-> << >>]
  <2>1. f = [o \in Nat |-> f[o]]
    OBVIOUS
  <2>2. \A o \in Nat : o >= n - 0 => o \in stop /\ f[o] = << >>
    BY <1>0 DEF Scan
  <2>3. On(f, 0)
    BY <2>1, <2>2
  <2> HIDE DEF On, f
  <2>4. 0 \in 0 .. n
    BY <1>0
  <2> QED BY <2>3, <2>4
<1>2. ASSUME NEW k \in 0 .. n - 1, k \in Good PROVE k + 1 \in Good
  <2>1. PICK f : On(f, k)
    BY <1>2
  <2> DEFINE p == n - (k + 1)
             g == [o \in Nat |-> IF o = p THEN IF p \in stop THEN << >> ELSE <<v[p]>> \o f[to[p]]
                                 ELSE f[o]]
  <2>2. p \in Nat /\ \A o \in Nat : o >= p => o = p \/ o >= n - k
    BY <1>0, <1>2
  <2> HIDE DEF p
  <2>3. ASSUME NEW o \in Nat, o >= p PROVE Is(g, o)
    <3>1. o \notin stop => to[o] \in Nat /\ to[o] # p /\ g[to[o]] = f[to[o]]
      <4> SUFFICES ASSUME o \notin stop PROVE to[o] \in Nat /\ to[o] # p /\ g[to[o]] = f[to[o]]
        OBVIOUS
      <4>1. to[o] \in Nat /\ to[o] > o
        BY DEF Scan
      <4>2. to[o] # p
        BY <2>2, <2>3, <4>1
      <4> QED BY <4>1, <4>2
    <3>2. CASE o = p
      <4>1. g[o] = IF p \in stop THEN << >> ELSE <<v[p]>> \o f[to[p]]
        BY <3>2
      <4> HIDE DEF g
      <4> QED BY <3>1, <3>2, <4>1
    <3>3. CASE o # p
      <4>1. g[o] = f[o] /\ Is(f, o)
        BY <2>1, <2>2, <2>3, <3>3
      <4> HIDE DEF g
      <4> QED BY <3>1, <4>1
    <3> QED BY <3>2, <3>3
  <2>4. g = [o \in Nat |-> g[o]]
    OBVIOUS
  <2> HIDE DEF g
  <2>5. On(g, k + 1)
    BY <2>3, <2>4 DEF p
  <2>6. k + 1 \in 0 .. n
    BY <1>0
  <2> HIDE DEF On
  <2> QED BY <2>5, <2>6
<1>3. Good = 0 .. n
  <2>1. Good \in SUBSET (0 .. n)
    OBVIOUS
  <2> HIDE DEF Good
  <2> QED BY <1>0, <1>1, <1>2, <2>1, StepUp
<1>4. PICK f : On(f, n)
  <2>1. n \in Good
    <3> HIDE DEF Good
    <3> QED BY <1>0, <1>3
  <2> HIDE DEF On
  <2> QED BY <2>1
<1>5. \A o \in Nat : Is(f, o)
  <2>1. \A o \in Nat : o >= n - n
    BY <1>0
  <2> QED BY <1>4, <2>1
<1>6. f = [o \in Nat |-> f[o]]
  BY <1>4
<1> HIDE DEF On
<1> QED BY <1>5, <1>6 DEF Scans

(* It yields what stands where it has been: it has been pos at[0], pos[1]... *)
Visits(pos, s, stop, v, to, S) ==
  /\ s \in Seq(S) /\ pos \in [0 .. Len(s) -> Nat]
  /\ pos[Len(s)] \in stop
  /\ \A k \in 1 .. Len(s) : /\ pos[k - 1] \notin stop
                            /\ s[k] = v[pos[k - 1]] /\ pos[k] = to[pos[k - 1]]

Yields(stop, v, S) == \A o \in Nat : o \notin stop => v[o] \in S

LEMMA ScanVisits ==
  ASSUME NEW n, NEW stop, NEW v, NEW to, Scan(n, stop, to), NEW f, Scans(f, stop, v, to),
         NEW S, Yields(stop, v, S)
  PROVE  \E pos : Visits(pos, f[0], stop, v, to, S) /\ pos[0] = 0
<1> DEFINE Has(o) == \E pos : Visits(pos, f[o], stop, v, to, S) /\ pos[0] = o
           Good == {k \in 0 .. n : \A o \in Nat : o >= n - k => Has(o)}
<1>0. n \in Nat /\ \A o \in Nat : f[o] = IF o \in stop THEN << >> ELSE <<v[o]>> \o f[to[o]]
  BY DEF Scan, Scans
<1>1. ASSUME NEW o \in Nat, o \in stop PROVE Has(o)
  <2> DEFINE pos == [k \in 0 .. 0 |-> o]
  <2>1. f[o] = << >> /\ << >> \in Seq(S) /\ Len(<< >>) = 0
    <3>1. f[o] = << >>
      BY <1>0, <1>1
    <3>2. << >> \in Seq(S) /\ Len(<< >>) = 0
      OBVIOUS
    <3> QED BY <3>1, <3>2
  <2>2. pos \in [0 .. 0 -> Nat] /\ pos[0] = o
    OBVIOUS
  <2> HIDE DEF pos
  <2>3. Visits(pos, << >>, stop, v, to, S)
    BY <1>1, <2>1, <2>2 DEF Visits
  <2> QED BY <2>1, <2>2, <2>3
<1>2. ASSUME NEW o \in Nat, o \notin stop, Has(to[o]) PROVE Has(o)
  <2>1. PICK pos : Visits(pos, f[to[o]], stop, v, to, S) /\ pos[0] = to[o]
    BY <1>2
  <2>2. PICK s : s = f[to[o]]
    OBVIOUS
  <2>3. s \in Seq(S) /\ v[o] \in S /\ Len(s) \in Nat
    BY <1>2, <2>1, <2>2 DEF Visits, Yields
  <2> DEFINE t == <<v[o]>> \o s
             b == [k \in 0 .. Len(s) + 1 |-> IF k = 0 THEN o ELSE pos[k - 1]]
  <2>4. /\ t \in Seq(S) /\ Len(t) = Len(s) + 1 /\ t[1] = v[o]
        /\ \A k \in 2 .. Len(t) : t[k] = s[k - 1]
    BY <2>3
  <2>5. f[o] = t
    BY <1>0, <1>2, <2>2
  <2> HIDE DEF t
  <2>6. pos \in [0 .. Len(s) -> Nat] /\ pos[Len(s)] \in stop
    BY <2>1, <2>2 DEF Visits
  <2>7. b \in [0 .. Len(t) -> Nat]
    <3>1. \A k \in 0 .. Len(s) + 1 : k # 0 => k - 1 \in 0 .. Len(s)
      BY <2>3
    <3> QED BY <2>4, <2>6, <3>1
  <2>8. b[0] = o /\ \A k \in 1 .. Len(t) : b[k] = pos[k - 1]
    BY <2>3, <2>4
  <2> HIDE DEF b
  <2>9. b[Len(t)] \in stop
    <3>1. Len(t) \in 1 .. Len(t) /\ Len(t) - 1 = Len(s)
      BY <2>3, <2>4
    <3> QED BY <2>6, <2>8, <3>1
  <2>10. ASSUME NEW k \in 1 .. Len(t)
         PROVE  b[k - 1] \notin stop /\ t[k] = v[b[k - 1]] /\ b[k] = to[b[k - 1]]
    <3>1. CASE k = 1
      <4>1. b[k - 1] = o /\ b[k] = pos[0] /\ k - 1 = 0
        BY <2>8, <3>1
      <4> QED BY <1>2, <2>1, <2>4, <3>1, <4>1
    <3>2. CASE k # 1
      <4>1. k - 1 \in 1 .. Len(s) /\ k - 1 \in 1 .. Len(t) /\ k \in 2 .. Len(t)
        BY <2>3, <2>4, <3>2
      <4>2. b[k] = pos[k - 1] /\ b[k - 1] = pos[(k - 1) - 1] /\ t[k] = s[k - 1]
        BY <2>4, <2>8, <4>1
      <4> QED BY <2>1, <2>2, <4>1, <4>2 DEF Visits
    <3> QED BY <3>1, <3>2
  <2>11. Visits(b, t, stop, v, to, S)
    BY <2>4, <2>7, <2>9, <2>10 DEF Visits
  <2> QED BY <2>5, <2>8, <2>11
<1> HIDE DEF Has
<1>3. 0 \in Good
  <2>1. \A o \in Nat : o >= n - 0 => o \in stop
    BY <1>0 DEF Scan
  <2> QED BY <1>0, <1>1, <2>1
<1>4. ASSUME NEW k \in 0 .. n - 1, k \in Good PROVE k + 1 \in Good
  <2>1. ASSUME NEW o \in Nat, o >= n - (k + 1) PROVE Has(o)
    <3>1. CASE o \in stop
      BY <1>1, <3>1
    <3>2. CASE o \notin stop
      <4>1. to[o] \in Nat /\ to[o] > o
        BY <3>2 DEF Scan
      <4>2. to[o] >= n - k
        BY <1>0, <2>1, <4>1
      <4>3. Has(to[o])
        BY <1>4, <4>1, <4>2
      <4> QED BY <1>2, <3>2, <4>3
    <3> QED BY <3>1, <3>2
  <2>2. k + 1 \in 0 .. n
    BY <1>0
  <2> QED BY <2>1, <2>2
<1>5. Good = 0 .. n
  <2>1. Good \in SUBSET (0 .. n)
    OBVIOUS
  <2> HIDE DEF Good
  <2> QED BY <1>0, <1>3, <1>4, <2>1, StepUp
<1>6. n \in Good /\ 0 >= n - n
  <2> HIDE DEF Good
  <2> QED BY <1>0, <1>5
<1>7. Has(0)
  BY <1>6
<1> QED BY <1>7 DEF Has

(* The images counted stand one behind the other, and then stands none.    *)
Follow(pos, d) ==
  LET s == Images(d) IN
  /\ Len(s) \in Nat /\ DOMAIN s = 1 .. Len(s) /\ \E X : s \in Seq(X)
  /\ pos \in [0 .. Len(s) -> Nat] /\ pos[0] = 0
  /\ ImageAt(d, pos[Len(s)]).st # "OK"
  /\ \A k \in 1 .. Len(s) :
       /\ s[k] = ImageAt(d, pos[k - 1]) /\ s[k].st = "OK"
       /\ pos[k] = pos[k - 1] + s[k].total

LEMMA ImagesFollow ==
  ASSUME NEW d, Data(d)
  PROVE  \E pos : Follow(pos, d)
<1> DEFINE v == [o \in Nat |-> ImageAt(d, o)]
           to == [o \in Nat |-> o + v[o].total]
           stop == {o \in Nat : o >= d.len \/ v[o].st # "OK"}
           Eq(f) == f = [o \in Nat |->
                          LET e == ImageAt(d, o) IN
                          IF o >= d.len \/ e.st # "OK" THEN << >> ELSE <<e>> \o f[o + e.total]]
           S == {v[o] : o \in Nat}
<1>1. Scan(d.len, stop, to)
  <2>1. ASSUME NEW o \in Nat, o \notin stop PROVE to[o] \in Nat /\ to[o] > o
    <3>1. ImageAt(d, o).st = "OK" /\ to[o] = o + ImageAt(d, o).total
      BY <2>1
    <3>2. PICK t \in Nat : t = ImageAt(d, o).total /\ t > 0
      BY <3>1, ImageInside
    <3>3. to[o] = o + t
      BY <3>1, <3>2, Zenon
    <3> HIDE DEF to, v, stop, S, Eq
    <3> QED BY <2>1, <3>2, <3>3
  <2>2. d.len \in Nat /\ stop \in SUBSET Nat /\ \A o \in Nat : o >= d.len => o \in stop
    BY DEF Data
  <2> HIDE DEF to, stop
  <2> QED BY <2>1, <2>2 DEF Scan
<1>2. ASSUME NEW f PROVE Scans(f, stop, v, to) <=> Eq(f)
  <2>1. ASSUME NEW o \in Nat
        PROVE  (IF o \in stop THEN << >> ELSE <<v[o]>> \o f[to[o]])
                 = LET e == ImageAt(d, o) IN
                   IF o >= d.len \/ e.st # "OK" THEN << >> ELSE <<e>> \o f[o + e.total]
    BY <2>1
  <2> HIDE DEF v, to, stop
  <2> QED BY <2>1, Zenon DEF Scans
<1>3. Eq(CHOOSE f : Eq(f))
  <2>1. \E f : Scans(f, stop, v, to)
    <3> HIDE DEF v, to, stop
    <3> QED BY <1>1, ScanExists
  <2> HIDE DEF Eq
  <2> QED BY <1>2, <2>1
<1>4. PICK f : Eq(f) /\ Images(d) = f[0]
  <2>1. Images(d) = (CHOOSE f : Eq(f))[0]
    BY Zenon DEF Images
  <2> HIDE DEF Eq
  <2> QED BY <1>3, <2>1
<1>5. PICK pos : Visits(pos, f[0], stop, v, to, S) /\ pos[0] = 0
  <2>1. Scans(f, stop, v, to)
    BY <1>2, <1>4
  <2>2. Yields(stop, v, S)
    BY DEF Yields
  <2> HIDE DEF v, to, stop, S, Eq
  <2> QED BY <1>1, <2>1, <2>2, ScanVisits
<1>6. PICK s \in Seq(S) : s = f[0] /\ s = Images(d)
  <2> HIDE DEF v, to, stop, S
  <2> QED BY <1>4, <1>5 DEF Visits
<1>7. pos \in [0 .. Len(s) -> Nat] /\ Len(s) \in Nat /\ DOMAIN s = 1 .. Len(s)
      /\ \E X : s \in Seq(X)
  <2> HIDE DEF v, to, stop, S
  <2> QED BY <1>5, <1>6 DEF Visits
<1>8. ImageAt(d, pos[Len(s)]).st # "OK"
  <2>1. pos[Len(s)] \in stop /\ pos[Len(s)] \in Nat
    <3> HIDE DEF v, to, stop, S
    <3> QED BY <1>5, <1>6, <1>7 DEF Visits
  <2>2. PICK o \in Nat : o = pos[Len(s)]
    BY <2>1
  <2>3. CASE o >= d.len
    <3>1. ~(o + 8 <= d.len)
      BY <2>3 DEF Data
    <3>2. ~IsImage(d, o)
      BY <3>1 DEF IsImage, Fits
    <3> QED BY <2>2, <3>2, WholeImage
  <2>4. CASE ~(o >= d.len)
    BY <2>1, <2>2, <2>4
  <2> QED BY <2>3, <2>4
<1>9. ASSUME NEW k \in 1 .. Len(s)
      PROVE  /\ s[k] = ImageAt(d, pos[k - 1]) /\ s[k].st = "OK"
             /\ pos[k] = pos[k - 1] + s[k].total
  <2>1. pos[k - 1] \notin stop /\ s[k] = v[pos[k - 1]] /\ pos[k] = to[pos[k - 1]] /\ pos[k - 1] \in Nat
    <3>1. k - 1 \in 0 .. Len(s)
      BY <1>7
    <3> HIDE DEF v, to, stop, S
    <3> QED BY <1>5, <1>6, <1>7, <3>1 DEF Visits
  <2>2. PICK o \in Nat : o = pos[k - 1]
    BY <2>1
  <2>3. o \notin stop /\ s[k] = v[o] /\ pos[k] = to[o]
    BY <2>1, <2>2
  <2>4. v[o] = ImageAt(d, o) /\ v[o].st = "OK" /\ to[o] = o + v[o].total
    BY <2>3
  <2> HIDE DEF v, to, stop, S
  <2> QED BY <2>2, <2>3, <2>4
<1> HIDE DEF v, to, stop, S
<1> QED BY <1>5, <1>6, <1>7, <1>8, <1>9 DEF Follow

(* The walk to an index.                                                   *)
InfoWalk(w, d, n) ==
  w = [i \in 0 .. n |-> IF i = 0 THEN ImageAt(d, 0)
                        ELSE IF w[i - 1].st # "OK" THEN w[i - 1]
                        ELSE ImageAt(d, w[i - 1].off + w[i - 1].total)]

LEMMA InfoExists ==
  ASSUME NEW n \in Nat, NEW d
  PROVE  \E w : InfoWalk(w, d, n)
<1> DEFINE Good == {k \in 0 .. n : \E w : InfoWalk(w, d, k)}
<1>1. 0 \in Good
  <2>1. InfoWalk([i \in 0 .. 0 |-> ImageAt(d, 0)], d, 0)
    BY DEF InfoWalk
  <2> QED BY <2>1
<1>2. ASSUME NEW m \in 0 .. n - 1, m \in Good PROVE m + 1 \in Good
  <2>1. PICK w : InfoWalk(w, d, m)
    BY <1>2
  <2> DEFINE Go(u, i) == IF i = 0 THEN ImageAt(d, 0)
                         ELSE IF u[i - 1].st # "OK" THEN u[i - 1]
                         ELSE ImageAt(d, u[i - 1].off + u[i - 1].total)
             h == [i \in 0 .. m + 1 |-> IF i = m + 1 THEN Go(w, i) ELSE w[i]]
  <2>2. ASSUME NEW i \in 0 .. m + 1 PROVE h[i] = Go(h, i)
    <3>1. i # 0 => i - 1 \in 0 .. m + 1 /\ i - 1 # m + 1
      OBVIOUS
    <3>2. i # 0 => h[i - 1] = w[i - 1]
      BY <3>1
    <3>3. Go(h, i) = Go(w, i)
      <4> HIDE DEF h
      <4> QED BY <3>2
    <3>4. CASE i = m + 1
      BY <3>3, <3>4
    <3>5. CASE i # m + 1
      <4>1. i \in 0 .. m /\ h[i] = w[i]
        BY <3>5
      <4>2. w[i] = Go(w, i)
        BY <2>1, <4>1 DEF InfoWalk
      <4> HIDE DEF Go, h
      <4> QED BY <3>3, <4>1, <4>2
    <3> QED BY <3>4, <3>5
  <2>3. InfoWalk(h, d, m + 1)
    <3>1. h = [i \in 0 .. m + 1 |-> h[i]]
      OBVIOUS
    <3> HIDE DEF h
    <3> QED BY <2>2, <3>1 DEF InfoWalk
  <2>4. m + 1 \in 0 .. n
    OBVIOUS
  <2> HIDE DEF h
  <2> QED BY <2>3, <2>4
<1>3. Good = 0 .. n
  <2>1. Good \in SUBSET (0 .. n)
    OBVIOUS
  <2> HIDE DEF Good
  <2> QED BY <1>1, <1>2, <2>1, StepUp
<1>4. n \in Good
  <2> HIDE DEF Good
  <2> QED BY <1>3
<1> QED BY <1>4

(* It comes to just the images that the count has counted.                 *)
LEMMA InfoFinds ==
  ASSUME NEW d, Data(d), NEW k \in 0 .. Len(Images(d)), Len(Images(d)) \in Nat
  PROVE  Info(d, k) = IF k < Len(Images(d)) THEN Images(d)[k + 1] ELSE NoImage("NOT_FOUND")
<1> DEFINE s == Images(d)
           Eq(w) == InfoWalk(w, d, k)
<1>1. PICK pos : Follow(pos, d)
  BY ImagesFollow
<1>2. PICK w : InfoWalk(w, d, k) /\ Info(d, k) = IF w[k].st = "OK" THEN w[k] ELSE NoImage("NOT_FOUND")
  <2>1. k \in Nat
    OBVIOUS
  <2>2. \E w : Eq(w)
    BY <2>1, InfoExists
  <2>3. Eq(CHOOSE w : Eq(w))
    BY <2>2, Zenon
  <2>4. PICK w : w = CHOOSE x : Eq(x)
    OBVIOUS
  <2>5. Info(d, k) = IF w[k].st = "OK" THEN w[k] ELSE NoImage("NOT_FOUND")
    <3>1. Info(d, k) = LET x == CHOOSE y : Eq(y)
                       IN  IF x[k].st = "OK" THEN x[k] ELSE NoImage("NOT_FOUND")
      BY Zenon DEF Info, InfoWalk
    <3> HIDE DEF Eq
    <3> QED BY <2>4, <3>1
  <2> QED BY <2>3, <2>4, <2>5
<1> DEFINE Good == {i \in 0 .. k : w[i] = ImageAt(d, pos[i])}
<1>3. Len(s) \in Nat /\ pos \in [0 .. Len(s) -> Nat] /\ pos[0] = 0
      /\ ImageAt(d, pos[Len(s)]).st # "OK"
  BY <1>1 DEF Follow
<1>4. ASSUME NEW i \in 1 .. Len(s)
      PROVE  s[i] = ImageAt(d, pos[i - 1]) /\ s[i].st = "OK" /\ pos[i] = pos[i - 1] + s[i].total
  BY <1>1 DEF Follow
<1>5. \A i \in 0 .. k : w[i] = IF i = 0 THEN ImageAt(d, 0)
                               ELSE IF w[i - 1].st # "OK" THEN w[i - 1]
                               ELSE ImageAt(d, w[i - 1].off + w[i - 1].total)
  BY <1>2 DEF InfoWalk
<1>6. 0 \in Good
  BY <1>3, <1>5
<1> HIDE DEF s
<1>7. ASSUME NEW i \in 0 .. k - 1, i \in Good PROVE i + 1 \in Good
  <2>1. i + 1 \in 0 .. k /\ i + 1 \in 1 .. Len(s) /\ i \in 0 .. Len(s) /\ i + 1 # 0 /\ (i + 1) - 1 = i
    BY <1>3 DEF s
  <2>2. s[i + 1] = ImageAt(d, pos[i]) /\ s[i + 1].st = "OK" /\ pos[i + 1] = pos[i] + s[i + 1].total
    BY <1>4, <2>1
  <2>3. w[i] = s[i + 1]
    BY <1>7, <2>2
  <2>4. w[i].off = pos[i]
    BY <1>3, <2>1, <2>2, <2>3, ImageInside
  <2>5. w[i + 1] = ImageAt(d, w[i].off + w[i].total)
    BY <1>5, <2>1, <2>2, <2>3
  <2> QED BY <2>1, <2>2, <2>3, <2>4, <2>5
<1>8. k \in Good
  <2>1. Good = 0 .. k
    <3>1. Good \in SUBSET (0 .. k) /\ k \in Nat
      <4>1. Good \in SUBSET (0 .. k)
        OBVIOUS
      <4>2. k \in Nat
        BY <1>3 DEF s
      <4> QED BY <4>1, <4>2
    <3> HIDE DEF Good
    <3> QED BY <1>6, <1>7, <3>1, StepUp
  <2> HIDE DEF Good
  <2> QED BY <2>1
<1>9. w[k] = ImageAt(d, pos[k])
  BY <1>8
<1>10. CASE k < Len(s)
  <2>1. k + 1 \in 1 .. Len(s) /\ (k + 1) - 1 = k
    BY <1>3, <1>10
  <2>2. s[k + 1] = w[k] /\ w[k].st = "OK"
    BY <1>4, <1>9, <2>1
  <2> QED BY <1>2, <1>10, <2>2 DEF s
<1>11. CASE ~(k < Len(s))
  <2>1. k = Len(s)
    BY <1>3, <1>11 DEF s
  <2> QED BY <1>2, <1>3, <1>9, <1>11, <2>1 DEF s
<1> QED BY <1>10, <1>11

LEMMA ImagesRight ==
  ASSUME NEW d, Data(d)
  PROVE  ImagesOf(d)
<1> DEFINE s == Images(d)
<1>1. PICK pos : Follow(pos, d)
  BY ImagesFollow
<1>2. Len(s) \in Nat /\ DOMAIN s = 1 .. Len(s) /\ pos \in [0 .. Len(s) -> Nat] /\ pos[0] = 0
  BY <1>1 DEF Follow
<1>3. ASSUME NEW i \in 1 .. Len(s)
      PROVE  /\ pos[i - 1] \in Nat
             /\ s[i] = ImageAt(d, pos[i - 1]) /\ s[i].st = "OK" /\ pos[i] = pos[i - 1] + s[i].total
             /\ s[i].off = pos[i - 1]
  <2>1. i - 1 \in 0 .. Len(s)
    BY <1>2
  <2>2. pos[i - 1] \in Nat
    BY <1>2, <2>1
  <2>3. s[i] = ImageAt(d, pos[i - 1]) /\ s[i].st = "OK" /\ pos[i] = pos[i - 1] + s[i].total
    BY <1>1 DEF Follow
  <2>4. PICK o \in Nat : o = pos[i - 1]
    BY <2>2
  <2>5. ImageAt(d, o).off = o
    BY <2>3, <2>4, ImageInside
  <2> QED BY <2>2, <2>3, <2>4, <2>5
<1> HIDE DEF s
<1>4. ASSUME NEW k \in 1 .. Len(s)
      PROVE  LET e == s[k] IN
       /\ e.off = IF k = 1 THEN 0 ELSE s[k - 1].off + s[k - 1].total
       /\ e.off + e.total <= d.len
       /\ e.clut => e.clutAt + 2 * e.colours <= e.pix - 12
       /\ e.pix + e.pixLen = e.off + e.total
       /\ LET again == ImageAt([len |-> d.len, heads |-> OnlyAt(e.off, Encode(e))], e.off)
          IN  \A f \in {"mode", "clut", "colours", "w", "h", "pixLen"} : again[f] = e[f]
       /\ Decode(d, k - 1).st = "OK" => e.pix + Need(e) <= d.len
  <2> DEFINE e == s[k]
  <2>1. PICK o \in Nat : o = pos[k - 1] /\ e = ImageAt(d, o) /\ e.st = "OK" /\ e.off = o
    BY <1>3
  <2>2. e.off = IF k = 1 THEN 0 ELSE s[k - 1].off + s[k - 1].total
    <3>1. CASE k = 1
      BY <1>2, <2>1, <3>1
    <3>2. CASE k # 1
      <4>1. k - 1 \in 1 .. Len(s)
        BY <1>2, <3>2
      <4>2. pos[k - 1] = pos[(k - 1) - 1] + s[k - 1].total /\ s[k - 1].off = pos[(k - 1) - 1]
        BY <1>3, <4>1
      <4> QED BY <2>1, <3>2, <4>2
    <3> QED BY <3>1, <3>2
  <2>3. /\ e.off = o /\ e.total \in Nat /\ o + e.total <= d.len
        /\ e.clut => e.clutAt + 2 * e.colours <= e.pix - 12
        /\ e.pix + e.pixLen = o + e.total
    BY <2>1, ImageInside
  <2>4. LET again == ImageAt([len |-> d.len, heads |-> OnlyAt(e.off, Encode(e))], e.off)
        IN  \A f \in {"mode", "clut", "colours", "w", "h", "pixLen"} : again[f] = e[f]
    <3> HIDE DEF e
    <3> QED BY <2>1, EncodesBack
  <2>5. ASSUME Decode(d, k - 1).st = "OK" PROVE e.pix + Need(e) <= d.len
    <3>1. k - 1 \in 0 .. Len(s) /\ k - 1 < Len(s) /\ (k - 1) + 1 = k
      BY <1>2
    <3>2. Info(d, k - 1) = e
      BY <1>2, <3>1, InfoFinds DEF s
    <3>3. IsImage(d, o) /\ d.len \in Nat
      BY <2>1, WholeImage DEF Data
    <3> HIDE DEF e
    <3>4. ~(e.pix + Need(e) > d.len)
      <4> SUFFICES ASSUME e.pix + Need(e) > d.len PROVE FALSE
        OBVIOUS
      <4>0. Decode(d, k - 1) =
              LET x == Info(d, k - 1) IN
              IF x.st # "OK" THEN x
              ELSE IF PixW(x) > 4096 \/ x.h > 4096 THEN NoImage("MODE")
              ELSE IF x.pix + Need(x) > d.len \/ (x.clut /\ x.clutAt + 2 * x.colours > d.len)
                   THEN NoImage("TRUNCATED")
              ELSE x
        BY Zenon DEF Decode
      <4> HIDE DEF s
      <4>1. Decode(d, k - 1) = IF PixW(e) > 4096 \/ e.h > 4096 THEN NoImage("MODE")
                               ELSE NoImage("TRUNCATED")
        BY <2>1, <3>2, <4>0
      <4> QED BY <2>5, <4>1 DEF NoImage
    <3>5. e.pix \in Nat /\ Need(e) \in Nat
      <4> DEFINE h == d.heads[o]
      <4>1. h \in Header
        BY <3>3 DEF IsImage, Fits, Data
      <4>2. /\ e.pix = o + 8 + ClutBytes(h) + 12 /\ e.w = h.w /\ e.h = h.h
            /\ e.mode = Mode(h)
        BY <2>1, <3>3, WholeImage
      <4> HIDE DEF h
      <4>3. ClutBytes(h) \in Nat /\ h.w \in Nat /\ h.h \in Nat /\ Mode(h) \in Nat
        BY <4>1 DEF Header, ClutBytes, Mode
      <4>4. PixW(e) \in Nat /\ e.h \in Nat
        BY <4>2, <4>3 DEF PixW
      <4>5. \A x, y \in Nat : x * y \in Nat /\ (x * y) \div 2 \in Nat /\ 2 * x * y \in Nat /\ 3 * x * y \in Nat
        <5> TAKE x, y \in Nat
        <5>1. PICK z \in Nat : z = x * y
          OBVIOUS
        <5>2. 2 * x \in Nat /\ 3 * x \in Nat
          OBVIOUS
        <5>3. 2 * x * y \in Nat /\ 3 * x * y \in Nat
          BY <5>2
        <5> QED BY <5>1, <5>3
      <4>6. Need(e) \in Nat
        BY <4>4, <4>5 DEF Need
      <4> QED BY <4>2, <4>3, <4>6
    <3> QED BY <3>3, <3>4, <3>5
  <2> HIDE DEF e
  <2> QED BY <2>1, <2>2, <2>3, <2>4, <2>5 DEF e
<1>5. \A k \in 0 .. Len(s) :
        Info(d, k) = IF k < Len(s) THEN s[k + 1] ELSE NoImage("NOT_FOUND")
  BY <1>2, InfoFinds DEF s
<1>6. ImagesOf(d) <=>
  /\ \A k \in DOMAIN s :
       LET e == s[k] IN
       /\ e.off = IF k = 1 THEN 0 ELSE s[k - 1].off + s[k - 1].total
       /\ e.off + e.total <= d.len
       /\ e.clut => e.clutAt + 2 * e.colours <= e.pix - 12
       /\ e.pix + e.pixLen = e.off + e.total
       /\ LET again == ImageAt([len |-> d.len, heads |-> OnlyAt(e.off, Encode(e))], e.off)
          IN  \A f \in {"mode", "clut", "colours", "w", "h", "pixLen"} : again[f] = e[f]
       /\ Decode(d, k - 1).st = "OK" => e.pix + Need(e) <= d.len
  /\ \A k \in 0 .. Len(s) :
       Info(d, k) = IF k < Len(s) THEN s[k + 1] ELSE NoImage("NOT_FOUND")
  BY Zenon DEF ImagesOf, s
<1> QED BY <1>2, <1>4, <1>5, <1>6, Zenon

-----------------------------------------------------------------------------
(* Archives, and where their members' bytes begin.                         *)
Archive(a) ==
  /\ a.members \in Seq([comp : Nat, out : Nat, good : BOOLEAN])
  /\ a.images \in Seq(SUBSET Header) /\ Len(a.images) = Len(a.members)
  /\ \A k \in 1 .. Len(a.images) : \A g, h \in a.images[k] : g = h
Before(a, k) == Bytes(SubSeq(Whole(a), 1, k - 1))

LEMMA Befores ==
  ASSUME NEW a, Archive(a)
  PROVE  /\ Before(a, 1) = 0 /\ Before(a, Len(a.members) + 1) = Bytes(Whole(a))
         /\ \A k \in 1 .. Len(a.members) + 1 : Before(a, k) \in Nat
         /\ \A k \in 1 .. Len(a.members) :
              Before(a, k + 1) = Before(a, k) + a.members[k].out
         /\ \A k \in 1 .. Len(a.members) : a.members[k].out \in Nat
<1> DEFINE w == Whole(a)
           n == Len(a.members)
<1>1. n \in Nat /\ DOMAIN a.members = 1 .. n /\ \A k \in 1 .. n : a.members[k].out \in Nat
  <2>1. n \in Nat /\ DOMAIN a.members = 1 .. n
    BY DEF Archive
  <2>2. ASSUME NEW k \in 1 .. n PROVE a.members[k].out \in Nat
    <3> DEFINE M == [comp : Nat, out : Nat, good : BOOLEAN]
    <3>1. a.members[k] \in M
      <4>1. a.members \in Seq(M)
        BY DEF Archive
      <4> HIDE DEF M
      <4> QED BY <2>1, <4>1
    <3> QED BY <3>1
  <2> QED BY <2>1, <2>2
<1> HIDE DEF n
<1>2. w \in Seq(Portions) /\ Len(w) = n /\ \A k \in 1 .. n : w[k] \in Portions /\ w[k].n = a.members[k].out
  <2>1. w = [k \in 1 .. n |-> [m |-> k, n |-> a.members[k].out]]
    BY <1>1 DEF Whole
  <2>2. \A k \in 1 .. n : [m |-> k, n |-> a.members[k].out] \in Portions
    BY <1>1 DEF Portions
  <2> HIDE DEF w
  <2>3. w \in Seq(Portions) /\ Len(w) = n
    BY <1>1, <2>1, <2>2
  <2>4. \A k \in 1 .. n : w[k].n = a.members[k].out /\ w[k] \in Portions
    BY <2>1, <2>2
  <2> QED BY <2>3, <2>4
<1> HIDE DEF w
<1>3. \A k \in 1 .. n + 1 : SubSeq(w, 1, k - 1) \in Seq(Portions)
  BY <1>1, <1>2
<1>4. SubSeq(w, 1, 1 - 1) = << >> /\ SubSeq(w, 1, (n + 1) - 1) = w
  BY <1>1, <1>2
<1>5. ASSUME NEW k \in 1 .. n PROVE Before(a, k + 1) = Before(a, k) + a.members[k].out
  <2>1. SubSeq(w, 1, (k + 1) - 1) = Append(SubSeq(w, 1, k - 1), w[k])
    BY <1>1, <1>2
  <2>2. k \in 1 .. n + 1 /\ w[k] \in Portions /\ w[k].n = a.members[k].out
    BY <1>1, <1>2
  <2>3. SubSeq(w, 1, k - 1) \in Seq(Portions)
    BY <1>3, <2>2
  <2>4. Bytes(SubSeq(w, 1, (k + 1) - 1)) = Bytes(SubSeq(w, 1, k - 1)) + w[k].n
    BY <2>1, <2>2, <2>3, BytesAppend
  <2> QED BY <2>2, <2>4 DEF Before, w
<1>6. Before(a, 1) = 0 /\ Before(a, n + 1) = Bytes(w)
  BY <1>4, BytesEmpty DEF Before, w
<1>7. \A k \in 1 .. n + 1 : Before(a, k) \in Nat
  BY <1>3, BytesAdd DEF Before, w
<1> QED BY <1>1, <1>5, <1>6, <1>7 DEF n, w

Imaged(a) == {k \in DOMAIN a.images : a.images[k] # {}}
JoinHead(a, o) == CHOOSE h \in a.images[CHOOSE k \in Imaged(a) : Before(a, k) = o] : TRUE
LEMMA JoinedIs ==
  ASSUME NEW a
  PROVE  /\ Joined(a).len = Bytes(Whole(a))
         /\ DOMAIN Joined(a).heads = {Before(a, k) : k \in Imaged(a)}
         /\ \A o \in {Before(a, k) : k \in Imaged(a)} : Joined(a).heads[o] = JoinHead(a, o)
<1>1. Joined(a) = [len |-> Bytes(Whole(a)),
                   heads |-> [o \in {Before(a, k) : k \in Imaged(a)} |-> JoinHead(a, o)]]
  BY Zenon DEF Joined, Before, Imaged, JoinHead
<1> QED BY <1>1

LEMMA JoinedData ==
  ASSUME NEW a, Archive(a)
  PROVE  Data(Joined(a))
<1>1. Len(a.images) \in Nat /\ DOMAIN a.images = 1 .. Len(a.images)
      /\ Len(a.images) = Len(a.members)
  BY DEF Archive
<1>2. ASSUME NEW k \in Imaged(a)
      PROVE  k \in 1 .. Len(a.members) + 1 /\ Before(a, k) \in Nat /\ a.images[k] \in SUBSET Header
             /\ a.images[k] # {}
  <2>1. k \in 1 .. Len(a.images) /\ a.images[k] # {}
    BY <1>1 DEF Imaged
  <2>2. k \in 1 .. Len(a.members) + 1
    BY <1>1, <2>1
  <2>3. a.images[k] \in SUBSET Header
    BY <2>1 DEF Archive
  <2> QED BY <2>1, <2>2, <2>3, Befores
<1>3. ASSUME NEW o \in {Before(a, k) : k \in Imaged(a)} PROVE JoinHead(a, o) \in Header
  <2>1. PICK k : k = CHOOSE i \in Imaged(a) : Before(a, i) = o
    OBVIOUS
  <2>2. k \in Imaged(a)
    BY <2>1
  <2>3. JoinHead(a, o) \in a.images[k]
    <3>1. JoinHead(a, o) = CHOOSE h \in a.images[k] : TRUE
      BY <2>1 DEF JoinHead
    <3>2. a.images[k] # {}
      BY <1>2, <2>2
    <3> QED BY <3>1, <3>2
  <2> QED BY <1>2, <2>2, <2>3
<1>4. Bytes(Whole(a)) \in Nat
  <2>1. Len(a.members) + 1 \in 1 .. Len(a.members) + 1
    BY <1>1
  <2>2. Before(a, Len(a.members) + 1) = Bytes(Whole(a)) /\ Before(a, Len(a.members) + 1) \in Nat
    BY <2>1, Befores
  <2> QED BY <2>2
<1> DEFINE places == {Before(a, k) : k \in Imaged(a)}
<1>5. places \in SUBSET Nat
  BY <1>2
<1>6. Joined(a).len = Bytes(Whole(a)) /\ DOMAIN Joined(a).heads = places
      /\ \A o \in places : Joined(a).heads[o] = JoinHead(a, o)
  BY JoinedIs
<1>7. \A o \in places : JoinHead(a, o) \in Header
  BY <1>3
<1> HIDE DEF places
<1> QED BY <1>4, <1>5, <1>6, <1>7 DEF Data

(* A member that is one image begins where the chain of images has come to.*)
LEMMA EachRight ==
  ASSUME NEW a, Archive(a)
  PROVE  EachFound(a)
<1> DEFINE d == Joined(a)
           s == Images(d)
           n == Len(a.members)
           Alone(k, h) == [len |-> a.members[k].out, heads |-> OnlyAt(0, h)]
<1> SUFFICES ASSUME \A k \in DOMAIN a.images : OneImage(a, k)
             PROVE  /\ Len(s) = n
                    /\ \A k \in DOMAIN a.images : s[k].off = Before(a, k)
  BY Zenon DEF EachFound, Before
<1>1. n \in Nat /\ DOMAIN a.images = 1 .. n
  BY DEF Archive
<1>2. ASSUME NEW k \in 1 .. n
      PROVE  \E h \in a.images[k] : h \in Header /\ ImageAt(Alone(k, h), 0).st = "OK"
                                    /\ ImageAt(Alone(k, h), 0).total = a.members[k].out
  <2>1. OneImage(a, k)
    BY <1>1
  <2>2. PICK h \in a.images[k] : ImageAt(Alone(k, h), 0).st = "OK"
                                 /\ ImageAt(Alone(k, h), 0).total = a.members[k].out
    BY <2>1 DEF OneImage
  <2>3. k \in 1 .. Len(a.images)
    BY <1>1 DEF Archive
  <2>4. h \in Header
    BY <2>2, <2>3 DEF Archive
  <2> HIDE DEF Alone
  <2> QED BY <2>2, <2>4
<1>3. \A k \in 1 .. n : a.members[k].out \in Nat /\ a.members[k].out > 0
                        /\ Before(a, k + 1) = Before(a, k) + a.members[k].out
  <2> SUFFICES ASSUME NEW k \in 1 .. n
               PROVE  a.members[k].out \in Nat /\ a.members[k].out > 0
                      /\ Before(a, k + 1) = Before(a, k) + a.members[k].out
    OBVIOUS
  <2>1. a.members[k].out \in Nat /\ Before(a, k + 1) = Before(a, k) + a.members[k].out
    BY Befores
  <2>2. PICK h \in a.images[k] : h \in Header /\ ImageAt(Alone(k, h), 0).st = "OK"
                                 /\ ImageAt(Alone(k, h), 0).total = a.members[k].out
    BY <1>2
  <2>3. Data(Alone(k, h))
    BY <2>1, <2>2 DEF Data, OnlyAt
  <2> HIDE DEF Alone
  <2>4. ImageAt(Alone(k, h), 0).total > 0
    BY <2>2, <2>3, ImageInside
  <2> QED BY <2>1, <2>2, <2>4
<1>4. /\ Before(a, 1) = 0 /\ Before(a, n + 1) = Bytes(Whole(a))
      /\ \A k \in 1 .. n + 1 : Before(a, k) \in Nat
  BY Befores
<1>5. \A i, k \in 1 .. n + 1 : i < k => Before(a, i) < Before(a, k)
  <2> SUFFICES ASSUME NEW i \in 1 .. n + 1, NEW k \in 1 .. n + 1, i < k
               PROVE  Before(a, i) < Before(a, k)
    OBVIOUS
  <2> DEFINE Good == {j \in 0 .. (k - i) - 1 : Before(a, i) < Before(a, i + 1 + j)}
  <2>1. (k - i) - 1 \in Nat
    OBVIOUS
  <2>2. 0 \in Good
    <3>1. i \in 1 .. n /\ i + 1 + 0 = i + 1
      BY <1>1
    <3>2. PICK x \in Nat : x = Before(a, i)
      BY <1>4
    <3>3. PICK y \in Nat : y = a.members[i].out /\ y > 0
      BY <1>3, <3>1
    <3>4. Before(a, i + 1) = x + y
      BY <1>3, <3>1, <3>2, <3>3
    <3> QED BY <2>1, <3>1, <3>2, <3>3, <3>4
  <2>3. ASSUME NEW j \in 0 .. ((k - i) - 1) - 1, j \in Good PROVE j + 1 \in Good
    <3>1. i + 1 + j \in 1 .. n /\ i + 1 + (j + 1) = (i + 1 + j) + 1 /\ j + 1 \in 0 .. (k - i) - 1
          /\ i + 1 + j \in 1 .. n + 1
      BY <1>1
    <3>2. PICK x \in Nat : x = Before(a, i + 1 + j)
      BY <1>4, <3>1
    <3>3. PICK y \in Nat : y = a.members[i + 1 + j].out /\ y > 0
      BY <1>3, <3>1
    <3>4. Before(a, i + 1 + (j + 1)) = x + y
      BY <1>3, <3>1, <3>2, <3>3
    <3>5. PICK z \in Nat : z = Before(a, i)
      BY <1>4
    <3>6. z < x
      BY <2>3, <3>2, <3>5
    <3> QED BY <3>1, <3>2, <3>3, <3>4, <3>5, <3>6
  <2>4. Good = 0 .. (k - i) - 1
    <3>1. Good \in SUBSET (0 .. (k - i) - 1)
      OBVIOUS
    <3> HIDE DEF Good
    <3> QED BY <2>1, <2>2, <2>3, <3>1, StepUp
  <2>5. (k - i) - 1 \in Good /\ i + 1 + ((k - i) - 1) = k
    <3>1. (k - i) - 1 \in 0 .. (k - i) - 1 /\ i + 1 + ((k - i) - 1) = k
      BY <2>1
    <3> HIDE DEF Good
    <3> QED BY <2>4, <3>1
  <2> QED BY <2>5
<1>6. Data(d)
  BY JoinedData
<1>7. ASSUME NEW k \in 1 .. n
      PROVE  ImageAt(d, Before(a, k)).st = "OK"
             /\ ImageAt(d, Before(a, k)).total = a.members[k].out
  <2>1. PICK h \in a.images[k] : h \in Header /\ ImageAt(Alone(k, h), 0).st = "OK"
                                 /\ ImageAt(Alone(k, h), 0).total = a.members[k].out
    BY <1>2
  <2>2. k \in Imaged(a) /\ k \in 1 .. n + 1
    BY <1>1, <2>1 DEF Imaged
  <2>3. PICK o \in Nat : o = Before(a, k)
    BY <1>4, <2>2
  <2>4. o \in DOMAIN d.heads /\ d.heads[o] = h
    <3>1. \A i \in Imaged(a) : Before(a, i) = o => i = k
      <4> SUFFICES ASSUME NEW i \in Imaged(a), Before(a, i) = o PROVE i = k
        OBVIOUS
      <4>1. i \in 1 .. n + 1
        BY <1>1 DEF Imaged
      <4>2. ~(i < k) /\ ~(k < i)
        BY <1>5, <2>2, <2>3, <4>1
      <4> QED BY <1>1, <4>1, <4>2
    <3>2. (CHOOSE i \in Imaged(a) : Before(a, i) = o) = k
      BY <2>2, <2>3, <3>1
    <3>3. JoinHead(a, o) = h
      <4>1. JoinHead(a, o) = CHOOSE g \in a.images[k] : TRUE
        BY <3>2, Zenon DEF JoinHead
      <4>2. JoinHead(a, o) \in a.images[k]
        BY <2>1, <4>1
      <4>3. k \in 1 .. Len(a.images)
        BY <1>1 DEF Archive
      <4> QED BY <2>1, <4>2, <4>3 DEF Archive
    <3> QED BY <2>2, <2>3, <3>3, JoinedIs
  <2>5. Data(Alone(k, h)) /\ 0 \in DOMAIN Alone(k, h).heads /\ Alone(k, h).heads[0] = h
    BY <1>3, <2>1 DEF Data, OnlyAt
  <2>6. o + a.members[k].out <= d.len
    <3>1. Before(a, k + 1) = o + a.members[k].out
      BY <1>3, <2>3
    <3>2. k + 1 \in 1 .. n + 1 /\ n + 1 \in 1 .. n + 1 /\ (k + 1 < n + 1 \/ k + 1 = n + 1)
      BY <1>1
    <3>3. PICK x \in Nat : x = Before(a, n + 1)
      BY <1>4, <3>2
    <3>4. Before(a, k + 1) <= x
      BY <1>4, <1>5, <3>2, <3>3
    <3>5. d.len = x
      BY <1>4, <3>3, JoinedIs
    <3> QED BY <3>1, <3>4, <3>5
  <2> HIDE DEF Alone, d
  <2>7. ImageAt(d, o).st = "OK" /\ ImageAt(d, o).total = ImageAt(Alone(k, h), 0).total
    <3>1. d.heads[o] = Alone(k, h).heads[0] /\ 0 \in Nat
      BY <2>4, <2>5
    <3>2. o + ImageAt(Alone(k, h), 0).total <= d.len
      BY <2>1, <2>6
    <3> QED BY <1>6, <2>1, <2>4, <2>5, <3>1, <3>2, SameImage
  <2> QED BY <2>1, <2>3, <2>7
<1>8. PICK pos : Follow(pos, d)
  BY <1>6, ImagesFollow
<1>9. Len(s) \in Nat /\ DOMAIN s = 1 .. Len(s) /\ pos \in [0 .. Len(s) -> Nat] /\ pos[0] = 0
      /\ ImageAt(d, pos[Len(s)]).st # "OK"
  BY <1>8 DEF Follow
<1>10. ASSUME NEW k \in 1 .. Len(s)
       PROVE  s[k] = ImageAt(d, pos[k - 1]) /\ s[k].st = "OK" /\ pos[k] = pos[k - 1] + s[k].total
  BY <1>8 DEF Follow
<1>11. ImageAt(d, Before(a, n + 1)).st # "OK"
  <2>1. PICK o \in Nat : o = Before(a, n + 1)
    <3>1. n + 1 \in 1 .. n + 1
      BY <1>1
    <3> QED BY <1>4, <3>1
  <2>2. d.len = o
    BY <1>4, <2>1, JoinedIs
  <2>3. ~IsImage(d, o)
    <3>1. ~(o + 8 <= d.len)
      BY <2>2
    <3> HIDE DEF d
    <3> QED BY <3>1 DEF IsImage, Fits
  <2> HIDE DEF d
  <2> QED BY <1>6, <2>1, <2>3, WholeImage
<1> DEFINE Good == {k \in 0 .. n : k <= Len(s) /\ pos[k] = Before(a, k + 1)}
<1> HIDE DEF d, s
<1>12. Good = 0 .. n
  <2>1. 0 \in Good
    BY <1>1, <1>4, <1>9
  <2>2. ASSUME NEW k \in 0 .. n - 1, k \in Good PROVE k + 1 \in Good
    <3>1. k <= Len(s) /\ pos[k] = Before(a, k + 1) /\ k + 1 \in 1 .. n /\ k + 1 \in 0 .. n
      BY <1>1, <2>2
    <3>2. ImageAt(d, pos[k]).st = "OK" /\ ImageAt(d, pos[k]).total = a.members[k + 1].out
      BY <1>7, <3>1
    <3>3. k # Len(s)
      BY <1>9, <3>2
    <3>4. k + 1 \in 1 .. Len(s) /\ (k + 1) - 1 = k /\ k + 1 <= Len(s)
      <4>1. PICK l \in Nat : l = Len(s)
        BY <1>9
      <4>2. k \in Nat /\ k <= l /\ k # l
        BY <1>1, <3>1, <3>3, <4>1
      <4> QED BY <4>1, <4>2
    <3>5. pos[k + 1] = pos[k] + a.members[k + 1].out
      BY <1>10, <3>2, <3>4
    <3>6. Before(a, (k + 1) + 1) = Before(a, k + 1) + a.members[k + 1].out
      BY <1>3, <3>1
    <3> QED BY <3>1, <3>4, <3>5, <3>6
  <2>3. Good \in SUBSET (0 .. n)
    OBVIOUS
  <2> HIDE DEF Good
  <2> QED BY <1>1, <2>1, <2>2, <2>3, StepUp
<1>13. \A k \in 0 .. n : k <= Len(s) /\ pos[k] = Before(a, k + 1)
  BY <1>12
<1>14. Len(s) = n
  <2>1. n <= Len(s) /\ pos[n] = Before(a, n + 1)
    <3>1. n \in 0 .. n
      BY <1>1
    <3> QED BY <1>13, <3>1
  <2>2. ~(n < Len(s))
    <3> SUFFICES ASSUME n < Len(s) PROVE FALSE
      OBVIOUS
    <3>1. n + 1 \in 1 .. Len(s) /\ (n + 1) - 1 = n
      BY <1>1, <1>9
    <3>2. ImageAt(d, pos[n]).st = "OK"
      BY <1>10, <3>1
    <3> QED BY <1>11, <2>1, <3>2
  <2> QED BY <1>1, <1>9, <2>1, <2>2
<1>15. ASSUME NEW k \in 1 .. n PROVE s[k].off = Before(a, k)
  <2>1. k \in 1 .. Len(s) /\ k - 1 \in 0 .. n /\ (k - 1) + 1 = k /\ k \in 1 .. n + 1
    BY <1>1, <1>14
  <2>2. PICK o \in Nat : o = Before(a, k)
    BY <1>4, <2>1
  <2>3. s[k] = ImageAt(d, o) /\ s[k].st = "OK"
    BY <1>10, <1>13, <2>1, <2>2
  <2>4. ImageAt(d, o).off = o
    BY <1>6, <2>3, ImageInside
  <2> QED BY <2>2, <2>3, <2>4
<1> QED BY <1>1, <1>14, <1>15

(* A cut logo is found, unless the cut is in front of its pixels.          *)
LEMMA LogoRight ==
  ASSUME NEW h \in Header, NEW out \in Nat, HasClut(h),
         ImageAt([len |-> out, heads |-> OnlyAt(0, h)], 0).st = "OK",
         NEW n \in Nat, n % 4 = 0
  PROVE  /\ LogoFind(Logo(h, n, 12)) = n
         /\ LogoFind(Logo(h, n, 11)) = -1
         /\ n > 0 => Images(Logo(h, n, h.ilen)) = << >>
<1> DEFINE c == [len |-> out, heads |-> OnlyAt(0, h)]
           d(r) == Logo(h, n, r)
<1>1. Data(c) /\ c.heads[0] = h /\ 0 \in Nat
  BY DEF Data, OnlyAt
<1>2. IsImage(c, 0)
  BY <1>1, WholeImage
<1>3. /\ h.flag <= 15 /\ Mode(h) <= 3 /\ ~OddClut(h) /\ h.ilen >= 12 /\ ~OddImage(h)
      /\ h.ilen <= ImageMax /\ ~(h.clen < 12)
  BY <1>1, <1>2 DEF IsImage, Fits, BadClut
<1>4. h.clen \in Nat /\ h.clen >= 12 /\ h.ilen \in Nat /\ ClutBytes(h) = h.clen
  BY <1>3 DEF Header, ClutBytes
<1>5. \A r \in Nat : /\ d(r).len = n + 8 + h.clen + r /\ DOMAIN d(r).heads = {n}
                     /\ d(r).heads[n] = h /\ d(r).len \in Nat
  BY <1>4 DEF Logo, OnlyAt
<1>6. \A r \in Nat : Data(d(r))
  <2> HIDE DEF d
  <2> QED BY <1>5 DEF Data
<1>7. \A r \in Nat : LogoFind(d(r)) =
        LET hits == {o \in DOMAIN d(r).heads :
                       o % 4 = 0 /\ o + 20 <= d(r).len /\ HeadAt(d(r), o).st = "OK"
                       /\ HeadAt(d(r), o).clut}
        IN  IF hits = {} THEN -1 ELSE Min(hits)
  <2> HIDE DEF d
  <2> QED BY DEF LogoFind
<1> HIDE DEF d, c
<1>8. LogoFind(d(12)) = n
  <2>1. d(12).len = n + 8 + h.clen + 12 /\ Data(d(12)) /\ n \in DOMAIN d(12).heads
        /\ d(12).heads[n] = h /\ DOMAIN d(12).heads = {n} /\ d(12).len \in Nat
    BY <1>5, <1>6
  <2>2. ~BadClut(h, n + 8, d(12).len)
    BY <1>4, <2>1 DEF BadClut
  <2>3. n + 8 <= d(12).len /\ n + 8 + ClutBytes(h) + 12 <= d(12).len /\ n + 20 <= d(12).len
    BY <1>4, <2>1
  <2>4. IsHead(d(12), n)
    BY <1>3, <2>1, <2>2, <2>3 DEF IsHead, Fits
  <2>5. HeadAt(d(12), n).st = "OK" /\ HeadAt(d(12), n).clut
    BY <2>1, <2>4, HeadImage
  <2> DEFINE hits == {o \in DOMAIN d(12).heads :
                        o % 4 = 0 /\ o + 20 <= d(12).len /\ HeadAt(d(12), o).st = "OK"
                        /\ HeadAt(d(12), o).clut}
  <2>6. hits = {n}
    BY <2>1, <2>3, <2>5
  <2>7. Min({n}) = n
    BY DEF Min
  <2>8. LogoFind(d(12)) = IF hits = {} THEN -1 ELSE Min(hits)
    BY <1>7
  <2> QED BY <2>6, <2>7, <2>8
<1>9. LogoFind(d(11)) = -1
  <2>1. d(11).len = n + 8 + h.clen + 11 /\ Data(d(11)) /\ d(11).heads[n] = h
        /\ DOMAIN d(11).heads = {n} /\ d(11).len \in Nat
    BY <1>5, <1>6
  <2>2. ~(n + 8 + ClutBytes(h) + 12 <= d(11).len)
    BY <1>4, <2>1
  <2>3. ~IsHead(d(11), n)
    BY <2>1, <2>2 DEF IsHead, Fits
  <2>4. HeadAt(d(11), n).st # "OK"
    BY <2>1, <2>3, HeadImage
  <2> DEFINE hits == {o \in DOMAIN d(11).heads :
                        o % 4 = 0 /\ o + 20 <= d(11).len /\ HeadAt(d(11), o).st = "OK"
                        /\ HeadAt(d(11), o).clut}
  <2>5. hits = {}
    BY <2>1, <2>4
  <2>6. LogoFind(d(11)) = IF hits = {} THEN -1 ELSE Min(hits)
    BY <1>7
  <2> QED BY <2>5, <2>6
<1>10. ASSUME n > 0 PROVE Images(d(h.ilen)) = << >>
  <2> DEFINE f == d(h.ilen)
             s == Images(f)
  <2>1. Data(f) /\ DOMAIN f.heads = {n}
    BY <1>4, <1>5, <1>6
  <2> HIDE DEF f
  <2>2. PICK pos : Follow(pos, f)
    BY <2>1, ImagesFollow
  <2>3. Len(s) \in Nat /\ (\E S : s \in Seq(S)) /\ pos[0] = 0
        /\ \A k \in 1 .. Len(s) : s[k] = ImageAt(f, pos[k - 1]) /\ s[k].st = "OK"
    BY <2>2 DEF Follow
  <2> HIDE DEF s
  <2>4. ~IsImage(f, 0)
    BY <1>10, <2>1 DEF IsImage, Fits
  <2>5. ImageAt(f, 0).st # "OK"
    BY <2>1, <2>4, WholeImage
  <2>6. ~(1 \in 1 .. Len(s))
    <3> SUFFICES ASSUME 1 \in 1 .. Len(s) PROVE FALSE
      OBVIOUS
    <3>1. s[1] = ImageAt(f, pos[1 - 1]) /\ s[1].st = "OK" /\ 1 - 1 = 0
      BY <2>3
    <3> QED BY <2>3, <2>5, <3>1
  <2>7. Len(s) = 0
    BY <2>3, <2>6
  <2>8. s = << >>
    BY <2>3, <2>7
  <2> QED BY <2>8 DEF f, s
<1> QED BY <1>8, <1>9, <1>10 DEF d

LEMMA LogosRight ==
  ASSUME NEW a, Archive(a)
  PROVE  LogosFound(a)
<1> SUFFICES ASSUME NEW h \in UNION Range(a.images), HasClut(h), OneImage(a, 1), h \in a.images[1],
                    NEW n \in {0, 4, 5184}
             PROVE  /\ LogoFind(Logo(h, n, 12)) = n
                    /\ LogoFind(Logo(h, n, 11)) = -1
                    /\ n > 0 => Images(Logo(h, n, h.ilen)) = << >>
  BY DEF LogosFound
<1>1. 1 \in 1 .. Len(a.images) /\ 1 \in 1 .. Len(a.members)
  <2>1. Len(a.images) \in Nat /\ DOMAIN a.images = 1 .. Len(a.images)
    BY DEF Archive
  <2>2. DOMAIN a.images # {}
    BY DEF Range
  <2>3. 1 \in 1 .. Len(a.images)
    BY <2>1, <2>2
  <2> QED BY <2>3 DEF Archive
<1>2. h \in Header
  BY <1>1 DEF Archive
<1>3. PICK g \in a.images[1] : ImageAt([len |-> a.members[1].out, heads |-> OnlyAt(0, g)], 0).st = "OK"
  BY DEF OneImage
<1>4. g = h
  BY <1>1, <1>3 DEF Archive
<1>5. a.members[1].out \in Nat
  BY <1>1, Befores
<1>6. n \in Nat /\ n % 4 = 0
  OBVIOUS
<1>7. ImageAt([len |-> a.members[1].out, heads |-> OnlyAt(0, h)], 0).st = "OK"
  BY <1>3, <1>4
<1> QED BY <1>2, <1>5, <1>6, <1>7, LogoRight

-----------------------------------------------------------------------------
LEMMA MinOf ==
  ASSUME NEW S \in SUBSET Nat, S # {}
  PROVE  Min(S) \in S /\ \A x \in S : Min(S) <= x
<1>1. PICK m \in S : \A x \in S : <<x, m>> \notin OpToRel(<, Nat)
  BY NatLessThanWellFounded, WFMin
<1>2. \A x \in S : ~(x < m)
  BY <1>1 DEF OpToRel
<1>3. \A x \in S : m <= x
  BY <1>2
<1>4. PICK x : x = Min(S)
  OBVIOUS
<1>5. x \in S /\ \A y \in S : x <= y
  BY <1>3, <1>4 DEF Min
<1> QED BY <1>4, <1>5

(* The next string of a text from p on begins at FromAt and ends in front  *)
(* of EndAt.                                                               *)
FromAt(t, p) == Min({Len(t)} \cup {x \in p .. Len(t) - 1 : t[x + 1] # 0})
EndAt(t, p)  == Min({Len(t)} \cup {x \in FromAt(t, p) .. Len(t) - 1 : t[x + 1] = 0})

LEMMA NextString ==
  ASSUME NEW t \in Seq(Nat), NEW p \in Nat
  PROVE  LET q == FromAt(t, p)
             j == EndAt(t, p)
             n == Len(t)
         IN  /\ q \in 0 .. n /\ j \in 0 .. n
             /\ q < n => q >= p /\ t[q + 1] # 0
             /\ \A x \in p .. n - 1 : x < q => t[x + 1] = 0
             /\ q < n => j > q
             /\ j < n => t[j + 1] = 0
             /\ \A x \in q .. n - 1 : x < j => t[x + 1] # 0
<1> DEFINE n == Len(t)
           A == {n} \cup {x \in p .. n - 1 : t[x + 1] # 0}
           q == Min(A)
           B == {n} \cup {x \in q .. n - 1 : t[x + 1] = 0}
           j == Min(B)
<1>1. n \in Nat /\ FromAt(t, p) = q /\ EndAt(t, p) = j
  BY DEF FromAt, EndAt
<1>2. A \in SUBSET Nat /\ A # {}
  BY <1>1
<1> HIDE DEF n
<1>3. q \in A /\ \A x \in A : q <= x
  <2> HIDE DEF A
  <2> QED BY <1>2, MinOf
<1>4. /\ q \in 0 .. n /\ (q < n => q >= p /\ t[q + 1] # 0)
      /\ \A x \in p .. n - 1 : x < q => t[x + 1] = 0
  <2> HIDE DEF q
  <2>1. q \in 0 .. n /\ (q < n => q >= p /\ t[q + 1] # 0)
    BY <1>1, <1>3
  <2>2. ASSUME NEW x \in p .. n - 1, x < q PROVE t[x + 1] = 0
    <3>1. x \notin A
      BY <1>1, <1>3, <2>1, <2>2
    <3> QED BY <3>1
  <2> QED BY <2>1, <2>2
<1> HIDE DEF q
<1>5. B \in SUBSET Nat /\ B # {}
  BY <1>1, <1>4
<1>6. j \in B /\ \A x \in B : j <= x
  <2> HIDE DEF B
  <2> QED BY <1>5, MinOf
<1>7. /\ j \in 0 .. n /\ (j < n => t[j + 1] = 0) /\ j >= q
      /\ \A x \in q .. n - 1 : x < j => t[x + 1] # 0
  <2> HIDE DEF j
  <2>1. j \in 0 .. n /\ (j < n => t[j + 1] = 0) /\ j >= q
    BY <1>1, <1>4, <1>6
  <2>2. ASSUME NEW x \in q .. n - 1, x < j PROVE t[x + 1] # 0
    <3>1. x \notin B
      BY <1>1, <1>4, <1>6, <2>1, <2>2
    <3> QED BY <3>1
  <2> QED BY <2>1, <2>2
<1> HIDE DEF j
<1>8. q < n => j > q
  <2> SUFFICES ASSUME q < n, j = q PROVE FALSE
    BY <1>1, <1>4, <1>7
  <2>1. t[q + 1] # 0 /\ t[j + 1] = 0
    BY <1>4, <1>7
  <2> QED BY <2>1
<1> QED BY <1>1, <1>4, <1>7, <1>8 DEF n

(* The strings found, one behind the other, and that none is left.         *)
Reads(pos, t) ==
  LET s == Strings(t) IN
  /\ Len(s) \in Nat /\ DOMAIN s = 1 .. Len(s)
  /\ pos \in [0 .. Len(s) -> Nat] /\ pos[0] = 0
  /\ FromAt(t, pos[Len(s)]) >= Len(t)
  /\ \A k \in 1 .. Len(s) :
       /\ FromAt(t, pos[k - 1]) < Len(t)
       /\ s[k] = [from |-> FromAt(t, pos[k - 1]),
                  len |-> EndAt(t, pos[k - 1]) - FromAt(t, pos[k - 1])]
       /\ pos[k] = EndAt(t, pos[k - 1]) + 1

LEMMA StringsRead ==
  ASSUME NEW t \in Seq(Nat)
  PROVE  \E pos : Reads(pos, t)
<1> DEFINE n == Len(t)
           Str(p) == [from |-> FromAt(t, p), len |-> EndAt(t, p) - FromAt(t, p)]
           v == [p \in Nat |-> Str(p)]
           to == [p \in Nat |-> EndAt(t, p) + 1]
           stop == {p \in Nat : FromAt(t, p) >= n}
           Eq(f) == f = [p \in Nat |->
                          LET q == Min({n} \cup {x \in p .. n - 1 : t[x + 1] # 0})
                              j == Min({n} \cup {x \in q .. n - 1 : t[x + 1] = 0})
                          IN  IF q >= n THEN << >>
                              ELSE <<[from |-> q, len |-> j - q]>> \o f[j + 1]]
           S == {v[p] : p \in Nat}
<1>1. Scan(n, stop, to)
  <2>1. ASSUME NEW p \in Nat, p \notin stop PROVE to[p] \in Nat /\ to[p] > p
    <3>1. ~(FromAt(t, p) >= n) /\ to[p] = EndAt(t, p) + 1
      BY <2>1
    <3>2. n \in Nat
      OBVIOUS
    <3>3. FromAt(t, p) \in 0 .. n /\ EndAt(t, p) \in 0 .. n
          /\ (FromAt(t, p) < n => FromAt(t, p) >= p /\ EndAt(t, p) > FromAt(t, p))
      BY NextString
    <3> HIDE DEF to, n
    <3> QED BY <3>1, <3>2, <3>3
  <2>2. n \in Nat /\ stop \in SUBSET Nat
    OBVIOUS
  <2>3. ASSUME NEW p \in Nat, p >= n PROVE p \in stop
    <3>1. FromAt(t, p) \in 0 .. n /\ (FromAt(t, p) < n => FromAt(t, p) >= p)
      BY NextString
    <3>2. FromAt(t, p) >= n
      <4> HIDE DEF n, to, stop
      <4> QED BY <2>2, <2>3, <3>1
    <3> QED BY <3>2 DEF stop
  <2> HIDE DEF to, stop, n
  <2> QED BY <2>1, <2>2, <2>3 DEF Scan
<1>2. ASSUME NEW f PROVE Scans(f, stop, v, to) <=> Eq(f)
  <2>1. ASSUME NEW p \in Nat
        PROVE  (IF p \in stop THEN << >> ELSE <<v[p]>> \o f[to[p]])
                 = LET q == Min({n} \cup {x \in p .. n - 1 : t[x + 1] # 0})
                       j == Min({n} \cup {x \in q .. n - 1 : t[x + 1] = 0})
                   IN  IF q >= n THEN << >>
                       ELSE <<[from |-> q, len |-> j - q]>> \o f[j + 1]
    <3>1. (p \in stop <=> FromAt(t, p) >= n) /\ v[p] = Str(p) /\ to[p] = EndAt(t, p) + 1
      BY <2>1
    <3> HIDE DEF v, to, stop
    <3> QED BY <3>1, Zenon DEF FromAt, EndAt
  <2> HIDE DEF v, to, stop
  <2> QED BY <2>1, Zenon DEF Scans
<1>3. Eq(CHOOSE f : Eq(f))
  <2>1. \E f : Scans(f, stop, v, to)
    <3> HIDE DEF v, to, stop
    <3> QED BY <1>1, ScanExists
  <2> HIDE DEF Eq
  <2> QED BY <1>2, <2>1
<1>4. PICK f : Eq(f) /\ Strings(t) = f[0]
  <2>1. Strings(t) = (CHOOSE f : Eq(f))[0]
    BY Zenon DEF Strings
  <2> HIDE DEF Eq
  <2> QED BY <1>3, <2>1
<1>5. PICK pos : Visits(pos, f[0], stop, v, to, S) /\ pos[0] = 0
  <2>1. Scans(f, stop, v, to)
    BY <1>2, <1>4
  <2>2. Yields(stop, v, S)
    BY DEF Yields
  <2> HIDE DEF v, to, stop, S, Eq
  <2> QED BY <1>1, <2>1, <2>2, ScanVisits
<1>6. PICK s \in Seq(S) : s = f[0] /\ s = Strings(t)
  <2> HIDE DEF v, to, stop, S
  <2> QED BY <1>4, <1>5 DEF Visits
<1>7. pos \in [0 .. Len(s) -> Nat] /\ Len(s) \in Nat /\ DOMAIN s = 1 .. Len(s)
  <2> HIDE DEF v, to, stop, S
  <2> QED BY <1>5, <1>6 DEF Visits
<1>8. FromAt(t, pos[Len(s)]) >= Len(t)
  <2>1. pos[Len(s)] \in stop
    <3> HIDE DEF v, to, stop, S
    <3> QED BY <1>5, <1>6 DEF Visits
  <2> QED BY <2>1
<1>9. ASSUME NEW k \in 1 .. Len(s)
      PROVE  /\ FromAt(t, pos[k - 1]) < Len(t)
             /\ s[k] = Str(pos[k - 1])
             /\ pos[k] = EndAt(t, pos[k - 1]) + 1
  <2>1. pos[k - 1] \notin stop /\ s[k] = v[pos[k - 1]] /\ pos[k] = to[pos[k - 1]] /\ pos[k - 1] \in Nat
    <3>1. k - 1 \in 0 .. Len(s)
      BY <1>7
    <3> HIDE DEF v, to, stop, S
    <3> QED BY <1>5, <1>6, <1>7, <3>1 DEF Visits
  <2>2. PICK p \in Nat : p = pos[k - 1]
    BY <2>1
  <2>3. p \notin stop /\ s[k] = v[p] /\ pos[k] = to[p]
    BY <2>1, <2>2
  <2>4. v[p] = Str(p) /\ ~(FromAt(t, p) >= n) /\ to[p] = EndAt(t, p) + 1
    BY <2>3
  <2>5. FromAt(t, p) \in 0 .. n
    BY NextString
  <2>7. n \in Nat
    OBVIOUS
  <2> HIDE DEF v, to, stop, S, n
  <2>6. FromAt(t, p) < n
    BY <2>4, <2>5, <2>7
  <2> QED BY <2>2, <2>3, <2>4, <2>6 DEF n
<1> HIDE DEF v, to, stop, S
<1> QED BY <1>5, <1>6, <1>7, <1>8, <1>9 DEF Reads

(* They are the runs of bytes that are not 0, in order.                    *)
LEMMA TextRight ==
  ASSUME NEW t \in Seq(Nat)
  PROVE  LET s == Strings(t) IN
         /\ {<<s[k].from, s[k].from + s[k].len>> : k \in DOMAIN s} = Runs(t)
         /\ \A k \in 2 .. Len(s) : s[k - 1].from < s[k].from
<1> DEFINE s == Strings(t)
           n == Len(t)
<1>1. PICK pos : Reads(pos, t)
  BY StringsRead
<1>2. /\ Len(s) \in Nat /\ DOMAIN s = 1 .. Len(s) /\ pos \in [0 .. Len(s) -> Nat]
      /\ pos[0] = 0 /\ FromAt(t, pos[Len(s)]) >= n /\ n \in Nat
  BY <1>1 DEF Reads
<1>3. ASSUME NEW k \in 1 .. Len(s)
      PROVE  LET p == pos[k - 1]
                 q == s[k].from
                 j == s[k].from + s[k].len
             IN  /\ p \in Nat /\ q \in 0 .. n - 1 /\ j \in 0 .. n /\ q >= p /\ t[q + 1] # 0
                 /\ \A x \in p .. n - 1 : x < q => t[x + 1] = 0
                 /\ j > q /\ (j < n => t[j + 1] = 0)
                 /\ \A x \in q .. n - 1 : x < j => t[x + 1] # 0
                 /\ pos[k] = j + 1
  <2>1. PICK p \in Nat : p = pos[k - 1]
    <3>1. k - 1 \in 0 .. Len(s)
      BY <1>2
    <3> QED BY <1>2, <3>1
  <2>2. FromAt(t, p) < n /\ s[k] = [from |-> FromAt(t, p), len |-> EndAt(t, p) - FromAt(t, p)]
        /\ pos[k] = EndAt(t, p) + 1
    BY <1>1, <2>1 DEF Reads
  <2>3. FromAt(t, p) \in 0 .. n /\ EndAt(t, p) \in 0 .. n
    BY NextString
  <2>4. PICK q \in 0 .. n - 1 : q = FromAt(t, p)
    <3> HIDE DEF n, s
    <3> QED BY <1>2, <2>2, <2>3 DEF n
  <2>5. PICK j \in 0 .. n : j = EndAt(t, p)
    BY <2>3
  <2>6. s[k].from = q /\ s[k].len = j - q
    BY <2>2, <2>4, <2>5
  <2>7. q + (j - q) = j
    BY <1>2, <2>4, <2>5
  <2>8. /\ q >= p /\ t[q + 1] # 0
        /\ \A x \in p .. n - 1 : x < q => t[x + 1] = 0
        /\ j > q /\ (j < n => t[j + 1] = 0)
        /\ \A x \in q .. n - 1 : x < j => t[x + 1] # 0
    BY <2>2, <2>4, <2>5, NextString
  <2> HIDE DEF s, n
  <2> QED BY <2>1, <2>2, <2>4, <2>5, <2>6, <2>7, <2>8
<1> HIDE DEF s
<1>4. ASSUME NEW k \in 2 .. Len(s) PROVE s[k - 1].from < s[k].from
  <2>1. k \in 1 .. Len(s) /\ k - 1 \in 1 .. Len(s)
    BY <1>2
  <2>2. PICK q \in Nat : q = s[k - 1].from /\ pos[k - 1] > q
    <3>1. PICK i \in 1 .. Len(s) : i = k - 1
      BY <2>1
    <3>2. PICK q \in 0 .. n - 1, j \in 0 .. n :
            q = s[i].from /\ j = s[i].from + s[i].len /\ j > q /\ pos[i] = j + 1
      BY <1>3
    <3>3. q \in Nat /\ j + 1 > q
      BY <1>2, <3>2
    <3> QED BY <3>1, <3>2, <3>3
  <2>3. s[k].from >= pos[k - 1] /\ s[k].from \in Nat /\ pos[k - 1] \in Nat
    BY <1>3, <2>1
  <2> QED BY <2>2, <2>3
<1> DEFINE End(k) == <<s[k].from, s[k].from + s[k].len>>
           found == {End(k) : k \in 1 .. Len(s)}
<1>5. ASSUME NEW k \in 1 .. Len(s) PROVE End(k) \in Runs(t)
  <2>1. PICK p \in Nat, q \in 0 .. n - 1, j \in 0 .. n :
          p = pos[k - 1] /\ q = s[k].from /\ j = s[k].from + s[k].len
    BY <1>3
  <2>2. /\ q >= p /\ t[q + 1] # 0
        /\ \A x \in p .. n - 1 : x < q => t[x + 1] = 0
        /\ j > q /\ (j < n => t[j + 1] = 0)
        /\ \A x \in q .. n - 1 : x < j => t[x + 1] # 0
    BY <1>3, <2>1
  <2>3. \A x \in q + 1 .. j : t[x] # 0
    <3> SUFFICES ASSUME NEW x \in q + 1 .. j PROVE t[x] # 0
      OBVIOUS
    <3>1. x - 1 \in q .. n - 1 /\ x - 1 < j /\ (x - 1) + 1 = x
      BY <1>2
    <3> QED BY <2>2, <3>1
  <2>4. q = 0 \/ t[q] = 0
    <3>1. CASE q > p
      <4>1. q - 1 \in p .. n - 1 /\ q - 1 < q /\ (q - 1) + 1 = q
        BY <1>2, <3>1
      <4> QED BY <2>2, <4>1
    <3>2. CASE q = p /\ k = 1
      BY <1>2, <2>1, <3>2
    <3>3. CASE q = p /\ k # 1
      <4>1. k - 1 \in 1 .. Len(s)
        BY <1>2, <3>3
      <4>2. PICK i \in 0 .. n : pos[k - 1] = i + 1 /\ (i < n => t[i + 1] = 0)
        BY <1>3, <4>1
      <4>3. i + 1 = q /\ i < n
        BY <1>2, <2>1, <3>3, <4>2
      <4> QED BY <4>2, <4>3
    <3> QED BY <2>2, <3>1, <3>2, <3>3
  <2>5. j = n \/ t[j + 1] = 0
    BY <1>2, <2>2
  <2>6. <<q, j>> \in Runs(t)
    <3>1. <<q, j>> \in (0 .. Len(t)) \X (0 .. Len(t)) /\ q < j
      BY <1>2, <2>2
    <3> QED BY <2>3, <2>4, <2>5, <3>1 DEF Runs
  <2> QED BY <2>1, <2>6
<1>6. ASSUME NEW r \in Runs(t) PROVE r \in found
  <2>1. PICK b \in 0 .. n, c \in 0 .. n :
          /\ r = <<b, c>> /\ b < c /\ \A x \in b + 1 .. c : t[x] # 0
          /\ b = 0 \/ t[b] = 0
          /\ c = n \/ t[c + 1] = 0
    <3>1. /\ r \in (0 .. n) \X (0 .. n) /\ r[1] < r[2] /\ \A x \in r[1] + 1 .. r[2] : t[x] # 0
          /\ r[1] = 0 \/ t[r[1]] = 0
          /\ r[2] = n \/ t[r[2] + 1] = 0
      BY DEF Runs
    <3> HIDE DEF n, found
    <3>2. PICK b \in 0 .. n, c \in 0 .. n : r = <<b, c>>
      BY <3>1
    <3>3. r[1] = b /\ r[2] = c
      BY <3>2
    <3> QED BY <3>1, <3>2, <3>3
  <2>2. b + 1 \in b + 1 .. c /\ t[b + 1] # 0 /\ b \in Nat /\ c \in Nat /\ b < n
    BY <1>2, <2>1
  <2> DEFINE Good == {k \in 0 .. Len(s) : pos[k] > b => r \in found}
  <2>3. 0 \in Good
    BY <1>2, <2>2
  <2>4. ASSUME NEW k \in 0 .. Len(s) - 1, k \in Good PROVE k + 1 \in Good
    <3>1. k + 1 \in 1 .. Len(s) /\ k + 1 \in 0 .. Len(s) /\ (k + 1) - 1 = k
      BY <1>2
    <3>2. CASE pos[k] > b
      BY <2>4, <3>1, <3>2
    <3>3. CASE ~(pos[k] > b) /\ pos[k + 1] > b
      <4>1. PICK p \in Nat, q \in 0 .. n - 1, j \in 0 .. n :
              p = pos[k] /\ q = s[k + 1].from /\ j = s[k + 1].from + s[k + 1].len
        BY <1>3, <3>1
      <4>2. /\ q >= p /\ t[q + 1] # 0
            /\ \A x \in p .. n - 1 : x < q => t[x + 1] = 0
            /\ j > q /\ (j < n => t[j + 1] = 0)
            /\ \A x \in q .. n - 1 : x < j => t[x + 1] # 0
            /\ pos[k + 1] = j + 1
        BY <1>3, <3>1, <4>1
      <4>3. b >= p /\ b <= j
        BY <2>2, <3>3, <4>1, <4>2
      <4>4. b >= q
        <5>1. b \in p .. n - 1
          BY <1>2, <2>2, <4>3
        <5>2. ~(b < q)
          BY <2>2, <4>2, <5>1
        <5> QED BY <2>2, <5>2
      <4>5. b < j
        <5>1. b # j
          BY <2>2, <4>2
        <5> QED BY <2>2, <4>3, <5>1
      <4>6. b = q
        <5> SUFFICES ASSUME b > q PROVE FALSE
          BY <2>2, <4>4
        <5>1. b - 1 \in q .. n - 1 /\ b - 1 < j /\ (b - 1) + 1 = b /\ b # 0
          BY <1>2, <2>2, <4>5
        <5>2. t[b] # 0
          BY <4>2, <5>1
        <5> QED BY <2>1, <5>1, <5>2
      <4>7. ~(c > j)
        <5> SUFFICES ASSUME c > j PROVE FALSE
          OBVIOUS
        <5>1. j < n /\ j + 1 \in b + 1 .. c
          BY <1>2, <2>2, <4>5
        <5> QED BY <2>1, <4>2, <5>1
      <4>8. ~(c < j)
        <5> SUFFICES ASSUME c < j PROVE FALSE
          OBVIOUS
        <5>1. c # n /\ c \in q .. n - 1
          BY <1>2, <2>1, <2>2, <4>6
        <5> QED BY <2>1, <4>2, <5>1
      <4>9. c = j
        BY <2>2, <4>7, <4>8
      <4>10. r = End(k + 1)
        BY <2>1, <4>1, <4>6, <4>9
      <4> QED BY <3>1, <4>10
    <3>4. CASE ~(pos[k] > b) /\ ~(pos[k + 1] > b)
      BY <3>1, <3>4
    <3> QED BY <3>2, <3>3, <3>4
  <2>5. Good = 0 .. Len(s)
    <3>1. Good \in SUBSET (0 .. Len(s))
      OBVIOUS
    <3> HIDE DEF Good
    <3> QED BY <1>2, <2>3, <2>4, <3>1, StepUp
  <2>6. pos[Len(s)] > b
    <3>1. PICK p \in Nat : p = pos[Len(s)]
      BY <1>2
    <3>2. \A x \in p .. n - 1 : x < FromAt(t, p) => t[x + 1] = 0
      BY NextString
    <3>3. FromAt(t, p) >= n /\ FromAt(t, p) \in 0 .. n
      BY <1>2, <3>1, NextString
    <3>4. b \notin p .. n - 1
      BY <1>2, <2>2, <3>2, <3>3
    <3> QED BY <1>2, <2>2, <3>1, <3>4
  <2>7. Len(s) \in Good
    <3>1. Len(s) \in 0 .. Len(s)
      BY <1>2
    <3> HIDE DEF Good
    <3> QED BY <2>5, <3>1
  <2> HIDE DEF found
  <2> QED BY <2>6, <2>7
<1>7. found = Runs(t)
  BY <1>5, <1>6
<1> QED BY <1>2, <1>4, <1>7 DEF s

(* What a call of gt2_gunzip_join is given, if one was made.               *)
Called == (step # "idle" \/ urc = "OK") /\ call = "join" => todo \in Archives

LEMMA ArchivesAre == \A a \in Archives : Archive(a)
<1> SUFFICES ASSUME NEW a \in Archives PROVE Archive(a)
  OBVIOUS
<1>1. /\ a.images \in Seq(SUBSET Header) /\ Len(a.images) = Len(a.members)
      /\ \A k \in DOMAIN a.images : \A g, h \in a.images[k] : g = h
  BY ContentsAssumption DEF Header
<1>2. a.members \in Seq([comp : Nat, out : Nat, good : BOOLEAN])
  <2>1. a.members \in Seq(Chains)
    BY UnpackAssumption DEF Chains
  <2> DEFINE M == [comp : Nat, out : Nat, good : BOOLEAN]
  <2>2. Chains \subseteq M
    BY DEF Chains
  <2>3. a.members \in Seq(M)
    <3> HIDE DEF M
    <3> QED BY <2>1, <2>2
  <2> QED BY <2>3
<1> QED BY <1>1, <1>2 DEF Archive

LEMMA CalledInit == SystemInit => Called
  BY DEF SystemInit, UnpackInit, Called

LEMMA CalledStep == Called /\ [SystemNext]_systemVars => Called'
<1> SUFFICES ASSUME Called, [SystemNext]_systemVars PROVE Called'
  OBVIOUS
<1>1. CASE UNCHANGED unpackVars
  BY <1>1 DEF unpackVars, Called
<1>2. CASE Boots \/ Opens \/ UNCHANGED systemVars
  BY <1>1, <1>2 DEF Boots, Opens, systemVars
<1>3. CASE Unpacks
  <2>1. CASE LoadOverlay
    BY <2>1 DEF LoadOverlay, Begins, Called
  <2>2. CASE Join
    BY <2>2 DEF Join, Begins, Called
  <2>3. CASE Leave
    BY <2>3 DEF Leave, Called
  <2>4. CASE ReadPacked \/ TakeBuffer \/ NextMember \/ Init2 \/ Inflate
    <3>1. step # "idle" /\ UNCHANGED <<call, todo>>
      BY <2>4 DEF ReadPacked, TakeBuffer, NextMember, Init2, Inflate, GoesOn, Returns, Fails, JoinEnds,
                  CannotGrow, InflateOn, EndOvl, EndJoin, Broken
    <3> QED BY <3>1 DEF Called
  <2> QED BY <1>3, <2>1, <2>2, <2>3, <2>4 DEF Unpacks, UnpackNext
<1> QED BY <1>2, <1>3 DEF SystemNext

LEMMA CalledFinds == Called => ContentsFound
<1> SUFFICES ASSUME Called PROVE ContentsFound
  OBVIOUS
<1>1. ASSUME step = "idle", urc = "OK", call = "join"
      PROVE  ImagesOf(Joined(todo)) /\ EachFound(todo) /\ LogosFound(todo)
  <2>1. Archive(todo)
    BY <1>1, ArchivesAre DEF Called
  <2>2. Data(Joined(todo))
    BY <2>1, JoinedData
  <2> QED BY <2>1, <2>2, ImagesRight, EachRight, LogosRight
<1>2. TextsRead
  BY ContentsAssumption, TextRight DEF TextsRead
<1> QED BY <1>1, <1>2 DEF ContentsFound

(* Whatever chains and texts there are: in what was unpacked the images    *)
(* lie one behind the other inside the bytes, the index walk finds just    *)
(* those that the count has counted, what is encoded from one describes    *)
(* it again, where each member is one image each is found where its bytes  *)
(* begin, a cut logo is found, and the strings of a text are its runs      *)
(* (tim.c).                                                                *)
THEOREM ContentsKept == SystemSpec => []ContentsFound
<1>1. SystemInit => Called
  BY CalledInit
<1>2. Called /\ [SystemNext]_systemVars => Called'
  BY CalledStep
<1>3. Called => ContentsFound
  BY CalledFinds
<1> QED BY <1>1, <1>2, <1>3, PTL DEF SystemSpec

-----------------------------------------------------------------------------
(* A run of the whole is a run of its boot states, so that what is proved  *)
(* of them above holds here.                                               *)
THEOREM SystemBoots == SystemSpec => Spec
<1>1. SystemInit => Init
  BY DEF SystemInit
<1>2. [SystemNext]_systemVars => [Next]_vars
  BY DEF SystemNext, systemVars, Boots, Opens, Unpacks
<1> QED BY <1>1, <1>2, PTL DEF SystemSpec, Spec

(* Hence, in the whole too: the types, the window neither lost nor freed   *)
(* twice, one run's parts together, and the slots cut (task.c).            *)
THEOREM SystemBootsKept ==
  SystemSpec => [](TypeOK /\ WindowOwned /\ PartsInOrder /\ SlotsWhole)
<1> QED BY SystemBoots, BootTypeCorrect, WindowKept, DepositLands, SlotsCut, PTL
=============================================================================
