------------------------------- MODULE BootTask -------------------------------
(***************************************************************************)
(* The boot chain, src/decomp/src/task/task.c: gt2_task_boot_run fills one *)
(* boot state in a fixed order and stops at the first part that fails.  A  *)
(* state may be run again, over another volume, and what a run that failed *)
(* has written stays.                                                      *)
(*                                                                         *)
(* What a part contains is known by the number of the run that wrote it,   *)
(* 0 for the zeros of calloc.  The parts that read the volume fail as it   *)
(* pleases; those that only write memory do not.                           *)
(***************************************************************************)
EXTENDS Integers, Sequences, FiniteSets

CONSTANTS
  Vols,       \* [crs, start, end, word]: CRS records, table entries of
              \* sys.ins and the next file, the word 16 bytes into it
  MaxRuns     \* bound on the runs of all states together

Sector     == 2048
DepositMax == 36864                  \* GT2_BOOT_B2_DEPOSIT_MAX, 0x9000
HeapInit   == 4112                   \* GT2_B2_HEAP_INIT
CrsMax     == 256                    \* GT2_BOOT_CRS_MAX

ASSUME BootAssumption ==
  /\ MaxRuns \in Nat
  /\ \A v \in Vols : v.crs \in Nat /\ v.start \in Nat /\ v.end \in Nat
                     /\ v.word \in Nat

(* Broken on purpose: the transfer is completed where it is queued.        *)
ChainEager == <<"cache", "cars", "logo", "crsmap", "window", "crs", "queue",
                "deposit", "gather", "marks", "slots", "blocks", "tails", "b4",
                "b5", "b6", "span">>
Chain == <<"cache", "cars", "logo", "crsmap", "window", "crs", "queue",
           "gather", "marks", "slots", "blocks", "tails", "b4", "b5", "b6",
           "span", "deposit">>
Parts == {Chain[k] : k \in DOMAIN Chain}

VARIABLES
  pc,         \* -1 without a state, 0 between calls, or the place in the chain
  run,        \* number of the last run
  vol,        \* its volume
  stamp,      \* part -> the run that wrote it
  window,     \* crs_window: the run that allocated it, 0 for NULL
  live,       \* windows allocated and not freed
  slots,      \* slots of the task area that are as slot_init left them
  word,       \* the word at b2_deposit + 0x10
  heap, xfer, \* b2_heap and b2_req.xfer_len
  len,        \* b2_deposit_len
  rc

vars == <<pc, run, vol, stamp, window, live, slots, word, heap, xfer, len, rc>>

TypeOK ==
  /\ pc \in -1..Len(Chain)
  /\ run \in 0..MaxRuns /\ vol \in Vols
  /\ stamp \in [Parts -> 0..run] /\ window \in 0..run
  /\ live \subseteq 1..run /\ slots \subseteq 0..(CrsMax - 1)
  /\ word \in Nat /\ heap \in Nat /\ xfer \in Int /\ len \in 0..DepositMax
  /\ rc \in {"none", "OK", "INVAL", "NO_MEM", "IO", "NOT_FOUND", "NOSPACE",
             "TRUNCATED", "BAD_DATA"}

Zeros == [p \in Parts |-> 0]
Init ==
  /\ pc = -1 /\ run = 0 /\ vol \in Vols /\ live = {} /\ rc = "none"
  /\ stamp = Zeros /\ window = 0 /\ slots = {}
  /\ word = 0 /\ heap = 0 /\ xfer = 0 /\ len = 0

Create ==
  /\ pc = -1 /\ pc' = 0 /\ rc' = "none"
  /\ stamp' = Zeros /\ window' = 0 /\ slots' = {}
  /\ word' = 0 /\ heap' = 0 /\ xfer' = 0 /\ len' = 0
  /\ UNCHANGED <<run, vol, live>>
(* What was freed counts as zero, so that there is one state without any.  *)
Destroy ==
  /\ pc = 0 /\ pc' = -1 /\ live' = live \ {window} /\ rc' = "none"
  /\ stamp' = Zeros /\ window' = 0 /\ slots' = {}
  /\ word' = 0 /\ heap' = 0 /\ xfer' = 0 /\ len' = 0
  /\ UNCHANGED <<run, vol>>

(* A call drops the window of the last one before it does anything.        *)
(* Broken on purpose: but keeps its address.                               *)
DropsOnly == live' = live \ {window} /\ window' = window
Drops     == live' = live \ {window} /\ window' = 0

Start ==
  /\ pc = 0 /\ run < MaxRuns
  /\ run' = run + 1 /\ vol' \in Vols /\ pc' = 1 /\ Drops
  /\ UNCHANGED <<stamp, slots, word, heap, xfer, len, rc>>

BadCall == pc = 0 /\ rc' = "INVAL"
           /\ UNCHANGED <<pc, run, vol, stamp, window, live, slots, word, heap,
                          xfer, len>>

-----------------------------------------------------------------------------
Part == IF pc < 1 THEN "none" ELSE Chain[pc]
Goes == /\ pc' = IF pc = Len(Chain) THEN 0 ELSE pc + 1
        /\ rc' = IF pc = Len(Chain) THEN "OK" ELSE rc
Writes == stamp' = [stamp EXCEPT ![Part] = run]
Stops(e) == pc' = 0 /\ rc' = e

(* The statuses that the readers' own statuses are mapped to.              *)
Readers == [cache  |-> {"INVAL"},
            cars   |-> {"INVAL", "NOSPACE", "NOT_FOUND", "TRUNCATED"},
            logo   |-> {"INVAL", "NOSPACE", "NOT_FOUND", "TRUNCATED"},
            crsmap |-> {"INVAL", "NO_MEM", "TRUNCATED", "NOSPACE", "NOT_FOUND"},
            gather |-> {"INVAL"},
            span   |-> {"INVAL", "NOT_FOUND", "TRUNCATED"}]

Read ==
  /\ Part \in DOMAIN Readers
  /\ \/ Writes /\ Goes
     \/ \E e \in Readers[Part] :         \* a table may be partly written
          /\ Stops(e) /\ stamp' \in {stamp, [stamp EXCEPT ![Part] = run]}
  /\ UNCHANGED <<run, vol, window, live, slots, word, heap, xfer, len>>

LoadWindow ==
  /\ Part = "window"
  /\ \/ /\ window' = run /\ live' = live \cup {run} /\ Writes /\ Goes
     \/ /\ \E e \in {"INVAL", "NO_MEM", "IO", "TRUNCATED"} : Stops(e)
        /\ UNCHANGED <<stamp, window, live>>
  /\ UNCHANGED <<run, vol, slots, word, heap, xfer, len>>

ParseCrs ==
  /\ Part = "crs"
  /\ \/ vol.crs <= CrsMax /\ Writes /\ Goes
     \/ vol.crs > CrsMax /\ Stops("NOSPACE") /\ UNCHANGED stamp
     \/ \E e \in {"INVAL", "BAD_DATA", "TRUNCATED"} : Stops(e) /\ UNCHANGED stamp
  /\ UNCHANGED <<run, vol, window, live, slots, word, heap, xfer, len>>

Floor(x) == (x \div Sector) * Sector
Wanted   == Floor(vol.end) - vol.start  \* below 0 is a wrapped u32: too large

QueueB2 ==
  /\ Part = "queue"
  /\ \/ /\ vol.start <= vol.end
        /\ heap' = HeapInit + ((word + 31) \div 16) * 16
        /\ xfer' = Wanted /\ Writes /\ Goes
     \/ /\ \/ vol.start > vol.end /\ Stops("TRUNCATED")
           \/ Stops("NOT_FOUND")         \* slot 247 missing or out of range
        /\ heap' = HeapInit /\ UNCHANGED <<xfer, stamp>>
  /\ UNCHANGED <<run, vol, window, live, slots, word, len>>

(* The task area: slots from 0x218 on, 20 bytes each, and blocks of 164    *)
(* bytes over 0x1418 .. 0x3A87.  A slot that is not laid out keeps what it *)
(* has.  Of the slots behind 0x1418 the blocks spoil each but those that   *)
(* lie just where a block has one of its own five.                         *)
(* Broken on purpose: slots from 0x318 on.                                 *)
SlotEndLate(k) == 792 + k * 36 + 20
SlotEnd(k) == 536 + k * 36 + 20
Blocks     == 5144
FillSlots ==
  /\ Part = "slots" /\ slots' = slots \cup 0..(vol.crs - 1) /\ Writes /\ Goes
  /\ UNCHANGED <<run, vol, window, live, word, heap, xfer, len>>
InBlock == {k \in 0..(CrsMax - 1) :
              /\ SlotEnd(k) > Blocks
              /\ (SlotEnd(k) - 20 - Blocks) % 164 \in {4, 24, 44, 64, 84}}
FillBlocks ==
  /\ Part = "blocks"
  /\ slots' = {k \in slots : SlotEnd(k) <= Blocks} \cup InBlock
  /\ Writes /\ Goes
  /\ UNCHANGED <<run, vol, window, live, word, heap, xfer, len>>
Fill ==
  /\ Part \in {"marks", "tails", "b4", "b5", "b6"} /\ Writes /\ Goes
  /\ UNCHANGED <<run, vol, window, live, slots, word, heap, xfer, len>>

(* Broken on purpose: only the file is looked at.                          *)
TooLongForFile == xfer < 0 \/ xfer > vol.end - vol.start
TooLong == xfer < 0 \/ xfer > DepositMax \/ xfer > vol.end - vol.start

CompleteB2 ==
  /\ Part = "deposit"
  /\ \/ /\ ~TooLong
        /\ len' = xfer /\ word' = IF xfer >= 20 THEN vol.word ELSE word
        /\ Writes /\ Goes
     \/ /\ \/ TooLong /\ Stops("NOSPACE")
           \/ \E e \in {"NO_MEM", "IO", "INVAL"} : Stops(e)
        /\ UNCHANGED <<len, word, stamp>>
  /\ UNCHANGED <<run, vol, window, live, slots, heap, xfer>>

Next == \/ Create \/ Destroy \/ Start \/ BadCall
        \/ Read \/ LoadWindow \/ ParseCrs \/ QueueB2
        \/ FillSlots \/ FillBlocks \/ Fill \/ CompleteB2

Spec == Init /\ [][Next]_vars
-----------------------------------------------------------------------------
Done == pc = 0 /\ rc = "OK"

(* The window is never lost and never freed twice, however many runs fail  *)
(* between the free at the start of a call and the next load.              *)
WindowOwned == live = {window} \ {0} \/ (pc = -1 /\ live = {})

(* "The deposit MUST NOT land before b3..b7 run" (src/decomp/include/gt2/  *)
(* task.h:110): whatever runs have failed where, no part is older than the *)
(* deposit; what the queue of a later run has asked for lands with it or   *)
(* not at all.  And the records, which are offsets into the window         *)
(* (gt2_crs_target), were read from the window that is there, unless the   *)
(* last call has ended in the parser.                                      *)
DepositLast == \A p \in Parts : stamp["deposit"] <= stamp[p]
RecordsOfWindow ==
  window # 0 /\ (pc > 6 \/ (pc = 0 /\ rc \in {"OK", "IO", "NO_MEM", "NOT_FOUND"})) =>
    stamp["crs"] = window
PartsInOrder == DepositLast /\ RecordsOfWindow

(* "count x slot inits ... at base+0x218+i*0x24" (src/decomp/include/gt2/  *)
(* task.h:15-17): after a run the task area holds a slot for each CRS      *)
(* record of its volume, as long as there are no more than 128.  The       *)
(* runner takes 256, and lays the blocks over the slots that do not fit.   *)
SlotsWhole == Done => {k \in 0..(vol.crs - 1) : k < 128} \subseteq slots
=============================================================================
