-------------------------------- MODULE Mcd --------------------------------
(***************************************************************************)
(* The memory-card image of decomp/src/mcd/mcd.c: a directory of Entries   *)
(* frames and as many data blocks (15 of each in the code), files being    *)
(* chains of blocks linked through the directory.  The variables are the   *)
(* parts of the image a file lives in and the status of the last call.     *)
(*                                                                         *)
(* Frames are numbered 0..Entries-1 and blocks 1..Entries as in the code.  *)
(* Checksums, the header and the broken-sector list are left out.          *)
(***************************************************************************)
EXTENDS Integers, FiniteSets, Sequences

CONSTANTS
  Entries,   \* GT2_MCD_DIR_ENTRIES: directory frames, and data blocks
  Names,     \* the file names callers use
  NoName,    \* the empty name, which continuation frames carry
  Bodies,    \* file contents: sequences of 8 KB blocks
  Erased     \* the content of a block never written

ASSUME EntriesAssumption == Entries \in Nat /\ Entries < 65535
ASSUME NamesAssumption   == NoName \notin Names
ASSUME BodiesAssumption  == \A b \in Bodies : b \in Seq({b[i] : i \in DOMAIN b})

VARIABLES dir, blk, ret

vars == <<dir, blk, ret>>

End    == 65535                       \* 0xFFFF: no next block
Frames == 0 .. Entries - 1
Blocks == 1 .. Entries
Live   == {"FIRST", "MID", "LAST"}    \* 0x51, 0x52, 0x53
Dead   == {"FREE", "DEL1", "DEL2", "DEL3"}
Chunks == {Erased} \cup UNION {{b[i] : i \in DOMAIN b} : b \in Bodies}
Status == {"OK", "INVAL", "NOT_FOUND", "NOSPACE", "EXISTS"}

TypeOK ==
  /\ dir \in [Frames -> [state : Live \cup Dead, size : Nat,
                         next : Frames \cup {End}, name : Names \cup {NoName}]]
  /\ blk \in [Blocks -> Chunks]
  /\ ret \in Status

----------------------------------------------------------------------------
(* Directory lookups.  Chain(f) is what a walk along `next` from frame f   *)
(* visits: the least set that holds f and is closed under next.            *)

InUse == {f \in Frames : dir[f].state \in Live}
Unset == Frames \ InUse

Closed(S) == \A g \in S : dir[g].next \in S \cup {End}

Chain(f) ==
  {g \in Frames : \A S \in SUBSET Frames : (f \in S /\ Closed(S)) => g \in S}

(* Mutant: only the entries that start a file hold their blocks.           *)
UnusedSkipsTails == {b \in Blocks : dir[b - 1].state # "FIRST"}

(* Mutant: deleted entries still hold their blocks.                        *)
UnusedEver == {b \in Blocks : \A f \in Frames :
                 dir[f].state # "FREE" => b - 1 \notin Chain(f)}

(* used_blocks: every block some in-use entry chains through.              *)
Unused == LET used == UNION {Chain(f) : f \in InUse}
          IN  {b \in Blocks : b - 1 \notin used}

(* An ascending scan meets x as the Place(S, x)-th member of S, and finds  *)
(* n members when there is one at each place.                              *)
Place(S, x) == Cardinality({y \in S : y <= x})
Nth(S, k)   == CHOOSE x \in S : Place(S, x) = k
Finds(S, n) == \A k \in 1..n : \E x \in S : Place(S, x) = k

----------------------------------------------------------------------------
FreshEntry == [state |-> "FREE", size |-> 0, next |-> End, name |-> NoName]

Init ==
  /\ dir = [f \in Frames |-> FreshEntry]
  /\ blk = [b \in Blocks |-> Erased]
  /\ ret = "OK"

(* gt2_mcd_format into the image a handle holds.                           *)
Format ==
  /\ dir' = [f \in Frames |-> FreshEntry]
  /\ blk' = [b \in Blocks |-> Erased]
  /\ ret' = "OK"

(* The directory entry of the k-th of n blocks, with the link nx.          *)
EntryWith(name, n, k, nx) ==
  [state |-> IF k = 1 THEN "FIRST" ELSE IF k < n THEN "MID" ELSE "LAST",
   size  |-> n,
   next  |-> nx,
   name  |-> IF k = 1 THEN name ELSE NoName]

(* Slips a rewrite of the link could make, each the mutant of a property:  *)
(* next holding a block number, one converted twice, a lost last link.     *)
EntryNextIsBlock(name, n, k, nextBlk) ==
  EntryWith(name, n, k, IF k < n THEN nextBlk ELSE End)
EntryNextTwiceLess(name, n, k, nextBlk) ==
  EntryWith(name, n, k, IF k < n THEN nextBlk - 2 ELSE End)
EntryLosesLastLink(name, n, k, nextBlk) ==
  EntryWith(name, n, k, IF k + 1 < n THEN nextBlk - 1 ELSE End)

(* The entry as written: linked to the block of the next entry, less one.  *)
Entry(name, n, k, nextBlk) ==
  EntryWith(name, n, k, IF k < n THEN nextBlk - 1 ELSE End)

(* The stores of gt2_mcd_write: the lowest unused blocks take the data and *)
(* the lowest free frames take the entries, chosen by two separate scans.  *)
Store(name, body) ==
  LET n == Len(body) IN
  /\ dir' = [f \in Frames |->
       LET k == Place(Unset, f) IN
       IF f \in Unset /\ k <= n THEN Entry(name, n, k, Nth(Unused, k + 1))
                                ELSE dir[f]]
  /\ blk' = [b \in Blocks |->
       LET k == Place(Unused, b) IN
       IF b \in Unused /\ k <= n THEN body[k] ELSE blk[b]]

(* Mutant: a block more than the body takes is asked for.                  *)
WriteStatusTight(name, body) ==
  IF name = NoName \/ Len(body) \notin 1..Entries           THEN "INVAL"
  ELSE IF \E f \in InUse : dir[f].name = name               THEN "EXISTS"
  ELSE IF ~Finds(Unused, Len(body) + 1) \/ ~Finds(Unset, Len(body)) THEN "NOSPACE"
  ELSE "OK"

WriteStatus(name, body) ==
  IF name = NoName \/ Len(body) \notin 1..Entries           THEN "INVAL"
  ELSE IF \E f \in InUse : dir[f].name = name               THEN "EXISTS"
  ELSE IF ~Finds(Unused, Len(body)) \/ ~Finds(Unset, Len(body)) THEN "NOSPACE"
  ELSE "OK"

Write(name, body) ==
  /\ ret' = WriteStatus(name, body)
  /\ IF ret' = "OK" THEN Store(name, body) ELSE UNCHANGED <<dir, blk>>

(* gt2_mcd_delete marks the chain from frame f and keeps every next.       *)
Mark(f) ==
  dir' = [g \in Frames |->
    IF g \notin Chain(f) THEN dir[g]
    ELSE [dir[g] EXCEPT !.state = IF g = f THEN "DEL1"
                                  ELSE IF dir[g].next # End THEN "DEL2"
                                  ELSE "DEL3"]]

Delete(f) ==
  /\ UNCHANGED blk
  /\ \/ f \in InUse    /\ Mark(f) /\ ret' = "OK"
     \/ f \notin InUse /\ UNCHANGED dir /\ ret' = "NOT_FOUND"

----------------------------------------------------------------------------
(* gt2_mcd_read: the blocks met by following next from a FIRST frame, one  *)
(* per 8 KB of its size; << >> when it returns an error.                   *)
Hop(f, n) ==
  LET h[k \in 1..n] == IF k = 1 THEN f
                       ELSE IF h[k-1] = End THEN End ELSE dir[h[k-1]].next
  IN  h

Read(f) ==
  LET n == dir[f].size
      h == Hop(f, n)
  IN  IF /\ dir[f].state = "FIRST"
         /\ n \in 1..Entries
         /\ \A k \in 1..n : h[k] # End
      THEN [k \in 1..n |-> blk[h[k] + 1]]
      ELSE << >>

----------------------------------------------------------------------------
(* Spec lets a caller delete any frame, as the code does.  In FileSpec     *)
(* callers delete files: never a frame in the middle of one.               *)
Writes == \E name \in Names \cup {NoName}, body \in Bodies : Write(name, body)

Next     == Format \/ Writes \/ \E f \in Frames : Delete(f)
NextFile == \/ Format
            \/ Writes
            \/ \E f \in Frames : dir[f].state \notin {"MID", "LAST"} /\ Delete(f)

Spec     == Init /\ [][Next]_vars
FileSpec == Init /\ [][NextFile]_vars
=============================================================================
