------------------------------- MODULE VolPack -------------------------------
(***************************************************************************)
(* gt2_vol_pack, src/decomp/src/vol/vol.c: the table is laid out again     *)
(* from file 2 on, the bytes in front of it are copied and stamped with    *)
(* the new table, and the bodies are copied behind them.  The call owns    *)
(* four things until it returns: the open volume, the sorted list, the new *)
(* table and the blob.                                                     *)
(*                                                                         *)
(* A byte is known by where it comes from: <<"src", offset>> in the source *)
(* extent, <<"rep", file, k>> in a replacement, and <<"tbl", v>> for one   *)
(* entry of a table (an entry is one cell here and four bytes there).      *)
(* Offsets are taken modulo W, for the 2^32 of a u32.  When the sum of the *)
(* sizes wraps, the copies run over the end of the blob; of what a build   *)
(* may then do, the model has the writes that land.                        *)
(***************************************************************************)
EXTENDS Integers, Sequences, SequencesExt

CONSTANTS Volumes, RepLists,   \* see VolExtent
          Table,               \* cell of tbl[0]; 0x10 in the format
          W, PackMaxFile,      \* 2^32 and GT2_VOL_PACK_MAX_FILE, a quarter of it
          SpotMin              \* entries from which the stamp is looked at: 32

ASSUME PackAssumption ==
  /\ Table \in Nat /\ SpotMin \in Nat
  /\ PackMaxFile \in Nat \ {0} /\ W = 4 * PackMaxFile
  /\ \A v \in Volumes : v.len \in Nat /\ v.tbl \in Seq(0 .. W - 1) /\ Len(v.tbl) > 1
  /\ \A reps \in RepLists : reps \in Seq([index : Nat, size : Nat, data : BOOLEAN])

(* Files 0 and 1 carry the table (vol.c:533), which no check asks for.     *)
ASSUME CarrierAssumption ==
  \A v \in Volumes : Len(v.tbl) > 4 => Table + Len(v.tbl) <= v.tbl[3]

VARIABLES
  pc, source, asked, st,       \* see VolExtent
  sorted,                      \* the list, sorted by index
  ntbl,                        \* the new table
  cursor, i, ri,               \* next offset, file and replacement
  blob,                        \* cell -> byte, for every cell written
  size,                        \* the cells allocated
  dst,                         \* where the next body goes
  held                         \* what the call has allocated and not freed

vars == <<pc, source, asked, st, sorted, ntbl, cursor, i, ri, blob, size, dst,
          held>>

Dc   == Len(source.tbl) - 1            \* data_count
LastValid == Dc - 2                    \* last_valid; Dc - 1 is the end marker
Tbl(f)  == source.tbl[f + 1]
NTbl(f) == ntbl[f + 1]
SourceByte(o) ==
  IF o \in Table..(Table + Dc) THEN <<"tbl", Tbl(o - Table)>> ELSE <<"src", o>>

TypeOK ==
  /\ pc \in {"idle", "open", "check", "alloc", "table", "prefix", "bodies"}
  /\ source \in Volumes /\ asked \in RepLists
  /\ st \in {"none", "busy", "OK", "IO", "NO_MEM", "TRUNCATED", "INVAL"}
  /\ held \subseteq {"vol", "sorted", "ntbl", "blob"}
  /\ cursor \in 0..(W - 1) /\ size \in 0..(W - 1) /\ dst \in Nat /\ i \in Nat
  /\ ri \in 1..(Len(asked) + 1)
  /\ Len(sorted) \in {0, Len(asked)} /\ Len(ntbl) \in {0, Len(source.tbl)}

Init ==
  /\ pc = "idle" /\ source \in Volumes /\ asked \in RepLists /\ st = "none"
  /\ sorted = << >> /\ ntbl = << >> /\ cursor = 0 /\ i = 2 /\ ri = 1
  /\ blob = << >> /\ size = 0 /\ dst = 0 /\ held = {}

(* Broken on purpose: the new table is left behind.                        *)
FailKeepsTable(e, freed) ==
  /\ pc' = "idle" /\ st' = e /\ held' = held \ (freed \ {"ntbl"})
  /\ blob' = << >> /\ size' = 0
  /\ UNCHANGED <<source, asked, sorted, ntbl, cursor, i, ri, dst>>

(* A return with an error; `freed` is what that return frees.              *)
Fail(e, freed) ==
  /\ pc' = "idle" /\ st' = e /\ held' = held \ freed
  /\ blob' = << >> /\ size' = 0
  /\ UNCHANGED <<source, asked, sorted, ntbl, cursor, i, ri, dst>>

(* The caller drops the last blob and calls again.                         *)
Call ==
  /\ pc = "idle"
  /\ source' \in Volumes /\ asked' \in RepLists
  /\ pc' = "open" /\ st' = "busy" /\ held' = held \ {"blob"}
  /\ sorted' = << >> /\ ntbl' = << >> /\ cursor' = 0 /\ i' = 2 /\ ri' = 1
  /\ blob' = << >> /\ size' = 0 /\ dst' = 0

Open ==
  /\ pc = "open"
  /\ \/ \E e \in {"IO", "NO_MEM", "TRUNCATED"} : Fail(e, {})
     \/ Dc < 4 /\ Fail("TRUNCATED", {})
     \/ /\ Dc >= 4
        /\ pc' = "check" /\ held' = held \cup {"vol"}
        /\ UNCHANGED <<source, asked, st, sorted, ntbl, cursor, i, ri, blob,
                       size, dst>>

Bad(r) == \/ r.index < 2 \/ r.index > LastValid
          \/ r.size > 0 /\ ~r.data
          \/ r.size > PackMaxFile
(* What qsort may make of the list.                                        *)
ByIndex(s) == {t \in [DOMAIN s -> Range(s)] :
                 /\ Range(t) = Range(s)
                 /\ \A j, k \in DOMAIN s : j <= k => t[j].index <= t[k].index}
Duplicate(s) == \E k \in 2..Len(s) : s[k].index = s[k - 1].index

CheckList ==
  /\ pc = "check"
  /\ \/ asked # << >> /\ Fail("NO_MEM", {"vol"})
     \/ /\ \E k \in DOMAIN asked : Bad(asked[k])
        /\ Fail("INVAL", {"vol", "sorted"})
     \/ /\ ~\E k \in DOMAIN asked : Bad(asked[k])
        /\ \E s \in ByIndex(asked) : Duplicate(s)
        /\ Fail("INVAL", {"vol", "sorted"})
     \/ /\ ~\E k \in DOMAIN asked : Bad(asked[k])
        /\ sorted' \in ByIndex(asked) /\ ~Duplicate(sorted')
        /\ pc' = "alloc"
        /\ held' = held \cup (IF asked = << >> THEN {} ELSE {"sorted"})
        /\ UNCHANGED <<source, asked, st, ntbl, cursor, i, ri, blob, size, dst>>

AllocTable ==
  /\ pc = "alloc"
  /\ \/ Fail("NO_MEM", {"vol", "sorted"})
     \/ /\ ntbl' = source.tbl /\ cursor' = Tbl(2)
        /\ pc' = "table" /\ held' = held \cup {"ntbl"}
        /\ UNCHANGED <<source, asked, st, sorted, i, ri, blob, size, dst>>

Replaced == ri <= Len(sorted) /\ sorted[ri].index = i
(* Broken on purpose: the copy steps by the size of the old file.          *)
BodySizeOld == IF Replaced /\ pc = "table" THEN sorted[ri].size
               ELSE Tbl(i + 1) - Tbl(i)
BodySize == IF Replaced THEN sorted[ri].size ELSE Tbl(i + 1) - Tbl(i)
(* Broken on purpose: the list moves on with every file.                   *)
AdvanceBoth == i' = i + 1 /\ ri' = ri + 1
Advance  == /\ i' = i + 1
            /\ ri' = IF Replaced THEN ri + 1 ELSE ri

PlaceFile ==
  /\ pc = "table" /\ i <= LastValid
  /\ \/ BodySize < 0 /\ Fail("TRUNCATED", {"vol", "sorted", "ntbl"})
     \/ /\ BodySize >= 0
        /\ ntbl' = [ntbl EXCEPT ![i + 1] = cursor]
        /\ cursor' = (cursor + BodySize) % W
        /\ Advance
        /\ UNCHANGED <<pc, source, asked, st, sorted, blob, size, dst, held>>

(* Broken on purpose: the end marker is made the end of the extent.        *)
MarkersMoved == [ntbl EXCEPT ![Dc] = cursor, ![Dc + 1] = cursor]
(* The end marker is kept as it is; file Dc - 1 has no valid range.        *)
Markers == [ntbl EXCEPT ![Dc] = cursor, ![Dc + 1] = Tbl(Dc)]

AllocBlob ==
  /\ pc = "table" /\ i > LastValid
  /\ \/ Fail("NO_MEM", {"vol", "sorted", "ntbl"})
     \/ /\ ntbl' = Markers /\ size' = cursor
        /\ pc' = "prefix" /\ held' = held \cup {"blob"}
        /\ UNCHANGED <<source, asked, st, sorted, cursor, i, ri, blob, dst>>

Over(new, old) ==                      \* new bytes written over the old
  [o \in DOMAIN new \cup DOMAIN old |->
     IF o \in DOMAIN new THEN new[o] ELSE old[o]]

Stamped ==
  Over([o \in Table..(Table + Dc) |-> <<"tbl", NTbl(o - Table)>>],
       [o \in 0..(Tbl(2) - 1) |-> SourceByte(o)])

CopyPrefix ==
  /\ pc = "prefix"
  /\ \/ Fail("IO", {"vol", "sorted", "ntbl", "blob"})
     \/ /\ Tbl(2) <= source.len
        /\ IF Dc + 1 >= SpotMin /\ Stamped[Table + Dc] # <<"tbl", Tbl(Dc)>>
           THEN Fail("INVAL", {"vol", "sorted", "ntbl", "blob"})
           ELSE /\ blob' = Stamped /\ dst' = Tbl(2) /\ i' = 2 /\ ri' = 1
                /\ pc' = "bodies"
                /\ UNCHANGED <<source, asked, st, sorted, ntbl, cursor, size,
                               held>>

Body == [o \in dst..(dst + BodySize - 1) |->
           IF Replaced THEN <<"rep", i, o - dst + 1>>
                       ELSE SourceByte(Tbl(i) + o - dst)]

CopyBody ==
  /\ pc = "bodies" /\ i <= LastValid
  /\ \/ ~Replaced /\ BodySize > 0 /\ Fail("IO", {"vol", "sorted", "ntbl", "blob"})
     \/ /\ Replaced \/ BodySize = 0 \/ Tbl(i + 1) <= source.len
        /\ blob' = Over(Body, blob) /\ dst' = dst + BodySize
        /\ Advance
        /\ UNCHANGED <<pc, source, asked, st, sorted, ntbl, cursor, size, held>>

Finish ==
  /\ pc = "bodies" /\ i > LastValid
  /\ pc' = "idle" /\ st' = "OK" /\ held' = held \ {"vol", "sorted", "ntbl"}
  /\ UNCHANGED <<source, asked, sorted, ntbl, cursor, i, ri, blob, size, dst>>

Next == \/ Call \/ Open \/ CheckList \/ AllocTable \/ PlaceFile \/ AllocBlob
        \/ CopyPrefix \/ CopyBody \/ Finish

Spec == Init /\ [][Next]_vars

-----------------------------------------------------------------------------
(* Reading the blob back, as gt2_vol_open_mem does: by the table in it.    *)
BlobTbl(f)   == blob[Table + f][2]
FileBytes(f) == [k \in 1..(BlobTbl(f + 1) - BlobTbl(f)) |-> blob[BlobTbl(f) + k - 1]]

Delivered == pc = "idle" /\ st = "OK"
-----------------------------------------------------------------------------
(* Whatever was asked, an extent that is handed out reads back (if its     *)
(* size, the second loop's end, has not wrapped in the first), through     *)
(* the table inside it, as the replacements and the other source files; in *)
(* front of them nothing has changed but the table, and nothing at all     *)
(* when nothing was to be replaced (src/decomp/include/gt2/vol.h:142-167). *)
Extent == INSTANCE VolExtent WITH
  extent <- IF Delivered /\ dst = size
            THEN [front |-> [o \in (0 .. Tbl(2) - 1) \ (Table .. Table + Dc) |-> blob[o]],
                  table |-> [f \in 0 .. Dc |-> BlobTbl(f)],
                  files |-> [f \in 2 .. LastValid |-> FileBytes(f)]]
            ELSE [front |-> << >>, table |-> << >>, files |-> << >>]
ExtentSpec == Extent!Spec

(* Each of the error returns frees all the call holds, and a good one      *)
(* leaves the caller the blob and nothing else.                            *)
Owned ==
  pc = "idle" => held = IF st = "OK" THEN {"blob"} ELSE {}

(* The blob is as large as what is written to it, though its size is       *)
(* summed in one loop (vol.c:504-523) and it is filled in another          *)
(* (vol.c:560-583), just when the sizes add up to an offset: then nothing  *)
(* is written outside it on the way, and no cell of it is left unwritten.  *)
InBlob ==
  /\ size # 0 /\ Extent!Fits(source, asked) => \A o \in DOMAIN blob : o < size
  /\ Delivered => (DOMAIN blob = 0..(size - 1) <=> Extent!Fits(source, asked))
=============================================================================
