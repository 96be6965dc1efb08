------------------------------ MODULE BootHandle ------------------------------
(***************************************************************************)
(* The boot handle, src/decomp/src/boot/boot.c, and what it opens: the     *)
(* disc (cd.c), the volume with a disc handle of its own (vol.c) and the   *)
(* overlay container, which borrows the first disc handle (ovl.c).         *)
(*                                                                         *)
(* An object of the heap is known by its name.  `held' counts what was     *)
(* allocated and not freed, so that what leaks stays at 1 and what is      *)
(* freed twice falls to -1; `ptr' are the pointers set in the structs,     *)
(* which is all that the close functions see.                              *)
(***************************************************************************)
EXTENDS Integers, Sequences

CONSTANTS
  Containers,  \* [size, head, off, comp, plain]: what GT2.OVL holds; of each
               \* member its offset, its length, and what it unpacks to
  DiscEnd,     \* bytes of the image; no read passes it
  OvlBase,     \* where GT2.OVL lies on it
  Word         \* sums of offsets wrap here; 2^32

Handles == {"boot", "cd", "volcd", "vol", "tbl", "names", "slots", "ovl"}
Calls   == {"packed", "plain", "stream"}       \* of the calls of module Unpack
Objects == Handles \cup Calls

ASSUME HandleAssumption ==
  /\ Word \in Nat \ {0} /\ OvlBase \in Nat /\ DiscEnd \in OvlBase .. (Word - 1)
  /\ \A c \in Containers :
       /\ c.size \in Nat /\ OvlBase + c.size <= DiscEnd
       /\ c.off \in Seq(0 .. Word - 1) \ {<< >>} /\ c.comp \in Seq(0 .. Word - 1)
       /\ Len(c.comp) = Len(c.off)

VARIABLES
  at,          \* "shut", "open", or the part of gt2_boot_open that is next
  held, ptr,
  ovl,         \* the container on the image
  brc          \* what the last open returned

handleVars == <<at, held, ptr, ovl, brc>>

HandleTypeOK ==
  /\ at \in {"shut", "open", "cd", "volcd", "vol", "tbl", "names", "slots",
             "ovl", "header"}
  /\ held \in [Objects -> Int] /\ ptr \subseteq Handles
  /\ ovl \in Containers /\ brc \in {"none", "OK", "NO_MEM", "IO", "BAD_IMAGE"}

HandleInit ==
  /\ at = "shut" /\ held = [r \in Objects |-> 0] /\ ptr = {}
  /\ ovl \in Containers /\ brc = "none"

Takes(r) == [held EXCEPT ![r] = @ + 1]
Once(p)  == IF p THEN 1 ELSE 0
(* What is freed by one function and then by the one that called it.       *)
Frees(inner, outer) ==
  [r \in Objects |-> held[r] - Once(r \in inner) - Once(r \in outer)]

(* gt2_vol_close.                                                          *)
(* Broken on purpose: the flat names are forgotten.                        *)
CloseVolSome == {"vol"} \cup (ptr \cap {"volcd", "tbl", "slots"})
CloseVol     == {"vol"} \cup (ptr \cap {"volcd", "tbl", "names", "slots"})
(* gt2_boot_close.                                                         *)
CloseBoot == {"boot"} \cup (ptr \cap {"cd", "ovl"})
               \cup IF "vol" \in ptr THEN CloseVol ELSE {}

-----------------------------------------------------------------------------
(* A part of the open that has its object, and the pointers it sets.       *)
Gets(here, r, set, next) ==
  /\ at = here /\ at' = next
  /\ held' = Takes(r) /\ ptr' = ptr \cup set
  /\ UNCHANGED <<ovl, brc>>
(* A part that fails: what it frees itself, what its caller frees.         *)
Fail(here, inner, outer, e) ==
  /\ at = here /\ at' = "shut" /\ brc' = e
  /\ held' = Frees(inner, outer) /\ ptr' = {}
  /\ UNCHANGED ovl

OpenBoot ==
  \/ Gets("shut", "boot", {}, "cd")
  \/ Fail("shut", {}, {}, "NO_MEM")
OpenCd ==
  \/ Gets("cd", "cd", {"cd"}, "volcd")
  \/ Fail("cd", {}, {"boot"}, "IO")
OpenVolCd ==
  \/ Gets("volcd", "volcd", {}, "vol")
  \/ Fail("volcd", {}, CloseBoot, "BAD_IMAGE")
OpenVol ==
  \/ Gets("vol", "vol", {"volcd"}, "tbl")
  \/ Fail("vol", {"volcd"}, CloseBoot, "BAD_IMAGE")

(* parse_tables: the header is read before the offsets are allocated, they *)
(* before the names, and reading names or slots ends where the image does. *)
FailTables(here) == Fail(here, CloseVol, CloseBoot, "BAD_IMAGE")
ReadTable == Gets("tbl", "tbl", {"tbl"}, "names") \/ FailTables("tbl")
ReadNames == Gets("names", "names", {"names"}, "slots") \/ FailTables("names")
ReadSlots == Gets("slots", "slots", {"slots", "vol"}, "ovl") \/ FailTables("slots")

-----------------------------------------------------------------------------
(* gt2_ovl_open: each member ends where the next begins, the last where    *)
(* the file does.  The sums are u32.                                       *)
OffAfter(c, k) == IF k < Len(c.off) THEN c.off[k + 1] ELSE c.size
HeadTaken(c) ==
  /\ c.head \in 1 .. c.size /\ c.off[1] = c.head
  /\ \A k \in DOMAIN c.off :
       /\ c.off[k] >= c.head /\ c.comp[k] # 0
       /\ ((c.off[k] + c.comp[k]) % Word) <= OffAfter(c, k)
       /\ OffAfter(c, k) <= c.size

OpenOvl ==
  \/ Gets("ovl", "ovl", {}, "header")
  \/ Fail("ovl", {}, CloseBoot, "BAD_IMAGE")
ReadHeader ==
  \/ /\ at = "header" /\ HeadTaken(ovl)
     /\ at' = "open" /\ ptr' = ptr \cup {"ovl"} /\ brc' = "OK"
     /\ UNCHANGED <<held, ovl>>
  \/ Fail("header", {"ovl"}, CloseBoot, "BAD_IMAGE")

Close ==
  /\ at = "open" /\ at' = "shut"
  /\ held' = Frees({}, CloseBoot) /\ ptr' = {}
  /\ UNCHANGED <<ovl, brc>>

HandleNext ==
  \/ OpenBoot \/ OpenCd \/ OpenVolCd \/ OpenVol
  \/ ReadTable \/ ReadNames \/ ReadSlots
  \/ OpenOvl \/ ReadHeader \/ Close
=============================================================================
