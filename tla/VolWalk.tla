------------------------------- MODULE VolWalk -------------------------------
(***************************************************************************)
(* The slot table of a volume and what is read through it: the path walk   *)
(* and the listings of src/decomp/src/vol/vol.c, the index cache of        *)
(* src/decomp/src/asset/asset.c and the car table of                       *)
(* src/decomp/src/car/car.c.                                               *)
(*                                                                         *)
(* A slot is [name, dir, end, next], and slots are numbered from 0.  A     *)
(* path is a sequence of components; "" is a component that is empty or    *)
(* longer than a slot's name.                                              *)
(***************************************************************************)
EXTENDS Integers, Sequences, FiniteSetsExt

Missing == 65535                       \* 0xFFFF in the index cache

Fails(e)      == [st |-> e, slot |-> -1]
Hit(i)        == [st |-> "OK", slot |-> i]
At(slots, i)  == slots[i + 1]
From(slots, i) == i .. Len(slots) - 1

(* One listing, from slot `cur` on: the name is compared before the end    *)
(* flag is looked at.                                                      *)
Scan(slots, cur, name) ==
  LET stops == {i \in From(slots, cur) :
                  At(slots, i).name = name \/ At(slots, i).end}
  IN  IF stops = {} THEN Fails("TRUNCATED")
      ELSE IF At(slots, Min(stops)).name # name THEN Fails("NOT_FOUND")
      ELSE Hit(Min(stops))

(* gt2_vol_stat_path.                                                      *)
Step(slots, cur, name) ==
  IF name = "" THEN Fails("INVAL") ELSE Scan(slots, cur, name)

Descend(slots, hit, name) ==
  LET s == At(slots, hit) IN
  IF ~s.dir THEN Fails("NOT_FOUND")
  ELSE IF s.next >= Len(slots) THEN Fails("TRUNCATED")
  ELSE Step(slots, s.next, name)

Stat(slots, path) ==
  LET walk[k \in 1 .. Len(path)] ==
        IF k = 1 THEN Step(slots, 0, path[1])
        ELSE IF walk[k - 1].st # "OK" THEN walk[k - 1]
        ELSE Descend(slots, walk[k - 1].slot, path[k])
  IN  IF path = << >> THEN Fails("INVAL") ELSE walk[Len(path)]

(* gt2_vol_find_path, up to the range of the file it names.                *)
FindPath(slots, path) ==
  LET hit == Stat(slots, path) IN
  IF hit.st # "OK" THEN [st |-> hit.st, file |-> Missing]
  ELSE IF At(slots, hit.slot).dir THEN [st |-> "IS_DIR", file |-> Missing]
  ELSE [st |-> "OK", file |-> At(slots, hit.slot).next]

(* gt2_vol_list_dir: the entries up to the flagged one, none on an error.  *)
ListFrom(slots, cur) ==
  LET ends == {i \in From(slots, cur) : At(slots, i).end}
  IN  IF ends = {} THEN [st |-> "TRUNCATED", list |-> << >>]
      ELSE [st |-> "OK", list |-> SubSeq(slots, cur + 1, Min(ends) + 1)]

Listing(slots, path) ==
  LET hit == Stat(slots, path) IN
  IF path = << >> THEN ListFrom(slots, 0)
  ELSE IF hit.st # "OK" THEN [st |-> hit.st, list |-> << >>]
  ELSE IF ~At(slots, hit.slot).dir THEN [st |-> "IS_DIR", list |-> << >>]
  ELSE ListFrom(slots, At(slots, hit.slot).next)
ListDir(slots, path) == Listing(slots, path).list

(* gt2_vol_span: files between two entries, in u32.                        *)
Span(slots, first, last, w) ==
  LET a == Stat(slots, first)
      b == Stat(slots, last)
  IN  IF a.st # "OK" THEN [st |-> a.st, n |-> 0]
      ELSE IF b.st # "OK" THEN [st |-> b.st, n |-> 0]
      ELSE [st |-> "OK", n |-> (At(slots, b.slot).next - At(slots, a.slot).next - 1) % w]

(* The flat directory is the tail of the slot table, from slot `first' on, *)
(* its names cut short; what names no file is left out, and the rest is    *)
(* known by its place in the table.  Directories stay: their child slot    *)
(* passes for a file.                                                      *)
FlatOf(slots, first, short, dc) ==
  LET row  == [k \in first + 1 .. Len(slots) |->
                 [name |-> short[slots[k].name], index |-> slots[k].next]]
      kept == {k \in DOMAIN row : row[k].name # "" /\ row[k].index <= dc}
  IN  [k \in kept |-> row[k]]

(* gt2_vol_find, up to the range of the file it names.                     *)
FindFlat(flat, name) ==
  LET hits == {k \in DOMAIN flat : flat[k].name = name} IN
  IF name = "" THEN [st |-> "INVAL", file |-> Missing]
  ELSE IF hits = {} THEN [st |-> "NOT_FOUND", file |-> Missing]
  ELSE [st |-> "OK", file |-> flat[Min(hits)].index]

-----------------------------------------------------------------------------
(* Broken on purpose: a directory pins its `..' link.                      *)
FollowsLinkNot(list) == IF Len(list) < 2 THEN Missing ELSE list[1].next
(* gt2_q2_cache_build: a directory pins what follows its `..' link.        *)
FollowsLink(list)    == IF Len(list) < 2 THEN Missing ELSE list[2].next

Pin(slots, path) ==
  LET found == FindPath(slots, path)
  IN  IF found.st = "IS_DIR" THEN FollowsLink(ListDir(slots, path)) ELSE found.file

-----------------------------------------------------------------------------
(* gt2_car_index_build: every fourth entry of a listing, from the first    *)
(* that is no directory to the one whose group ends the listing.           *)
FirstFile(list)    == Min({i \in DOMAIN list : ~list[i].dir})
EndsGroup(list, i) == i + 3 > Len(list) \/ list[i + 3].end

CarHeads(list) ==
  LET first == FirstFile(list)
      heads == {i \in first .. Len(list) : (i - first) % 4 = 0}
      last  == Min({i \in heads : EndsGroup(list, i)})
  IN  {i \in heads : i <= last}

(* The table of n cars, without the end mark; << >> when it is refused for *)
(* want of a file or of room for the mark.                                 *)
CarTable(list, hash, cap) ==
  IF \A i \in DOMAIN list : list[i].dir THEN << >>
  ELSE IF Cardinality(CarHeads(list)) >= cap THEN << >>
  ELSE [k \in 1 .. Cardinality(CarHeads(list)) |->
          LET e == list[FirstFile(list) + 4 * (k - 1)]
          IN  [hash |-> hash[e.name], index |-> e.next, z |-> 0]]

(* gt2_car_find: the halving search; -1 for a miss.                        *)
CarFind(tab, h) ==
  LET n == Len(tab)
      seek[p \in (0 .. n) \X (0 .. n)] ==
        LET lo == p[1]  hi == p[2]  mid == (lo + hi) \div 2 IN
        IF mid >= n THEN -1
        ELSE IF tab[mid + 1].hash = h THEN mid
        ELSE IF lo >= hi THEN -1
        ELSE IF tab[mid + 1].hash >= h THEN seek[<<lo, mid>>]
        ELSE seek[<<mid + 1, hi>>]
  IN  IF n = 0 THEN -1 ELSE seek[<<0, n>>]
=============================================================================
