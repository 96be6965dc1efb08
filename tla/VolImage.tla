------------------------------- MODULE VolImage -------------------------------
(***************************************************************************)
(* A repacked volume as the game data's readers see it: gt2_vol_open_mem   *)
(* on the blob of module VolPack, then the lookups of module VolWalk and   *)
(* the tables of module VolTables.                                         *)
(*                                                                         *)
(* A source volume has a tree, a sequence of directories, the root first;  *)
(* a directory is a sequence of [name, dir, to], where `to' is a file or a *)
(* directory, and every one but the root begins with its `..' link.        *)
(***************************************************************************)
EXTENDS VolPack, VolTables

CONSTANTS
  SlotOff,     \* cell of slot 0; 0xB800 in the format
  Paths,       \* the paths callers ask for
  FlatFirst,   \* slot where the flat directory begins; 52 on the disc
  Short,       \* name -> the 21 letters of it that the flat directory has
  SectorCells, \* cells of a sector, 2048
  Hash,        \* file name -> its hash or code
  Digit, Skip, \* file name -> whether it begins with a digit, has p or q
  CarCap,      \* capacity of the car table
  MapCap       \* capacity of the others

ASSUME ImageAssumption ==
  /\ SlotOff \in Nat /\ CarCap \in Nat /\ MapCap \in Nat
  /\ FlatFirst \in Nat /\ SectorCells \in Nat \ {0}
  /\ Paths \subseteq Seq(STRING) /\ "" \notin Range(Short)
  /\ Hash \in [DOMAIN Short -> Nat]
  /\ Digit \in [DOMAIN Short -> BOOLEAN] /\ Skip \in [DOMAIN Short -> BOOLEAN]
  /\ \A v \in Volumes : v.tree \in Seq(Seq([name : STRING, dir : BOOLEAN, to : Nat]))

(* The directories one after the other; a directory is known by the slot   *)
(* its listing starts at.                                                  *)
StartOf(tree, d) == Len(FlattenSeq(SubSeq(tree, 1, d - 1)))
SlotsOf(tree) ==
  FlattenSeq([d \in DOMAIN tree |->
    [k \in DOMAIN tree[d] |->
      LET e == tree[d][k] IN
      [name |-> e.name, dir |-> e.dir, end |-> k = Len(tree[d]),
       next |-> IF e.dir THEN StartOf(tree, e.to) ELSE e.to]]])

(* The format: an entry names a file with data, or a directory that has    *)
(* entries, and the slots lie behind the table and in front of file 2.     *)
ASSUME TreeAssumption ==
  \A v \in Volumes : Len(v.tbl) > 4 =>
    /\ v.tree # << >> /\ << >> \notin Range(v.tree)
    /\ \A d \in DOMAIN v.tree : \A k \in DOMAIN v.tree[d] :
         LET e == v.tree[d][k] IN
         /\ e.name \in DOMAIN Short
         /\ e.to \in IF e.dir THEN DOMAIN v.tree ELSE 2 .. Len(v.tbl) - 3
    /\ Table + Len(v.tbl) <= SlotOff
    /\ SlotOff + Len(SlotsOf(v.tree)) <= v.tbl[3]

(* parse_tables: the slots lie in the prefix, and are read while the blob  *)
(* lasts.                                                                  *)
BlobSlots ==
  LET slots == SlotsOf(source.tree)
  IN  [k \in 1 .. Min({Len(slots), size - SlotOff}) |->
         slots[blob[SlotOff + k - 1][2] - SlotOff + 1]]

(* gt2_vol_file_range, and the reads of vol.c by a file's number.          *)
FileRange(f) ==
  IF f >= Dc THEN [st |-> "INVAL", off |-> 0, n |-> 0]
  ELSE IF BlobTbl(f + 1) < BlobTbl(f) THEN [st |-> "TRUNCATED", off |-> 0, n |-> 0]
  ELSE [st |-> "OK", off |-> BlobTbl(f), n |-> BlobTbl(f + 1) - BlobTbl(f)]

ReadAt(o, n) ==
  IF n > 0 /\ o + n > size THEN [st |-> "IO", bytes |-> << >>]
  ELSE [st |-> "OK", bytes |-> [k \in 1 .. n |-> blob[o + k - 1]]]
ReadFile(found) ==
  LET r == FileRange(found.file) IN
  IF found.st # "OK" THEN [st |-> found.st, bytes |-> << >>]
  ELSE IF r.st # "OK" THEN [st |-> r.st, bytes |-> << >>]
  ELSE ReadAt(r.off, r.n)

(* gt2_asset_window: whole sectors, from the one the file begins in, but   *)
(* only as many bytes as from the file's own start.                        *)
Align(o) == (o \div SectorCells) * SectorCells
(* Broken on purpose: the sector the file ends in is read whole.           *)
WindowLenUp(r) == Align(r.off + r.n + SectorCells - 1) - r.off
WindowLen(r) == Align(r.off + r.n) - r.off
Window(f) ==
  LET r == FileRange(f) IN
  IF r.st # "OK" THEN [st |-> "INVAL", bytes |-> << >>]
  ELSE IF Align(r.off + r.n) < r.off THEN [st |-> "TRUNCATED", bytes |-> << >>]
  ELSE ReadAt(Align(r.off), WindowLen(r))

-----------------------------------------------------------------------------
(* What a path means: a walk of the tree itself.                           *)
Named(list, name) == {k \in DOMAIN list : list[k].name = name}

Meaning(tree, path) ==
  LET at[k \in 0 .. Len(path)] ==
        IF k = 0 THEN [st |-> "IS_DIR", to |-> 1]
        ELSE LET here == at[k - 1] IN
             IF here.st \notin {"IS_DIR", "OK"} THEN here
             ELSE IF here.st = "OK" THEN [st |-> "NOT_FOUND", to |-> 0]
             ELSE IF path[k] = "" THEN [st |-> "INVAL", to |-> 0]
             ELSE LET found == Named(tree[here.to], path[k])
                      e     == tree[here.to][Min(found)]
                  IN  IF found = {} THEN [st |-> "NOT_FOUND", to |-> 0]
                      ELSE [st |-> IF e.dir THEN "IS_DIR" ELSE "OK", to |-> e.to]
  IN  IF path = << >> THEN [st |-> "INVAL", to |-> 0] ELSE at[Len(path)]

TreeReads ==
  \A path \in Paths :
    LET found == FindPath(BlobSlots, path)
        means == Meaning(source.tree, path)
        read  == ReadFile(found)
    IN  /\ found.st = means.st
        /\ found.st = "OK" => /\ read.st = "OK"
                              /\ read.bytes = Extent!Want(source, asked, means.to)
        /\ found.st # "OK" => read.st = found.st

(* The entries of all directories in a row, as the flat view has them.     *)
FlatReads ==
  \A name \in Range(Short) :
    LET all   == FlattenSeq(source.tree)
        hits  == {k \in FlatFirst + 1 .. Len(all) : Short[all[k].name] = name}
        found == FindFlat(FlatOf(BlobSlots, FlatFirst, Short, Dc), name)
    IN  /\ hits = {} => found.st = "NOT_FOUND"
        /\ hits # {} /\ (\A k \in hits : ~all[k].dir) =>
             ReadFile(found).bytes = Extent!Want(source, asked, all[Min(hits)].to)

Spans ==
  LET files == {p \in Paths : Meaning(source.tree, p).st = "OK"}
      to(p) == Meaning(source.tree, p).to
  IN  \A p, q \in files : to(p) < to(q) =>
        Span(BlobSlots, p, q, W).n = Cardinality({f \in 0 .. Dc : to(p) < f /\ f < to(q)})

(* A window shows the end of what lies in front of the file in its first   *)
(* sector, then the file from its start, and nothing behind the file.      *)
Windows ==
  \A f \in 2 .. LastValid :
    LET w    == Window(f)
        r    == FileRange(f)
        lead == r.off - Align(r.off)
        want == Extent!Want(source, asked, f)
    IN  w.st = "OK" =>
          /\ Len(w.bytes) <= lead + Len(want)
          /\ lead < SectorCells
          /\ \A k \in lead + 1 .. Len(w.bytes) : w.bytes[k] = want[k - lead]
          /\ lead = 0 => Len(want) - Len(w.bytes) \in 0 .. SectorCells - 1

(* However the bodies were moved, every path of the source finds, in the   *)
(* repacked volume, the replacement asked for or the file it found before, *)
(* and every other path fails as before ("the slot next fields name FILES, *)
(* not offsets, so they stay valid with no table surgery", vol.h:142-144). *)
(* A flat name that files alone have finds the first of them.  A sector    *)
(* window holds bytes of the file and of the sector in front, never those  *)
(* behind it, wherever the repack has put the file (asset.c:131-135).      *)
(* All this of an extent whose size is an offset; no other is checked for. *)
PathsRead == Delivered /\ Extent!Fits(source, asked) => TreeReads /\ FlatReads /\ Spans /\ Windows

(* A directory whose entries from the second on are files.                 *)
OnlyFiles(list) == list[1].dir /\ \A k \in 2 .. Len(list) : ~list[k].dir

(* What an index cache entry should pin: the file, or what stands in a     *)
(* directory behind its link, if that is a file.                           *)
PinOf(tree, path) ==
  LET means == Meaning(tree, path) IN
  CASE means.st = "OK" -> means.to
    [] means.st = "IS_DIR" /\ Len(tree[means.to]) > 1 -> tree[means.to][2].to
    [] OTHER           -> Missing

Pins ==
  \A path \in Paths :
    LET means == Meaning(source.tree, path)
        list  == source.tree[means.to]
    IN  ~(means.st = "IS_DIR" /\ Len(list) > 1 /\ list[2].dir) =>
          Pin(BlobSlots, path) = PinOf(source.tree, path)

(* Where a directory holds cars of four files each, in the order of their  *)
(* hashes, each car is found by its hash, and nothing else is.             *)
Fours(list) == [k \in 1 .. Len(list) \div 4 |-> list[4 * k - 2]]
Ordered(cars) == \A k \in 2 .. Len(cars) : Hash[cars[k - 1].name] < Hash[cars[k].name]
HoldsCars(list) ==
  OnlyFiles(list) /\ Len(list) % 4 = 1 /\ Len(list) > 1 /\ Ordered(Fours(list))
HashesNear == Range(Hash) \cup {Hash[name] + 1 : name \in DOMAIN Hash}

Cars ==
  \A path \in Paths :
    LET means == Meaning(source.tree, path)
        list  == source.tree[means.to]
        cars  == Fours(list)
        tab   == CarTable(ListDir(BlobSlots, path), Hash, CarCap)
    IN  means.st = "IS_DIR" /\ HoldsCars(list) =>
          /\ Len(cars) >= CarCap => tab = << >>
          /\ Len(cars) < CarCap =>
               /\ Len(tab) = Len(cars)
               /\ \A k \in DOMAIN cars :
                    /\ CarFind(tab, Hash[cars[k].name]) = k - 1
                    /\ tab[k].index = cars[k].to
          /\ \A h \in HashesNear :
               (\A k \in DOMAIN cars : Hash[cars[k].name] # h) => CarFind(tab, h) = -1

(* A directory of files has the codes of all of them in its order, up to   *)
(* the capacity; a directory between them ends the map, not the wheels.    *)
Codes(list) == [k \in 1 .. Len(list) - 1 |-> Hash[list[k + 1].name]]
Maps ==
  \A path \in Paths \ {<< >>} :
    LET means == Meaning(source.tree, path)
        list  == source.tree[means.to]
        l     == Listing(BlobSlots, path)
        map   == CrsMap(l, Hash, MapCap)
        wheel == Wheels(l, Hash, MapCap)
    IN  IF means.st # "IS_DIR"
        THEN map.st = IF means.st = "NOT_FOUND" THEN "NOT_FOUND" ELSE "INVAL"
        ELSE /\ wheel.st = "OK" => map.codes = SubSeq(wheel.codes, 1, Len(map.codes))
             /\ OnlyFiles(list) /\ Len(list) \in 2 .. MapCap + 1 =>
                  map.codes = Codes(list) /\ wheel.codes = Codes(list)
                    /\ map.first = list[2].to
             /\ OnlyFiles(list) /\ Len(list) > MapCap + 1 =>
                  map.st = "NOSPACE" /\ wheel.st = "NOSPACE"

(* Nine files to an engine: one code for each nine that begin with a digit,*)
(* up to the first that does not, and none where there are too many.       *)
Nines(list)  == {k \in 2 .. Len(list) : k % 9 = 2}
Silent(list) == {k \in Nines(list) : ~Digit[list[k].name]}
Voices(list) ==
  IF Silent(list) = {} THEN Len(list) \div 9 ELSE Min(Silent(list)) \div 9
Sounds ==
  \A path \in Paths :
    LET means == Meaning(source.tree, path)
        list  == source.tree[means.to]
        n     == Voices(list)
        codes == Engines(Listing(BlobSlots, path), Hash, Digit, MapCap).codes
    IN  means.st = "IS_DIR" /\ OnlyFiles(list) /\ Len(list) % 9 = 1 =>
          codes = IF n > MapCap THEN << >>
                  ELSE [m \in 1 .. n |-> Hash[list[9 * m - 7].name]]

(* Each car has its logo's file, or the first logo's.                      *)
LogoHits(list, h) ==
  {k \in 2 .. Len(list) : k % 2 = 0 /\ ~Skip[list[k].name] /\ Hash[list[k].name] = h}
LogoOf(list, h) ==
  IF LogoHits(list, h) = {} THEN list[2].to ELSE list[Max(LogoHits(list, h))].to
Logos ==
  \A path, at \in {p \in Paths : Meaning(source.tree, p).st = "IS_DIR"} :
    LET from == source.tree[Meaning(source.tree, path).to]
        list == source.tree[Meaning(source.tree, at).to]
        tab  == CarTable(ListDir(BlobSlots, path), Hash, CarCap)
        note == Annotate(Listing(BlobSlots, at), tab, Hash, Skip)
    IN  HoldsCars(from) /\ OnlyFiles(list) /\ Len(list) > 2 /\ Len(list) % 2 = 1 =>
          \A k \in DOMAIN tab : note.tab[k].z = LogoOf(list, tab[k].hash)

(* The index tables built by walking a repacked volume that fits name the  *)
(* files the tree names: the cache a path's file or a directory's first,   *)
(* -1 for the rest; the car table each car's first file, and for its logo  *)
(* the one of its hash or the first; the course map, the wheels and the    *)
(* engines every file, or every ninth, of their directory in its order.    *)
TablesName ==
  Delivered /\ Extent!Fits(source, asked) => Pins /\ Cars /\ Maps /\ Sounds /\ Logos
=============================================================================
