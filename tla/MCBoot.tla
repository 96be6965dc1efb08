-------------------------------- MODULE MCBoot --------------------------------
(***************************************************************************)
(* Volumes for the boot chain: the disc's, one whose sys.ins ends inside a *)
(* sector, one without a sector boundary in it, one that is too long, and  *)
(* ones with other counts of CRS records.  Containers and image chains as  *)
(* on the disc, and damaged ones.                                          *)
(***************************************************************************)
EXTENDS BootSystem

Volume(n, s, e) == [crs |-> n, start |-> s, end |-> e, word |-> 5]
Disc   == Volume(126, 488206552, 488241152)
Inside == Volume(128, 488206300, 488240900)
Short  == Volume(0, 5000, 5100)
Long   == Volume(257, 4096, 45056)
Back   == Volume(1, 4096, 2048)
Tall   == Volume(1, 4096, 45056)
Many   == Volume(200, 4096, 6144)

MCVols == {Disc, Inside, Short, Long, Back, Tall, Many}

(* Two members instead of six; sums wrap at 2^30.                          *)
MCWord    == 1073741824
MCOvlBase == 677888
MCDiscEnd == 700000000
Good(n) == [out |-> n, good |-> TRUE]
Bad(n)  == [out |-> n, good |-> FALSE]
Ovl(first, offs, comps, to) ==
  [size |-> 4096, head |-> first, off |-> offs, comp |-> comps, plain |-> to]
MCContainers ==
  { Ovl(48, <<48, 2048>>, <<2000, 2048>>, <<Good(317000), Good(1048576)>>),
    Ovl(48, <<48, 2048>>, <<100, 1000>>, <<Bad(524288), Good(524289)>>),
    Ovl(48, <<48, 2048>>, <<MCWord - 48, 9>>, <<Good(1), Good(0)>>),  \* wraps
    Ovl(48, <<48, 2048>>, <<0, 9>>, <<Good(1), Good(1)>>),
    Ovl(5000, <<5000, 2048>>, <<1, 9>>, <<Good(1), Good(1)>>),
    Ovl(48, <<48, 2048>>, <<2001, 9>>, <<Good(1), Good(1)>>) }

(* Images: 16 bit of 2 x 3, 4 bit with 16 colours and with an odd byte     *)
(* more, a 24 bit one that fills a buffer, one that has fewer bytes        *)
(* than pixels, one of no known mode, one that lacks its colours.          *)
Tim(f, c, i, w, h) ==
  [flag |-> f, clen |-> c, cw |-> 16, ch |-> 1, ilen |-> i, w |-> w, h |-> h]
Plain16 == Tim(2, 0, 24, 2, 3)
Indexed == Tim(8, 44, 16, 1, 2)
HalfClut == Tim(8, 45, 24, 2, 3)
Filling == Tim(3, 0, 1048568, 512, 512)
Longer  == Tim(2, 0, 24, 4, 4)
Odd     == Tim(4, 0, 24, 2, 3)
NoClut  == Tim(9, 12, 24, 2, 3)

Packed(comp, out) == [comp |-> comp, out |-> out, good |-> TRUE]
Chained(ms, imgs, tail) == [members |-> ms, images |-> imgs, tail |-> tail]
MCArchives ==
  { Chained(<<Packed(30, 32)>>, <<{Plain16}>>, 0),
    Chained(<<Packed(30, 68), Packed(2048, 32)>>, <<{Indexed}, {Plain16}>>, 0),
    Chained(<<Packed(2047, 1048576), Packed(40, 68)>>, <<{Filling}, {Indexed}>>, 1),
    Chained(<<Packed(9000, 1048577), Packed(60, 3000000)>>, <<{}, {}>>, 5000),
    Chained(<<Packed(30, 32), Packed(30, 32)>>, <<{Longer}, {Plain16}>>, 100),
    Chained(<<Packed(30, 32), Packed(30, 40)>>, <<{Plain16}, {Odd}>>, 0),
    Chained(<<Packed(30, 32), Packed(30, 44)>>, <<{Plain16}, {NoClut}>>, 0),
    Chained(<<Packed(30, 32), [comp |-> 50, out |-> 68, good |-> FALSE]>>,
            <<{Plain16}, {Indexed}>>, 0),
    Chained(<<Packed(30, 32), Packed(30, 0), Packed(30, 32)>>,
            <<{Plain16}, {}, {Plain16}>>, 0),
    Chained(<<Packed(30, 32), Packed(30, 32), Packed(30, 32)>>,
            <<{Plain16}, {Plain16}, {Plain16}>>, 3000),
    Chained([k \in 1..4 |-> Packed(30, 32)], [k \in 1..4 |-> {Plain16}], 0),
    Chained(<<Packed(30, 77)>>, <<{HalfClut}>>, 0),
    Chained(<< >>, << >>, 500), Chained(<< >>, << >>, 1) }

MCTexts == SeqOf({0, 1}, 6)
=============================================================================
