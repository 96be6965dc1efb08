------------------------------ MODULE BootSystem ------------------------------
(***************************************************************************)
(* The storage side of a boot as a caller sees it: the handle is opened,   *)
(* overlays and image chains are unpacked through it, boot states are run  *)
(* over its volume, and it is closed and opened again.                     *)
(*                                                                         *)
(* All of these are calls of one host thread.  The calls of boot.c, ovl.c  *)
(* and tim.c share no memory with a boot state, so only one order of them  *)
(* and of the calls of task.c is taken: while there is no boot state.      *)
(***************************************************************************)
EXTENDS BootTask, Unpack, TimChain

CONSTANTS Texts    \* string tables as gt2_txd_get is given them

(* An archive's images are, member by member, the head of an image that    *)
(* the member's bytes begin with, or none.                                 *)
ASSUME ContentsAssumption ==
  /\ \A a \in Archives :
       /\ a.images \in Seq(SUBSET [flag : Nat, clen : Nat, cw : Nat, ch : Nat,
                                   ilen : Nat, w : Nat, h : Nat])
       /\ Len(a.images) = Len(a.members)
       /\ \A k \in DOMAIN a.images : \A g, h \in a.images[k] : g = h
  /\ Texts \subseteq Seq(Nat)

systemVars == <<vars, handleVars, unpackVars>>

SystemInit == Init /\ HandleInit /\ UnpackInit

Boots == /\ Next
         /\ pc = -1 => at = "open" /\ urc = "none" /\ step = "idle"
         /\ UNCHANGED <<handleVars, unpackVars>>
Opens == pc = -1 /\ step = "idle" /\ urc = "none" /\ HandleNext /\ UNCHANGED <<vars, unpackVars>>
Unpacks == pc = -1 /\ UnpackNext /\ UNCHANGED vars

SystemNext == Boots \/ Opens \/ Unpacks
SystemSpec == SystemInit /\ [][SystemNext]_systemVars
-----------------------------------------------------------------------------
(* Nothing is lost and nothing freed twice, wherever the open has failed:  *)
(* a handle that is shut has left nothing behind, an open one has all of   *)
(* its parts, and a call leaves its result, if it has one, and nothing     *)
(* else (boot.c:23-57, vol.c:80-175, ovl.c:32-90, ovl.c:110-168,           *)
(* tim.c:330-407).                                                         *)
HandlesOwned ==
  /\ HandleTypeOK
  /\ \A r \in Objects : held[r] \in {0, 1}
  /\ at = "shut" => \A r \in Handles : held[r] = 0
  /\ at = "open" => \A r \in Handles : held[r] = 1
  /\ step = "idle" => /\ held["packed"] = 0 /\ held["stream"] = 0
                      /\ held["plain"] = 1 <=> urc = "OK"

(* What can be unpacked: sound members; of a chain at least one, and not   *)
(* more than the limit.  A chain of just the limit must end its file,      *)
(* since the limit is looked at before the magic (tim.c:343-348).          *)
Sound(a) == \A k \in DOMAIN a.members : a.members[k].good
Joinable(a) ==
  LET n == Len(a.members) IN
  /\ Sound(a) /\ n \in 1 .. MaxMembers
  /\ n = MaxMembers => RoundUp(PlaceOf(a, n) + a.members[n].comp) + 2 > Length(a)

MembersApart ==
  call = "ovl" /\ step \in {"buffer", "init", "inflate"} =>
    ovl.off[mem] + ovl.comp[mem] <= OffAfter(ovl, mem)

(* A call that ends well gives each member's bytes, whole and in order,    *)
(* however often the buffer grew, and it ends well whenever there was      *)
(* memory and the archive is sound: there is no part of a result.  A       *)
(* member of the container that is read lies before the next one, though   *)
(* the header's check lets sums through that have wrapped (ovl.c:75-83).   *)
MembersWhole ==
  /\ UnpackTypeOK
  /\ step = "idle" /\ urc = "OK" => made = Whole(todo)
  /\ step = "idle" /\ urc \notin {"none", "IO"} /\ ~lack =>
       (urc = "OK" <=> IF call = "ovl" THEN Sound(todo) ELSE Joinable(todo))
  /\ MembersApart

(* The images of a chain that holds one to a member.                       *)
Joined(a) ==
  LET before(k) == Bytes(SubSeq(Whole(a), 1, k - 1))
      with      == {k \in DOMAIN a.images : a.images[k] # {}}
      at_(o)    == CHOOSE k \in with : before(k) = o
  IN  [len   |-> Bytes(Whole(a)),
       heads |-> [o \in {before(k) : k \in with} |->
                    CHOOSE h \in a.images[at_(o)] : TRUE]]
OnlyAt(o, h) == [x \in {o} |-> h]
OneImage(a, k) ==                           \* member k alone
  \E h \in a.images[k] :
    LET e == ImageAt([len |-> a.members[k].out, heads |-> OnlyAt(0, h)], 0)
    IN  e.st = "OK" /\ e.total = a.members[k].out

ImagesOf(d) ==
  LET found == Images(d) IN
  /\ \A k \in DOMAIN found :
       LET e == found[k] IN
       /\ e.off = IF k = 1 THEN 0 ELSE found[k - 1].off + found[k - 1].total
       /\ e.off + e.total <= d.len
       /\ e.clut => e.clutAt + 2 * e.colours <= e.pix - 12
       /\ e.pix + e.pixLen = e.off + e.total
       /\ LET again == ImageAt([len |-> d.len, heads |-> OnlyAt(e.off, Encode(e))], e.off)
          IN  \A f \in {"mode", "clut", "colours", "w", "h", "pixLen"} : again[f] = e[f]
       /\ Decode(d, k - 1).st = "OK" => e.pix + Need(e) <= d.len
  /\ \A k \in 0 .. Len(found) :
       Info(d, k) = IF k < Len(found) THEN found[k + 1] ELSE NoImage("NOT_FOUND")

EachFound(a) ==
  LET d == Joined(a) IN
  (\A k \in DOMAIN a.images : OneImage(a, k)) =>
    /\ Len(Images(d)) = Len(a.members)
    /\ \A k \in DOMAIN a.images :
         Images(d)[k].off = Bytes(SubSeq(Whole(a), 1, k - 1))

(* A logo: opaque bytes, then an image with colours that is cut in its     *)
(* pixels, or in front of them.                                            *)
Logo(h, n, rest) == [len |-> n + 8 + h.clen + rest, heads |-> OnlyAt(n, h)]
LogosFound(a) ==
  \A h \in UNION Range(a.images) : HasClut(h) /\ OneImage(a, 1) /\ h \in a.images[1] =>
    \A n \in {0, 4, 5184} : /\ LogoFind(Logo(h, n, 12)) = n
                            /\ LogoFind(Logo(h, n, 11)) = -1
                            /\ n > 0 => Images(Logo(h, n, h.ilen)) = << >>

Runs(t) == {r \in (0 .. Len(t)) \X (0 .. Len(t)) :
              /\ r[1] < r[2] /\ \A i \in r[1] + 1 .. r[2] : t[i] # 0
              /\ r[1] = 0 \/ t[r[1]] = 0
              /\ r[2] = Len(t) \/ t[r[2] + 1] = 0}
TextsRead ==
  \A t \in Texts :
    LET s == Strings(t) IN
    /\ {<<s[k].from, s[k].from + s[k].len>> : k \in DOMAIN s} = Runs(t)
    /\ \A k \in 2 .. Len(s) : s[k - 1].from < s[k].from

(* What was unpacked can be addressed.  The images found lie one behind    *)
(* the other inside the bytes, colours and pixels inside their own image,  *)
(* and decode from bytes that are there; the index walk finds just those   *)
(* that the count has counted, and what is encoded from one describes it   *)
(* again.  Where each member is one image, each is found where its bytes   *)
(* begin.  A logo's image is found though it is cut (tim.c:53-159,         *)
(* 253-328), and the strings of a text are its runs (tim.c:418-466).       *)
ContentsFound ==
  /\ step = "idle" /\ urc = "OK" /\ call = "join" =>
       ImagesOf(Joined(todo)) /\ EachFound(todo) /\ LogosFound(todo)
  /\ TextsRead
=============================================================================
