-------------------------------- MODULE Unpack --------------------------------
(***************************************************************************)
(* The two inflate loops over an open boot handle: gt2_ovl_read_member     *)
(* (src/decomp/src/ovl/ovl.c), one gzip member into a buffer that grows,   *)
(* and gt2_gunzip_join (src/decomp/src/tim/tim.c), a chain of members at   *)
(* sector boundaries into one buffer.                                      *)
(*                                                                         *)
(* A member is [comp, out, good]: its bytes packed and unpacked, and       *)
(* whether the stream is sound.  An archive is [members, tail]: members    *)
(* from one sector boundary to the next, then `tail' bytes that begin no   *)
(* member.  What was unpacked is a sequence of [m, n]: n bytes of member m.*)
(***************************************************************************)
EXTENDS BootHandle, SequencesExt

CONSTANTS
  Archives,    \* what gt2_gunzip_join is given
  JoinCap,     \* first capacities: 1u << 20 and 512 * 1024
  OvlCap,
  MaxMembers   \* the most members of a chain, 4096

SectorSize == 2048

ASSUME UnpackAssumption ==
  /\ JoinCap \in Nat \ {0} /\ OvlCap \in Nat \ {0} /\ MaxMembers \in Nat
  /\ \A a \in Archives :
       /\ a.tail \in Nat
       /\ a.members \in Seq([comp : Nat \ {0, 1}, out : Nat, good : BOOLEAN])
  /\ \A c \in Containers : /\ c.plain \in Seq([out : Nat, good : BOOLEAN])
                           /\ Len(c.plain) = Len(c.off)

VARIABLES
  call, step,  \* the call and the next step of it, "idle" when it is over
  todo,        \* its archive; that of gt2_ovl_read_member has one member
  mem,         \* the member of the container that gt2_ovl_read_member reads
  off,         \* where the next member of a chain is looked for
  members,     \* the members unpacked
  cap, made,
  lack,        \* an allocation has failed in this call
  urc          \* the last call's status

unpackVars == <<call, step, todo, mem, off, members, cap, made, lack, urc>>

Nothing == [members |-> << >>, tail |-> 0]

UnpackTypeOK ==
  /\ call \in {"ovl", "join"}
  /\ step \in {"idle", "read", "buffer", "init", "inflate", "next"}
  /\ mem \in DOMAIN ovl.off /\ off \in Nat /\ members \in 0 .. MaxMembers
  /\ cap \in Nat /\ made \in Seq([m : Nat, n : Nat]) /\ lack \in BOOLEAN
  /\ urc \in {"none", "OK", "NO_MEM", "IO", "CORRUPT", "TRUNCATED"}

UnpackInit ==
  /\ call = "join" /\ step = "idle" /\ todo = Nothing /\ mem = 1 /\ off = 0
  /\ members = 0 /\ cap = 0 /\ made = << >> /\ lack = FALSE /\ urc = "none"

-----------------------------------------------------------------------------
RoundUp(x) == ((x + SectorSize - 1) \div SectorSize) * SectorSize
PlaceOf(a, k) ==                                   \* of the k-th member
  FoldSeq(LAMBDA m, s : RoundUp(m.comp) + s, 0, SubSeq(a.members, 1, k - 1))
Length(a) ==
  LET n == Len(a.members)
  IN  a.tail + IF n = 0 THEN 0 ELSE PlaceOf(a, n) + a.members[n].comp
Magic(a, o) == \E k \in DOMAIN a.members : PlaceOf(a, k) = o

Bytes(s) == FoldSeq(LAMBDA p, n : p.n + n, 0, s)
Whole(a) == [k \in DOMAIN a.members |-> [m |-> k, n |-> a.members[k].out]]

(* What one call of inflate gives for a member of which `had' bytes are    *)
(* out and for which there is `room': it fills the room, ends the member   *)
(* (at once or by another call when the room was just enough), or finds    *)
(* the stream broken, which it does before the end.                        *)
Inflates(m, had, room) ==
  LET left == m.out - had
      n    == Min({left, room})
  IN  (IF left >= room THEN {[n |-> n, r |-> "OK"]} ELSE {})
        \cup IF ~m.good THEN {[n |-> n, r |-> "BAD"]}
             ELSE IF left <= room THEN {[n |-> n, r |-> "END"]} ELSE {}

-----------------------------------------------------------------------------
(* A call begins with an allocation.                                       *)
Begins(c, a, k, r, next) ==
  /\ at = "open" /\ step = "idle" /\ urc = "none"
  /\ call' = c /\ todo' = a /\ mem' = k /\ made' = << >> /\ off' = 0 /\ members' = 0
  /\ \/ step' = next /\ urc' = "none" /\ lack' = FALSE /\ held' = Takes(r)
     \/ step' = "idle" /\ urc' = "NO_MEM" /\ lack' = TRUE /\ UNCHANGED held
  /\ UNCHANGED <<at, ptr, ovl, brc>>

(* It goes on, or returns e and has freed objs.                            *)
GoesOn(next) ==
  step' = next /\ UNCHANGED <<call, todo, mem, lack, urc, at, ptr, ovl, brc>>
Returns(e, objs, short) ==
  /\ step' = "idle" /\ urc' = e /\ held' = Frees(objs, {})
  /\ lack' = short /\ off' = 0 /\ members' = 0 /\ cap' = 0
  /\ UNCHANGED <<call, todo, mem, at, ptr, ovl, brc>>
Fails(e, objs, short) == Returns(e, objs, short) /\ made' = << >>

(* The caller frees the result, if there is one, and is done with the call.*)
Leave ==
  /\ step = "idle" /\ urc # "none" /\ urc' = "none"
  /\ held' = Frees(IF urc = "OK" THEN {"plain"} ELSE {}, {})
  /\ call' = "join" /\ todo' = Nothing /\ mem' = 1 /\ made' = << >> /\ lack' = FALSE
  /\ UNCHANGED <<step, off, members, cap, at, ptr, ovl, brc>>

(* gt2_ovl_read_member.  gt2_boot_load_overlay makes IO of any of its      *)
(* errors.                                                                 *)
MemberOf(c, k) ==
  [comp |-> c.comp[k], out |-> c.plain[k].out, good |-> c.plain[k].good]
LoadOverlay ==
  /\ \E k \in DOMAIN ovl.off :
       Begins("ovl", [members |-> <<MemberOf(ovl, k)>>, tail |-> 0], k, "packed", "read")
  /\ cap' = 0
ReadPacked ==
  /\ step = "read"
  /\ \/ /\ ((OvlBase + ovl.off[mem]) % Word) + ovl.comp[mem] <= DiscEnd
        /\ GoesOn("buffer") /\ UNCHANGED <<off, members, cap, made, held>>
     \/ Fails("IO", {"packed"}, FALSE)
TakeBuffer ==
  /\ step = "buffer"
  /\ \/ /\ GoesOn("init") /\ cap' = OvlCap /\ held' = Takes("plain")
        /\ UNCHANGED <<off, members, made>>
     \/ Fails("NO_MEM", {"packed"}, TRUE)

(* gt2_gunzip_join, and its loop over the members.                         *)
Join ==
  /\ \E a \in Archives : Begins("join", a, 1, "plain", "next")
  /\ cap' = JoinCap

JoinEnds(bad, short) ==
  IF members = 0 THEN Fails("TRUNCATED", {"plain"}, short)
  ELSE IF bad # "OK" THEN Fails(bad, {"plain"}, short)
  ELSE Returns("OK", {}, short) /\ UNCHANGED made
NextMember ==
  /\ step = "next"
  /\ LET more == off + 2 <= Length(todo) IN
     IF ~more THEN JoinEnds("OK", FALSE)
     ELSE IF members >= MaxMembers THEN JoinEnds("TRUNCATED", FALSE)
     ELSE IF ~Magic(todo, off) THEN JoinEnds("OK", FALSE)
     ELSE GoesOn("init") /\ UNCHANGED <<off, members, cap, made, held>>

(* inflateInit2 takes memory of its own.                                   *)
Init2 ==
  /\ step = "init"
  /\ \/ /\ GoesOn("inflate") /\ held' = Takes("stream")
        /\ made' = Append(made, [m |-> members + 1, n |-> 0])
        /\ UNCHANGED <<off, members, cap>>
     \/ /\ call = "ovl" /\ Fails("NO_MEM", {"packed", "plain"}, TRUE)
     \/ /\ call = "join" /\ JoinEnds("NO_MEM", TRUE)

-----------------------------------------------------------------------------
Full == Bytes(made) >= cap
(* Broken on purpose: the buffer grows without its bytes.                  *)
GrownEmpty == [made EXCEPT ![Len(made)].n = 0]
Grown == made
Now   == todo.members[members + 1]
Gave(o, r) == /\ o.r = r
              /\ made' = [IF Full THEN Grown ELSE made EXCEPT ![Len(made)].n = @ + o.n]

(* One turn of either inflate loop: grow when full, then inflate into what *)
(* is left.                                                                *)
InflateOn(o) ==
  /\ Gave(o, "OK") /\ GoesOn("inflate")
  /\ cap' = IF Full THEN 2 * cap ELSE cap
  /\ UNCHANGED <<off, members, held>>
EndOvl(o) ==
  /\ call = "ovl" /\ Gave(o, "END") /\ Returns("OK", {"stream", "packed"}, FALSE)
EndJoin(o) ==
  /\ call = "join" /\ Gave(o, "END") /\ GoesOn("next")
  /\ cap' = IF Full THEN 2 * cap ELSE cap
  /\ members' = members + 1 /\ off' = RoundUp(off + Now.comp)
  /\ held' = Frees({"stream"}, {})
Broken(o) ==
  /\ o.r = "BAD"
  /\ Fails(IF call = "ovl" THEN "CORRUPT" ELSE "TRUNCATED",
             {"stream", "plain"} \cup IF call = "ovl" THEN {"packed"} ELSE {}, FALSE)
CannotGrow ==
  /\ Full
  /\ Fails(IF call = "ovl" THEN "NO_MEM" ELSE "TRUNCATED",
             {"stream", "plain"} \cup IF call = "ovl" THEN {"packed"} ELSE {}, TRUE)

Inflate ==
  /\ step = "inflate"
  /\ \/ CannotGrow
     \/ LET room == IF Full THEN 2 * cap - Bytes(made) ELSE cap - Bytes(made) IN
        \E o \in Inflates(Now, made[Len(made)].n, room) :
          InflateOn(o) \/ EndOvl(o) \/ EndJoin(o) \/ Broken(o)

UnpackNext ==
  \/ LoadOverlay \/ ReadPacked \/ TakeBuffer \/ Join \/ NextMember \/ Init2
  \/ Inflate \/ Leave
=============================================================================
