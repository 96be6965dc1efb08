------------------------------ MODULE VolTables ------------------------------
(***************************************************************************)
(* The tables that the boot chain builds by walking a directory:           *)
(* gt2_crsmap_build (src/decomp/src/asset/asset.c), gt2_wheel_build,       *)
(* gt2_engine_build and gt2_car_logo_annotate (src/decomp/src/car/car.c).  *)
(* They skip the directories at its front and then step by one, nine or    *)
(* two entries.  A name's hash or code is `of[name]'; digit[name] says     *)
(* that it begins with one, skip[name] that its sixth letter is p or q.    *)
(***************************************************************************)
EXTENDS VolWalk

Refused(e) == [st |-> e, codes |-> << >>, first |-> Missing]
ReadAs(e)  == IF e = "NOT_FOUND" THEN e ELSE "INVAL"

(* What is left of a listing from its first file on.                       *)
Rest(list) ==
  IF \A i \in DOMAIN list : list[i].dir THEN << >>
  ELSE SubSeq(list, FirstFile(list), Len(list))

Taken(part, of, cap, first) ==
  IF Len(part) > cap THEN Refused("NOSPACE")
  ELSE [st |-> "OK", codes |-> [k \in DOMAIN part |-> of[part[k].name]],
        first |-> first]

UpToDir(rest) ==
  SubSeq(rest, 1, Min({Len(rest) + 1} \cup {k \in DOMAIN rest : rest[k].dir}) - 1)

CrsMap(l, of, cap) ==
  LET rest == Rest(l.list) IN
  IF l.st # "OK" THEN Refused(ReadAs(l.st))
  ELSE IF rest = << >> THEN Refused("TRUNCATED")
  ELSE Taken(UpToDir(rest), of, cap, rest[1].next)

Wheels(l, of, cap) ==
  LET rest == Rest(l.list) IN
  IF l.st # "OK" THEN Refused(ReadAs(l.st))
  ELSE IF rest = << >> THEN Refused("TRUNCATED")
  ELSE Taken(rest, of, cap, Missing)

(* The engines end where the listing does eight entries on, or where the   *)
(* ninth has no digit.                                                     *)
EndsNine(rest, digit, k) ==
  \/ k + 8 > Len(rest) \/ rest[k + 8].end
  \/ ~digit[rest[k + 9].name]
Engines(l, of, digit, cap) ==
  LET rest  == Rest(l.list)
      heads == {k \in DOMAIN rest : k % 9 = 1}
      last  == Min({k \in heads : EndsNine(rest, digit, k)})
  IN  IF l.st # "OK" THEN Refused(ReadAs(l.st))
      ELSE IF rest = << >> THEN Refused("TRUNCATED")
      ELSE IF ~digit[rest[1].name] THEN Taken(<< >>, of, cap, Missing)
      ELSE Taken([n \in 1 .. (last + 8) \div 9 |-> rest[9 * n - 8]], of, cap, Missing)

(* The logos are pairs, the first of each hashed; its file becomes the z   *)
(* of the car with that hash, and in the end every car whose z is still 0  *)
(* gets the first logo.  An odd listing is refused with the z's so far     *)
(* written and the others not.                                             *)
Marks(tab, entry, of, skip) ==
  LET at == IF skip[entry.name] THEN -1 ELSE CarFind(tab, of[entry.name])
  IN  IF at < 0 THEN tab ELSE [tab EXCEPT ![at + 1].z = entry.next]

Annotate(l, tab, of, skip) ==
  LET rest == Rest(l.list)
      n    == Len(rest) \div 2
      done[k \in 0 .. n] ==
        IF k = 0 THEN tab ELSE Marks(done[k - 1], rest[2 * k - 1], of, skip)
  IN  IF l.st # "OK" THEN [st |-> ReadAs(l.st), tab |-> tab]
      ELSE IF rest = << >> \/ Len(rest) % 2 = 1 THEN [st |-> "TRUNCATED", tab |-> done[n]]
      ELSE [st |-> "OK",
            tab |-> [k \in DOMAIN tab |->
                       IF done[n][k].z = 0 THEN [done[n][k] EXCEPT !.z = rest[1].next]
                       ELSE done[n][k]]]
=============================================================================
