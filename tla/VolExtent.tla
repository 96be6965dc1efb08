------------------------------ MODULE VolExtent ------------------------------
(***************************************************************************)
(* What repacking a volume promises its caller (src/decomp/include/gt2/    *)
(* vol.h, "Repack"): a call ends either without an extent, or with one in  *)
(* which every file from 2 on is the replacement asked for, or the file of *)
(* the source volume, one behind the other in the order of the table;      *)
(* files 0 and 1, which carry the tables, stay but for the table itself.   *)
(***************************************************************************)
EXTENDS Integers, Sequences

CONSTANTS Volumes,   \* source volumes: [tbl |-> table, len |-> bytes]
          RepLists,  \* the replacement lists callers pass
          Table,     \* cell of tbl[0]
          W          \* offsets are below W; 2^32
VARIABLES source,    \* the volume of the call
          asked,     \* its list of [index, size, data]
          st,        \* "none" before the first call, "busy", "OK" or the error
          extent     \* [front, table, files], Nothing without one

vars == <<source, asked, st, extent>>

Errors == {"IO", "NO_MEM", "TRUNCATED", "INVAL"}

LastValid(v) == Len(v.tbl) - 3         \* tbl holds data_count + 1 entries
Entry(v, f)  == v.tbl[f + 1]

(* The bytes of a replacement and of a source file, which may lie over the *)
(* table.                                                                  *)
RepBytes(f, n)    == [k \in 1..n |-> <<"rep", f, k>>]
SourceByte(v, o)  == IF o \in Table .. Table + Len(v.tbl) - 1
                     THEN <<"tbl", Entry(v, o - Table)>> ELSE <<"src", o>>
SourceBytes(v, f) ==
  [k \in 1..(Entry(v, f + 1) - Entry(v, f)) |-> SourceByte(v, Entry(v, f) + k - 1)]

Refused(v, reps) ==
  \/ \E k \in DOMAIN reps : \/ reps[k].index \notin 2..LastValid(v)
                            \/ reps[k].size > 0 /\ ~reps[k].data
  \/ \E j, k \in DOMAIN reps : j # k /\ reps[j].index = reps[k].index

Want(v, reps, f) ==
  IF \E k \in DOMAIN reps : reps[k].index = f
  THEN LET k == CHOOSE k \in DOMAIN reps : reps[k].index = f
       IN  RepBytes(f, reps[k].size)
  ELSE SourceBytes(v, f)

(* Where each file should begin, and the last one end.                     *)
Starts(v, reps) ==
  LET at[f \in 2 .. LastValid(v) + 1] ==
        IF f = 2 THEN Entry(v, 2) ELSE at[f - 1] + Len(Want(v, reps, f - 1))
  IN  at
Fits(v, reps) == Starts(v, reps)[LastValid(v) + 1] < W

(* The table: each file begins where the one before it ends.              *)
InLine(v, reps, t) ==
  LET n == Len(v.tbl) - 1 IN
  /\ t = [f \in 0 .. n |-> IF f \in 3 .. n - 1 THEN t[f] ELSE Entry(v, f)]
  /\ \A f \in 2 .. LastValid(v) : t[f + 1] = t[f] + Len(Want(v, reps, f))

Nothing == [front |-> << >>, table |-> << >>, files |-> << >>]
Whole(v, reps, t) ==
  [front |-> [o \in (0 .. Entry(v, 2) - 1) \ (Table .. Table + Len(v.tbl) - 1)
                |-> <<"src", o>>],
   table |-> t,
   files |-> [f \in 2 .. LastValid(v) |-> Want(v, reps, f)]]

Init ==
  source \in Volumes /\ asked \in RepLists /\ st = "none" /\ extent = Nothing

Ask == /\ st # "busy"
       /\ source' \in Volumes /\ asked' \in RepLists
       /\ st' = "busy" /\ extent' = Nothing

Fail == /\ st = "busy"
        /\ st' \in Errors /\ UNCHANGED <<source, asked, extent>>

(* Nothing is said of an extent that has W bytes or more: no check of the  *)
(* code refuses one.                                                       *)
Deliver == /\ st = "busy"
           /\ ~Refused(source, asked)
           /\ st' = "OK"
           /\ IF Fits(source, asked)
              THEN /\ InLine(source, asked, extent'.table)
                   /\ extent' = Whole(source, asked, extent'.table)
              ELSE extent' = Nothing
           /\ UNCHANGED <<source, asked>>

Next == Ask \/ Fail \/ Deliver
Spec == Init /\ [][Next]_vars
=============================================================================
