----------------------------- MODULE CardStore -----------------------------
(***************************************************************************)
(* What a memory card promises to the code that saves games: a finite map  *)
(* from names to file bodies, `Entries` blocks of room in total, and to    *)
(* each call the one answer that its arguments and the files call for.     *)
(* Nothing here knows of frames, chains or which block holds what.         *)
(***************************************************************************)
EXTENDS Integers, FiniteSets, Sequences

CONSTANTS Entries, Names, NoName, Bodies

VARIABLES files, ret

vars == <<files, ret>>

NoFile == << >>

(* The number of blocks the files on the card take up.                     *)
Taken == Cardinality({p \in Names \X (1..Entries) : p[2] \in DOMAIN files[p[1]]})

Init == files = [n \in Names |-> NoFile] /\ ret = "OK"

Format == files' = [n \in Names |-> NoFile] /\ ret' = "OK"

(* A write is refused for one of three reasons, the first that holds of    *)
(* the name and the body it was given, and for no other.                   *)
Malformed(n, body) == n = NoName \/ Len(body) \notin 1..Entries
Refuses(why)       == UNCHANGED files /\ ret' = why

Put(n, body) ==
  \/ Malformed(n, body) /\ Refuses("INVAL")
  \/ ~Malformed(n, body) /\ files[n] # NoFile /\ Refuses("EXISTS")
  \/ /\ ~Malformed(n, body) /\ files[n] = NoFile
     /\ \/ Taken + Len(body) > Entries /\ Refuses("NOSPACE")
        \/ /\ Taken + Len(body) <= Entries
           /\ files' = [files EXCEPT ![n] = body] /\ ret' = "OK"

Remove(n) ==
  /\ files[n] # NoFile
  /\ files' = [files EXCEPT ![n] = NoFile]
  /\ ret' = "OK"

(* Deleting an entry no file uses.                                         *)
RemoveNone == Refuses("NOT_FOUND") /\ Taken < Entries

Next ==
  \/ Format \/ RemoveNone
  \/ \E n \in Names : Remove(n)
  \/ \E n \in Names \cup {NoName}, body \in Bodies : Put(n, body)

Spec == Init /\ [][Next]_vars
=============================================================================
