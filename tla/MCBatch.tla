------------------------------ MODULE MCBatch ------------------------------
(***************************************************************************)
(* Small instances of batch dispatch for TLC: arenas of two packets, and   *)
(* batches that fit, overrun by one, run away or escape the dispatchers.   *)
(***************************************************************************)
EXTENDS BatchProps

Does(l, c, o) == [len |-> l, cycles |-> c, ok |-> o]
Set(v, d, a)  == [verify |-> v, dryrun |-> d, noapply |-> a]

Fits     == {Does(0, 1, TRUE), Does(1, 1, TRUE), Does(2, 2, TRUE)}
MCScenes == Fits \cup {Does(3, 1, TRUE), Does(1, 4, TRUE), Does(1, 1, FALSE)}
MCFew    == {Does(1, 1, TRUE), Does(3, 1, TRUE)}

MCPlain  == {Set(FALSE, FALSE, FALSE)}
MCDryRun == {Set(FALSE, TRUE, FALSE)}
MCModes  == {Set(v, d, a) : v, d, a \in BOOLEAN}
=============================================================================
