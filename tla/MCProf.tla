-------------------------------- MODULE MCProf --------------------------------
(***************************************************************************)
(* Three overlay addresses that share a probe chain shorter than they are. *)
(***************************************************************************)
EXTENDS ProfTables

MCPages == {32769, 32770, 32780}
MCHome  == [a \in MCPages |-> IF a = 32780 THEN 1 ELSE 0]
Env(o, h, b) == [on |-> o, hz |-> h, batch |-> b]
MCEnvs  == {Env(TRUE, 100, FALSE), Env(FALSE, 100, FALSE), Env(FALSE, 2000, FALSE),
            Env(TRUE, 0, TRUE)}
MCAlike == Permutations(Jobs)
=============================================================================
