----------------------------- MODULE BatchProps -----------------------------
(***************************************************************************)
(* What parallel batch dispatch must satisfy.                              *)
(***************************************************************************)
EXTENDS BatchJobs

(* When no job reports an overflow, each arena holds the packets of its    *)
(* own batch, however the workers interleaved: gt2_job_fn checks its range *)
(* only after the fact, when the overrun has already hit the neighbour.    *)
ArenasPrivate ==
  pc = "join" /\ (\A i \in 1..N : ~job[i].over) =>
    \A i \in 1..N : Arena(i) = [k \in 1..work[i].does.len |-> Packet(work[i], k)]

(* Whatever path a call took, the guest sees what the serial parent would  *)
(* have left: packets in call order, mailbox, registers and cycles of each *)
(* batch exactly once (the "Serial equivalence notes" of the source).      *)
(* What the mail word is while the jobs move it is the call's own matter.  *)
Within == pc \in {"gate", "run", "join", "serial"}
Scene == INSTANCE SceneSerial WITH
  Frames <- 1..MaxCalls,
  todo   <- IF Within THEN work ELSE << >>,
  mail   <- IF Within THEN bump ELSE mail,
  stream <- ram,
  regs   <- regs.temps

SerialSpec == Scene!Spec

(* A call of the parent comes back, whatever its jobs do and however the   *)
(* pool schedules them.                                                    *)
CallsReturn == (pc = "gate") ~> (pc = "idle")

(* Between calls the bump pointer is the end of the stream, and so is the  *)
(* mail word, which all jobs have moved into their arenas, which a serial  *)
(* body that appends nothing does not put back, and which a verify pass    *)
(* moves once more.  No-apply alone leaves it in an arena, though it is to *)
(* "apply nothing" (gt2_batch_jobs.c:845).                                 *)
MailIsEnd ==
  pc = "idle" => /\ bump = Len(ram)
                 /\ (mail = bump \/ (mode.noapply /\ mail < 0))

(* "apply the cycle ledger, discard the rest, take serial" (the dry run,   *)
(* gt2_batch_jobs.c:902), and "arenas discarded; live stream untouched"    *)
(* (:833): a call that goes back to the serial body has stored nothing.    *)
FallbackStoresNothing ==
  [][pc = "join" /\ pc' = "serial" => UNCHANGED <<ram, bump, mbox, mail, regs>>]_vars
=============================================================================
