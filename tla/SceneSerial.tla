---------------------------- MODULE SceneSerial ----------------------------
(***************************************************************************)
(* The billboard parent as the game wrote it: a call walks the enabled     *)
(* batches in order, and each appends its packets to the stream, leaves    *)
(* its mailbox value and registers, and costs its cycles.  This is what    *)
(* src/mods/gt2_batch_jobs.c must look like to the guest, however the      *)
(* batches were run.                                                       *)
(***************************************************************************)
EXTENDS Integers, SequencesExt

CONSTANTS Frames, Slots, Behaviours

VARIABLES todo,      \* << >>, or the batches a call has still to render
          stream,    \* packets in the live stream
          mail,      \* where the stream ends, as the mail word says it
          mbox,      \* scratch 0x6C: the last batch's value
          regs,      \* caller-saved registers
          clock      \* cycles billed

vars == <<todo, stream, mail, mbox, regs, clock>>

(* What one batch emits; `batch` is a record [frame, slot, does].          *)
Packets(batch) == [k \in 1..batch.does.len |-> <<batch.frame, batch.slot, k>>]

Idle == todo = << >>

Init == /\ todo = << >> /\ stream = << >> /\ clock = 0
        /\ mail = 0 /\ mbox = <<0, 0>> /\ regs = <<0, 0>>

Batches == [frame : Frames, slot : Slots, does : Behaviours]

Call == /\ Idle
        /\ todo' # << >>
        /\ \A i \in DOMAIN todo' :
             /\ todo'[i] \in Batches
             /\ i > 1 => todo'[i-1].slot < todo'[i].slot
        /\ UNCHANGED <<stream, mail, mbox, regs, clock>>

Render ==
  LET last == todo[Len(todo)] IN
  /\ ~Idle
  /\ todo' = << >>
  /\ stream' = stream \o FlattenSeq([i \in DOMAIN todo |-> Packets(todo[i])])
  /\ mail' = Len(stream')
  /\ mbox' = <<last.frame, last.slot>>
  /\ regs' = <<last.frame, last.slot>>
  /\ clock' = clock + SumFunction([i \in DOMAIN todo |-> todo[i].does.cycles])

Next == Call \/ Render

Spec == Init /\ [][Next]_vars
=============================================================================
