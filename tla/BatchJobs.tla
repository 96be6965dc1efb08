----------------------------- MODULE BatchJobs -----------------------------
(***************************************************************************)
(* Parallel batch dispatch, src/mods/gt2_batch_jobs.c: a call of the scene *)
(* parent collects its batches, runs them on worker threads into private   *)
(* arenas, and merges the arenas into the live packet stream in order; or  *)
(* falls back to the serial body.  A packet is one cell of memory; the     *)
(* mail word, 0x801C93EC, holds a place in the stream as a number and one  *)
(* behind cell c of the arenas as -c.                                      *)
(*                                                                         *)
(* The worker pool, the IRQ line, the allocators and the guest code the    *)
(* batches run are outside the source: what they may do is nondeterminism. *)
(***************************************************************************)
EXTENDS Integers, SequencesExt

CONSTANTS
  Workers,      \* worker threads of the pool
  LastSlot,     \* batches 1..LastSlot-1 are the mask's, LastSlot the tail
  Behaviours,   \* what a batch may do: [len, cycles, ok], see TypeOK
  ArenaSize,    \* GT2_ARENA_SIZE, in packets
  CycleCap,     \* GT2_JOB_CYCLE_CAP
  MinN,         \* s_min_n
  Room,         \* packets the live stream has room for
  Modes,        \* environment settings: [verify, dryrun, noapply : BOOLEAN]
  MaxCalls      \* bound on the calls of one run

ASSUME SlotsAssumption == LastSlot \in Nat \ {0}
ASSUME SizesAssumption == /\ ArenaSize \in Nat \ {0} /\ CycleCap \in Nat
                          /\ MinN \in Nat /\ Room \in Nat /\ MaxCalls \in Nat
ASSUME BehavioursAssumption ==
  Behaviours \subseteq [len : 0 .. 2 * ArenaSize, cycles : Nat, ok : BOOLEAN]
ASSUME ModesAssumption ==
  Modes \subseteq [verify : BOOLEAN, dryrun : BOOLEAN, noapply : BOOLEAN]

VARIABLES
  pc,        \* where the main thread is
  mode,      \* the environment settings of this process
  calls,     \* calls so far
  work,      \* the batches of this call, in order: [frame, slot, does]
  irq,       \* an interrupt is pending
  buffers,   \* what the first call allocated: "none", "half" or "ready"
  pool,      \* the arenas, ArenaSize cells for each job
  claimed,   \* jobs handed to workers so far
  job,       \* per job: what it reported to the main thread
  on, at,    \* per worker: the job it runs (0 for none), packets written
  ram, bump, mbox, mail, regs, clock,   \* the guest's state
  par        \* par_bump and par_mbox, kept across the shadow call

guest == <<ram, bump, mbox, mail, regs, clock>>
team  == <<pool, claimed, job, on, at>>
vars  == <<pc, mode, calls, work, irq, buffers, team, guest, par>>

Pcs     == {"idle", "gate", "run", "join", "shadow", "serial", "crashed"}
Slots   == 1..LastSlot
Origin  == <<0, 0>>
Leaves(b)    == <<b.frame, b.slot>>         \* the mailbox and registers of b
Packet(b, k) == <<b.frame, b.slot, k>>
NoJob   == [done |-> FALSE, over |-> FALSE, used |-> 0, cycles |-> 0,
            box |-> Origin]
N       == Len(work)
Cell(i, k) == (i - 1) * ArenaSize + k       \* k-th cell of arena i, from 1
Cells   == 1 .. Cell(LastSlot + 2, 0)
Longest == 2 * ArenaSize

Marks   == (0..MaxCalls) \X (0..LastSlot)

TypeOK ==
  /\ pc \in Pcs /\ mode \in Modes /\ calls \in 0..MaxCalls /\ irq \in BOOLEAN
  /\ work \in Seq([frame : 1..MaxCalls, slot : Slots, does : Behaviours])
  /\ N <= LastSlot /\ claimed \in 0..N
  /\ buffers \in {"none", "half", "ready"}
  /\ DOMAIN pool = Cells
  /\ job \in [1..LastSlot -> [done : BOOLEAN, over : BOOLEAN, used : 0..ArenaSize,
                          cycles : Nat, box : Marks]]
  /\ on \in [Workers -> 0..N] /\ at \in [Workers -> 0..Longest]
  /\ bump \in Nat /\ mail \in Int /\ clock \in Nat /\ mbox \in Marks
  /\ regs \in [temps : Marks, saved : {"caller", "callee"}]

Init ==
  /\ pc = "idle" /\ mode \in Modes /\ calls = 0 /\ work = << >> /\ irq = FALSE
  /\ buffers = "none" /\ pool = [c \in Cells |-> Origin]
  /\ claimed = 0 /\ job = [i \in 1..LastSlot |-> NoJob]
  /\ on = [w \in Workers |-> 0] /\ at = [w \in Workers |-> 0]
  /\ ram = << >> /\ bump = 0 /\ mail = 0 /\ clock = 0 /\ mbox = Origin
  /\ regs = [temps |-> Origin, saved |-> "caller"]
  /\ par = [bump |-> 0, mbox |-> Origin]

----------------------------------------------------------------------------
(* The batches of a mask, in the order of its bits.                        *)
Ascending(S) == {s \in [1..Cardinality(S) -> S] :
                   \A k \in 2..Cardinality(S) : s[k - 1] < s[k]}

(* The guest calls the parent with some mask and some scene; the tail      *)
(* batch runs whatever the mask.                                           *)
Call ==
  /\ pc = "idle" /\ calls < MaxCalls
  /\ pc' = "gate" /\ calls' = calls + 1
  /\ \E mask \in SUBSET (Slots \ {LastSlot}), scene \in [Slots -> Behaviours] :
       \E slots \in Ascending(mask \cup {LastSlot}) :
         work' = [i \in DOMAIN slots |->
           [frame |-> calls + 1, slot |-> slots[i], does |-> scene[slots[i]]]]
  /\ claimed' = 0 /\ job' = [i \in 1..LastSlot |-> NoJob]
  /\ UNCHANGED <<mode, irq, buffers, pool, on, at, guest, par>>

Irq ==
  /\ irq' = ~irq
  /\ irq => pc = "idle"            \* delivered between calls
  /\ UNCHANGED <<pc, mode, calls, work, buffers, team, guest, par>>

(* gt2_batch_parent_try up to psx_batch_run.  Netplay, recording, replay,  *)
(* device service, the switch itself and an unmapped stream are the        *)
(* environment's to decide.                                                *)
Serially == pc' = "serial" /\ UNCHANGED <<irq, work, mode, calls, team, guest, par>>

GateShut  == pc = "gate" /\ Serially /\ UNCHANGED buffers

GateAlloc ==
  /\ pc = "gate" /\ ~irq /\ buffers = "none"
  /\ Serially
  /\ buffers' \in {"none"} \cup (IF mode.verify THEN {"half"} ELSE {})

GateOpen ==
  /\ pc = "gate" /\ ~irq /\ N >= MinN
  /\ buffers' = IF buffers = "none" THEN "ready" ELSE buffers
  /\ pc' = "run"
  /\ UNCHANGED <<mode, calls, work, irq, team, guest, par>>

----------------------------------------------------------------------------
(* gt2_job_fn on a worker.  A job that cannot get its clone or its private *)
(* scratch gives up at once.                                               *)
Claim(w) ==
  /\ pc = "run" /\ on[w] = 0 /\ claimed < N
  /\ claimed' = claimed + 1
  /\ \/ /\ on' = [on EXCEPT ![w] = claimed'] /\ at' = [at EXCEPT ![w] = 0]
        /\ UNCHANGED job
     \/ /\ job' = [job EXCEPT ![claimed'].over = TRUE, ![claimed'].done = TRUE]
        /\ UNCHANGED <<on, at>>
  /\ UNCHANGED <<pc, mode, calls, work, irq, buffers, pool, guest, par>>

(* The guest code stores its next packet through the bump pointer, which   *)
(* nothing keeps inside the arena while the job runs, and moves the mail   *)
(* word on.  The pointer is in the job's own scratch; the mail word is in  *)
(* the RAM that all jobs share, and has the place of whoever stored last.  *)
Emit(w) ==
  LET b == work[on[w]] IN
  /\ on[w] # 0 /\ at[w] < b.does.len
  /\ pool' = [pool EXCEPT ![Cell(on[w], at[w] + 1)] = Packet(b, at[w] + 1)]
  /\ at' = [at EXCEPT ![w] = @ + 1]
  /\ mail' = -Cell(on[w], at[w] + 1)
  /\ UNCHANGED <<pc, mode, calls, work, irq, buffers, claimed, job, on,
                 ram, bump, mbox, regs, clock, par>>

(* Mutant: a job may end one packet past its arena.                        *)
EscapedLate(does, used) == ~does.ok \/ used > ArenaSize + 1

Escaped(does, used) == ~does.ok \/ used > ArenaSize
Runaway(does)       == does.cycles > CycleCap

(* Mutant: no limit on the trampoline's steps.                             *)
BackUnlimited(does, k) == does.ok /\ k = does.len

(* The trampoline came back: from the end of the batch, or out of it when  *)
(* a target could not be dispatched or the step limit was reached.         *)
Back(does, k) == does.ok => k = does.len

Finish(w) ==
  LET b == work[on[w]] IN
  /\ on[w] # 0 /\ Back(b.does, at[w])
  /\ job' = [job EXCEPT ![on[w]] =
       [done   |-> TRUE,
        over   |-> Escaped(b.does, at[w]) \/ Runaway(b.does),
        used   |-> IF Escaped(b.does, at[w]) THEN 0 ELSE at[w],
        cycles |-> b.does.cycles,
        box    |-> Leaves(b)]]
  /\ on' = [on EXCEPT ![w] = 0]
  /\ UNCHANGED <<pc, mode, calls, work, irq, buffers, pool, claimed, at, guest, par>>

(* psx_batch_run returns once every job is done.                           *)
AllDone == \A i \in 1..N : job[i].done

Join ==
  /\ pc = "run" /\ AllDone
  /\ pc' = "join"
  /\ UNCHANGED <<mode, calls, work, irq, buffers, team, guest, par>>

----------------------------------------------------------------------------
(* After the join: three ways back to the serial body, one to nothing, and *)
(* the merge.                                                              *)
Total == SumFunction([i \in 1..N |-> job[i].used])

Refused == \/ \E i \in 1..N : job[i].over
           \/ irq
           \/ ~mode.noapply /\ Total > Room - bump

Fallback == pc = "join" /\ Refused /\ Serially /\ UNCHANGED buffers

(* No-apply leaves the stream as it is, and the mail word as the jobs do.  *)
SkipApply ==
  /\ pc = "join" /\ ~Refused /\ mode.noapply
  /\ pc' = "idle"
  /\ UNCHANGED <<mode, calls, work, irq, buffers, team, guest, par>>

(* Mutant: the mailbox and registers come from the first job.              *)
FirstJob == job[1]

LastJob  == job[N]
Arena(i) == [k \in 1..job[i].used |-> pool[Cell(i, k)]]

Merge ==
  /\ pc = "join" /\ ~Refused /\ ~mode.noapply
  /\ ram' = ram \o FlattenSeq([i \in 1..N |-> Arena(i)])
  /\ bump' = bump + Total
  /\ mail' = bump' /\ mbox' = LastJob.box
  /\ regs' = [regs EXCEPT !.temps = LastJob.box]
  /\ clock' = clock + SumFunction([i \in 1..N |-> job[i].cycles])
  /\ par' = [bump |-> bump', mbox |-> mbox']
  /\ pc' = CASE mode.dryrun -> "serial"
             [] ~mode.dryrun /\ mode.verify -> "shadow"
             [] OTHER -> "idle"
  /\ UNCHANGED <<mode, calls, work, irq, buffers, team>>

(* Mutant: the bump pointer keeps where the shadow body left it.           *)
RestoredLate == [par EXCEPT !.bump = Room + Longest * LastSlot]

Restored == par

(* The verify pass: the original body runs again, on the live registers,   *)
(* with the stream pointed at a scratch zone.  It makes one hop of the     *)
(* call chain, so any part of the call may have happened.  The zone, which *)
(* holds the mail word too, the bump pointer and the mailbox are put back. *)
Shadow ==
  /\ pc = "shadow" /\ buffers = "ready"
  /\ pc' = "idle"
  /\ \E m \in {mbox} \cup {Leaves(work[i]) : i \in 1..N} :
       regs' \in [temps : {regs.temps, m}, saved : {"caller", "callee"}]
  /\ bump' = Restored.bump /\ mbox' = Restored.mbox
  /\ UNCHANGED <<mode, calls, work, irq, buffers, team, ram, mail, clock, par>>

(* Copying through a buffer that was never allocated.                      *)
ShadowCrash ==
  /\ pc = "shadow" /\ buffers = "half"
  /\ pc' = "crashed"
  /\ UNCHANGED <<mode, calls, work, irq, buffers, team, guest, par>>

(* The original body of the parent: each batch in turn, on the stream.  A  *)
(* body that appends nothing leaves the mail word alone.                   *)
Serial ==
  /\ pc = "serial"
  /\ pc' = "idle"
  /\ ram' = ram \o FlattenSeq([i \in 1..N |-> [k \in 1..work[i].does.len |-> Packet(work[i], k)]])
  /\ bump' = Len(ram')
  /\ mail' = IF ram' = ram THEN mail ELSE bump'
  /\ mbox' = Leaves(work[N])
  /\ regs' = [regs EXCEPT !.temps = Leaves(work[N])]
  /\ clock' = clock + SumFunction([i \in 1..N |-> work[i].does.cycles])
  /\ UNCHANGED <<mode, calls, work, irq, buffers, team, par>>

Main   == \/ GateShut \/ GateAlloc \/ GateOpen \/ Join
          \/ Fallback \/ SkipApply \/ Merge \/ Shadow \/ ShadowCrash \/ Serial
Worker(w) == Claim(w) \/ Emit(w) \/ Finish(w)

Next == Call \/ Irq \/ Main \/ \E w \in Workers : Worker(w)

(* The main thread runs on, and the pool runs every worker that has work.  *)
Spec == /\ Init /\ [][Next]_vars
        /\ WF_vars(Main) /\ \A w \in Workers : WF_vars(Worker(w))
=============================================================================
