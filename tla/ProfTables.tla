------------------------------ MODULE ProfTables ------------------------------
(***************************************************************************)
(* The profiler of src/src/mods/gt2_batch_jobs.c: four open-addressed      *)
(* tables, address -> count, without a lock.  The emulation thread notes   *)
(* static hits, dispatch misses and address misses, and so do the workers  *)
(* of a batch, whose guest code passes the same dispatcher; SIGPROF,       *)
(* wherever it is delivered, notes the interrupted PC; a sampler thread,   *)
(* and at times the emulation thread, reads a table while it changes and   *)
(* prints its heaviest addresses.                                          *)
(*                                                                         *)
(* An address stands for its 64 KiB page.  The two stores that claim a     *)
(* slot are unordered, as nothing in the code orders them.                 *)
(***************************************************************************)
EXTENDS Integers, Sequences, FiniteSetsExt, SequencesExt

CONSTANTS
  Pages,        \* addresses noted, as pages
  Slots, Home,  \* size of a table and the hash of an address
  Probes,       \* slots looked at for an address: 16
  Heaviest,     \* rows a list prints: 6, and 12 for PCs
  Cadence,      \* calls between the dumps of the emulation thread: 512
  Jobs,         \* the workers of the batch pool
  Envs,         \* settings: [on |-> PROFLOG or DEEPLOG, hz |-> PSX_SPROF_HZ,
                \*            batch |-> s_gt2_on]
  MaxNotes,     \* bound on what is noted
  MaxCalls      \* bound on s_prof_calls

ASSUME ProfAssumption ==
  /\ Pages \subseteq Nat \ {0} /\ IsFiniteSet(Pages)
  /\ Slots \in Nat \ {0} /\ Home \in [Pages -> 0..Slots - 1]
  /\ Probes \in 1..Slots /\ Heaviest \in Nat \ {0} /\ Cadence \in Nat \ {0}
  /\ MaxNotes \in Nat /\ MaxCalls \in Nat
  /\ IsFiniteSet(Jobs) /\ Jobs \cap {"main", "sig", "sdl"} = {}
  /\ \A e \in Envs : e.on \in BOOLEAN /\ e.hz \in Nat /\ e.batch \in BOOLEAN

(* The emulation thread, a handler that interrupts it, one on another      *)
(* thread, and the workers.                                                *)
Writers == {"main", "sig", "sdl"} \cup Jobs
Dumpers == {"main", "sampler"}
Tables  == {"hit", "miss", "amiss", "pc"}

VARIABLES
  env,
  addr, cnt,    \* table -> slot -> address (0 is free), count
  op,           \* writer -> the note it is busy with
  calls,        \* s_prof_calls
  dump,         \* dumper -> the list it is busy with
  printed,      \* dumper -> the last list it finished
  noted, total  \* table -> address -> calls that note it; table -> all its
                \* notes (history)

vars == <<env, addr, cnt, op, calls, dump, printed, noted, total>>

Cells == 0..Slots - 1
Idle  == [t |-> "none"]
Empty == [s \in Cells |-> 0]
Blank == [t |-> "none", low |-> 0, rows |-> << >>]

Init ==
  /\ env \in Envs
  /\ addr = [t \in Tables |-> Empty] /\ cnt = addr
  /\ op = [w \in Writers |-> Idle] /\ dump = [d \in Dumpers |-> Idle]
  /\ calls = 0 /\ printed = [d \in Dumpers |-> Blank]
  /\ noted = [t \in Tables |-> [a \in Pages |-> 0]]
  /\ total = [t \in Tables |-> 0]

-----------------------------------------------------------------------------
(* Noting an address.  A handler suspends the emulation thread, which      *)
(* waits for its workers while they run.                                   *)
Free(w)    == op[w] = Idle
MainWaits  == Free("main") /\ dump["main"] = Idle
MainRuns   == MainWaits /\ Free("sig") /\ \A j \in Jobs : Free(j)
JobRuns(j) == MainWaits /\ env.batch /\ Free(j)
Notes      == total["hit"] + total["miss"] + total["amiss"] + total["pc"]
Slot(a, p) == (Home[a] + p) % Slots

Noted(t, a) == /\ Notes < MaxNotes /\ total' = [total EXCEPT ![t] = @ + 1]
               /\ noted' = [noted EXCEPT ![t][a] = @ + 1]
Begin(w, t, a) ==
  /\ op' = [op EXCEPT ![w] = [t |-> t, a |-> a, p |-> 0, todo |-> {}, n |-> 0]]
  /\ Noted(t, a)

(* The dispatcher's note sites, on whichever thread runs guest code.       *)
Site(w) == (w = "main" /\ MainRuns) \/ (w \in Jobs /\ JobRuns(w))

NoteHit(w, a) ==
  /\ Site(w) /\ env.on /\ Begin(w, "hit", a)
  /\ UNCHANGED <<env, addr, cnt, calls, dump, printed>>

NoteDispatchMiss(w, a) ==
  /\ Site(w) /\ env.on /\ Begin(w, "miss", a)
  /\ UNCHANGED <<env, addr, cnt, calls, dump, printed>>

(* With the profiler off the notes of the dispatcher return at once.       *)
NoteOff == ~env.on /\ UNCHANGED vars

(* The range check sees the address without its top three bits.            *)
Phys(page) == page % 8192
NoteAddressMiss(w, a) ==
  /\ Site(w) /\ env.on
  /\ IF Phys(a) < 32769 \/ Phys(a) >= 32800
     THEN Noted("amiss", a) /\ UNCHANGED op
     ELSE Begin(w, "amiss", a)
  /\ UNCHANGED <<env, addr, cnt, calls, dump, printed>>

(* Broken on purpose: a sample of any thread is noted.                     *)
OnAnyThread(w) == TRUE
OnMain(w) == w = "sig"

SigProf(w, a) ==
  /\ env.hz \in 1..1000 /\ Free(w)
  /\ IF OnMain(w) THEN Begin(w, "pc", a) ELSE UNCHANGED <<op, noted, total>>
  /\ UNCHANGED <<env, addr, cnt, calls, dump, printed>>

Runs(w) == op[w] # Idle /\ (w = "main" => Free("sig"))
Here(w) == Slot(op[w].a, op[w].p)

FreeHere(w) == addr[op[w].t][Here(w)] = 0

(* Broken on purpose: one probe too many.                                  *)
NextProbeLate(o) == IF o.p + 1 <= Probes THEN [o EXCEPT !.p = @ + 1] ELSE Idle
NextProbe(o) == IF o.p + 1 < Probes THEN [o EXCEPT !.p = @ + 1] ELSE Idle

(* What a probe finds is the address, a free slot or another address.      *)
Probe(w) ==
  /\ Runs(w) /\ op[w].todo = {}
  /\ LET t == op[w].t IN
     \/ /\ addr[t][Here(w)] = op[w].a
        /\ op' = [op EXCEPT ![w].todo = {"cnt"}, ![w].n = cnt[t][Here(w)] + 1]
     \/ /\ addr[t][Here(w)] # op[w].a /\ FreeHere(w)
        /\ op' = [op EXCEPT ![w].todo = {"addr", "cnt"}, ![w].n = 1]
     \/ /\ addr[t][Here(w)] # op[w].a /\ ~FreeHere(w)
        /\ op' = [op EXCEPT ![w] = NextProbe(@)]
  /\ UNCHANGED <<env, addr, cnt, calls, dump, printed, noted, total>>

(* An insertion goes on with its other store, or is done.                  *)
Stored(o, x) == IF o.todo = {x} THEN Idle ELSE [o EXCEPT !.todo = @ \ {x}]

(* The count was read when the slot was: no increment here is atomic.      *)
Claim(w) ==
  /\ Runs(w)
  /\ \E x \in op[w].todo :
       /\ op' = [op EXCEPT ![w] = Stored(@, x)]
       /\ \/ x = "addr" /\ addr' = [addr EXCEPT ![op[w].t][Here(w)] = op[w].a]
             /\ UNCHANGED cnt
          \/ x = "cnt" /\ cnt' = [cnt EXCEPT ![op[w].t][Here(w)] = op[w].n]
             /\ UNCHANGED addr
  /\ UNCHANGED <<env, calls, dump, printed, noted, total>>

-----------------------------------------------------------------------------
(* A dump goes through its tables.  For each it picks the heaviest slots,  *)
(* one pass over the counts per row, and prints them when it has them all. *)
Listed(d) == <<"hit", "miss", "amiss">> \o
               (IF d = "sampler" /\ env.hz # 0 THEN <<"pc">> ELSE << >>)

List(d, k) ==
  IF k > Len(Listed(d)) THEN Idle
  ELSE [t |-> Listed(d)[k], k |-> k, i |-> 0, best |-> 0, pick |-> -1,
        picked |-> << >>, low |-> Max(Range(cnt[Listed(d)[k]]))]

NoteEntry ==
  /\ MainRuns /\ env.on /\ calls < MaxCalls
  /\ calls' = calls + 1
  /\ dump' = IF calls' = 1 \/ calls' % Cadence = 0
             THEN [dump EXCEPT !["main"] = List("main", 1)] ELSE dump
  /\ UNCHANGED <<env, addr, cnt, op, printed, noted, total>>

(* The sampler exists only with the profiler on.                           *)
Tick ==
  /\ env.on /\ dump["sampler"] = Idle
  /\ dump' = [dump EXCEPT !["sampler"] = List("sampler", 1)]
  /\ UNCHANGED <<env, addr, cnt, op, calls, printed, noted, total>>

Dumps(d) == dump[d] # Idle /\ (d = "main" => Free("sig"))

(* Broken on purpose: a slot is picked again.                              *)
HeavierAgain(l) == cnt[l.t][l.i] > l.best
Heavier(l) == ~Contains(l.picked, l.i) /\ cnt[l.t][l.i] > l.best

Look(d) ==
  LET l == dump[d] IN
  /\ Dumps(d) /\ l.i < Slots
  /\ dump' = [dump EXCEPT ![d].i = @ + 1,
                          ![d].best = IF Heavier(l) THEN cnt[l.t][l.i] ELSE @,
                          ![d].pick = IF Heavier(l) THEN l.i ELSE @]
  /\ UNCHANGED <<env, addr, cnt, op, calls, printed, noted, total>>

Picked(l) == IF l.pick = -1 THEN l.picked ELSE Append(l.picked, l.pick)
Complete(l) == l.pick = -1 \/ Len(Picked(l)) = Heaviest

NextPass(d) ==
  LET l == dump[d] IN
  /\ Dumps(d) /\ l.i = Slots /\ ~Complete(l)
  /\ dump' = [dump EXCEPT ![d] = [@ EXCEPT !.i = 0, !.best = 0, !.pick = -1,
                                           !.picked = Picked(l)]]
  /\ UNCHANGED <<env, addr, cnt, op, calls, printed, noted, total>>

Show(d) ==
  LET l == dump[d] IN
  /\ Dumps(d) /\ l.i = Slots /\ Complete(l)
  /\ printed' = [printed EXCEPT ![d] =
       [t |-> l.t, low |-> l.low,
        rows |-> [r \in DOMAIN Picked(l) |->
                    [a |-> addr[l.t][Picked(l)[r]], n |-> cnt[l.t][Picked(l)[r]]]]]]
  /\ dump' = [dump EXCEPT ![d] = List(d, l.k + 1)]
  /\ UNCHANGED <<env, addr, cnt, op, calls, noted, total>>

Next ==
  \/ \E w \in Writers, a \in Pages :
       NoteHit(w, a) \/ NoteDispatchMiss(w, a) \/ NoteAddressMiss(w, a)
  \/ \E w \in {"sig", "sdl"}, a \in Pages : SigProf(w, a)
  \/ \E w \in Writers : Probe(w) \/ Claim(w)
  \/ NoteOff \/ NoteEntry \/ Tick
  \/ \E d \in Dumpers : Look(d) \/ NextPass(d) \/ Show(d)

Spec == Init /\ [][Next]_vars

-----------------------------------------------------------------------------
TypeOK ==
  /\ env \in Envs /\ calls \in 0..MaxCalls
  /\ addr \in [Tables -> [Cells -> Pages \cup {0}]]
  /\ cnt \in [Tables -> [Cells -> 0..MaxNotes]]
  /\ \A w \in Writers : op[w] = Idle \/ /\ op[w].t \in Tables /\ op[w].a \in Pages
                                        /\ op[w].p \in 0..Probes - 1
                                        /\ op[w].todo \subseteq {"addr", "cnt"}
                                        /\ "cnt" \in op[w].todo => op[w].n \in 1..MaxNotes
  /\ \A d \in Dumpers : dump[d] = Idle \/ /\ dump[d].t \in Tables
                                          /\ dump[d].i \in 0..Slots
                                          /\ dump[d].pick \in -1..Slots - 1

(* The tables of one writer: the handler drops the samples of other        *)
(* threads (gt2_batch_jobs.c:383), and without batches only the emulation  *)
(* thread passes the dispatcher.                                           *)
Alone(t) == t = "pc" \/ ~env.batch

ExactFor(t, a) ==
  (\A w \in Writers : op[w].t # t) =>
    \/ \E s \in Cells : /\ {c \in Cells : addr[t][c] = a} = {s}
                        /\ cnt[t][s] = noted[t][a]
    \/ /\ a \notin Range(addr[t])
       /\ noted[t][a] = 0 \/ \A p \in 0..Probes - 1 : addr[t][Slot(a, p)] # 0

(* In a table of one writer an address has one slot and all its notes, or  *)
(* came when each of its probes was taken, and stays out.  No table has a  *)
(* lock.  The workers of a batch may lose counts, and give an address two  *)
(* slots; but no table ever has an address that was not noted, nor a count *)
(* above its notes.                                                        *)
Exact ==
  /\ \A t \in Tables \ {"amiss"}, a \in Pages : Alone(t) => ExactFor(t, a)
  /\ \A t \in Tables, s \in Cells :
       /\ cnt[t][s] <= total[t]
       /\ addr[t][s] # 0 => noted[t][addr[t][s]] > 0

HeaviestFirst ==
  \A d \in Dumpers : printed[d].low > 0 /\ Alone(printed[d].t) =>
    printed[d].rows # << >> /\ printed[d].rows[1].n >= printed[d].low

RowsTrue ==
  \A d \in Dumpers : \A r, q \in DOMAIN printed[d].rows :
    LET t == printed[d].t row == printed[d].rows[r] IN
    /\ row.n \in 1..total[t] /\ (row.a # 0 => noted[t][row.a] > 0)
    /\ row.a # 0 /\ Alone(t) =>
         row.n <= noted[t][row.a] /\ (printed[d].rows[q].a = row.a => q = r)

(* A list of any table has none but noted addresses, and no count above    *)
(* the table's notes.  One of a table of one writer begins at least as     *)
(* heavy as the table was when the list was begun, however the counts      *)
(* moved under it ("reads race benignly", gt2_batch_jobs.c:246), shows no  *)
(* address twice, and pairs none with the count of another.                *)
ListsTrue == HeaviestFirst /\ RowsTrue

(* "address compiled nowhere, but inside overlay range (0x80010000-        *)
(* 0x801FFFFF phys-masked)" (gt2_batch_jobs.c:244-245) is what the second  *)
(* miss table counts.                                                      *)
OverlayMissCounted == \A a \in Pages \cap 32769..32799 : ExactFor("amiss", a)
=============================================================================
