# Formal models of gt2-recomp

The repository is a port of a console racing game in two layers.
`src/generated` is the game's machine code translated to C by a recompiler;
around it stands hand-written code of two kinds:

- **decomp** (`src/decomp`): C rewrites of parts of the game, each "mirroring" a
  range of the original's addresses, with its data passed in (windows of guest
  memory, a volume, callees as function pointers) and tested on its own;
- **mods** (`src/src/mods`): code that hooks the recompiled game at run time
  through a framework that is not in the tree. `gt2_batch_jobs.c` is the large
  one: it runs parts of a frame on worker threads, and profiles the game.

The models here are of that hand-written code. TLC checks them on small
instances; TLAPS proves, for every value of the constants, all but two of the
invariants these runs check, and each of the six refinements.

## 1. Inventory

| component | state it keeps | operations | talks to |
|---|---|---|---|
| memory card image, `mcd/mcd.c` | 15 directory frames, 15 blocks, checksums | format, write, read, delete, used_blocks | the save screens; `save/crc32.c` |
| batch dispatch, `gt2_batch_jobs.c` 526-1060 | packet arenas, job table, overflow statistics; in the guest: packet stream, bump pointer, mail word, mailbox, registers | parent_try (gate, collect, launch, join, merge), job_fn, trampoline, dry-run / no-apply / verify modes | worker pool, recompiled batches, interrupt line |
| profiler, same file 201-470 | four hash tables, call and dump counters | note_static_hit, note_dispatch_miss, note_address_miss, SIGPROF handler, two dumpers | recompiled dispatch on the emulation thread and on batch workers, signals, a sampler thread |
| card status driver, `card/card.c` | a state block (+0xF0), a text, a glyph table in guest windows | run: counters, 8 lanes over the event bits | eight injected callees |
| menu dispatcher, `dispatch/dispatch.c` | mode byte, sub-objects, marks in the task window | run, four arms, two waits, tail, hand-over | polled objects |
| boot chain, `task/task.c` | boot state of 17 parts, the sys.ins window, the b2 transfer | create, destroy, boot_run, queue_b2, complete_b2 | volume, asset |
| packet emitters, `render/render.c` | arena, bump pointer, list head | emit_a, emit_b | menu |
| menu records, `menu/menu.c` | counter, blend bytes, list block | record_init, counter_bump, emit_tick | render, an injected callee |
| volume, `vol/vol.c` | file table, flat names, slot tree over a disc or a blob | open, stat/find/list, read, span, pack | disc, asset, car |
| asset loading, `asset/asset.c` | none: index cache, CRS records and windows are the caller's | window, q2_cache_build, crsinfo_parse, crsmap_build | volume |
| car database, `car/car.c` | a sorted table | index_build, find, wheel, engine, logo | volume |
| boot handle, `boot/boot.c` | disc, volume and container handles | open, close, load_overlay | disc, volume, overlay container |
| overlay container, `ovl/ovl.c` | the checked header | open, read_member, close | disc, zlib |
| images and texts, `tim/tim.c` | none | gunzip_join, count, info, decode, encode, logo_find_tim, txd_count, txd_get | zlib |
| disc and ISO, voices, checksum, host counters | none beyond handles | stateless readers, see section 8 | the host |
| widescreen, gate meter, no-cull, registration | printed counters | one poke, two call-outs | the framework |

What is hard here:

- **Threads and signals.** Workers fill adjacent arenas and are checked only
  afterwards; an interrupt can become due while they run; a signal handler and
  a sampler share tables with the emulation thread without a lock.
- **Two scans that must agree.** `gt2_mcd_write` picks blocks and frames by
  independent scans, with an off-by-one between them; `gt2_vol_pack` sums
  sizes in one loop and copies in another.
- **State over many calls.** Cursor, length and bytes of a text are moved by
  different lanes over many frames; a boot state is run again after a failure;
  files are written into the holes that deletes left.
- **Waits without a bound.** The dispatcher polls foreign objects, and reads
  the mode byte again after it has waited.
- **Many error returns**, each with its own clean-up; an open of nine parts
  across three files, whose close functions free what a failed part has left.
- **Data that is trusted or checked.** Offsets and lengths of containers and
  images come from the disc, and their sums wrap.
- **Fixed widths.** 16-bit counters, u32 cursors and masked fades.

`PROJECT.json` lists these one by one, each at its line, with the properties
that watch it. What makes each component right:

- card image: files never share a block, no space leaks, a call touches one
  file only, walks end, and a name reads back as what was last written;
- batch dispatch: the guest cannot tell it from the serial parent; it returns;
- profiler: a table of one writer is exact without a lock, one of several makes
  nothing up, and lists are true though tables move;
- card driver: the cursor stays in the text, the lanes make up a text field;
- dispatcher: the answer that mode, flag, halves and count call for, with its
  effects and no other; calls come back;
- boot chain: the window is neither lost nor freed twice, the records are those
  of the window, the deposit lands last, and each record in front of the blocks
  has its slot;
- boot handle: what an open or a call has allocated is freed once, wherever it
  fails;
- overlay container, images: a member comes out whole or not at all, the images
  found are those that are there, and lie in their bytes;
- emitters and records: the list is what was drawn, closed off by its draw
  mode unless the arena was full; a record settles and fades one way;
- volume, asset, car: a repacked extent reads back as asked, by every way in,
  and the tables built by walking it name the right files.

## 2. Modules

```
 CardStore <= McdCard -> McdProps -> Mcd          McdProofs -> McdProps
 SceneSerial <= BatchProps -> BatchJobs           BatchProofs -> BatchProps
 ProfTables                                       ProfProofs -> ProfTables
 EditField <= CardDriver                          CardProofs -> CardDriver
 MenuAnswers <= MenuDispatch                      DispatchProofs -> MenuDispatch
 DrawList <= MenuTick -> RenderArena              MenuProofs -> MenuTick
 VolExtent <= VolPack <- VolImage                 PackProofs -> VolImage
 VolImage -> VolTables -> VolWalk
 BootSystem -> BootTask, Unpack, TimChain         SystemProofs -> BootSystem
 Unpack -> BootHandle
```
`A -> B`: A extends B. `A <= B`: the abstract specification A is implemented
by B, with the refinement mapping in B (or in the module named between them).
`MC*` modules give the constants their values for TLC.

**Mcd** (mcd.c). `dir` is the 15 frames as [state, size, next, name], `blk`
the blocks, `ret` the last status. `Format`, `Write`, `Delete` are the calls,
whole, and `Read` is an operator, as it changes nothing. As in the code, frames
are numbered from 0 and blocks from 1, `next` holds a frame, and a write picks
"the k-th unused block" and "the k-th free frame" by two scans. A chain walk is
the least set closed under `next`. *Left out:* checksums, the header, the
broken-sector list, and images that these functions did not write.
`Spec` lets callers delete any entry in use, as the code does; in `FileSpec`
they delete a file by its first entry. **CardStore** is a map from names to
bodies with bounded room: what a game expects of a card. Its answer to a call is a
function of the call's own arguments and the files; `CardSpec` asks that of each
write and delete (`AnswersDue`), and not only that some call explains the step.

**BatchJobs** (gt2_batch_jobs.c). `pc` is the main thread in parent_try: gate,
run (workers busy), join (merge in order, or fall back), verify, serial. `mem`
is the block of all arenas, one cell per packet, so that an overrun of one
arena lands in the next; `job` what each job has reported. Every store of a
worker is a step of its own, and moves the mail word, which all jobs share: one
behind a cell of the arenas is negative, a place in the stream is not. An interrupt may become due at any time; clones
and buffers may not be had. Guest code is its behaviour: how many packets, how
many cycles, and whether it leaves through the dispatchers the shim covers.
**SceneSerial** is the parent as the game wrote it; **BatchProps** maps to it.
The clock counts what batches bill: the constant charge of some 236 cycles for
collecting them, which the header of the file (21-23) calls cosmetic, is not
counted.

**ProfTables** (same file). Tables are [slot -> address], [slot -> count];
claiming a slot is two stores in either order, an increment is a read and a
store, and other threads and signals may fall between any two. `op` is the
insertion a writer is in: the emulation thread, the handler on that thread or
another, or one of the `Jobs`, the workers of a batch, whose trampoline goes
through the dispatcher with the patched note sites (665;
`tools/patch_overlay_prof.py:40-52, 72-79`). A job notes only while the emulation
thread waits in `psx_batch_run`. `Alone(t)` names the tables of one writer: the pc
table always, the others while batches are off. `dump` is the list a dumper
is making, `printed` what it showed. `noted` and `total` are history variables:
what was really noted. Addresses are their 64 KiB pages, all that the range checks
can see. `note_entry` is taken as called by the emulation thread only: its site
is the entry of funcB, which a race enters once per call of the parent and not
once per batch (`WORKLOG.md:243`: 3583 and 3584). The near and far counters of
funcB, and the full listing that every sixth dump adds, are left out.

**CardDriver** (card.c). One action per way through `gt2_card_run`; the fields
of the state block are variables. The injected callees are modelled by how the
driver uses them. **EditField** is a text field with a cursor; its `Spoil`
step is what a refused insert does when the glyph table is too short (section
7).

**MenuDispatch** (dispatch.c). `pc` walks guard, arm, first wait, second wait,
branch, tail or hand-over; while it waits the polled objects run (`Others`,
`Spin`, `Pass`). Arms are the four the table knows, or unknown. The polled
objects write their own block only. **MenuAnswers** is the contract: the result,
the status, and what is stored, as a function of the mode byte, the flag that was
polled last, the halves, the count and the window.

**BootTask** (task.c). One action per part of `gt2_task_boot_run`, in its order,
each of those that read the volume with its failure. `stamp[p]` is the number
of the run that last wrote part p: a value of an earlier run shows as an old
stamp. `window` and `live` follow the one allocation. `slots` are the places of
the task area that read as `slot_init` leaves them: nothing clears those of an
earlier, larger run, and of the slots under the blocks fifteen lie just where a
block has one of its own.

**BootHandle** (boot.c, and what it opens in cd.c, vol.c and ovl.c). One action
per part of `gt2_boot_open` in its order, with its failure. `held` counts each
object of the heap, so that a leak stays at 1 and a second free falls to -1;
`ptr` is what the close functions can see: the pointers set in the structs at
the moment of the failure. The container's header is checked in sums that wrap
at `Word`.

**Unpack** (ovl.c, tim.c): the two inflate loops, step by step: the packed
bytes, the buffer, inflate's own memory, each turn of inflate with the room it
has, the growing buffer, the next member of a chain, and each failing return.
Both loops have the same turn, and differ in what follows it; `call` says which
is running. What inflate gives is external: it fills the room, ends the member
or finds the stream broken.

**TimChain** (tim.c): operators over the unpacked bytes: the extent of an image
with all its refusals, count, info, the bounds of decode, the head that encode
writes, the logo search, the strings of a text.

**BootSystem** composes them with the boot chain: a caller opens the handle, unpacks
through it, runs boot states over its volume, closes it and opens it again. All
are calls of one host thread and share no memory but the handle, so the model takes one order:
unpacking happens while there is no boot state.

**RenderArena, MenuTick** (render.c, menu.c). The arena is a map from word
offsets to what they hold; `Emit` is one emitter call and its caller's fill.
An emitter refuses when the 8 bytes of a header do not fit; the 20 bytes of an A
packet are not counted, so that its fill may overhang the arena. `full` says
that a packet of the frame was refused. The tick fills whatever the callback
between it and the emitter returns; the callback is not in the source, and is
taken to hand out a packet of its own, in no list, when it was refused.
`MenuTick` has init, bump and tick as actions, with the fade arithmetic in
full, the scale sign-extended and the light masked as a packet carries it. **DrawList** is the list a frame draws, newest first.

**VolPack** (vol.c, repack). One action per phase of `gt2_vol_pack`
and one per file in its loops, each with its failures. A byte is known by where
it came from. Sums wrap at `W`. **VolExtent** is the promise to the caller: no
extent, or `extent`, with its front, its table and its files; an extent of `W`
bytes or more is promised nothing, since no check refuses it.
**VolWalk** holds the readers as operators: path walk, listings, span and flat
directory (vol.c), index cache (asset.c), car table and search (car.c).
**VolTables** adds the tables made by walking a directory: course map (asset.c),
wheels, engines and logos (car.c). **VolImage** composes them: the repacked
blob is opened and read through them, by path, by flat name and by sector
windows, and compared with the source's directory tree.

## 3. Runs

| run | what is asked | instance |
|---|---|---|
| mcd_files | files stay whole and apart, no space leaks, the image implements CardStore | 4 frames, 2 names, bodies of 0..5 blocks, those of 1 and 2 in 2 versions |
| mcd_midblock | *violation*: a delete in the middle of a file breaks a later write | as above, 1 version |
| batch_serial | a call is the serial call, and comes back | 2 workers, 3 batches, each of 0..3 packets in arenas of 2 |
| batch_modes | bump pointer and mail word are the stream's end between calls, whichever job moved the word last | 2 workers, 2 batches, 2 calls, 8 settings |
| batch_dryrun | *violation*: the dry run stores before it falls back | as above, 1 call |
| prof_runs | tables of one writer exact, no table makes anything up, lists true | 3 addresses, tables of 2, 2 workers, 3 notes, 1 call, 4 settings |
| prof_amiss | *violation*: no overlay miss is counted | as above |
| card_entry | the driver is a text field | 2 glyphs, 2 rows of 4, texts to 3, 4 window and table shapes |
| dispatch_runs | the answer and the effects its inputs call for; calls come back | 7 modes, 4 flags, 3 halves, 3 counts |
| boot_runs | the handle and its calls lose nothing, members and images come out whole, over failing runs the deposit is last and records and slots are kept | 2 runs, 7 volumes, 6 containers, 14 archives, texts to 6 bytes |
| menu_runs | lists, a full arena, fades, settling | counters in -16..15, 1 restart, arena of 84 bytes |
| vol_pack | what is packed reads back, by each way in | 13 volumes, 29 lists of replacements, 79 paths |

Deadlock is checked in all but `batch_modes`. There a verify pass may crash
the shadow run, after which the game is gone: the system really stops.

Why the bounds are enough:

- *Card*: with four frames there are files of one to four blocks, a hole of two
  between files, files written across holes, and a full card; bodies of none
  and of one block too many meet the refusals. The proofs lift the size.
- *Batches*: arenas of two and batches of three give one overrun by one and
  room for it to hit the neighbour; three batches of up to two meet the room of
  five packets exactly, and miss it by one; a cycle cap of 3 is met and passed; 2 is the least number of
  batches worth a launch (the gate is passed and failed); two workers give every
  interleaving of two arenas. Two calls let one call's leftovers meet the next.
- *Profiler*: three addresses for two slots give a full table, a collision and
  a probe chain that wraps; the sampler and the emulation thread dump at once.
  Two workers and three notes let an address take two slots and an increment
  get lost. The batch setting has no SIGPROF in it; the proofs have every setting.
- *Card driver*: a text of three fills, with a window of exactly that and one of
  one more; the counters run through (2, 2 and 3 frames for 12, 61 and 41).
- *Dispatcher*: each arm, an unknown entry, modes 0 and 11 outside the table,
  a window too short by one byte for the last mark.
- *Boot*: the disc's volume, a file inside one sector, none, too many and
  more-than-fit CRS records, a table that goes back. Two runs suffice for one to
  leave something to the other.
- *Handle and chains*: containers of two members (instead of six) with sound,
  broken, empty and growing ones, one whose sums wrap, one whose members
  overlap, one whose table lies outside; sums wrap at 2^30, as TLC's integers
  have 32 bits. Chains are of none to four members with a limit of three, so
  that the limit is met and passed; members fill the buffer exactly, miss it by
  one and double it twice; images are of each mode, cut, without colours, with
  an odd length of colours, and of no known mode. The capacities are the code's.
- *Menu*: counters of 5 bits pass 12 and -12, the fades' ends, and wrap. Scales
  are below, at and above 0x80, and negative. The list block's half is the
  0x3333 of `test_menu.c`, whose bits 0x60 meet those of the record. The
  arena of 84 bytes holds a tick of some records whole, and runs out within a
  tick of others, at a header and at a fill.
- *Volume*: one cell per entry instead of four bytes; `W = 64` and a file limit
  of 16, a quarter of it as 2^30 is of 2^32. Lists of one and two replacements
  stay far below the wrap; three of up to 16 reach a total of 63, of 64 and of 70
  with the table in front of them. A stamp is looked at from 7 entries
  instead of 32, so that volumes on both sides occur. Volumes have empty files,
  a cut image, a corrupt table and too few files; listings end in a file and in
  a directory, name a file twice, hold three cars of four files, and four,
  which is one too many for the table.

`MaxCalls`, `MaxNotes`, `MaxRuns` and `MaxSets` bound how often something starts;
no other counter is capped.

## 4. Fairness

Only three specifications assume any.

- `BatchJobs`: weak fairness of the main thread and of each worker. They are
  host threads, which the operating system schedules; a job ends as it is cut
  off by its cycle cap.
- `MenuDispatch`: weak fairness of `Step`, straight-line code, and strong
  fairness of `Pass`: a polled object answers 0 or 1 in the end. The loops have
  no bound, and `RunsReturn` says exactly that this is all a call's return
  hangs on.
- `MenuTick`: weak fairness of the bump, which the menu program calls about
  once a frame (`menu.h:12`).

## 5. Proofs

Eight modules hold the theorems, one for each component or two. `Spec => []Inv` is
always shown the same way: an inductive invariant, one lemma per action that
keeps it, and what follows from it. No theorem has a premise but the named
assumptions on constants, unless it is given below.

| module | theorem | statement |
|---|---|---|
| McdProofs | TypeCorrect, WalksEnd | `Spec` => `TypeOK`, `ChainsClimb` |
| | BlocksPaired, FilesDisjoint, FilesComplete | `FileSpec` => `FrameIsBlock`, `ChainsDisjoint`, `FilesWhole` |
| | FilesKept | `FileSpec => OthersKept` (action property) |
| | CardKeepsFiles | `FileSpec => CardSpec` (refinement) |
| BatchProofs | BatchTypeCorrect, ArenasKept, StreamEndsAgree | `Spec` => `TypeOK`, `ArenasPrivate`, `MailIsEnd` |
| | CallsLookSerial | `Plain => (Spec => SerialSpec)` (refinement) |
| ProfProofs | ProfTypes, TablesExact, ListsAreTrue | `Spec` => `TypeOK`, `Exact`, `ListsTrue` |
| CardProofs | CardTypeCorrect, CursorKept | `Spec` => `TypeOK`, `CursorInText` |
| | FieldKept | `Spec => FieldSpec` (refinement) |
| DispatchProofs | DispatchTypeCorrect, ArmKeeps | `Spec` => `TypeOK`, `ArmHoldsMode` |
| | AnswersOnce | `Spec => AnswersSpec` (refinement) |
| MenuProofs | MenuTypes, OverhangBounded | `Spec` => `TypeOK`, `Overhang` |
| | ListIsDrawn | `Spec => TickListSpec` (refinement) |
| | FadesAreOneWay | `Spec => FadesOneWay`, if `H6 >= 0` (action property) |
| PackProofs | PackTypeCorrect, OwnedReturns | `Spec` => `TypeOK`, `Owned` |
| | InBlobKept, PathsKept, TablesKept | `Spec` => `InBlob`, `PathsRead`, `TablesName` |
| | PackDelivers | `Spec => ExtentSpec` (refinement) |
| SystemProofs | BootTypeCorrect, WindowKept, DepositLands, SlotsCut | a boot state's `Spec` => `TypeOK`, `WindowOwned`, `PartsInOrder`, `SlotsWhole` |
| | SystemBoots, SystemBootsKept | `SystemSpec => Spec`, and the four above of the whole |
| | HandlesKept, MembersKeptApart, MembersComeWhole, ContentsKept | `SystemSpec` => `HandlesOwned`, `MembersApart`, `MembersWhole`, `ContentsFound` |

### The card image

For every number of entries below 65535, all names, all bodies. The assumptions
are those `Mcd` names: the entries fit a u16 (0xFFFF is the end mark), the empty
name is no file's, bodies are finite sequences.

`ChainsClimb` is inductive with the type invariant: a write links
each new frame to the next one its ascending scan finds, whoever deleted what.
The disjointness of files is not inductive: nothing in it says that a free
frame is on no chain. The strengthening `LinkInv` speaks of single links
instead of whole chains: an entry in use links to one in use that is not the
start of a file, and no two entries in use link to the same one. It is
preserved because, under it, `Unused = {f + 1 : f \in Unset}` (`LinkPairs`), so
that the two scans of a write move in step and the k-th block found belongs to
the k-th frame found (`PairedPlaces`). From `LinkInv` the chain of a file is
sealed: what is on it was reached from its start only (`ChainSealed`), which
gives `ChainsDisjoint`; and what a write or a delete touches is on no other
file's chain (`ChainKept`), which gives `OthersKept`. In `Spec` a delete in the
middle of a file breaks `LinkInv`; that is the run `mcd_midblock`.

`FilesWhole` counts: the blocks that `Read` gathers are as many as the size of
the start entry says. `ThreadInv` lays each file out as a thread, a row of frames
of that length which `next` goes along; a write makes one, and the threads of
other files are the same afterwards. `Read` walks a recursive function, which is
shown to take one frame of the thread at each of its steps. For the refinement,
`NameInv` says that a name has one start entry, so that the card's map is
one; and the room of `CardStore`, a count over names and places in their bodies,
is the number of frames in use, by a one-to-one map between the two.

### The batches

For any number of workers, batches, packets and calls, and all debug modes.
Arenas are not protected, so what is inductive about them is conditional:
unless some job has written behind its arena, each arena holds what its job wrote
so far (`Holding`), by the arithmetic of their bases (`CellsApart`); and a job that
has done so (`Spilt`) still runs, or says so. The main thread joins when none runs.

`CallInv` says of the guest what holds in between: the jobs stand in the order of
their batches, the bump pointer is the end of the stream, and a shadow call has
kept what it will put back. The mail word is the end of the stream too, or a job
has moved it: then a job of this call has packets, so that the serial body, if it
is needed, has some to append and puts the word right; or the mode is no-apply. In a join the packets of all arenas
and the billed cycles are put together by folds over the batches. With the lemmas
on these (what a fold gives for one batch more, and that it depends on its
values only) each step is a step of `SceneSerial` or a stutter. `Plain`, the
premise, is that no debug mode is on: a dry run is refuted (finding 2), and a
verify pass may crash.

### The profiler

For any addresses, any hash, any length of table and probe, and any number of
workers and notes. Nothing is assumed of the order of the two stores of a claim.

A table of one writer (`Alone`) is written by the handler where it interrupts the
emulation thread (the pc table), or by that thread itself. `Row` says of it that an
address lies where its first free probe has put it (`Chained`), so that it has one
slot, and that each slot holds all notes of its address, but for the insertion
under way, whose note is not counted yet (`UnderWay`). Slots are never freed: a
probe that was passed stays taken, which is why an insertion that stops at a free
slot has not missed its address (`NotBehind`). `Clear` says that a slot without an
address has no count but one just stored there.

Of a table with any number of writers none of this holds: two workers claim the same
slot, or each a slot of its own for one address, or both store the same count.
What holds is `Share`: the count of a slot and the notes still under way
(`Pend`) are together no more than the notes of the table, and so is a count that
was read and is still to be stored, its own note taken once. That bounds every slot
by the notes, whatever gets lost. The address-miss table stays empty (`Quiet`): its
range check drops its notes (finding 3).

A list is made while its table changes. `Pending` holds of any list: slots
picked once, each with a count above zero, since no count falls back to zero.
`Leading` holds of a table of one writer because there counts only grow: the
slot that was heaviest when the list was begun is either ahead of the first pass
or outweighed by what that pass has seen. What is printed then meets `Sheet`,
and of one writer `Faithful`. Pages and workers are taken to be finitely many.

### The card driver

For every geometry of the grid, every glyph table and every window. A text ends
at its first zero byte, so a lane that
moves bytes moves its end: lemmas on each kind of edit say where the end is
afterwards, and the invariant needs no more than that the cursor was moved along
with it. The refinement compares the two texts letter by letter. Assumed are
periods above zero, and a popup that is full behind its opening frames
(`CountersAssumption`).

### The dispatcher

For every table of arms, window and set of values. `ArmHoldsMode` is inductive
with the types: it lets the contract read off the mode byte which arm runs.
`Routed` adds that behind the branch the flag is none of those that end the arm,
which is when 9 is due. `StampsCut` finds the first stamp outside the window. That a
polled object writes no more than its own block is built into the model.

### The menu records

For every arena, list block, record and order of calls. `MenuInv` says of an
arena that what is written lies below its top, that only the newest fill may reach
over its end, and that there is a set of packets which holds the head and is
closed under links, each of which leads down (`Linked`): so the walk from the
head ends, at any arena. The emitter calls of a tick are a fold, unfolded
call by call with `StepByStep`. The refinement compares what is read off the arena
with what was drawn. The fades are compared along the counter, with the
divisions, the signed scale and, while opening, the byte mask of the code. The
opening half has a premise inside the property, `FitsByte`: blend base times scale
is in 0..2^15-1, which holds for the 0x80 that `record_init` writes and leaves every
part of the light in its byte. Without it the masked light falls (the run has
scales of 200, 40000 and 65535, and drops of that kind in its states). The
closing light goes to the injected callee unmasked and is compared so. The premise
`H6 >= 0` is that the height in the list block is not below zero, without which
closing makes it grow. `128` is among the values a record's scale may have (`X12s`) by assumption, as
`record_init` writes it: the proof of the types asked for it.

### The repack

For all volumes and lists of replacements.

- `OwnedReturns`: `Holds` says what the repack has allocated at each of its
  places, and each error return frees at least that.
- `InBlobKept`: what the second loop writes is the blob that the first has
  measured. `Layout` is the way both loops take: where each file finds the list,
  and the sum of the sizes up to it. The first loop extends it file by file, with
  `cursor` the sum; the second walks along it, with `dst` the sum, which is at no
  file beyond the last.
- `PackDelivers`: the blob is the extent asked for. `Made` adds to `Layout` that
  the table's words are the sums (`Lined`), and that each cell behind a word is the byte
  of the file it belongs to (`Copied`), which later copies leave alone. Stating it
  showed an error in the abstract specification, which no instance had met: where a
  later file of the source lies over the table (its entry goes back), its bytes are the
  words of the table.
- `PathsKept`: each way in reads what the source's tree means. `Repacked` is what
  `PackDelivers` leaves known of the blob: the cells in front of file 2 but for the
  table are the source's, and each file's are its own. So the slots read out of it are
  the tree's listings, one behind the other (`TreeKept`). `Bases` says where each
  listing begins, and `Agree` relates, component by component, the slot a path has
  reached to the entry it means: a scan from a listing's start sees that listing
  and stops at its end mark (`ScanList`), and a directory's slot leads to its start. The
  flat names are the same row of entries read without the listings
  (`RowOfEntries`); a window is whole sectors around a file whose place is
  arbitrary.
- `TablesKept`: each table built by walking the repacked volume is what the tree
  names. `Lists` is what is known of a listing: the directory's entries in their
  order, flagged at the last, a file's number in each slot of a file. On it rest
  the walks, each shown to stop where the directory ends: in fours (`HeadsOfCars`, by a
  bijection of the groups with 1..n), in nines up to the first without a digit
  (`EnginesEnd`), up to the first directory (`UpToIs`), in pairs. The halving search is the
  one function that satisfies its text: `SeekExists` gives one, `FoundStep` says that
  halving keeps what there is to find while the hashes rise (`Rising`), and `SearchRight` goes
  by what is left to halve. It is needed again for the logos: a mark changes a
  car's `z` and no hash, so the search stays right between the marks, and
  `Marked` says after each pair that every `z` is the file of the last logo of its
  hash so far (`ZIs`); file numbers are never 0, so the default goes just to the cars
  without one.

Nothing in the code keeps the sum of the sizes below 2^32: four replacements of
2^30 bytes are let through (vol.c:478) and wrap it (507). The theorems say for
which requests that matters, of the request alone: `Extent!Fits` adds up the
files as the contract places them, `SumsAgree` shows that the loops add up the
same (the sorted list meets each replaced file and no other, `SplitAt`), and
`NoneWraps` that then no addition wraps, of files not yet reached neither,
since no size counts as negative (`StartsRise`). If it fits, the blob is just what is
written; if not, it is shorter (`BlobMeasured`), and `ExtentSpec`, `PathsRead`
and `TablesName` promise nothing. They rest on
`CarrierAssumption`, too: the table lies in front of file 2, as on the disc; the
code stamps it there without looking. `PathsKept` and `TablesKept` rest on `TreeAssumption`: the
source is a volume of the format, whose slots lie between the table and file 2,
whose listings are not empty and whose entries name files with data, or
directories. A path that the source itself would not resolve because its slots are
broken is outside the theorems, and outside the runs. So is a directory that is not built as
a table's walk expects: cars out of order, say, or a directory in the middle of the
engines; `TablesName` says what a table holds where the directory is of its kind
(`HoldsCars`, `OnlyFiles`), and the premise is about the source's tree alone.

### The boot

Of a boot state alone, for all volumes and any number of runs: `BootInv`
says at each place of the chain what has been done so far: records counted past the
parser (without it the slots' range is not kept), the window null up to its
load and this run's after it, the parts passed stamped by this run, the record's
slots laid out and those in front of the blocks kept, no part older than the
deposit, the records read from the window unless the parser has just failed.

Of the whole, for all containers, archives, volumes and limits. `Kept` says what
is held, and which pointers are set, as functions of the place in the open and of
the step of the call: each failing return frees that set, once. `Taken` says that
the header of an open container was
accepted. The header's check lets a member through whose offset plus length
wraps; but such a member ends behind 2^32, hence behind the end of the disc, and
reading it fails. As a run of the whole is a run of its boot states
(`SystemBoots`), what is shown of them holds there too.

`MembersComeWhole` needs to know where inflate is: `Unpacked` says at each step of a
call that the members made so far are the first of those asked for, that the
place in the buffer is the sum of their lengths (`PlaceOf`), that what is out of the
member under way fits behind it, and that the room inflate was given is what the
buffer has left. A turn that fills the room grows the buffer and loses nothing; the
limit of a chain is met after its last member; and a call that fails with nothing
refused by the allocator has met a broken member, an empty chain or the limit.

`ContentsKept` is about what is read out of the joined data. `JoinedData` says that its
heads lie where the members begin, each behind the lengths of those in front of it;
`ImageFits` says exactly which of them are images to the parser, and what it answers.
A walk over the data, for images or for strings, is a `Scan`: it only goes forward and
stops at a place known beforehand. `ScanVisits` gives the places such a scan comes by,
and from them follow that the images lie one behind the other inside the data, that
where each member is one image each is found (`ImagesRight`, `EachRight`), and that
the strings of a text are its runs of bytes that are not 0 (`TextRight`); `LogoRight` is the cut logo found.
`Called` is the invariant that ties this to the state: a join that is under way, or
that ended well, was given one of the archives. It rests on `ContentsAssumption`: an
archive's `images` say, member by member, the one image head that its bytes begin
with, or none, and a text is a sequence of bytes.

### What is only model-checked

- The liveness properties `CallsReturn`, `RunsReturn` and `Settles` rest on fairness
  and ENABLED, which are beyond the prover.

Every invariant and every action property of a passing run is a theorem.

The theorems cite no induction rule: the library's take an operator as
parameter. Where a fold or a recursive function occurs, its existence and its
equations are lemmas (`SumsExist`, `StepByStep`, and their like in each module),
shown by a least counterexample over a well-founded order.

## 6. Findings with a run

1. `mcd_midblock`: `gt2_mcd_delete` takes any entry in use. Given a
   continuation entry it frees the tail of a file whose start lives on, and the
   next write puts its blocks elsewhere than its frames say.
2. `batch_dryrun`: the dry run "discards the rest" only after the merge was
   stored; the serial body then draws the same packets again.
3. `prof_amiss`: the range check of the address-miss table is never passed,
   since the address has had its top bits masked off; the table is always empty.

## 7. Disagreements met, without a run of their own

Places where code and words differ, seen while modelling. None is claimed to
matter to a player.

- *dispatch*: the tail reads the halves at T2+0x582 and +0x584 after a check of
  the window's length against 0xC000, below both (dispatch.c:144; a window of just that length has 132 bytes of the block, which the
  model does not tell from a longer one). The header
  lists 2 among the answers, which no arm gives. When the stamp of a hand-over
  is refused, the mode byte has already changed.
- *card*: an insert whose glyph lies outside the table is refused after the
  bytes have moved: the text keeps a doubled byte (card.c:127, `Spoil`).
- *volume*: the check after the stamp compares the last entry with what the
  copy just before it has written, so it cannot fail, and its comment
  (vol.c:545-546) promises otherwise. Four replacements of 2^30 bytes pass the
  check of each size (vol.c:478) and wrap the cursor (vol.c:507): the blob is
  then too small for what is copied into it. `InBlob` says that this begins just
  at sums of 2^32; the run reaches both sides. An asset window starts at the sector boundary before its
  file but has the length from the file's own start (asset.c:131), so a window's
  contents depend on where in a sector the file lies, which a repack changes. The
  flat directory keeps entries that are directories, whose child slot passes
  for a file.
- *asset, car*: a directory's pin is its second entry, whatever that is; the header
  says "first file". The engines' digit is checked against '9' only from above.
  An odd listing of logos is refused with some of the cars already annotated.
- *overlay container*: the comment at ovl.c:68 promises strictly increasing
  offsets; the check compares sums that may wrap.
- *images*: a chain of exactly 4096 members with anything behind it is refused,
  since the limit is looked at before the magic, where the header has the walk
  stop at the first slot without one. An allocation that fails reads as
  `TRUNCATED`, at the first member or when the buffer grows. An indexed image without colours
  decodes through a palette that was never written; decode may read bytes of
  the image that follows; an odd length of colours is not kept by encode.
- *boot*: up to 256 CRS records are taken, 128 slots fit in front of the blocks
  (task.c:370); the transfer drops a file's last partial sector (task.c:271);
  the branch at task.c:253 is not reached, and names another module's error; on
  a second run the heap bump reads the last deposit (task.c:259-262), slots beyond
  a smaller count stay as the run before has left them (task.c:134-141), and so do
  the deposit's bytes behind a shorter transfer.
- *render, menu*: `emit_a` asks for 8 bytes of room and uses 20 (render.c:56);
  an arena that fills within a tick leaves packets without their draw mode.
  What menu.c:67 calls a division by 3 divides by 12, as menu.h:20-21 says.
  A scale above 0x80 can push the light past its byte (menu.c:79) and one from
  0x8000 on turns it negative: it then jumps within a fade. The width of the
  closing cells (menu.c:144) grows when the record's h2 exceeds the list's h4.
- *batch*: the verify pass works on the live registers, against the header
  (line 12); "apply nothing" (845) leaves the mail word in the arena of the job
  that stored it last; after a half allocation of the verify buffers the gate at 783 is
  passed (776), and the next call's verify pass crashes; the a1 set at 878 is overwritten at 884; "mismatch restores the
  serial result" (29-31) is only logged (1039-1048).
- *profiler*: "diagnostic only", "reads race benignly" (246, 283-284) speak of
  readers. With batches and the log on, workers note hits and misses at the same
  time (665): counts get lost, and an address can take two slots and be listed
  twice. `s_dump_n` is bumped by two dumpers without order; with
  PSX_SPROF_HZ alone samples are gathered and nothing prints them.

## 8. Not modelled

- *disc, ISO, voices, checksum, host*: stateless readers, a bounded poll and
  single counters: I/O, or nothing a unit test would not reach. A caller sees
  them fail.
- *codecs*: the hash of a name, the wheel code and the weights (asset.c, car.c)
  are given functions; inflate is external; colours are not expanded to RGB. The
  linear `gt2_crs_find`, and listings cut at 12288 entries, are left out.
- *render*: unaligned arenas (partial words of lwl/swl).
- *card images from files*: the model starts from a formatted card.
- *mods*: gate meter, no-cull, registration, widescreen: printed counters and
  guarded pokes into a framework that is not in the tree.
- *generated code, runtime stubs, Python tools*: not the program's own logic. The
  generated file is 40039 of the tree's 46535 lines of C, so that most of the
  tree is the game's own machine code; of the hand-written lines
  about half are modelled.

## 9. Plan

The order was by weight: the card image first (it holds what a player cannot
get back), then batch dispatch (the only threads), profiler, card driver,
dispatcher, volume, boot chain, menu, and last the readers: boot handle, overlay
container, images, and the tables of asset and car. All of these have their modules now.
What is left:

1. *Card images from files*: opening an arbitrary image, to show which of the
   invariants the loader's checks establish.
2. *Emitters*: the partial-word stores for every alignment.
3. *Disc*: reads by sectors, and the scan of a directory extent.
4. *Proofs*: of liveness, with a prover that has fairness and ENABLED.
