# A verification project for jocasta-emu

TLA+ models of jocasta-emu's event scheduler, of the audio path of its GUI, of
what happens between the two CPUs of its NDS, of what its GBA runs next, and of
the ARM interpreter's cache of decoded blocks; with TLC configurations that
check them on small instances, and TLAPS proofs about each of them for every
value of the constants. Paths below are relative to `src/`; `lib/` stands for
`jocasta-lib/src/` and `gui/` for `jocasta-gui/src/`.

## 1. The system and its parts

jocasta-emu emulates some twenty machines. A *core* (GBA, NDS, PS1, SNES, ...)
is a single thread of deterministic computation: a frontend asks it for a
frame, and the core alternates between letting its CPUs run and firing the
events that its devices scheduled. Frontends are the GUI, a headless runner
and the tests. The only true concurrency of the default build is between the
GUI's main loop, which runs the core, and the audio device's callback thread.

| Component | State | Operations | Talks to |
|---|---|---|---|
| Event scheduler, `lib/helpers/scheduler.{h,cpp}` | sorted linked list of events, pool of freed nodes, id counter, cycle budget; `*still_sched` of its callers | `add_or_run_abs`, `only_add_abs`, `only_add_abs_w_tag`, `add_next`, `add_after_first_event`, `delete_if_exist`, `clear`, `run_for_cycles`, `run_til_tag` and their `_tg16` forms | every modern core: callbacks, `run.func`, the shared `*clock` |
| Callers of the scheduler (timers, DMA, PPU line and frame events, halted CPUs) | an `(id, still_sched)` pair each | arm, re-arm, cancel, reset | the scheduler, from inside its callbacks and `run.func` |
| Audio ring, `lib/helpers/audio_ring.h` | a ring of stereo pairs, two positions | `push`, `pop`, `drain`, `keep_latest`, `prepend_ramp` | the core (producer), the audio thread (consumer) |
| Audio streams, `gui/audiowrap.cpp` | `locked`, `fade_out_steps` per stream | `lock_all`, `begin_fadeout`, `prime_and_unlock`, `discard_all_but_latest_buffers`; `data_callback` | the ring, the main loop |
| GUI main loop, `gui/application.cpp` | `run_state`, `audio_needs_prime`, `key_was_down` | play, pause, media swap, a turn of frames, fast forward, step | the streams, the core |
| GBA run-mode arbitration, `lib/system/gba/gba_bus.cpp`, `gba_dma.cpp`, `gba.cpp`, `gba_serialize.cpp` | which step function `run.func` is; `halted`, `cached_mode`; DMA channels; `IE`, `IF`, `IME`, the line | `set_step_*`, `eval_bit_masks`, HALTCNT, DMA control, start, word and end, `eval_irqs`, option changes, stepping, reset, load | scheduler, CPU, PPU, timers |
| NDS inter-processor communication, `lib/system/nds/nds_ipc.*`, `nds_bus.cpp` | two 16-word FIFOs, control and sync registers | send, receive, IPCFIFOCNT, IPCSYNC | two CPUs, `IF` |
| NDS interrupt delivery and run loop, `nds_irq.cpp`, `nds_bus.cpp`, `lib/component/cpu/arm32/exec.h` | per CPU `IE`, `IF`, `IME`, `IRQ_line`, `CPSR.I`, `halted`, `sch_irq_sch`; whose turn it is (`arm7_ins`, `arm9_ins`) | register writes, `update_IF*`, `eval_irqs_*`, `IRQcheck`, `sch_check_irq`, `run_block`, reset, save, load | scheduler, devices, IPC |
| ARM block cache, `lib/helpers/block_cache_better.h`, `lib/component/cpu/arm32/cached.h` | a version per page; per CPU a pool of decoded blocks, a slot per address, a list of free blocks | look up, decode, commit, reuse, mark a store, clear | the cached interpreter, both buses, DMA |
| IRQ multiplexers, `lib/helpers/*irq_multiplexer*` | a level per source | set, clear, query | interrupt controllers |
| CPU interpreters, sound and video chips, drives, boards, save states, code generators, GUI windows | registers | instructions, register writes | everything above |

### What is hard in it

* **Protocol.** A device owns a pair `(id, still_sched)` which five functions
  and four run loops write. It arms, fires, cancels, re-arms itself inside its
  own callback, and is reset, in any order. `clear()` does not touch
  `still_sched`. Ids are never reused but stale ones are kept in hand.
* **Order.** The list is sorted by insertion; ties go in front of a single
  event and behind several; `add_next` and past times go in front of all. The
  run loops look at `first_event` only.
* **Accounting.** `run_for_cycles` charges time in two places, against a
  budget whose overshoot carries over to the next call; frame events run late
  and must not drift.
* **Threads.** The ring and two atomics per stream are all that orders the
  emulator thread and the audio thread. `pop()`, `drain()`, `keep_latest()` and
  the end of a fade all store `read_pos`; the fade counter is decremented by a
  load and a store.
* **Two CPUs on one thread.** `run_block` runs the ARM7, then the ARM9, for
  the same cycles. An interrupt raised in a CPU's own turn is left to an event
  after the block; one raised by the other CPU or a device is taken at once.
  Levels (a FIFO that is empty, a line) become edges in each handler by
  comparing before and after. A CPU that misses one halts for good.
* **One function pointer, many owners.** On the GBA, `run.func` says what runs
  next. DMA channels, the HALTCNT register, the halted step, a changed option,
  a debugger step, `reset()` and a load each overwrite it from their own point
  of view, and within a quantum of decoded blocks nobody looks at it.
* **A cache behind two writers.** A decoded block is valid as long as the
  versions of its pages are; every store of either CPU or its DMA has to bump
  them, and the code that does so is compiled or bound in only in some modes.
* **Liveness.** `run_til_tag` returns only when its event fires; a fade ends
  only if callbacks come.

What makes each modelled part correct: the scheduler implements an *agenda* of
pending events (section 5); the stream implements a *bounded queue* that opens
only when primed and closes when locked. For the others see the plan.
`PROJECT.json` lists the hazards at their lines and the properties that watch
them.

## 2. Modules

| Module | Models | Composes |
|---|---|---|
| `EventList` | the sorted list as operators on sequences: `PlaceOf`/`AddAbs`, `TieStop`, `DeleteIfExist` | - |
| `Scheduler` | `scheduler_t`, both families of run loops, and all that callers do to it | `EventList` |
| `Agenda` | abstract: a set of pending events | - |
| `EventListProofs`, `SchedulerProofs` | theorems | `Scheduler` |
| `AudioRing` | `audio_output_ring`, one operator per access to shared memory | - |
| `AudioStream` | one stream: main loop and audio callback, step by step | `AudioRing` |
| `AudioQueue` | abstract: a bounded queue that is open or closed | - |
| `AudioRingProofs`, `AudioStreamProofs` | theorems | `AudioRing`, `AudioStream` |
| `NdsIpc` | the link from the ARM9 to the ARM7: `IPC_FIFO`, IPCFIFOCNT, IPCFIFOSEND, IPCFIFORECV, IPCSYNC | - |
| `WordLink` | abstract: a bounded queue of words that can be flushed | - |
| `NdsIrq` | one CPU of the NDS, from `IE`/`IF`/`IME` to the interrupt taken | - |
| `NdsIpcProofs`, `NdsIrqProofs` | theorems | `NdsIpc`, `NdsIrq` |
| `BlockCache` | `block_cache_better` for one region of memory, the CPUs that execute from it and store to it | `CodeMemory` |
| `CodeMemory` | abstract: instructions in memory, without a cache | - |
| `GbaRunMode` | `run.func` of the GBA and everything that switches it | - |
| `BlockCacheProofs`, `GbaRunModeProofs` | theorems | `BlockCache`, `GbaRunMode` |
| `MCScheduler`, `MCAudioStream`, `MCNdsIpc`, `MCNdsIrq`, `MCBlockCache`, `MCGbaRunMode` | instances for TLC | |

### Scheduler and the code

`clock` is `*clock`; `events` is the list from `first_event` along `next`;
`heap` counts nodes (`pool` is `to_delete.num`, `live` counts those malloc'ed
and not freed); `flag[h]` and `heldId[h]` are the caller's `still_sched` and
id; `cyclesLeft` is `cycles_left_to_run`; `pc`, `call`, `running`, `loopStart`
are where the run loop stands and its locals. Event payloads (`bound_func`,
key, jitter) are left out: what a callback does is the nondeterministic choice
of `CoreStep`. `owed`, `dropped` and the field `late` record history; no guard
reads them.

`add_or_run_abs` with a time that has come runs the callback inside the call
and returns 0, which the caller then stores as its id. In the model these are
two actions with steps of the core in between: `RearmOrRunNow` clears the flag
and pushes the holder on the stack `inline`; `InlineReturn` pops it and stores
the 0, over whatever id the callback has left there. `SelfArming` is the set of
holders whose callback may arm their own pair in between: the timers of the GBA
and NDS (`gba_timers.cpp:48`, `nds_timers.cpp:50,74`). They lose the id of what
they armed there (run `scheduler_timer`), so `HolderCanCancel` and `Agenda`'s
"at most one event" are stated of all other holders, in their company. They
call nothing but `add_or_run_abs`, so what they link is yet to come.

An action is one operation of a caller (`RearmOnlyAbs`, `RearmOrRunNow`,
`InlineReturn`, `RearmNext`, `ArmAfterFirst`, `AddAnonymous`, `Cancel`, `ScheduleFrame`,
`AdjustMasterClock`, `RunCycles`, `Break`, `Resume`, `Reset`) or the part of a
run loop between two places where the core may act: `RunForCycles`/`RunTilTag`
enter, `LoopTop` is the outer loop's head, `FireDue` unlinks and calls
`first_event`, `EnterBlock`/`LeaveBlock` surround `run.func`, and
`ReturnToTag`/`ReturnToCycles` follow a callback. `Exact` selects the tg16
loops (`ExactTop`, `ReturnToExact`), whose clock jumps to each event.

What is assumed of the callers, each a guard of its own, all read off the code:

* a re-arm cancels first if the flag is up (`gba_timers.cpp:82-87`). The two
  places of the PS1 that do not (`ps1_digital_pad.cpp:86`,
  `ps1_sio.cpp:269`) are hazards and left to a module of their own;
* `MayAsk`: cores with tg16 loops ask for no time in the past
  (`tlcs900h.cpp:55-69`). Dropping it makes `ClockForward` fail;
* `CallbackDone`: the frame event's callback schedules the next frame before
  it returns (`gba_ppu.cpp:1125-1141`);
* in the tg16 family a `RunTilTag(tag)` is asked for with such an event
  pending, and `run_*` is never called on an empty list.

The debug and the plain instances of `run_til_tag` differ in where they look
at `dbg.do_break`; `EnterBlock` allows both. `clear()` frees nodes one at a
time and may empty the pool several times on the way: `Reset` picks that
number, and `heap`'s type forces it to be the right one.

### AudioStream and the code

A step is one load or store of shared memory in program order: `PushCheck`,
`PushLeft`, `PushRight`, `PushPublish` are `push()`; `PopRead`, `PopWrite`,
`CopyLeft`/`CopyRight`, `PopStore` are `pop()`, which a callback calls chunk by
chunk until it has what was asked for or the ring is empty; `LockFade`, `LockDrain`,
`LockClose` are `lock_all()`; `Prime*` are `prime_and_unlock()`; `Fade*` the
countdown in `data_callback`; `Keep*` is `keep_latest()`. `gui` and `cb.pc` say
where each thread is. `DoPlay`, `DoPause`, `SwapMedia`, `Break`, `RunFrames`,
`SkipTurn`, `StepButton` are what a user or the wall clock makes of a turn of
the main loop. A sample is the *era* of sound it belongs to (the era changes
when `lock_all()` returns), or the ramp. Positions wrap at `Width` instead of
2^32. Memory is sequentially consistent in the model; the code's
acquire/release pairs on the positions order the data as the model has it, its
relaxed accesses to `fade_out_steps` do not carry data.

A stream is passed through or, if its rate is not the device's, resampled
(`resample`, chosen in `Init` as `add_stream()` does). A passed-through one asks
for a period; a resampled one lets `ClownResampler_HighLevel_Resample` ask, by
`stream_rsin_cb`, as often and for as many pairs as that likes
(`ResamplerAsks`). Its source is not in the repository: the model assumes no
more than that it may keep any of the pairs it was given for later callbacks
(`ResamplerReturns`; `held` is their eras) and that it returns. Neither
`lock_all()` nor `prime_and_unlock()` touches `s.resampler`, so `held` outlives
both; `leftover` is history, what of `held` callbacks took that began before the
last `lock_all()` had returned. `NoStaleAudio` says that this is the only way in
which old sound is heard.

`Exclusive` names the operations of the emulator thread that are assumed not
to overlap a callback. It is an assumption about timing, not something the
code enforces: the callback takes microseconds every few milliseconds. The
passing run needs it for `lock_all()` and `keep_latest()`; without it for
`lock_all()` the run `audio_stale` shows what happens. Priming is allowed to
overlap in the passing run, and `PrimedInSilence` shows that it never does.

### NdsIpc and the code

`fifo` is `to_arm7` with its indices; `sendIrq` and `recvIrq` are the two
interrupt enables that concern this direction (the ARM9's for an empty FIFO,
the ARM7's for a filled one); `enable` and `error` are each CPU's. The link
back is the same code with `7` and `9` exchanged and shares only `enable` and
`error` with this one; it appears as `ErrorOfLinkBack`. An action is one byte
of a register access: `Send` and `Receive` are the 32-bit FIFO registers,
`WriteSendControl` the low byte of IPCFIFOCNT, `Write*Control` the high byte.
`irqFlags` is the part of `IF` that belongs to the link. Save states of the
link and the cartridge's backup detection, which listens to the words, are
left out.

### NdsIrq and the code

`cpu` says which of the two CPUs this is; they differ in `update_IF7`, in
`IE`'s byte handlers, in the order of `run_block` and in how a halted
interpreter behaves. `turn` is the place in the run loop: `events` while the
scheduler fires what is due, `own`/`ran` in this CPU's part of a block before
and after its first instruction, `other` in the other CPU's, `rest` while the
frontend has control. `check` and `cpsrCheck` are the two ways `sch_check_irq`
gets into the scheduler (`add_next` events, which fire before the next block);
how many there are makes no difference. `EvalInside` and `EvalOutside` are
`eval_irqs_*` on the two values of `arm*_ins`. A source is an interrupt of the
high half of `IE`, where IPC's are; writing the low half (`WriteIELow`) clears
these on the ARM7 because of its masks (`nds_bus.cpp:866,871`), and keeps them
on the ARM9. `wrong` is history: it marks states in which `clear()` has thrown
a pending check away, or `reset()` has left the line behind, and no guard
reads it. What `reset()` leaves alone (`halted`, `IRQ_line`, `sch_irq_sch`) is
left alone by `Reset`.

Left out: bit 21 of the ARM9's `IF`, which the geometry FIFO can hold up; FIQ,
whose line nothing raises; `eval_irqs()`, which has no caller; switching a CPU
between its two modes while the machine runs.

### BlockCache and the code

`version` is `page_version`; `slots[c]`, `pool[c]` and `freeList[c]` are the
store of blocks that CPU `c` has in the region's cache; `running` is the block
that `cached_run()` holds and the instruction it is at. `get_next_block()` is
split by outcome: `EnterDecoded` finds a valid block, `EnterAgain` one whose
pages have changed, which it decodes anew in place, and `EnterReused` and
`EnterNew` take a block from `alloc_or_reuse()`. `Compiled` stands for
`compile_cached_block_into()` and `commit()`: it decodes up to an instruction
that ends a block and takes the snapshot of the versions. `Instruction` runs
one instruction or leaves the block. `Write` is a store through the bus of a
CPU, by an instruction of either mode or by DMA; whether it marks its page is
`Marks`: the constant `Marking` says which CPUs' bus handlers call
`mark_dirty()` at all, and `remap_cached_write_funcs()` leaves the call out
while no CPU runs blocks. `EnterCachedMode`, `ExitCachedMode` and `Replace`
(reset, load, remapping of banks) are the callers of `clear_all_blocks()` and
`reset()`.

An address is a halfword, and an instruction one. Left out: that a slot's key
does not tell ARM from THUMB code, and the wrap of `page_version`; both are
hazards in `PROJECT.json`.

### GbaRunMode and the code

`func` is `scheduler.run.func`; `cached`, `halted`, `normal`, `IE`, `IFlags`,
`IME`, `IRQ_line` are the fields of those names (`IF` is a keyword); `ch[c]`
holds what matters of a DMA channel's `io` and `latch`. The clock is reduced to
`due`, the number of events whose time has come. `inQuantum` holds while
`cached_run()` executes: a program's writes may then switch `func` several
times before the scheduler looks at it. `stepping` is the local `was_cached` of
`finish_scanline()` and `step_master()`.

The four step functions are `BeginQuantum`/`EndQuantum`
(`block_step_cpu_cached`), `Instruction` outside of a quantum
(`block_step_cpu_interpreter`), `DmaBlock` and `HaltBlock`. `Cpu` is what an
instruction may do here: compute, write HALTCNT, a DMA control register, or a
byte of `IE`, `IF` or `IME`. `Events` are the callbacks that start transfers or
raise interrupts: `hblank`, `vblank`, the line counter, timer overflows with
their sound FIFOs, the keypad. `Override` collects the frontend's calls that
point `run.func` at the CPU whatever it was. Word counts wrap at `WordMask` as
`word_count & word_mask` does, a count of 0 being the longest transfer.

Left out: transfers that write to HALTCNT or to DMA registers themselves, and
the serial port's and cartridge's interrupts, which nothing raises.

## 3. Runs

| Run | Constants | States | What it shows |
|---|---|---|---|
| `scheduler_jitter` | a device and a timer that arms itself, frames of 2 cycles, clock to 3, 2 ids beside the frames', pool of 2 | 144 832 | type, ownership, order, nodes, budget (exact, and used up when a call returns), frame grid, and that `Scheduler` implements `Agenda`, for the GBA/NDS/PS1 loops; what is armed happens, and every `run_*` call returns |
| `scheduler_timer` | one timer that arms itself, 3 ids | | the timer loses the id of an event that is linked |
| `scheduler_exact` | 2 devices, frames of 3, clock to 7, 3 ids | 1.0 million | the tg16 loops: order, a clock that only moves forward, frame grid, `Agenda` |
| `audio` | ring of 2, frames of 1 pair, up to 3 a turn, periods and chunks of 2, a resampler that wants 2 pairs and asks for up to 3, fades of 2 | 618 768 | the stream is a bounded queue; nothing old is heard but what a resampler holds; what is primed plays; priming is silent; fades end |
| `audio_boot` | the same, a game on the command line | | a stream that plays stays locked |
| `audio_stale` | ring of 4, `lock_all()` may overlap a callback | | what was drained is played |
| `nds_ipc` | FIFO of 3 words, 2 values | 296 960 | the FIFO is a bounded queue; no edge is missed, and the receiver is told of edges only |
| `nds_ipc_edge` | the same | | the sender is not told of edges only |
| `nds_irq` | either CPU, 2 interrupts, decoded blocks | 1.2 million | the line is right; no interrupt is forgotten; it is taken |
| `block_cache` | 2 CPUs, both marking, 2 halfwords in 2 pages, blocks of up to 2 instructions, versions to 3 | 412 018 | no block is stale, lost or shared; to a program there is no cache |
| `block_cache_arm7` | the same, the ARM7's stores mark nothing | | main RAM of the NDS: a stale block is found |
| `gba_run_mode` | channels 1 and 3, 1 interrupt, 6 control values, word counts to 1, 1 event due | 349 856 | the step is the one the state calls for; what ends a HALT or a transfer; both end |

**Why the bounds are enough.** Two devices give every interleaving of one
device's pair with another's event in front, behind and at the same time; a
third adds only longer lists, which `EventListProofs` covers. A pool of two
fills and empties within a run. Steps of two cycles make blocks overshoot a
frame event and callbacks late; two ids let a callback that runs on the spot
arm once more before its caller stores the 0. In the audio run three frames to
a turn are one more than the ring holds, as fast forward held at play, the step
buttons, or four frames at 50 Hz with a ramp of 882 pairs are for 4096: the ring
fills, drops, wraps (`Width` is two rounds), and a ramp may find it full and
spoil the newest pair, which `QueueSpec` allows and bounds. A resampler that
asks for up to three pairs by two a time gets them in two chunks, or runs the
ring dry in between; it may ask again before it returns, and hold what it got
over a `lock_all()`.

A FIFO of three fills and wraps at every index. (Of the sixteen words of the
code's, `empty()` overwrites four and leaves the others; of three it overwrites
all. No read reaches them either way, since the indices are reset.) Two
interrupts let one be acknowledged, disabled or masked while another waits;
each CPU is checked in turn, since all that the other one does to it is
`RaiseOutside`.

Two halfwords in two pages give blocks that lie in one page and a block that
spans two, of which either may be stored to; three versions let a page be
marked twice behind one snapshot; each CPU comes to hold two blocks, enough for
one to be freed and reused while the other is entered. Larger regions, pages of
several halfwords and any number of CPUs are what `BlockCacheProofs` covers.
In `gba_run_mode`, channel 1 can take a sound FIFO and channel 3 video capture,
the two special timings, and together they give every order of two transfers;
word counts of 0 and 1 give transfers of one word and of the longest length. A
single interrupt, that of channel 1, can be enabled, pending, acknowledged and
masked in each of these orders, and is raised by a transfer's own end; the
other sources set their bits by the same `RaiseIrq`.

**Deadlock** is checked except in `scheduler_exact`: the tg16 loops jump to
the next event's time, and stop where that lies beyond the clock's bound.

**Fairness.** `FairSpec` of the scheduler: weak fairness on the run loop's
own steps and on the frame event's callback, since a function that was entered
goes on; strong fairness on the frontend's asking for frames and resuming, as
its main loop does every turn; strong fairness on `run.func` consuming cycles,
which it does but for the turns in which a CPU leaves HALT. Nothing is assumed
of devices. `AudioStream`: weak fairness on finishing what the main loop has
begun and on callbacks, and strong fairness on the resampler's return, since
its output callback ends it after `frame_count` frames
(`audiowrap.cpp:100-107`); nothing is assumed of the user. `NdsIrq`: weak
fairness on the run loop's own steps (it is one thread, and blocks end when
their cycles are used up) and on the frontend's resuming; nothing is assumed of
programs and devices. `GbaRunMode`: weak fairness on events that are due, on the
DMA and the halted step, and on the end of a quantum: the frontend's loop keeps
calling the scheduler, and `cached_run()` returns when its 8 cycles are used
up. Nothing is assumed of the program.

**Findings.**

* `scheduler_timer`: a timer's callback that `add_or_run_abs` runs on the spot
  arms the next overflow, and the caller then overwrites its id with the 0 that
  `add_or_run_abs` returns (`scheduler.cpp:129-134`, `nds_timers.cpp:197`). The
  next write to the control register deletes nothing
  (`nds_timers.cpp:170-172`), against the comment "Delete currently-scheduled
  overflow" (`gba_timers.cpp:82`): a second event is linked, or a timer that is
  switched off goes on. It is reached on the NDS, where an ARM9 program rewrites
  the register of a timer that is near its overflow: the scheduler's clock is
  the ARM7's, which has already run its part of the block (`nds_bus.cpp:1858`).
* `audio_boot`: a game named on the command line starts with
  `run_state = FSS_play` (`application.cpp:4382`) without asking for priming;
  its streams start locked and stay silent until the user pauses and plays.
* `audio_stale`: a `pop()` in flight while `lock_all()` drains stores its old
  read position back (`audio_ring.h:145`); what was drained is played after
  the next priming, contrary to `application.cpp:4164-4165`.
* `nds_ipc_edge`: IPCFIFOCNT's handler says "Edge-sensitive trigger..."
  (`nds_bus.cpp:823`, `1360`) but tests the enable bit where it should test the
  level: enabling the send-empty interrupt raises it while words wait.

* `block_cache_arm7`: the ARM7's stores to main RAM call no `mark_dirty()`
  (`nds_bus.cpp:376`; line 2051 says it needs none), although decoded blocks of
  either CPU live there (`nds_bus.cpp:2124-2125`): both go on executing what
  the ARM7 has overwritten, against `exec.h:592-594`.

**Observations.** These are modelled, and most are listed as hazards, but
nothing in the repository says otherwise:

* NDS: `reset()` leaves a halted CPU halted; loading a state saved in mid-frame
  drops a pending interrupt check; a byte write to the low half of the ARM7's
  `IE` clears its high half.
* Audio: `prepend_ramp()` needs room for a frame in front of what is queued
  (`audio_ring.h:103-107`). Fast forward held at play, step buttons before it,
  or a first turn of four frames at 50 Hz (four times 882 pairs and a ramp of
  882 are more than 4096) leave none, and the ramp overwrites the newest
  samples. `AudioQueue` says exactly which (`Spoil`), and `QueueSpec` that no
  others are lost and nothing is heard out of order.
* Audio: what a resampled stream has popped and not used stays in
  `s.resampler` over `lock_all()` and is heard after the next prime, although
  `application.cpp:4164-4165` promises silence at once. `NoStaleAudio` names
  this and excludes everything else. A version of it without the exception
  fails on run `audio`'s instance.
* NDS: the ARM9's `overflow_callback` counts the next overflow from the same
  `current9()` (`nds_timers.cpp:69-74`, `117-121`). A timer enabled with a period
  shorter than the lead of the scheduler's clock therefore finds that one due
  as well, and calls itself without end. In the model the stack `inline` is
  bounded only by the ids.
* GBA: a transfer that begins and ends while the CPU is halted leaves `run.func`
  at the CPU but `io.halted` set, so the CPU runs, and a save and load halts it
  again. A program that starts a transfer and halts in one quantum of decoded
  blocks suspends the transfer. A mode switch, a step by scanline or by cycle
  and `reset()` take the step from a running transfer or a HALT. `HaltHolds`
  and `DmaKept` name these cases and exclude every other.
* GBA: the marking of stores is compiled out (`gba_bus.cpp:352`), so its cached
  interpreter is in the position of the NDS's main RAM.

## 4. Theorems

`SchedulerProofs` proves of `Spec`, for every set of holders and tags, every
frame length, pool size, either family of run loops, whichever holders are
self-arming, and callbacks run on the spot to any depth:
`TypeOK`, `HolderCanCancel`, `StillMeansPending`, `NodesConserved`,
`BudgetExact`, `BudgetSpent`, `FrameOnGrid`, `NoOvertaking`, `NoDueEventWaits` (invariants),
`ClockForward` (an action property), and `AgendaSpec` (the scheduler
implements `Agenda`). The assumptions are the three named ones of `Scheduler`:
`nullptr` is no holder and the self-arming ones are holders, the frame's tag is
a tag, and sizes are positive.

None of the invariants is inductive alone. The proof carries

    IInv == TypeOK /\ IdsInv /\ HolderCanCancel /\ InlineInv /\ StillMeansPending
            /\ NodesConserved /\ LoopInv /\ BudgetExact /\ OrderInv
            /\ NoOvertaking /\ NoDueEventWaits /\ FrameInv

Here `IdsInv` says that ids are distinct, positive and below `idCounter` (else
a stale id might name a younger event), `InlineInv` that a holder whose
callback runs on the spot has nothing linked, unless it is self-arming (so that
the 0 stored afterwards overwrites no id that is needed), `LoopInv` what `pc` says of `running`
and `loopStart`, `OrderInv` that the events still to come are sorted, that all
events asked for in time are, that those asked for late are due, and that the
tg16 loops leave nothing pending behind the clock, and `FrameInv` how many
frame events there are at each `pc`.

`EventListProofs` holds the lemmas about lists: what `AddAbs` inserts and
where, that it keeps the timely events sorted, that `DeleteIfExist` removes
the event with that id and no other, that the walks stop in range.
`StepKinds` then reduces the actions to a few *kinds of step* (arm, disarm,
fire, finish, move the clock, control), each conjunct of `IInv` is shown to be
preserved by one lemma (`IdsStep`, `FrameStep`, `ControlStep`, `HeapStep`,
`OrderStep`, `TypeStep`, with `GridStep` and `NotDrained` for the frame grid),
`StepInv` puts them together, and `ClockStep`, `PromiseInit`, `PromiseStep` give
the action property and the refinement. `BudgetSpent` needs one thing more,
`SpentInv`: outside `run_for_cycles` the budget is spent, and the loops that do
not grant cycles never add to it.

`NdsIrqProofs` proves of `NdsIrq`'s `Spec`, for any set of interrupts, either
CPU, interpreted or cached: `TypeOK`, `LineExact` and `NoForgottenIrq`. The
invariant adds `SavedInv`, since a load replaces the registers and drops the
checks: a save state's line agrees with its registers, and if it restores an
interrupt that could be taken, it is marked as taken while a check was
pending. Two lemmas, `EvalInsideKeeps` and `EvalOutsideKeeps`, carry all
handlers that recompute the line.

`NdsIpcProofs` proves of `NdsIpc`'s `Spec`, for a FIFO of any depth and any
words: `TypeOK`, `LinkSpec` (it implements `WordLink`) and `EdgesRaise`. The
invariant adds `Sound(fifo)`: the tail is the head plus the length, modulo the
depth. From it follow `PushAppends` and `PopTakes`, what a push and a pop do to
the sequence of words in the FIFO; the refinement and the edges need no more.

`BlockCacheProofs` proves of `BlockCache`'s `Spec`, for any set of CPUs and any
sizes of region, page and block: `TypeOK` and `OneOwner`, whoever marks; and,
assuming that every CPU's stores mark their pages (`Marking = Cpus`),
`NothingStale` and `CodeSpec` (it implements `CodeMemory`). The invariant is
`TypeOK /\ StoresOK`: no two addresses have one block, the free list repeats
none and has none that an address has, and every block of the pool is one or
the other. `AllFaithful` is the strengthening for the other two: of every block
that an address has, no snapshot is ahead of its page's version, and while any
CPU runs blocks, one whose snapshot is current holds what memory holds. That is
also what fails when a store does not mark. The refinement maps `rest` to what is left of the running block,
which nothing rewrites while it runs.

`GbaRunModeProofs` proves of `GbaRunMode`'s `Spec`, for any channels,
interrupts and control values: `TypeOK`, `DmaNeverSpins`, `FuncMatchesMode`,
`LineCurrent`, and the action properties `HaltHolds` and `DmaKept`. The
invariant is

    IInv == ChannelsOK /\ StepOK /\ IrqsOK /\ LoopOK

It adds that a channel that is switched off is not started (or switching it on,
which does not evaluate the masks, would leave them stale), that the halted
step implies `io.halted`, and that a debugger's step interprets.

`AudioRingProofs` is arithmetic: positions wrap at `Width`, slots at
`Capacity`, which divides it. It proves what each access does to the sequence
of waiting pairs: a store behind the write position changes nothing, a
publication appends, moving the read position drops, a ramp spoils the newest
pairs that leave it no room and no others (`RampSpoils`), and stepping back puts
it in front. Where the
sequence cannot be followed, because positions may lie anywhere, `AllWaiting`
says of what samples the waiting pairs are made, and every access keeps that.

`AudioStreamProofs` proves of `AudioStream`'s `Spec`, for rings, frames,
periods, ramps and fades of any length:

| Theorem | Property | Assumed of the environment |
|---|---|---|
| `TypeCorrect` | `TypeOK` | nothing |
| `PrimingIsSilent` | `PrimedInSilence` | no callback overlaps `lock_all()` |
| `PlayingIsHeard` | `PrimedPlays` | that, and no game named on the command line |
| `NothingStaleHeard` | `NoStaleAudio` | no callback overlaps `lock_all()` |
| `QueueImplemented` | `QueueSpec` | no callback overlaps `lock_all()` or `keep_latest()` |

No theorem assumes anything of how many frames are queued when a stream is
primed, nor of how much the resampler asks for or holds; that a ramp is shorter
than the ring is part of `StreamAssumption`.

The runs `audio_stale` and `audio_boot` show that the first two assumptions are
needed. The argument has three layers. `LockInv` (with `PlaysInv`) is about
control alone: a stream that waits to be primed is locked and no callback is
under way, from `lock_all()` to the end of `prime_and_unlock()`.

`HeardInv` adds what may be heard. It cannot say where the read position is: a
`pop()` and an `end_fastforward()` that overlap each undo the other's store, and
a ramp that does not fit runs past the write position. It says instead that
from the read position on, and from every position that either thread has in
hand and will store (`GuiClean`, `CbClean`), all that lies up to the write
position is of this era or ramp. Stores and publications of such samples keep
that (`StaysClean`), `pop()` and `keep_latest()` only move forward through it,
the ramp is in place before the step back publishes it (`RampInv`), and the era
changes where nothing waits and no callback has anything in hand. `HeldClean`
carries the resampler: what it holds is of this era or was held when
`lock_all()` returned.

`StreamInv` is about the sequence of pairs: `BoundInv`, how many may wait at each
place of a turn (never more than the ring and a ramp, no more than the ring
while a stream waits to be primed); `CopyInv`, that a callback's local position is still the ring's and what it
copied is what waits in front; and `RampInv`. Every step of the ring is then one
of append, drop, spoil, prepend or nothing.

**Model-checked only.** The liveness properties `ArmedEventHappens`,
`CallsReturn`, `FadeEnds`, `InterruptHappens`, `DmaEnds` and `HaltedWakes`:
they need fairness and `ENABLED`, which the prover does not handle. Every
invariant and action property of a passing run is also proved.

## 5. Abstract specifications

`Agenda`: a holder that is not self-arming has at most one pending event, and
arming replaces it; of a self-arming one, what was pending may stay; an event
leaves the set only by firing, by its holder's cancelling it, or at a restart;
an event asked for in time fires neither early nor after one due later.

`AudioQueue`: pairs are appended one by one, consumed whole and in order from
the front and only while open, thrown away oldest first, and a ramp goes in
front only while closed and while no more than a ringful waits; where these do
not fit together, the newest pairs become ramp, as many as do not fit.

`WordLink`: words leave in the order they came, each once; a full queue takes
none; a flush empties it.

`CodeMemory`: a CPU that comes to an address takes what memory holds there, up
to an instruction that ends a block, and runs it in order; a store changes
memory at once, and what was taken already not at all.

## 6. Not modelled

Most of the repository's lines are tables and generated functions: opcode
tables of the Z80, 65816, HuC6280, SM83 and 6502, one function per instruction
and cycle, alone make up about half of them. They have no state of their own to
get wrong over several steps, and a TLA+ module of an instruction set would be
a second copy of it. The modules therefore cover the parts where several actors
meet, and the share of lines they stand for stays small.

* CPU instruction semantics, pixel and sample generation, file formats: large
  sequential computations, tested by the repository's instruction tests and
  meaningless on small instances.
* Serialization: field copies; what a load does to the scheduler, the interrupt
  line, the DMA masks and the block cache is modelled where these are.
* The audio device's life cycle (`init`, `setup_audio`, `clear_streams`),
  mixing of several streams, the resampler's filter and how many pairs it asks
  for (any number up to a bound is allowed).
* Jitter of `add_next` events and 64-bit overflow of the clock.
* Relaxed memory effects beyond sequential consistency.
* The PS1's serial port, two of whose events share one flag.
* Garbage collection of decoded blocks (`gc_counter_rollover()` has no caller)
  and the slots that ARM and THUMB code share; that windows of VRAM and mirrors
  of WRAM share a slot of their region (`nds_bus.cpp:299`, `1796`).
* On the NDS, how many interrupt checks are in the list at once: `NdsIrq` has
  whether one is (the later ones find nothing left to do).
* The GUI's windows, the headless runner, the code generators.

## 7. Plan

Done, each with model, checks and proofs: scheduler, audio path, NDS
interrupts, NDS IPC, GBA run modes, block cache.

What is left, in this order:

1. `Ps1Sio`: two pending events that share one flag.
2. The audio device's life cycle, added to `AudioStream`.
3. ARM and THUMB code in `BlockCache`'s slots.
4. IRQ multiplexers against a reference definition over bounded inputs.
5. `NdsIpc` in both directions at once, composed with `NdsIrq`.
