# A TLA+ verification of the TL880 driver

This directory specifies and verifies the Linux 2.6 driver for TL880-based HDTV
cards (MyHD MDP-100/110/120/130, WinTV-HD, HiPix) found in `driver/`, its framebuffer
module in `tl880fb/` and the display tools in `tools/dpc/`.  TLC checks the modules on
small instances; the TLA+ proof system proves the theorems listed in section 6 for
every value of the constants.

## 1. The system

The driver is one kernel module plus an ALSA module and a framebuffer module that
call into it.  The card is a bag of registers (BAR 3), on-board SDRAM (BAR 0) and
several I2C buses made of register bits.

| component | source | state | operations | talks to |
|---|---|---|---|---|
| interrupt engine | `driver/tl880int.c` | registers 0 and 4, `int_type`, `int_mask`, the tasklet | `tl880_irq`, `tl880_bh`, `tl880_disable_interrupts` | everything that interrupts; user space writes register 4 through ioctl |
| interrupt callbacks | `driver/tl880int.c` | `apu_th_funcs`, a singly linked list | add, remove, run, empty | run from the top half, changed from process context (the ALSA module adds `test_int` when it is loaded) |
| card registry | `driver/tl880kern.c`, `driver/tl880util.c` | `tl880_list`, `n_tl880s`, the `id` of each card | probe, remove, `find_tl880`, `find_tl880_pci` | ioctl, tasklet and ALSA look cards up by id |
| card life cycle | `driver/tl880kern.c` | which resources of a card exist | `tl880_configure`, `tl880_unconfigure`, `tl880_delete_dev` | registry, interrupt engine, memory, I2C |
| character device | `driver/tl880kern.c` | none | open, release, ioctl, mmap, read, write | registry, registers, memory |
| registers | `driver/tl880reg.c`, `set_bits` in `driver/tl880util.c` | card registers | read, write, read-modify-write of bit fields | every component |
| card memory | `driver/tl880mem.c`, `driver/genalloc.c` | SDRAM, the pool's bitmap | read, write, copy, byte swap, alloc, free | ALSA, OSD |
| I2C | `driver/tl880i2c.c` | `i2cbuses`, 16 client slots per bus, `msp_i2cbus`, `msp_i2cclient` | attach, detach, init, deinit, broadcast to clients | GPIO registers, audio chip |
| audio chip (MSP) | `driver/tl880msp.c` | the chip's registers | write with retries, init, configure | I2C client slots |
| GPIO, VIP and input | `driver/tl880gpio.c`, `driver/tl880vip.c`, `driver/tl880input.c` | GPIO registers 0x10190-0x1019c | set_gpio, set_vip, set_video_source | registers shared with I2C |
| video decoder (VPX) | `driver/tl880vpx.c` | the chip's firmware handshake | fp read and write, configure, init | I2C |
| audio unit (APU) | `driver/tl880audio.c` | the ring's registers 0x3020-0x3030, a buffer and the registers that point to it, the cross-fade matrix 0x305c-0x307c, rate lines 8 and 9 | init, deinit, set rates, `tl880_ntsc_audio_dpc` | bottom half, ALSA, card memory, GPIO |
| ALSA PCM | `driver/alsa/tl880alsa.c` | the ring position, a kernel timer, a lock | open, close, hw_params, prepare, trigger, pointer, copy, silence, timer | card memory, APU registers |
| display (DPC) | `driver/tl880dpc.c`, `driver/tl880modes.c` | timing and clock registers, a table of modes | set clock, set mode, field interrupts | top half, card initialisation |
| aux DMA | `driver/tl880dma.c` | 12 DMA channels and their mailbox | allocate, free, load | none in the tree |
| OSD memory | `driver/tl880osd.c` | a block list | init, allocate, deallocate, compact | card memory |
| cursors | `driver/tl880cursor.c` | a linked list of cursors | create, add, delete, find | OSD memory |
| TS demultiplexer | `driver/tl880demux.c` | handshake registers | init | registers |
| card initialisation | `driver/tl880init.c` | clocks, SDRAM controller | init and deinit per card type | all of the above |
| framebuffer | `tl880fb/tl880fb.c` | one `fb_info`, the card found as number 0, a display list and a picture in card memory | load, unload, open, release, blank, mode setting | registry, display registers, GPIO line 2, user space |
| /proc | `driver/tl880proc.c` | none | read-only listing | registry |
| display tools | `tools/dpc/` | none | `dpcsync` sets timing and scaler by ioctl, `getconst` decodes the clock | display registers |
| other tools | `tools/` | none | user-space programs over ioctl and mmap | character device |

### What is hard here

* The top half, the tasklet, user space and the removal of a card all write
  register 4 and `int_mask`; no lock is taken anywhere in the interrupt engine.
* The interrupt line is shared (`IRQF_SHARED`).
* The ALSA timer handler re-arms itself; the trigger callback stops it with
  `del_timer`, which does not wait.
* Bit fields of registers are read, changed and written back without a lock,
  although I2C buses, GPIO and VIP share the same registers.
* Cards are found by an id that is the number of cards at the time of the probe.
* Error paths free what the caller frees again.
* The framebuffer is registered, and can be opened, drawn on and blanked, before its
  mode is set; the display's control register is changed bit by bit by the module and
  written whole by a blank and by a tool.
* The audio unit keeps pointing at card memory through removals and new probes, each
  of which starts with an empty struct.
* The samples of a stream are copied, cleared and played at the same time.
* The allocators work on bitmaps and block lists with boundary arithmetic.

### What makes each component correct

| component | correct when |
|---|---|
| interrupt engine | accepted work has exactly one owner; the mask is shut while work is owed and comes back as user space asked; nothing runs on a removed card |
| card registry | the list holds live cards only; an id finds its card; a removal frees the card that was removed |
| card life cycle | no failure leaks or frees twice; nothing in use is released; probes and removals end |
| card memory | regions are disjoint, in the pool, and in the card; the bitmap is exact; the search misses no place |
| I2C and audio chip | the table holds attached chips once; commands reach everyone once; audio writes reach an audio chip |
| GPIO, VIP | no actor disturbs the pins of another |
| interrupt callbacks | whenever an interrupt comes, the list is whole and calls everyone registered once |
| video decoder | an operation changes its bits of its register only, and never hangs |
| ALSA PCM | the timer lives as long as the stream runs; no period is lost; positions stay in the ring; a frame that was written is there when it is played |
| audio unit | it never points to memory it does not own; the rate lines stand for the rate asked for; every input goes to its own output |
| display, framebuffer | the OSD is on only when what it shows is prepared; an unblank shows it; timing, scaler and clock are those of one mode |

## 2. Modules

| module | models | state and actions in the code |
|---|---|---|
| `InterruptGate` | the abstract promise of the interrupt engine | none; `TL880Int` is shown to implement it |
| `TL880Int` | `tl880_irq`, `tl880_bh`, `tl880_disable_interrupts`, ioctl writes of register 4, the interrupt steps of probe and removal | one action per access to a register or shared field: `Irq...` the top half, `Bh...` the bottom half, `Rm...` the removal.  The three stores of `tl880_disable_interrupts` are three steps |
| `TL880Registry` | `tl880_configure`'s list append, `tl880_remove`, `find_tl880`, `find_tl880_pci`, module load and unload, `snd_tl880_add_card` and `_remove_card`, the card the framebuffer keeps | a struct is a number, `tl880_list` a sequence; the PCI core detaches in reverse order of binding |
| `TL880Lifecycle` | every step of `tl880_configure` and `tl880_unconfigure` with its failure, beside a handler, a tasklet, a chip driver and an ioctl | `ProbeOrder` and `UndoOrder` are the order of the calls, `held` what each has acquired |
| `TL880Memory` | `genalloc.c` as `tl880mem.c` uses it | the bitmap is a set; the search for a place is a loop of actions, each one turn of the code's loop |
| `TL880Pcm` | the PCM callbacks, the timer function, `tl880_ntsc_audio_dpc` | registers 3020, 3024, 302c and 3030 in units of 16 bytes; the timer function in its stages, lock held in one of them |
| `StreamQueue` | the abstract promise of the ring in card memory | none; `TL880Copy` is shown to implement it |
| `CallbackBag` | the abstract promise of the callback list | none; `TL880Callbacks` is shown to implement it |
| `TL880Gpio` | register bit fields, I2C pins, `tl880_set_gpio`, `tl880_set_vip` | a register is the set of its one bits; each actor has a list of read-modify-writes to do, each of two steps |
| `TL880I2c` | the client table, `tl880_call_i2c_clients`, `tl880_msp_write`'s target | a command visits one slot per step |
| `TL880Vpx` | FP registers: read, write, status poll; the probe's operations; GPIO lines of the MDP-120 | an operation is a record of what it reads, keeps and sets; each I2C transfer is a step that may fail |
| `TL880Callbacks` | the list `apu_th_funcs`: add, remove, run, and the emptying in `tl880_delete_dev` | one action per store to the list or look at it; a node is a piece of kernel memory, which `kmalloc` hands out again after `kfree` |
| `TL880Copy` | what copy, silence, prepare, START and a tone do to the samples in card memory | memory is a function of word addresses, the n-th frame of the stream is the number n; a transfer stores a word per step |
| `TL880Audio` | audio initialisation and removal, the buffer, the matrix, the rate lines | a probe and a removal are lists of calls, in the order of the code, a call or a GPIO line per step; a gain is there or not |
| `TL880Modes` | the tables of timings, the scaler's words, the clock's register | constants and functions: a timing is a row of the 29 fields that the code calls A to AA, BB and CC |
| `TL880Fb` | the start of the framebuffer module, its users, the reset of the display, `dpcsync` | the start and the tool are lists of steps; a write of some bits of 0x10000 is a read and a write |
| `MCBoard` | composes `TL880Gpio`, `TL880I2c`, `TL880Vpx`, `TL880Memory`, `TL880Callbacks`, `TL880Copy`, `TL880Audio` and `TL880Fb` for one run | they share no variable, so a behaviour moves the one part picked in its first state |
| `MCInt`, `MCRegistry`, `MCPcm` | instances | constants only |
| `TL880IntProofs`, `TL880RegistryProofs`, `TL880LifecycleProofs`, `TL880MemoryProofs`, `TL880PcmProofs`, `TL880FbProofs` | theorems about the module of the same name | section 6 |
| `TL880BoardProofs` | theorems about what shares pins and buses, `TL880I2c`, `TL880Vpx`, `TL880Gpio`, and about the card as a whole, `MCBoard` | section 6 |
| `TL880AudioProofs` | theorems about `TL880Audio`, `TL880Copy` and `TL880Callbacks`, and the two refinements | section 6 |

`Mutant:` definitions are plausible bugs of the definition below them.  No
specification uses them; a run's properties must fail when one is put in its place.

Outside the tree and modelled from its use: the card's registers (0 latches sources
and is cleared by a read), the PCI and I2C cores, the ALSA core (which serialises
callbacks, splits a transfer at the end of the ring and stops a stream that runs empty),
`find_next_bit`, the decoder's firmware, the audio unit that plays, and what draws on the
framebuffer.

## 3. Runs

| run | shows | instance |
|---|---|---|
| `int_alone` | the mask returns as asked; work is done; the engine implements `InterruptGate`: the mask is shut while work is owed | two kernel contexts at once, own line, three sources of the three kinds the handlers tell apart: one the top half may finish, one for the bottom half, one unknown |
| `int_wild` | work always has one owner; no handler outlives the card | shared line, user space writes at any time, a sibling card goes |
| `int_shared` | *violation*: a foreign interrupt leaves the mask at zero | shared line, one processor |
| `registry` | list sound, lookups exact, removals right, what ALSA and the framebuffer keep is what they find again | three slots, five probes: reuse of a slot and of an id both occur |
| `reg_orphan` | *violation*: removing the first of two cards orphans the second | two slots, two probes |
| `life` | nothing leaks, nothing in use is released, a listed card is whole, probe and removal end | the wait for the audio chip is two long instead of a hundred |
| `life_double` | *violation*: a card is freed twice when `request_irq` fails | the same |
| `pcm` | timer follows the stream, no period lost, positions in the ring | periods of 8 and 12 units, two per ring as the driver fixes it |
| `pcm_stop` | *violation*: the timer function outlives the struct | two processors |
| `board` | eight parts, each alone and well typed: pins, client table, decoder, allocator, callback list, samples, audio unit, display.  The samples implement `StreamQueue` and the callback list `CallbackBag` | five card types and GPIO lines 2 and 8; two buses of two slots and six chips of every kind; two callers, two operations, two faults, two polls; nine blocks of two bytes and sizes from half a block to three; two functions, two processes, three nodes; rings of two and four frames, nine frames; three card types and two buffers; two openers and seven sizes of sources |
| `vpx_gpio` | *violation*: a failed read is written back | one fault |
| `fb_unblank` | *violation*: an unblank turns the OSD off | one opener |

### Bounds, and why they are enough

* `MaxCards` (registry): five probes in three slots give every order of three cards
  and two more after removals, which is where an id or a slot is reused.
* `PeriodSizes` (pcm): a short and a long period, so that a ring's registers left from
  the last `hw_params` differ from this one's; `MaxPeriod` (`MAX_PERIOD_SIZE`,
  `driver/alsa/tl880alsa.c` 54) is the longest.
* `MaxWait` (life), `MaxPolls` (decoder): the loops have the same three cases at two
  turns as at a hundred: at once, late, never.
* `MaxOps`, `MaxFails` (decoder): two callers that overlap need two operations; one
  fault between any two transfers, and a second one while the first is recovered
  from.  The probe's own sequence is complete.
* The pool: the largest size is three blocks in a pool of nine, so that the skipping
  search meets runs that are too short, runs that just fit, and the limit.
* Callbacks: three nodes hold a function registered twice beside another, so that a
  removal takes the head, the middle and the last; a freed node comes back at once.
* The PCM lag: the audio unit plays at most a quarter of a period between two looks
  of the timer.  The shortest period, 0x4000 bytes, lasts more than four jiffies at
  the fastest rate.  Without this bound no polling driver keeps up.
* Sources (of interrupts): one of each kind that the top half treats differently.
* `MaxFrames` (samples): nine frames wrap a ring of two more than four times and one of
  four twice, with transfers of every length that fits.
* `Bases` (audio): two addresses of buffers that do not overlap, so that a register left
  from the last probe is told from one of this; a probe may get either, or none.
* `MaxOpens` (framebuffer): two openers are needed for a release while another has it open.
* `Sources` (`TL880Modes`): widths and heights of NTSC, of HDTV and of 512, for which the
  documentation lists the words; some of them the scaler cannot express.

### Where deadlock is not checked

`life`, `life_double`: an oops ends a behaviour.  `board`, `vpx_gpio`: the bounded
operations of the decoder come to an end, and so do the frames of a stream.  `fb_unblank`
looks for one step.  `registry`: probes are bounded.
All other runs check deadlock.

## 4. Fairness

Only `int_alone`, `pcm` and `life` assume any.

* The processor takes an interrupt that the card keeps asserting; handlers and
  softirqs run to their end.  The kernel guarantees both.  The rest of the driver
  (user space, raising of interrupts, removal) is under no fairness.
* A queued timer fires, the timer function and the bottom half end, and an audio unit
  that is on plays.
* The kernel runs a probe and a removal on.  Removal waits for handlers and for
  transfers, which end but begin again: `SF` on its steps says that it gets through
  one day, as the kernel's waiting does (a handler taken off the line and a tasklet
  that finds no card are not started again).

The decoder's promise to end is not stated with fairness: `NearerTheEnd` says that
every step of an operation brings it nearer to its end although the chip may stay
busy for ever.

## 5. Findings

| run | code | what it does |
|---|---|---|
| `int_shared` | `driver/tl880int.c:384` | returns `IRQ_NONE` with the mask at zero |
| `reg_orphan` | `driver/tl880kern.c:973` | drops the whole list with its first card |
| `life_double` | `driver/tl880kern.c:819` | frees a card that has been freed |
| `pcm_stop` | `driver/alsa/tl880alsa.c:142` | stops a timer without waiting for its function |
| `vpx_gpio` | `driver/tl880gpio.c:278` | takes a failed read for a value and writes it back |
| `fb_unblank` | `tl880fb/tl880fb.c:498` | blanks, whatever it was asked |

The properties that hold are stated so as not to depend on these: `MaskKept` is for
a line of its own, `LookupIsExact` for the time before the first pull, and so on.
The condition is part of the property, never of the model.

## 6. Theorems

Each is proved for every value of the constants under the `ASSUME`s of the module.
TLC has checked the invariants on the runs' instances before they were proved.

| property of a run | theorem | in |
|---|---|---|
| `TypeOK` (interrupt engine) | `TypeCorrect` | `TL880IntProofs` |
| `WorkOwned`, `RemovalQuiesces` | `WorkIsOwned`, `RemovalIsSafe` | |
| `NeverBusyAlone`, `MaskKept` | `BusyIsDead`, `MaskComesBack` | |
| `ImplementsGate` | `EngineImplementsGate` | |
| `TypeOK` (registry), `ListSound` | `RegistryTypeCorrect`, `ListIsSound` | `TL880RegistryProofs` |
| `LookupIsExact`, `ClientsSound`, `RightCard` | `LookupsAreExact`, `ClientsAreSound`, `RemovalsAreRight` | |
| `TypeOK` (life cycle), `NothingLeaks` | `LifecycleTypeCorrect`, `CardGoneHoldsNothing` | `TL880LifecycleProofs` |
| `ListedIsWhole`, `ReleaseUnused` | `ListedCardIsWhole`, `ReleasedWhenUnused` | |
| `PoolIsSound`, `FirstFit` | `PoolStaysSound`, `SearchIsFirstFit` | `TL880MemoryProofs` |
| `TypeOK` (PCM), `TimerFollowsStream` | `PcmTypeCorrect`, `TimerFollows` | `TL880PcmProofs` |
| `RingKept`, `NoLostPeriod` | `RingPositionsKept`, `NoPeriodLost` | |
| `TableIsSound`, `WritesReachAudio`, `EveryoneOnce` | `ClientTableIsSound`, `AudioWritesLand`, `CallsReachEveryone` | `TL880BoardProofs` |
| `LandsExactly`, `ModeKept`, `NearerTheEnd` | `DecoderChangesAreExact`, `PortModeIsKept`, `OperationsEnd` | |
| `PinsKept` | `PinsStayPut` | |
| `BufferOwned`, `AudioAsAsked` | `BufferAlwaysOwned`, `AudioAlwaysAsAsked` | `TL880AudioProofs` |
| `ImplementsQueue` | `RingImplementsQueue` | |
| `CalledAsRegistered`, `ImplementsBag` | `CalledAsOftenAsRegistered`, `ListImplementsBag` | |
| `BoardTypeOK` | `BoardTypeCorrect` | `TL880BoardProofs` |
| all of the run `board` at once | `PartsBehaveAsAlone`, `CardIsSound` | |
| `ShownIsReady`, `PictureExact` | `OsdShowsWhatIsReady`, `PictureIsOne` | `TL880FbProofs` |

**Interrupt engine** (`TL880IntProofs`).  The invariants are not inductive alone.
`Stages` adds where the handler may be at each stage of probe and removal: once
`free_irq` is through, no top half runs, so nobody queues the tasklet again, and
after `tasklet_kill` nothing is left.  With it follow `WorkIsOwned` and
`RemovalIsSafe`, whatever races.  `FoundGate` adds that an interrupt which finds a
mask that is not zero finds no work owed: the mask was zero from the acceptance on.
From it follow `MaskIsGate` and `BusyIsDead`, when user space leaves the mask alone
during an interrupt.  `MaskTravels` follows the mask through the top half's local,
`int_mask` and the bottom half's local; it gives `MaskComesBack` on a line of its
own.  `OnlyAsked` says what any of these copies may hold on any line; it gives
`EngineImplementsGate`.

**Callback list** (`TL880AudioProofs`).  `WholeList` says that there is a chain of nodes, each
once, which the links follow from the head (`Chain`); that the heap holds the chain and
at most the one node that a process has in hand (`Extra`); what a process that was
interrupted between two stores knows (`Knows`: where its pointer stands, and that no node
before it holds the function it looks for); that a function has as many nodes as
registrations, and one more while its removal is on the way to the node (`Counted`); and
that a walk has called what it has come past (`Walked`).  Every store makes one chain of
another: longer at its end (`LongerIsChain`), without its head (`HeadGone`) or without a
node inside (`NodeGone`).  On several processors only `Holds` is left, that nobody follows
a link of no node.

That the list is a bag (`ListImplementsBag`, for one processor) comes out of the same
invariant.  The bag is what the links reach from the head, counted by function
(`Registered`), and the invariant gives that this is the chain's nodes (`ListedAre`).  Each
operation has one store that changes it: the addition the one that links its node
(`PutsOne`), the removal the one that takes it out of the chain (`TakesOne`), the deletion
each new head (`DeletesOne`).  All others leave the chain as it is (`SameBag`).  A call is a
`Call` because what has been called is at most what stands before the walk in the chain
(`AllTallied`, `WalksOne`), and at the end of the chain the two are equal, which is what
`Return` asks for.

**Registry** (`TL880RegistryProofs`).  `Inv` (`ListSound`, `CountIsAlive`) is
inductive whatever is removed: `ListIsSound`, `CountIsExact`.  As long as no card has
been pulled by itself, the list is a stack (`Stack`): its k-th card has id k - 1 and
sits in the k-th slot bound, since the driver core detaches in reverse order.  A
detach then finds the last card by its slot.  This gives `LookupsAreExact`,
`ClientsAreSound`, `RemovalsAreRight` and `UnloadIsClean`.  With one pulled card all four
are lost, as `reg_orphan` shows.

**Life cycle** (`TL880LifecycleProofs`).  `HeldAtStep` bounds what a card holds by the step
that its probe or its removal is at: a probe holds at least what its steps have made
(`Made`), a removal at most what its steps have still to release (`Remains`), whichever
step of the probe failed.  The card is listed exactly while it is up (`ListedWhenUp`).
`UsersAtStep` says who may be using it at which step: each wait of the removal sends one
kind of user away, and none of that kind comes back.  The order of the calls does the rest.

**Allocator** (`TL880MemoryProofs`).  `Inv` says that the bitmap is exactly the
regions handed out, that these are disjoint and inside the pool, and that the search
has passed no place where the region would fit (`Passed`).  The last one is the
reason why skipping to the bit that was in the way loses nothing: every place skipped
contains that bit.  It gives `PoolStaysSound` and `SearchIsFirstFit`, for every block size
and pool.

**PCM** (`TL880PcmProofs`).  `RingSet` and `Loose` say what the ring's registers hold with
and without parameters, `IntInRing` where the interrupt position is while the timer or the
bottom half is about to move it, and `Alone` when the timer function is at work and when
it is queued: it re-arms the timer before it does anything else, so the stream is running
then.  For `NoPeriodLost` that is not enough.  `Counted` adds how far the audio unit can have
come since the timer looked (`Ahead`: at most a quarter of a period, at most once past the
end) and that a period which is due ended after that look (`DueIsNew`).  A second one would
take the rest of a period, three quarters, which the audio unit cannot play before the next
look.  The bound on the lag is the model's, see section 3.

**I2C clients** (`TL880BoardProofs`).  `I2cInv` adds to the table's soundness that nothing
is attached without buses, that the index of the audio chip is that of a slot with an audio
chip (`IndexHitsAudio`), and `Progress`: a chip that was there all the time has been called
once if the call has come past its slot, and not yet if it has not.

**Decoder** (`TL880BoardProofs`).  `VpxInv` follows each caller by itself.  As long as no
other has overlapped it (`MetOverlap`: callers at work together have it on record), the chip's latch holds
the register it addressed (`Addressed`) and its local is what the register held, until it
has written it (`OnTheWay`).  A poll's result counts only for the caller whose polls it
belongs to (`PollsAreNew`).  The probe's own operations are of the same shape
(`ProbeOpsAreSound`).  `OperationsEnd` counts steps,
polls and retries in one number; it falls with every step, since the invariant bounds each
of the three and clears the polls between two rounds.

**Pins** (`TL880BoardProofs`).  While writes are pending, the registers do not show what was
asked for.  `Promise` therefore speaks of the future: the writes still to do, whoever has
them, will leave every wire and every line as asked (`WillBe`, by the last write that touches
a pin).  Taking the first write keeps the promise (`WriteKeepsPromise`), and every new list
makes its own and touches no pin of another's.  When all lists are empty the promise is
`PinsKept`.  `OneAtATime` and `GotIsFresh` are what one processor gives: a value that was
read is still the register's when it is written back.

**Audio unit** (`TL880AudioProofs`).  A probe and a removal are lists of calls, and the
invariant says what the rest of a list can rely on (`JobPlaces`): before a `free` come
the writes of zero or the registers are zero already; before the registers are set the
buffer was taken and the I/O controller initialised, which zeroes them.  With `Registers`
(a register that is not zero belongs to the mode and the buffer that the struct names) this
gives `BufferAlwaysOwned`.  `RateSet` says which of the two lines is still to be set, and
`MatrixSet` that the matrix is right or will be.  That the matrices are the identity is a
lemma about the functions (`StartIocIsIdentity` holds for every matrix before).

**Samples** (`TL880AudioProofs`).  `Room` (a transfer fits into what was free and does not
wrap) with `PlacesDiffer` (two frames less than a ring apart lie in different places) makes
`InPlace` inductive: a store never hits a frame that is still to be played.

The refinement (`RingImplementsQueue`) reads the queue from memory, at the places where the
audio unit will look: it is what lies there that the theorem speaks of, not what was counted.
`WaitingFacts` gives the order of what waits, `StoredNext` that a store appends the
next frame and touches none of the others, `SilenceElsewhere` that silence touches none at
all; PREPARE, new parameters and a stop end the stream (`EndsStream`).  A transfer that ends
after a suspend takes its own frames back (`Withdraw`).

**Display** (`TL880FbProofs`).  `Prepared` says, for each point of the module's list, what the
steps before it have made sure of and nobody undoes; `DeviceIn` when the framebuffer can be
opened; `Rests` what the rest of a list is.  `PictureIsOne` holds because the module
and the tool program one picture: timing that is on is that of 1024 by 768, and the dot clock
is the one for it (`OnePicture`).  Each of the scaler's words is right unless the module or
the tool is still to set it (`HScaled`, `VScaled`).  The arithmetic of the scaler is
proved for every source.

**The card** (`TL880BoardProofs`).  `MCBoard` runs the parts side by side, so that it has to be
shown that nothing is lost by proving them apart.  Every step of the card is a step of one
part and leaves the variables of the others alone (`PartsStep`); each part therefore behaves
as its own specification says (`PartsBehaveAsAlone`), and `BoardTypeCorrect` and
`CardIsSound` collect what the theorems about the parts give (`ImplementsBag` for one
processor).  All constants are arbitrary
here, under the union of the parts' assumptions.

### Proved only

`MaskGate` (`MaskIsGate`) and `CopiesLand` (`FramesLandInPlace`) are theorems that no run
repeats: on the runs' instances the refinements `ImplementsGate` and `ImplementsQueue`, which
are checked there, say nearly the same.  `MaskGate` adds that the mask stays shut to the end of
the bottom half, `CopiesLand` that nothing but the ring is written.

### Checked by TLC only

* Liveness under fairness (`WorkDone`, `Rearmed`, `PeriodsReported`,
  `ProbeAndRemovalEnd`): the proof system cannot do `ENABLED`.
* The properties of runs that look for a disagreement, which are false.

Nothing rests on an induction theorem of the library.  Where the links of a list or the
places of a table are counted, a least counterexample does instead (`LeastNatural`).

## 7. Not modelled, and why

What the code does and no property claims otherwise:

* Lost updates of bit fields when several processors write GPIO registers: they
  happen (`TL880Gpio` shows it with `SMP`), and no document claims otherwise.  `PinsKept`
  is for one processor.  So are they on 0x10000: `TL880Fb` has them, and `ShownIsReady`
  holds although a stale value is written back.
* The callback list on several processors: a walk of the top half can stand on a node
  that a process frees (`TL880Callbacks` shows it with `Parallel`), and two additions
  can lose one.  A TODO in the code says "maybe add a mutex"; nothing promises more,
  so the property is for one processor.
* Overlapping operations on the decoder corrupt each other; the properties exclude
  them, the model does not.
* A card pulled while an ioctl uses it (`Unplug`): nothing in the driver guards it.  A
  framebuffer or an ALSA card that outlives its card: `TL880Registry` lets it happen and
  `ClientsSound` is for the time before the first pull.
* START clears the ring that the application has filled since PREPARE, so the first
  samples are lost; no document says they are kept.  `CopiesLand` speaks of what was
  written after.  A tone on line 0 of an MDP-120 does the same to the ring's start.
* The end of that tone leaves the audio unit on and row 4 of the matrix zero
  (`driver/tl880gpio.c` 378), so `AudioAsAsked` asks for the identity only as long as
  nobody has used the line.
* The two levels of the decoder's lines 8 and 9 (MDP-120, MDP-130) cannot tell 44.1 kHz
  from 64 kHz or 72 kHz, and the WinTV-HD and HiPix accept every rate and set nothing:
  `AudioAsAsked` speaks of rates for the cards whose lines have three levels.
* The first of several releases of the framebuffer turns the video output off for all,
  and what is drawn between the registration and the clearing at 956 is wiped.
* The framebuffer's picture (0x300000 to 0x600000) and list (0x2d8000) lie inside the
  allocator's pool without being taken from it ("TODO: use TL880 memory allocation",
  `tl880fb/tl880fb.c` 888), and the pool itself ends 0xef000 bytes beyond the memory
  (`driver/tl880mem.c` 193): facts of the constants.
* The scaler cannot express some sizes: its step has eight bits, and the errors beside
  it come out right only if `(256 * a / w) / 256 * w` is a multiple of 16
  (`Representable`).  1080 lines on the 540 of an interlaced field are not, and
  `tools/dpc/dpcsync.c` 635 says "1920x1080i doesn't work (yet)".  Of the four words in
  `doc/tl880doc.txt` for sources of 512, three come out of `Scaler` and are checked.
* `set_sync_1024x768p` sets a back porch of 0x19, 25, where its comment and the table of
  the driver have 31; both are kept as they are.

Left out:

* What a row of the matrix weighs, volume and equaliser registers of the audio chip, clock
  and SDRAM constants, the colour matrix, text formats.
* The field interrupts of `driver/tl880dpc.c`, transcribed from a Windows driver whose
  state is commented out: which branch runs is decided by constants.
* `tl880_set_mode` and `tl880_apu_start_ioc` have no caller; they are here as functions
  (`Packed`, `StartIocMatrix`), not as steps.
* Components with no caller in the tree: auxiliary DMA, OSD memory, cursors, the copies
  that swap bytes or words.  The search for a larger OSD block (`driver/tl880osd.c`
  138) neither returns after a split nor goes on to the next block, so it never ends.
* An open of the PCM that fails (`driver/alsa/tl880alsa.c` 458), which frees the
  substream's data and leaves its destructor installed: it takes a constraint that the
  driver's own ranges never violate.  A module initialisation that fails half-way
  (`driver/tl880kern.c` 988), which always leaves behind what came before.
* The wait for a firmware handshake in `driver/tl880demux.c`: the other side is firmware
  that is not in the tree.

## 8. Plan

The order was: what runs concurrently and unlocked first (interrupt engine), then
what decides whether pointers are valid (registry, life cycle), then the algorithms
(allocator), then the clients (PCM, I2C, pins, decoder), then what is shown and heard
(samples, audio unit, display), and last the abstract specifications that these implement
and the card they make up.  These are done, and every safety property, action property and
refinement that a run expects to hold is a theorem.  What is left:

1. The two views of the ring in one module, `TL880Pcm`'s positions and `TL880Copy`'s
   frames.  "A reported period has been played" is not true of the code: the timer
   compares with a static position that can be a former stream's
   (`driver/alsa/tl880alsa.c` 234), so the statement needs the condition of `NoLostPeriod`.
2. The retries of the audio chip (`driver/tl880msp.c` 67), with its registers.
3. The callback list on several processors, if the mutex of the TODO is ever added.
