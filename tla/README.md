# Formal model of the sis1100 driver

TLA+ models of `src/dev/pci`, the Linux driver of the SIS1100 PCI card and the
remote crates at the other end of its optical link (VME, LVDS, CAMAC, PCI). The
models follow the Linux files; the NetBSD files are alternates for another kernel.

## The system

| Part | State | Operations | Talks to |
|---|---|---|---|
| Demand-mode DMA (`sis1100_ddma.c`) | `sc->demand_dma`: status, owner, ring of blocks, `blockingstatus`, reading and writing block; PLX channel 0 | map, start, stop, mark (ioctl); `plxirq_dma0_hook` (interrupt) | interrupt handler, irq thread, release |
| Interrupt handler (`sis1100_irq.c`) | INTCSR, local `sr`/`cr`, `got_irqs`, `handlercommand` | `sis1100_intr`, enable and disable | wakes `local_wait` and the irq thread |
| Link monitor (`sis1100_synch_handler.c`, `sis1100_init_remote.c`) | `remote_hw`, `link_up_timer` | link change interrupt, timer, remote initialisation, `SIS1100_REMOTE_RESET` | irq thread, every file's `old_remote_hw` |
| Irq thread (`sis1100_irq_thread.c`) | `pending_irqs`, `irqtimes` | takes the command word, collects interrupts, signals and wakes | files, `remoteirq_wait` |
| Irq calls (`sis1100_irq_handler.c`, `sis1100_poll.c`) | `owned_irqs`, `autoack_mask`, `sig`, `old_remote_hw` | ctl, get, wait, ack, poll | VME irq part, demand DMA |
| VME interrupts (`sis3100rem_irq.c`) | `irq_vects` | enable, handler, get_vector, ack | `sem_hw`, remote registers |
| Block transfers (`sis1100_*_block.c`, `*_dma_linux.c`, `*_loop.c`) | PLX channel 0, `got_irqs` | chunked read and write, DMA or loop | `sem_hw`, interrupt handler |
| Remote accesses (`sis1100_tmp_*.c`, `sis3100rem_*`, `*_loop.c`, `ctrl_rw_block.c`, pipes) | send FIFO, `prot_error`, balance of requests and confirmations | read, write, blind write, register access, word loops, pipelined lists | `sem_hw` |
| System calls (`sis1100_ioctl.c`, `sis1100_ioctl32_linux.c`, `sis1100_read.c`, `sis1100_write.c`, `sis1100_llseek_linux.c`, `sis1100_mmap.c`) | a file's settings and position, byte order, `last_prot_err` | 64- and 32-bit ioctl, read, write, lseek, mmap | all of the above |
| Files (`sis1100_open.c`) | `fdata[]` | open, release | all of the above |
| Life cycle (`sis1100_autoconf_linux.c`, `sis1100_init.c`) | softc, thread, timer, interrupt | probe, remove | all of the above |
| Memory (`sis1100_ddma_map_linux.c`, `sis1100_sgl_map_user_linux.c`, `sis1100_dma_alloc_linux.c`) | page lists, descriptor chains | map, unmap | demand DMA, block transfers |
| Front panel, DSP, EEPROM, transparent mode | registers | one call each | `sem_hw` |

Locks: `sem_hw` (remote registers), `sem_irqinfo` (`pending_irqs`, vectors),
`sem_fdata` (table of files), `dma->mux` (calls of the demand DMA), `dma->spin`
(ring against the hook), `handlercommand.lock`, `lock_intcsr`.

What is hard here: the interrupt handler runs on another processor while a call
is half way through; `remote_hw` and `pending_irqs` are read and written under
different locks or none; the irq thread works on what it took a while ago; an
enabled interrupt is cleared by enabling it; a process dies inside any call; two
threads share a file; the channel may refuse to stop; memory may run out.
`PROJECT.json` lists each of these at its line.

What makes each part correct:

- demand DMA: the blocks a process gets are the blocks the front end filled, in
  order, once; the channel never writes a block the process may read; a stopped
  DMA stays stopped; a DMA that waits for the process has told it;
- link monitor: with nothing under way the driver knows the link, and no process
  keeps taking it for up when it is down;
- irq delivery: an interrupt is announced to its one owner until it is acknowledged;
- transfers: what is reported as transferred was transferred, whatever ended the wait;
- remote accesses: an answer belongs to its request;
- system calls: a call that fails can be made again, although its answer may get lost
  after its work is done; both entries do the same;
- life cycle: nothing runs on memory or registers that were given back.

## The modules

| Module | What it is |
|---|---|
| `DemandDma` | the demand DMA with channel 0, hook, irq thread, irq calls for its interrupt and release; properties |
| `BlockQueue`, `DemandDmaQueue` | what the demand DMA promises (a bounded FIFO), and the refinement mapping |
| `DemandDmaInv`, `DemandDmaProofs` | inductive invariants of channel and hook, of `dma->mux` and of the owner; proofs |
| `DemandDmaRingInv`, `DemandDmaRingProofs` | inductive invariants of the ring and of the announcements; proofs, the refinement of `BlockQueue` among them |
| `LinkMonitor` | link, interrupt branch for link changes, timer, irq thread, remote initialisation, irq calls; properties |
| `LinkMonitorInv`, `LinkMonitorProofs` | inductive invariants and proofs |
| `BlockTransfer`, `BlockTransferProofs` | DMA reads and writes of blocks with the interrupts and link changes they race with; inductive invariant and proofs |
| `IrqDelivery`, `IrqDeliveryProofs` | interrupts of a VME crate and of the card: doorbell, irq thread, ctl, get, wait, ack, release of several files; proofs |
| `RemoteWords`, `RemoteWordsProofs` | accesses word by word with send FIFO, balance and `prot_error`; inductive invariant and proofs |
| `Calls`, `CallsProofs` | ioctl by both entries, read, write, lseek and mmap as functions of card, file and request; proofs |
| `Lifecycle`, `LifecycleProofs` | module, cards that are probed and removed, the error path, and what runs meanwhile; inductive invariant and proofs |
| `MC...` | instances for TLC |

The parts meet at `sem_hw` (one transfer or access at a time), `remote_hw`, the
interrupt handler and the irq thread. Each module holds the branches of
`sis1100_intr` and `sis1100_irq_thread` its part needs, with the interleaving of
the whole; `BlockTransfer` has the link changes of `LinkMonitor` in it, `Calls` the
results of `BlockTransfer` and `RemoteWords` as answers, `Lifecycle` the handler,
timer and thread of all of them.

Definitions named `...Not`, `...Keeps...`, `...If...` and the like, and marked
"Mutant" or "Mutated", are plausible bugs; each property of a passing run is violated
when one of them takes the place of the original, which shows that the property
depends on that code.

### DemandDma

State: `status`, `owner`, `blstat`, `writing`, `reading`, `block` are the fields
of `struct demand_dma`; `mux` is `dma->mux`, and `spinHeld` says that `dma->spin`
was left locked by a call that returned. `chan`, `target`, `done` and `dmaEn` are
the channel: busy or idle, its block, the latched interrupt and its enable bit.
`hook`, `ipc` place the interrupt handler, `command`, `woken`, `tpc`, `tcmd`,
`tval` the irq thread. The single bit `ZELLVD_DDMA_IRQ` stands for `pending_irqs`
(`pending`), `autoack_mask` (`autoack`) and `owned_irqs` (`owned`). `data` numbers
what the front end writes, for the FIFO.

Steps: a section under `dma->spin` is one step; everything outside a lock is
split where another party can interfere. The interrupt handler is IntrEnter
(INTCSR read, interrupt disabled), IntrAck, IntrTest, then the hook's HookFull,
HookAdvance and HookNotify. A call is entered by its first action and goes on
through `pc`: ddma_map is DdmaMapFree, DdmaMapNone and DdmaMapBlocks, ddma_start
DdmaStart, DdmaStartLaunch and DdmaStartDone, ddma_stop DdmaStop, ..Disable,
..Abort and ..Finish, ddma_mark DdmaMark, ..Free, ..Restart and ..Announce;
release runs through stop and map. A call that is refused changes nothing and is
no step.

Assumptions are constants, so that a run says which of them it needs:

- `StopWaitsForIntr`: no interrupt handler that entered before outlives the middle
  of ddma_stop. The code does not wait for it (DemandDmaStopRace); StopCorrect does
  without.
- `MarkOutrunsFill`: a call of ddma_mark reaches its lock before one more block is
  full. A preempted process breaks it (dd_mark_race). The theorems need it for a ring of
  one block only (NoOvertaking).
- `AtomicPending`: `pending_irqs |= x` is one memory access; true on one processor
  only (DemandDmaLost). No theorem needs it.
- `AckBeforeMark`: a process acknowledges before it marks; the other order erases
  the next announcement, which is the caller's mistake.
- `AbortMayFail`, `DummyAllocMayFail`: the channel refuses to stop; no memory.

Where a run shuts a window by one of these, a theorem says what the open window does:
MuxCorrect, OwnerCorrect, StopCorrect, SpinCorrect and AnnounceCorrect name the only
steps after which the promise is broken.
- INTCSR shows the interrupt as active only while it is enabled. The link stays up
  and the remote side is LVDS, the only one with demand DMA.

### LinkMonitor

State: `up`, `attached` are the link and the hardware at its end; `chg`, `en` the
bits `irq_synch_chg` in `sr` and `cr`. `ipc`, `iup` place the interrupt handler,
`timer` is `link_up_timer`, `command`, `woken`, `tcmd` the irq thread's work,
`remote` is `remote_hw`. `sig` and `old` are each file's, `pc` and `reg` place
its call. `sigdue` and `told` are the process: a signal it has not handled, and
what it was told last.

Steps: the handler reads `sr` (IntrRead), disables the interrupt, invalidates and
starts the timer (IntrAct), writes `sr` back (IntrClear) and posts (IntrPost). The
irq thread takes its command, enables the interrupt (which clears it), looks at
the link, initialises the remote side in two steps (look, store), signals and
wakes. `irq_get` is three steps because it reads the volatile `remote_hw` three
times, `irq_ctl` two. A process runs `irq_get` in its signal handler, as the test
programs do.

`Races` says which windows a link change may hit: `init` (between look and store
of the initialisation), `read` (between the reads of an irq_get), `order` (between read
and store of irq_ctl), `clear` (just before an enable clears it), `glitch` (back before
the handler saw it down), `reset` (`SIS1100_REMOTE_RESET` while a change is handled). The
code protects none of them. `doc/ioctl.txt:317-319` promises of changes of the link
"er wird immer in remote_status geliefert" without a condition; the property for that is
DownIsTold, and each of the configurations Link...Race opens one window and violates it.
link_live has `read` open and the others shut: ToldKept says that what a process was
told and what its file remembers part in one step only, a change of `remote_hw` between
the second and the third read of irq_get (`sis1100_irq_handler.c:266-275`). LinkKnown and
LinkSettles are about the driver's side, which the other windows spoil.
The one-second timer outlasts an interrupt handler; a remote side of a known kind is
initialised successfully while the link is up. Of the other interrupts only the wake-up
they cause is modelled.

### BlockTransfer

State: `pc` and `call` are the call that holds `sem_hw` and its locals (`asked`,
`left`, `chunk`, `cnt` for the count it has read, `err` for `prot_error`). `got` is
`got_irqs`, `cr` and `sr` the card's enabled and latched interrupts, `dmaEn` and
`done` channel 0's, `chan` the channel; `quota`, `bc` and `reg` are the words to
come, the card's word counter and `prot_error`; `isnap`, `iup` a running handler;
`up`, `remote`, `timer` the link and what the driver makes of it. `moved`, `short`
and `cut` are history.

Steps: read_dma is ReadSetup, ReadArm (clear `got_irqs`), ReadLaunch, ReadWait or
ReadKilled, ReadCount, ReadStop (abort), ReadFinish, in a loop over chunks;
write_dma is WriteSetup, WriteEnable, WriteGo, WriteWait or WriteKilled,
WriteCheck. The handler reads (IntrEnter) and acts (IntrAct). The remote side
moves words, fails, or ends a block early.

`Faults` says what may happen. The run has `kill` (a fatal signal), `down` (link
changes) and `stuck` (a channel that cannot be stopped). The others each break a
property and name a window that the code leaves open:

- `armed`: a handler runs between enable and clear in write_dma
  (`sis1100_write_dma_linux.c:169`, `172`); what it has seen is erased, and CallEnds is violated;
- `late`: a handler, or an answer, of the call before outlives it; ReportedIsMoved is violated;
- `masked`: a handler serves a disabled protocol error together with a link
  change while read_dma enables it; ShortHasReason is violated;
- `hook`: a demand DMA is blocked and its hook is set; the hook takes the interrupt
  of the read, which waits with `sem_hw` held: CallEnds is violated (TransferHook.cfg).

`Requests` are the words, the address and the size of a word of the blocks asked for; the
run has three bytes that cross the boundary and three 32-bit words that do not reach it.
The copy of a delayed read to the user may fail (CopyFails, EFAULT), after
`last_prot_err` is stored.

NeverCrosses holds for bytes: at the 2 GiB boundary the code takes a number of bytes for the number of words (`sis1100_write_dma_linux.c:84`),
and with words of 2 or 4 bytes a chunk crosses the boundary and may be longer than what
the caller has left (xfer_cross). The same line goes wrong with bytes when a block
reaches the end of the address space: the sum in line 83 wraps to 0, and
`0x80000000U-addr` is more than the block. BoundaryCorrect is about words of any size and
names these writes (Exposed): the others keep to their side. In fifo mode, which a write may have, the address stays.

When the link is lost, a read reports the word count of the chunk before as its own,
against `doc/ioctl.txt:154` (NumIsMoved, TransferStale.cfg); ReportedIsMoved leaves calls
out whose error is an abort. A remote side other than VME does not tell how much of a
failed write it took, so ReportedIsMoved leaves that case out.

### IrqDelivery

State: `line` and `vec` are the requests of crate and card and the vector a level
offers, `en` what is enabled, `sent` the requests whose doorbell was rung; `bell`,
`cmd` and `th` the handler's words and the irq thread with its `new_irqs`; `pending`,
`vects`, `autoack` are `pending_irqs`, `irq_vects` and `autoack_mask`; `fd` is each
file with the call it is in; `told` is what its process has been signalled for.

Steps: the thread takes the command word, locks `sem_irqinfo`, serves (blocks levels,
fetches vectors), stores, signals and wakes. irq_ctl is CtlReserve, CtlAck, CtlSet, or
CtlOff and CtlRelease; irq_get is one section under `sem_irqinfo`; release is Release
and Close, and leaves `pending_irqs` and `autoack_mask` as they are.

What the code does and the properties allow for: irqs of the crate controller stay
enabled after a release, since cleanup_fd writes only the register of the bus levels
(`sis1100_open.c:95`), so EnabledIffOwned asks of levels only that nobody's are
enabled; sis1100_lemo_handler masks with the decimal 30000 (`sis1100_lemo_handler.c:38`),
so front panel interrupts of the card never arrive; irq_get with autoack acknowledges
every interrupt it was asked for and reads one vector, so with two levels the lower one's
is lost (`sis1100_irq_handler.c:329`), and irq_serve has one level. `autoack_mask` is
changed without a lock, which is one step here.
`Faults`: `preempt` lets the irq thread run inside irq_ctl, between the acknowledge
(157-163) and the store of the signal (171); a file then gets no signal for an
interrupt that is pending, although `doc/ioctl.txt:282` promises one (">0: Das angegebene
Signal wird an den Prozess gesendet."): SignalFollows is violated (IrqSignalRace.cfg).
`noclear` allows SIS1100_IRQCTL_NOCLEAR together with a signal, with the same effect. The
run irq has `preempt`. Its property SignalKept says that the store of the signal in
irq_ctl, for an interrupt the thread has already gone through with (Unsignalled), is the
only step of anybody that leaves a pending interrupt without its signal.

### RemoteWords

State: `c` is the call: its kind, the words asked and sent, `cc` of wait_for_fifo, the
error so far and the balance it has read. `queue`, `flight`, `dead` are requests in the
send FIFO, at the remote side, and without an answer for ever: their sum is the
`p_balance` register. `old` says how many of them belong to earlier calls; `err` is
`prot_error`, `hdr` whether `tc_hdr` holds a bad confirmation, `latch` irq_prot_l_err.
`ok`, `bad`, `ret` are history: words done before the first failure, and what the last
call returned.

Steps: Put writes a request. Poll is the `do ... while (error == sis1100_e_dlock)` of
single accesses, read loops and write_pipe; GateOpen, GateClosed and GateError are
wait_for_fifo; DrainBalance and Drain the loop at the end of the write loops; PipeDone
and PipeSignal the end of the pipelined reads. The card sends; the remote side
confirms, fails, or lets everything time out.

What the card does is external and taken from how the code uses it: `prot_error` keeps
the first error until read, is "dead lock" while something is outstanding, and a
confirmation stuck behind incoming data (`le_dlock`) is reported only for the request
the call waits for, after which nothing is confirmed until `prot_error` is read. The cap
of 1,000,000 rounds in wait loops is left out.

What the code does and the properties allow for: single writes and reads look at
`t_hdr`, the header they have sent, instead of `tc_hdr` (`sis1100_tmp_write.c:79`), so
a bad confirmation that was held back counts as good: NoErrorMeansDone leaves these
kinds, and the blind write, out. wait_for_fifo takes a transient dead lock as an error.
The failure of a blind write, and an error left from before, is blamed on the next call.
The wait of a pipelined read has no timeout; CallEnds leaves it out.

### Calls

A handler is an operator that takes the card `s`, the file `d`, the request and what
hardware and user memory answer, and gives the new card and file, the result, what
the user gets, what hardware is touched, and whether the byte order is updated. `sc`
is the softc, `fd` the files, `upd` who is in sis1100_update_swapping (two steps:
read, write), `link` what the irq thread will store. `Native` and `Compat` are the
two entries: the copy of the arguments, Dispatch or Dispatch32, and the copy of the
answer, which may fail after the work is done. An answer `w` of hardware and memory says
what went wrong: the remote side's error and the words moved before it, a signal, a lost
synchronisation, a DMA that does not end, no memory, or which copy fails. ReadDma,
ReadPipe and WriteDma give the results of the transfers with their late errors: EIO and
ERESTARTSYS after an abort, EFAULT of the copy of a delayed read, each with `last_prot_err`
stored already (Told). Calls that change nothing are not steps; the properties evaluate
them in every state.

What a failed call leaves is therefore not nothing. RetryIsSafe says that it can be made
again: it has changed nothing, or all it was asked for, and then the same call succeeds
and changes no more; read and write leave position and settings and only `last_prot_err`
is new. What was sent to the remote side, a FIFO that was read for instance, is not
taken back: the property is about the driver's settings.

What the code does and the properties allow for, `SameAnswer` by `Unlike32`: the
32-bit pipelined read does not return its number; 32-bit DSP_READ calls dsp_load
(`sis1100_ioctl32_linux.c:475`); three calls are unknown to the 32-bit entry; 32-bit
SWAP does not test for a negative value (376-387), which `doc/ioctl.txt:432` gives a
meaning to, and is left out. ioctl_ctrl_block_check refuses the last word
(`sis1100_ioctl.c:145`); write on an irq file returns a positive 14 when the copy
fails; a write to `ctrl` advances the position; read_pipe_seq reports every word even
after an error; `ioctl_mindmalen` counts words where `doc/ioctl.txt:101` says bytes;
reads of the ram are not limited by `ram_size`.
`Concurrent = TRUE` lets two calls meet in sis1100_update_swapping, which has no
lock, and SwapSettles is violated; SwapCorrect says in which step only. A master reset is
assumed to keep the swap bits. REMOTE_RESET starts InitRemote anew, whose course is in
`LinkMonitor`. The SDRAM ends below Limit, which stands for 0xffffffff, and `Width` for
2^32, at which the end of a block of registers wraps (`sis1100_ioctl.c:145`).

### Lifecycle

State: `mod` and `mhas` are the module and what it holds. `devdata` is
`sis1100_devdata`, `unit` each card's place in it. Each card has its place in probe and
removal (`pc`), what is held for it (`has`), and what remains to be given back (`down`),
in the order of done_sis1100_device (`Teardown`) or of the labels of init_sis1100_device
(`Undo`). `intcsr`, `intr`, `armed`, `cmd`, `th`, `stop` are its handler, `link_up_timer`
and irq thread; `file` and `show` say on which card a process has a device file and of
which it reads sysfs.

Steps: Probe looks for a free place without a lock, then Acquire one thing after the
other (the place among them), or AcquireFails and the labels; Release one thing, with the
waits of free_irq, device_remove_file and kthread_stop, which let nobody in any more;
interrupts, the timer, the thread and users at any moment. Open leads by the number of
the node to the card's cdev, and by the same number to `sis1100_devdata`.

`pc = "lost"` is where the code leaves something that is going to be used: the timer
armed or device nodes left by a failed probe, a file open across a removal, a probe that
fails for want of a DMA mask but returns 0. What follows for the module is undefined, so
that no further card is probed and the module is not unloaded (`Sound`); cards that are
there go on. The properties say what held until then.

Constants: `Cards`, `MaxCards` and `Procs` are any. `Busy` are the cards on whose
interrupt line something happens; it only keeps the instances small. `SerialProbes` says
that the kernel probes one card at a time, as it does for the cards it finds on one bus.
The code does not see to it: two probes at once find the same place free
(`sis1100_autoconf_linux.c:208-223`), and NothingLeft is violated (LifeProbeRace.cfg).
The interrupt's read-modify-write of INTCSR against sis1100_done's write
(`sis1100_irq.c:113`, `sis1100_init.c:416`) is left out.

## The runs

| Run | Instance | Shows |
|---|---|---|
| dd_ring | 1 process, 3 blocks, data mod 3, mark delayed at will, EIO, torn `pending_irqs` | the ring is never corrupted; refinement of the FIFO |
| dd_two | 2 processes, 2 blocks, mark in time, atomic `pending_irqs` | blocked DMA announced, no mapping outlives its file, the spinlock released |
| dd_live | 1 process, 2 blocks, the same | a blocked DMA resumes if its owner serves it |
| link_live | 1 file, a known and an unknown kind of hardware, the window `read` open | the driver's and the process's picture of the link and the one step that parts them; it settles, a sleeper gets the news |
| transfer | 3 bytes across the boundary, 3 words of 32 bits below it, in chunks of 2; kill, link changes, stuck channel, failing copy | counts, reasons and the channel after a call; every call ends |
| irq | 2 files of 2 processes, a bus level and a controller interrupt, irq_ctl preempted | one owner, enabled exactly when owed, wake-ups, and the one step that loses a signal |
| irq_serve | 1 file, a level with 2 vectors, autoack, mailbox, irq_ctl preempted | vectors kept, requests served |
| words | all kinds, up to 5 words, a FIFO of 12, all faults | send FIFO, counts, errors, what is left behind; calls end |
| calls | 1 file of each subdevice, 3 kinds of remote side, errors early and late | both entries, failed calls made again, old values, byte order |
| life | the module, 2 cards (one quiet), 1 place, 2 processes | nobody outlives what it uses, nothing is left for the next card, removal ends |
| dd_mark_race, xfer_cross | findings | see below |

Three blocks are the least with which the writing block, the reading block and a
block between them differ; two are enough where only full and not full matter.
Three data numbers show a block that is lost, repeated or out of place, unless
three blocks in a row are. One file is enough for the link: files do not interact
there except through `sem_irqinfo` and `sem_hw`, which the irq thread contends for as
well. A transfer of three words has a full chunk, a short one and a boundary between
them. Five words and a FIFO of 12 (room for two or three requests) make wait_for_fifo
close, count and open again; up to two requests of earlier calls may be left. Two
files are enough for ownership, which is pairwise; two vectors tell a kept one from a
replaced one; irq_serve has one file because autoack and the irq thread are what may
drop a vector. Of the two, one orders both
interrupts and the other the bus level. Settings in `calls` take every class of value its
handlers tell apart (negative, zero, positive, too large), and every request that changes
settings is answered with each copy failing; transfers with each way they end. In `life` two cards want one place, so
that the second finds what the first leaves; the properties are about one card, or one
and the holder of its place. One of the two has no interrupts, timer or commands: cards
share no interrupt state, and LifeTwo has a place for each. Nothing else is bounded.
`CHECK_DEADLOCK FALSE`: without processes and link changes a driver rests; in `life` a
card that is lost ends the run.

Findings, which `PROJECT.json` quotes line by line:

- dd_mark_race: ddma_mark preempted before its lock returns with `dma->spin` held.
- xfer_cross: a DMA write of 32-bit words crosses the 2 GiB boundary, which its comment rules out.

Two promises of `doc/ioctl.txt` that the code breaks are shown by configurations outside
the runs, the runs being about what does hold with the same windows open: DownIsTold
(lines 317-319; LinkReadRace, LinkInitRace, LinkClearRace; ToldKept in link_live) and
SignalFollows (line 282; IrqSignalRace; SignalKept in irq).

Configurations outside the runs show what else the code does not protect:

| Configuration | Violates | Because |
|---|---|---|
| DemandDmaStopRace | StoppedIsIdle | ddma_stop does not wait for a handler that has entered |
| DemandDmaLost | BlockedIsAnnounced | `pending_irqs` is changed under two locks |
| DemandDmaNoMem | MuxReleased | ddma_map returns with the mutex when the dummy block fails |
| LinkInitRace, LinkReadRace, LinkClearRace | DownIsTold | a link change hits the initialisation, the reads of a call, or an enable that clears it |
| TransferStale | NumIsMoved | after the loss of the link the count of the chunk before is reported |
| TransferHook | CallEnds | a block read next to a blocked demand DMA |
| IrqSignalRace | SignalFollows | the irq thread runs inside irq_ctl |
| LifeProbeRace | NothingLeft | two probes take one place in `sis1100_devdata`, which is searched without a lock |

DemandDmaServe passes: SpinNeverLeaked with three blocks and one process. LifeTwo passes:
the invariants of `life` with a place for each of two cards. The window
`glitch` violates DownIsTold like `clear`: what happens in the second in which the
interrupt is disabled is cleared by `sis1100_synch_handler`, which does not invalidate
`remote_hw` when it finds the link down.

`RingSafe` assumes one thread per device file, and the runs have it: two threads
that mark the same block through one file both pass ddma_mark's tests (336-346),
which are outside `dma->spin`, and the second frees a block the channel is already
writing again.

Fairness.

- dd_live: the front end fills while there is a block (weak), a raised interrupt is
  served (weak), the irq thread and entered calls get the mutexes they queue for
  (strong: a mutex queue is fair, but the guard comes and goes), and the process calls
  irq_wait and mark again (strong; an assumption about the process, without which
  nothing resumes).
- link_live: an enabled interrupt is served, the timer expires, the irq thread and
  entered calls go on, a signalled process runs its handler. No process is assumed to
  call anything there, and no link to change.
- transfer: an entered call goes on, a raised interrupt is served, the remote side
  answers or the link goes (weak). No signal is assumed to come.
- irq_serve: doorbell, handler and irq thread (weak); calls that queue for
  `sem_irqinfo`, and a process that acknowledges again and again (strong).
- words: calls and the card go on; every request is answered or times out (weak).
- life: what has begun goes on: probe, error path, removal, a handler that has entered,
  the irq thread and a reader of sysfs (weak). No strong fairness is needed, because
  free_irq and device_remove_file close the door before they wait. Interrupts, the
  timer, users, removals and the module need not come.

## What is proved

TLAPS checks, for every number of blocks, threads, files, kinds of hardware, words and
sizes of the send FIFO, interrupts, vectors and masks:

- `DemandDmaProofs!TypeCorrect`: `Spec => []TypeOK`, from the assumptions on the
  constants only.
- `DemandDmaProofs!EngineCorrect`, `RingSafe` and `HookCorrect`: with one
  thread per file and `StopWaitsForIntr`, NoOverwrite, HookSane, StoppedIsIdle and
  HookHasRing always hold. None of them is inductive. `EngineInv` describes a started DMA
  as being in one of four phases: filling a block, filled with the interrupt latched or
  being handled, between two blocks inside the hook, or waiting for the process; it adds
  what each call has established at the point where it is, and that without the hook the
  channel's interrupt is neither enabled nor handled. The lemmas show that each action
  keeps it, phase by phase.
- `DemandDmaProofs!MuxCorrect`, `OwnerCorrect` and `StopCorrect` have no hypothesis: any
  number of threads, several on one file too, a channel that refuses to stop, no memory,
  a handler in the hook. MuxReleased is lost by one step, the return of ddma_map
  without memory for the dummy block (DummyFails), and never regained; by `MuxInv` a place
  inside the mutex has it. OwnerIsOpen fails only with a DMA that runs on after EIO
  (Orphan); `FileInv` says of each release how far it has come. StoppedIsIdle, with the
  channel idle to the end of ddma_stop (FinishIdle), is lost only by StartedLate: a hook
  that was in progress, or a ddma_mark of another thread, launches the channel once more.
- `DemandDmaRingProofs!RingCorrect`: `[]RingInv`, for any number of blocks. The full blocks
  are those at a distance of less than FullBlocks from the reading block (RunOfFull); the
  hook works at the end of this run, which in a full ring is its beginning (HeadFollows);
  a call in ddma_mark stands right behind the reading block (MarkInv); a DMA that is
  blocked has a full ring or a call about to restart it (BlockedInv). FullBlocks is a
  cardinality: its lemmas say what one block more or less does to it.
- `DemandDmaRingProofs!DeliversInOrder`: the refinement of the bounded FIFO,
  `InOrderDelivery`, from the two invariants. Each action maps to an operation of
  `BlockQueue` or to a stutter. The mapping gives the contents of the queue as the run of
  full blocks, so that what needs proof is that a block noticed is appended at the end of
  that run, one synchronised or freed taken from its beginning, and that the numbers of
  the blocks in between follow each other (DataInv).
- `DemandDmaRingProofs!SpinCorrect`: `dma->spin` is left locked only by a ddma_mark that
  was overtaken (MarkOvertaken): the block it has freed has been filled again and the
  whole ring is full, which is dd_mark_race. `AnnounceCorrect`: StallInv, which implies
  BlockedIsAnnounced, says that the announcement of a DMA that waits for its user is on
  its way (the posted command, the irq thread's copy, the pending bit) and that irq_get does
  not take it back. Three steps lose it (Unannounced): a torn store of `pending_irqs`
  (LostUpdate, DemandDmaLost), the error return of an overtaken ddma_mark (Refused), an
  acknowledge that comes after the mark (LateAck). Both need RingInv, and so one thread per
  file, `StopWaitsForIntr` and NoOvertaking, but not a ddma_mark in time nor an atomic
  `pending_irqs`.

RingCorrect and DeliversInOrder assume NoOvertaking: more than one block, or
`MarkOutrunsFill`. A ring of one block is allowed, the test `map->num<2` at
`sis1100_ddma.c:393` being commented out. There ddma_mark may free the block, be
preempted, and find it full and the DMA blocked when it goes on: it restarts the DMA on
the full block, whose data are lost. TLC shows this with NumBlocks = 1; the attempt to
prove the refinement without the hypothesis is how it was found.

- `LinkMonitorProofs!TypeCorrect`: `Spec => []TypeOK`.
- `LinkMonitorProofs!ToldCorrect`: `ToldKept`, with every window open. `ToldInv` says
  which value stands for what was told in the middle of irq_get; each step keeps it but
  GetRaced, a change of `remote_hw` between two reads of one irq_get.
- `LinkMonitorProofs!LinkCorrect`: without the windows `init`, `clear`, `glitch`
  and `reset`, `[]LinkKnown`. `LinkInv` has four parts: a disabled interrupt will
  be enabled (timer, posted command, or command taken); what the irq thread has
  seen of the link stays true until it is stored; a remote side that is known is
  there, or its loss is latched for the handler; one that is there and not known
  is being looked for.
- `LinkMonitorProofs!AnnounceCorrect`: with every window shut, `[]ChangeAnnounced`. It
  needs `CallInv` (a reset finds the hardware that is known already, irq_ctl stores what
  is still true) and that the handler leaves the timer running behind it.

- `RemoteWordsProofs!TypeCorrect`, `FifoCorrect`, `DoneCorrect`, `ReadCorrect` and
  `SettleCorrect`: `[]TypeOK`, `[]FifoBounded`, `[]NoErrorMeansDone`, `[]ReadPrefix` and
  `WriteSettles`, from WordsAssumption alone, for any kinds of calls and any faults.
  `IInv` adds what the properties do not see: `cc` is never below the number of
  requests of the call without confirmation (FifoInv); a failed word is known to the
  call or still in `prot_error` with a header that shows it, and without one the
  words done and under way are the words sent (DoneInv); le_dlock exists only while a
  call waits (DlockInv), for a register access only when nothing else is under way
  (RegInv); a balance read as 0 at the end of a write loop is still 0 (DrainInv); a
  read loop has one word under way at most (ReadInv). Confirmations are the
  difficult step: one may belong to an earlier call, fail, or be held back.
- `IrqDeliveryProofs`, from IrqAssumption and for any number of files: `TypeCorrect`;
  `OwnersCorrect` (`[]OneOwner`), which only CtlReserve could break; `SleepersCorrect`
  (`[]SleeperWoken`), inductive by itself, because only ThreadStore adds to `pending`
  and the thread wakes after it.
- `IrqDeliveryProofs!EnabledCorrect`: `[]EnabledIffOwned` when each file was opened by a
  process of its own (DistinctPids). `EnableInv` follows an interrupt on its way:
  what the doorbell rang is new or pending until the thread stores it (ServeInv); apart
  from what a running irq_ctl deals with, what a file owns is enabled, pending or in
  one of the two doorbell words (CoverOK); each half of irq_ctl and of release has left
  the enable bits as the other half needs them (CallOK); an enabled level has an owner
  (LevelInv). OneOwner gives that a step of one file does not touch what another owns.
  Two files of one process may share interrupts; then the first to release switches
  them off, and the theorem does not speak of it.
- `IrqDeliveryProofs!SignalsCorrect`: `SignalKept`, with every fault. SignalInv, which
  implies SignalFollows, says that what is pending of what a file with a signal owns was
  signalled or is in the thread's hands (ToldOK), and that a file without a signal owns
  nothing but what its irq_ctl is ordering (OrderOK). Every step keeps it but CtlSet with
  Unsignalled.
- `IrqDeliveryProofs!VectorsCorrect`: `VectorKept` with a single level.
- `BlockTransferProofs`: `TypeCorrect`, `ReportCorrect` (`[]ReportedIsMoved`),
  `ReasonCorrect` (`[]ShortHasReason`) and `ChannelCorrect` (`[]IdleAfterSuccess`), for
  requests, chunks, words and addresses of any size and every fault but `late` and
  `masked` (NothingLate): TLC finds ReportedIsMoved violated with `late` and
  ShortHasReason with `masked`. `IInv` says that each word moved is counted once, by
  the loop or by the counter of the running chunk (WordInv); that when a chunk begins to
  wait, `got_irqs`, a running handler and the latched error hold nothing of an earlier
  chunk (IrqInv); that what has woken a call says how the channel ended (ReadInv,
  WriteInv); and that the count a read takes is that of a channel at rest (CountInv). The
  difficult step is IntrEnter: a handler that reads the card between two steps of a call
  must not carry an old error into the wait.
- `BlockTransferProofs!BoundaryCorrect`: for words of any size, each chunk of a write is on
  one side of the boundary and part of what is left, unless the write is Exposed: it
  ends beyond 4 GiB, or reaches the boundary from below with words of more than one byte.
  A write that is not stays so to its end. `CrossInv` adds what is left of the write; the
  lemma ChunkFits is the arithmetic of bit 31.
- `CallsProofs`, from CallsAssumption (the SDRAM has at most 512 MiB,
  `sis1100_init_sdram.c:189-199`, so RamSize is at most Limit): `TypeCorrect`
  (`[]TypeOK`), `RetryCorrect` (`[]RetryIsSafe`), `RestoreCorrect` (`[]Restores`),
  `CompatCorrect` (`[]SameAnswer`) and `SwapCorrect`: whether calls overlap in
  sis1100_update_swapping or not, SwapSettles is lost only by the step that writes what a
  process has read before the settings changed (Stale). The lemmas are about the
  handlers as functions. `Tidy` is what each of them promises to the card and to the
  file: they stay of their types, remote_hw and the swap bits are the irq thread's, and
  who changes the byte order goes on to update the swapping. A failed
  call leaves all as it was (Same), or is one of the setters, which set the same a second
  time (SetterRetry).
  CompatNative is that the two entries do the same.
- `LifecycleProofs`, from LifeAssumption and for any cards, places and processes:
  `TypeCorrect` (`[]TypeOK`), `InvCorrect` and `HostedCorrect`: the parts of CardIsThere
  and NothingLeft about handler, timer, irq thread, readers of sysfs and free cards hold
  however many cards are probed at once. `PlacesCorrect`, `CardCorrect`
  (`[]CardIsThere`) and `LeftCorrect` (`[]NothingLeft`) need SerialProbes: only then does
  the place a probe has found stay free until it is taken (Places), and does the number
  of a node lead to its own card (Files). IInv has for each card what each thing rests on
  (Grounded), what is held at each place (Placed), and what must be held for somebody to
  run (Running): that an armed timer is still to be deleted in a removal, or that no
  command is there in a probe before the interrupt is. Readers, Takers and Loaded tie
  the card to sysfs, `sis1100_devdata` and the module. TakesInOrder and LeavesInOrder
  carry the orders of probe and removal: what is taken rests on what is held, and what is
  given back has nothing left that rests on it. They are where a line of
  done_sis1100_device that is moved breaks the proof. `StopCorrect` (`[]StopSeen`) is
  the safety half of TeardownEnds: a thread that kthread_stop did not find at work or at
  the top of its loop never sleeps again.

The types of `DemandDma`, `LinkMonitor`, `RemoteWords`, `IrqDelivery` and
`BlockTransfer` and HookHasRing are proved and therefore in no run. The
inductive invariants of the ring were checked with TLC on the instances of the runs
before they were proved; `MCDemandDma` extends `DemandDmaRingInv`, so that they can be
named in a cfg.

Only model-checked: all liveness (fairness and ENABLED are out of the prover's reach).
Every invariant and action property of a run has a theorem, which says that it always
holds, or which steps alone may break it where the code leaves a window open. Where a
theorem has a hypothesis (one thread per file, a ddma_stop that waits for the handler, a
ring of more than one block, link changes outside the windows, cards probed one at a time)
the text above says what TLC finds without it.
There is no induction over data in the models, and no RECURSIVE operator.

## Plan

Done: 1 `DemandDma`, 2 `BlockQueue`, 3 `LinkMonitor`, 4 `IrqDelivery`, 5 `BlockTransfer`,
6 `RemoteWords`, 7 `Calls`, 8 `Lifecycle`, 9 its proofs. To come, in this order:

10. `IrqThread`: its sleep with a store buffer. The models take it as sequentially
   consistent, while `sis1100_irq_thread.c:166` sets the state without a barrier.
11. The scatter-gather lists and the error paths of ddma_map, with pinned pages.
12. The EEPROM: the cache a failed read leaves (`sis1100_eeprom.c:262`), the write
   enable a failed write leaves (236).
13. `BlockTransfer` composed with `DemandDma` on channel 0 beyond the fault `hook`.

## Not modelled

Register contents that no decision depends on, data and byte lanes, logging, the
remote registers set up by initialisation; the front panel and the DSP loader, which
are register writes one after the other under a mutex; transparent mode; the NetBSD
files, which are for another kernel; and the test programs. Each part's row in
`PROJECT.json` ("components") gives the reason or what is planned for it.
