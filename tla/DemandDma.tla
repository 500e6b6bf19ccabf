------------------------------ MODULE DemandDma ------------------------------
(***************************************************************************)
(* Demand-mode DMA of the sis1100 driver (sis1100_ddma.c and the parts of  *)
(* sis1100_irq.c, sis1100_irq_thread.c, sis1100_irq_handler.c and          *)
(* sis1100_open.c it lives on).                                            *)
(*                                                                         *)
(* A process maps a ring of blocks, starts the DMA, waits for a block to   *)
(* be announced, reads it and marks it free again.  Four parties run       *)
(* concurrently: the PLX DMA channel 0, the interrupt handler with its     *)
(* hook plxirq_dma0_hook, the irq thread, and the user threads inside      *)
(* ioctl and release.  The granularity is one step per section between two *)
(* points where another party can observe or disturb the driver: a section *)
(* under dma->spin is one step, everything outside a lock is split.        *)
(*                                                                         *)
(* Calls that are refused (EPERM, EINVAL, EALREADY, ESRCH, EBUSY) change   *)
(* nothing and are not steps: the guards are the conditions under which    *)
(* they are accepted.  The link is up and the remote side is a             *)
(* sis1100_hw_lvd, the only one that uses demand DMA.                      *)
(***************************************************************************)
EXTENDS Integers

CONSTANTS
    NumBlocks,          \* dma->numblocks
    TagMod,             \* data in a block is a counter modulo TagMod
    Threads, Fds, FdOf, \* user threads, open device files, FdOf[t] is t's file
    None,               \* no thread, no file
    StopWaitsForIntr,   \* no interrupt handler outlives the middle of ddma_stop
    AbortMayFail,       \* the channel may refuse to stop (EIO in ddma_stop)
    DummyAllocMayFail,  \* pci_alloc_consistent for the dummy block may fail
    MarkOutrunsFill,    \* ddma_mark reaches its lock before one more block is full
    AtomicPending,      \* pending_irqs |= x is one memory access (one processor)
    AckBeforeMark       \* callers acknowledge before they mark, never after

Blocks == 0 .. NumBlocks - 1
Dummy  == -2            \* writing_block while the dummy block is in use
Tags   == 0 .. TagMod - 1

ASSUME NumBlocksAssumption == NumBlocks \in Nat \ {0}
ASSUME TagModAssumption    == TagMod \in Nat \ {0}
ASSUME FdOfAssumption      == FdOf \in [Threads -> Fds]
ASSUME NoneAssumption      == None \notin Threads /\ None \notin Fds
ASSUME SwitchAssumption    ==
    /\ StopWaitsForIntr  \in BOOLEAN
    /\ AbortMayFail      \in BOOLEAN
    /\ DummyAllocMayFail \in BOOLEAN
    /\ MarkOutrunsFill   \in BOOLEAN
    /\ AtomicPending     \in BOOLEAN
    /\ AckBeforeMark     \in BOOLEAN

VARIABLES
    \* struct demand_dma
    status,    \* invalid | ready | running
    owner,     \* the file that mapped the blocks
    mux,       \* the thread that holds dma->mux, or None
    spinHeld,  \* dma->spin was left locked by a call that has returned
    blstat,    \* running | blocked | aborting
    writing,   \* writing_block
    reading,   \* reading_block
    block,     \* status of each block: free | dma | full | synced
    \* PLX channel 0
    chan,      \* idle | busy
    target,    \* block the channel was last started on
    done,      \* done interrupt latched (cleared by DMACSR0 bit 3)
    dmaEn,     \* dma0 interrupt enabled in INTCSR
    data,      \* what the channel last wrote into each block
    nextTag,   \* what it will write next
    \* interrupt handler and irq thread
    hook,      \* sc->plxirq_dma0_hook is set
    ipc,       \* where sis1100_intr is
    command,   \* sc->handlercommand.command: subset of {"ddma", "other"}
    woken,     \* wake_up_process(sc->handler) not yet consumed
    tpc,       \* where the irq thread is
    tcmd,      \* the command it took
    tval,      \* the value of the DDMA bit it loaded
    sem,       \* sem_irqinfo: free | handler | user
    pending,   \* ZELLVD_DDMA_IRQ in sc->pending_irqs
    autoack,   \* ZELLVD_DDMA_IRQ in sc->autoack_mask
    \* device files and user threads
    fdstate,   \* closed | open | closing
    owned,     \* ZELLVD_DDMA_IRQ in fd->owned_irqs
    pc,        \* where the thread's call is
    idx        \* argument of its ddma_mark, 0 otherwise

ownVars  == <<status, owner, mux>>
ringVars == <<spinHeld, blstat, writing, reading, block>>
dmaVars  == <<ownVars, ringVars>>
chanVars == <<chan, target, done, dmaEn>>
dataVars == <<data, nextTag>>
plxVars  == <<chanVars, dataVars>>
intrVars == <<hook, ipc>>
runVars  == <<tpc, tcmd, tval, sem>>
thrVars  == <<command, woken, runVars>>
irqVars  == <<pending, autoack>>
fileVars == <<fdstate, owned>>
userVars == <<fileVars, pc, idx>>
vars     == <<dmaVars, plxVars, intrVars, thrVars, irqVars, userVars>>

DmaNext(b) == IF b + 1 = NumBlocks THEN 0 ELSE b + 1
NextTag(x) == IF x + 1 = TagMod THEN 0 ELSE x + 1
IsFull(b)  == block[b] \in {"full", "synced"}

Init ==
    /\ status = "invalid" /\ owner = None /\ mux = None /\ spinHeld = FALSE
    /\ blstat = "running" /\ writing = 0 /\ reading = 0
    /\ block = [b \in Blocks |-> "free"]
    /\ chan = "idle" /\ target = Dummy /\ done = FALSE /\ dmaEn = FALSE
    /\ data = [b \in Blocks |-> 0] /\ nextTag = 0
    /\ hook = FALSE /\ ipc = "idle"
    /\ command = {} /\ woken = FALSE /\ tpc = "sleep" /\ tcmd = {} /\ tval = FALSE
    /\ sem = "free" /\ pending = FALSE /\ autoack = FALSE
    /\ fdstate = [f \in Fds |-> "closed"] /\ owned = [f \in Fds |-> FALSE]
    /\ pc = [t \in Threads |-> "idle"] /\ idx = [t \in Threads |-> 0]

-----------------------------------------------------------------------------
(* PLX channel 0.                                                          *)

\* Mutant: the latched interrupt is not cleared.
StartDmaKeepsDone(b) ==
    /\ dmaEn' = TRUE /\ chan' = "busy" /\ target' = b
    /\ UNCHANGED <<done, dataVars>>

\* start_dma: clear the latched interrupt, enable it, launch the channel on b.
StartDma(b) ==
    /\ done' = FALSE /\ dmaEn' = TRUE
    /\ chan' = "busy" /\ target' = b
    /\ UNCHANGED <<dataVars>>

\* The front end has filled the block; the descriptor chain of the dummy block
\* is circular, so the dummy block swallows data for ever.
Fill ==
    /\ chan = "busy" /\ target # Dummy
    /\ MarkOutrunsFill => \A t \in Threads : pc[t] # "restart"
    /\ chan' = "idle" /\ done' = TRUE
    /\ data' = [data EXCEPT ![target] = nextTag]
    /\ nextTag' = NextTag(nextTag)
    /\ UNCHANGED <<target, dmaEn, dmaVars, thrVars, userVars, intrVars, irqVars>>

-----------------------------------------------------------------------------
(* sis1100_intr, dma0 branch, and plxirq_dma0_hook.                        *)

\* The line is asserted; the handler reads INTCSR.
IntrEnter ==
    /\ ipc = "idle" /\ done /\ dmaEn
    /\ ipc' = "ack"
    /\ UNCHANGED <<hook, dmaVars, plxVars, thrVars, userVars, irqVars>>

\* Mutant: INTCSR is written back as it was read.
IntrAckKeepsEnable ==
    /\ ipc = "ack"
    /\ ipc' = "test"
    /\ UNCHANGED <<hook, dmaVars, plxVars, thrVars, userVars, irqVars>>

\* It writes INTCSR back without the dma0 enable bit.
IntrAck ==
    /\ ipc = "ack"
    /\ ipc' = "test" /\ dmaEn' = FALSE
    /\ UNCHANGED <<hook, chan, target, done, dmaVars, thrVars, userVars, dataVars,
                   irqVars>>

\* It calls the hook if there is one; otherwise got_dma0 is of no use here.
IntrTest ==
    /\ ipc = "test"
    /\ ipc' = IF hook THEN "full" ELSE "idle"
    /\ UNCHANGED <<hook, dmaVars, plxVars, thrVars, userVars, irqVars>>

\* The hook marks the current block full.  The sanity check makes it return if
\* the block is not the one in use; with the dummy block in use it looks at the
\* memory before the array, whose content may pass the check or not.
HookFull ==
    /\ ipc = "full"
    /\ \/ /\ writing # Dummy /\ block[writing] = "dma"
          /\ block' = [block EXCEPT ![writing] = "full"]
          /\ ipc' = "advance"
       \/ /\ writing # Dummy /\ block[writing] # "dma"
          /\ ipc' = "idle" /\ UNCHANGED block
       \/ /\ writing = Dummy
          /\ ipc' \in {"idle", "advance"} /\ UNCHANGED block
    /\ UNCHANGED <<hook, spinHeld, blstat, writing, reading, plxVars, thrVars,
                   userVars, ownVars, irqVars>>

\* Mutant: the hook stays on its block if the next one is not free.
HookAdvanceOnlyIfFree ==
    /\ ipc = "advance" /\ ~spinHeld
    /\ ipc' = "notify"
    /\ LET next == IF writing = Dummy THEN Dummy ELSE DmaNext(writing) IN
       \/ /\ blstat = "aborting"
          /\ writing' = Dummy /\ StartDma(Dummy)
          /\ UNCHANGED <<block, blstat>>
       \/ /\ blstat # "aborting" /\ next # Dummy /\ block[next] = "free"
          /\ writing' = next /\ block' = [block EXCEPT ![next] = "dma"]
          /\ StartDma(next) /\ UNCHANGED blstat
       \/ /\ blstat # "aborting" /\ (next = Dummy \/ block[next] # "free")
          /\ blstat' = "blocked"
          /\ UNCHANGED <<writing, block, plxVars>>
    /\ UNCHANGED <<hook, spinHeld, reading, thrVars, userVars, ownVars, irqVars>>

\* Under dma->spin the hook goes on to the next block, to the dummy block when
\* the DMA is being stopped, or declares the DMA blocked.
HookAdvance ==
    /\ ipc = "advance" /\ ~spinHeld
    /\ ipc' = "notify"
    /\ LET next == IF writing = Dummy THEN Dummy ELSE DmaNext(writing) IN
       \/ /\ blstat = "aborting"
          /\ writing' = Dummy /\ StartDma(Dummy)
          /\ UNCHANGED <<block, blstat>>
       \/ /\ blstat # "aborting" /\ next # Dummy /\ block[next] = "free"
          /\ writing' = next /\ block' = [block EXCEPT ![next] = "dma"]
          /\ StartDma(next) /\ UNCHANGED blstat
       \/ /\ blstat # "aborting" /\ (next = Dummy \/ block[next] # "free")
          /\ writing' = next /\ blstat' = "blocked"
          /\ UNCHANGED <<block, plxVars>>
    /\ UNCHANGED <<hook, spinHeld, reading, thrVars, userVars, ownVars, irqVars>>

\* It leaves handlercomm_ddma for the irq thread.
HookNotify ==
    /\ ipc = "notify"
    /\ ipc' = "idle"
    /\ command' = command \cup {"ddma"} /\ woken' = TRUE
    /\ UNCHANGED <<hook, dmaVars, plxVars, userVars, runVars, irqVars>>

\* Any other interrupt source that has work for the irq thread.
IntrOther ==
    /\ ipc = "idle" /\ "other" \notin command
    /\ command' = command \cup {"other"} /\ woken' = TRUE
    /\ UNCHANGED <<dmaVars, plxVars, userVars, runVars, intrVars, irqVars>>

Intr == IntrEnter \/ IntrAck \/ IntrTest \/ HookFull \/ HookAdvance \/ HookNotify

-----------------------------------------------------------------------------
(* sis1100_irq_thread.                                                     *)

HandlerTake ==
    /\ tpc = "sleep" /\ (woken \/ command # {})
    /\ tpc' = "taken" /\ tcmd' = command
    /\ command' = {} /\ woken' = FALSE
    /\ UNCHANGED <<tval, sem, dmaVars, plxVars, userVars, intrVars, irqVars>>

\* pending_irqs |= new_irqs is a load and a store, unless AtomicPending; only
\* sem_irqinfo is held, which ddma_mark and irq_ctl do not take for theirs.
HandlerLoad ==
    /\ tpc = "taken" /\ sem = "free"
    /\ tpc' = "store" /\ sem' = "handler" /\ tval' = pending
    /\ UNCHANGED <<command, woken, tcmd, dmaVars, plxVars, userVars, intrVars,
                   irqVars>>

HandlerStore ==
    /\ tpc = "store"
    /\ pending' = ((IF AtomicPending THEN pending ELSE tval) \/ "ddma" \in tcmd)
    /\ tpc' = "sleep" /\ sem' = "free" /\ tcmd' = {} /\ tval' = FALSE
    /\ UNCHANGED <<command, woken, autoack, dmaVars, plxVars, userVars, intrVars>>

Handler == HandlerTake \/ HandlerLoad \/ HandlerStore

-----------------------------------------------------------------------------
(* User threads.                                                           *)

Fd(t)       == FdOf[t]
Goto(t, l)  == pc' = [pc EXCEPT ![t] = l]
CanCall(t)  == pc[t] = "idle" /\ fdstate[Fd(t)] = "open"
Mine(t)     == status = "invalid" \/ owner = Fd(t)

Open(t) ==
    /\ pc[t] = "idle" /\ fdstate[Fd(t)] = "closed"
    /\ fdstate' = [fdstate EXCEPT ![Fd(t)] = "open"]
    /\ UNCHANGED <<owned, pc, idx, dmaVars, plxVars, thrVars, intrVars, irqVars>>

\* sis1100_ddma_map takes the mutex and frees a mapping that exists.  Called by
\* release (pc "relmap") it asks for no new mapping.
DdmaMapFree(t) ==
    /\ CanCall(t) \/ pc[t] = "relmap"
    /\ mux = None /\ Mine(t) /\ status # "running"
    /\ mux' = t /\ status' = "invalid"
    /\ Goto(t, IF pc[t] = "relmap" THEN "relunmapped" ELSE "mapping")
    /\ UNCHANGED <<owner, idx, plxVars, thrVars, ringVars, fileVars, intrVars,
                   irqVars>>

\* No new mapping was asked for, or there is no memory for the block array.
DdmaMapNone(t) ==
    /\ pc[t] \in {"mapping", "relunmapped"}
    /\ mux' = None
    /\ Goto(t, IF pc[t] = "mapping" THEN "idle" ELSE "relend")
    /\ UNCHANGED <<status, owner, idx, plxVars, thrVars, ringVars, fileVars,
                   intrVars, irqVars>>

\* Success (ready), a block that cannot be mapped (the mutex is released), or no
\* memory for the dummy block (the call returns with the mutex held).
DdmaMapBlocks(t) ==
    /\ pc[t] = "mapping"
    /\ owner' = Fd(t)
    /\ \/ status' = "ready" /\ mux' = None
       \/ UNCHANGED status /\ mux' = None
       \/ DummyAllocMayFail /\ UNCHANGED <<status, mux>>
    /\ Goto(t, "idle")
    /\ UNCHANGED <<idx, plxVars, thrVars, ringVars, fileVars, intrVars, irqVars>>

\* Mutant: the reading block is not reset.
DdmaStartKeepsReading(t) ==
    /\ CanCall(t)
    /\ mux = None /\ owner = Fd(t) /\ status = "ready"
    /\ mux' = t
    /\ block' = [b \in Blocks |-> IF b = 0 THEN "dma" ELSE "free"]
    /\ blstat' = "running" /\ writing' = 0
    /\ hook' = TRUE /\ nextTag' = 0
    /\ Goto(t, "launch")
    /\ UNCHANGED <<status, owner, spinHeld, reading, ipc, data, idx, thrVars, chanVars,
                   fileVars, irqVars>>

\* sis1100_ddma_start: everything before start_dma; a new data stream begins ...
DdmaStart(t) ==
    /\ CanCall(t)
    /\ mux = None /\ owner = Fd(t) /\ status = "ready"
    /\ mux' = t
    /\ block' = [b \in Blocks |-> IF b = 0 THEN "dma" ELSE "free"]
    /\ blstat' = "running" /\ reading' = 0 /\ writing' = 0
    /\ hook' = TRUE /\ nextTag' = 0
    /\ Goto(t, "launch")
    /\ UNCHANGED <<status, owner, spinHeld, ipc, data, idx, thrVars, chanVars,
                   fileVars, irqVars>>

\* ... start_dma ...
DdmaStartLaunch(t) ==
    /\ pc[t] = "launch"
    /\ StartDma(0)
    /\ Goto(t, "launched")
    /\ UNCHANGED <<idx, dmaVars, thrVars, fileVars, intrVars, irqVars>>

\* ... and the end: the interrupt may come before the status says running.
DdmaStartDone(t) ==
    /\ pc[t] = "launched"
    /\ status' = "running" /\ mux' = None
    /\ Goto(t, "idle")
    /\ UNCHANGED <<owner, idx, plxVars, thrVars, ringVars, fileVars, intrVars,
                   irqVars>>

\* sis1100_ddma_stop up to the end of its dma->spin section: a blocked DMA is
\* restarted on the dummy block, because it would block the link.
DdmaStop(t) ==
    /\ CanCall(t) \/ pc[t] = "relstop"
    /\ mux = None /\ owner = Fd(t) /\ status = "running" /\ ~spinHeld
    /\ mux' = t /\ blstat' = "aborting"
    /\ \/ blstat = "blocked" /\ writing' = Dummy /\ StartDma(Dummy)
       \/ blstat # "blocked" /\ UNCHANGED <<writing, plxVars>>
    /\ Goto(t, IF pc[t] = "relstop" THEN "reldisable" ELSE "disable")
    /\ UNCHANGED <<status, owner, spinHeld, reading, block, idx, thrVars, fileVars,
                   intrVars, irqVars>>

\* The front end is told to stop, the interrupt is disabled, the hook removed.
\* With StopWaitsForIntr the write to the front end, which runs into a timeout,
\* has outlasted any interrupt handler on another processor.
DdmaStopDisable(t) ==
    /\ pc[t] \in {"disable", "reldisable"}
    /\ StopWaitsForIntr => ipc = "idle"
    /\ dmaEn' = FALSE /\ hook' = FALSE
    /\ Goto(t, IF pc[t] = "disable" THEN "abort" ELSE "relabort")
    /\ UNCHANGED <<ipc, chan, target, done, idx, dmaVars, thrVars, fileVars,
                   dataVars, irqVars>>

\* Mutant: the result of the abort is not waited for.
DdmaStopAbortNoWait(t) ==
    /\ pc[t] \in {"abort", "relabort"}
    /\ Goto(t, IF pc[t] = "abort" THEN "finish" ELSE "relfinish")
    /\ UNCHANGED <<idx, dmaVars, plxVars, thrVars, fileVars, intrVars, irqVars>>

\* Mutant: the error return keeps the mutex.
DdmaStopAbortKeepsMux(t) ==
    /\ pc[t] \in {"abort", "relabort"}
    /\ \/ /\ chan = "idle" /\ UNCHANGED <<chan, done>>
          /\ Goto(t, IF pc[t] = "abort" THEN "finish" ELSE "relfinish")
       \/ /\ chan = "busy" /\ chan' = "idle" /\ done' = TRUE
          /\ Goto(t, IF pc[t] = "abort" THEN "finish" ELSE "relfinish")
       \/ /\ AbortMayFail /\ chan = "busy" /\ UNCHANGED <<chan, done>>
          /\ Goto(t, IF pc[t] = "abort" THEN "idle" ELSE "relmap")
    /\ UNCHANGED <<target, dmaEn, idx, dmaVars, thrVars, fileVars, dataVars,
                   intrVars, irqVars>>

\* If the channel is not done it is aborted.  Without success the call returns
\* EIO and leaves the status as it is (release goes on regardless).
DdmaStopAbort(t) ==
    /\ pc[t] \in {"abort", "relabort"}
    /\ \/ /\ chan = "idle" /\ UNCHANGED <<chan, done, mux>>
          /\ Goto(t, IF pc[t] = "abort" THEN "finish" ELSE "relfinish")
       \/ /\ chan = "busy" /\ chan' = "idle" /\ done' = TRUE /\ UNCHANGED mux
          /\ Goto(t, IF pc[t] = "abort" THEN "finish" ELSE "relfinish")
       \/ /\ AbortMayFail /\ chan = "busy" /\ UNCHANGED <<chan, done>>
          /\ mux' = None
          /\ Goto(t, IF pc[t] = "abort" THEN "idle" ELSE "relmap")
    /\ UNCHANGED <<status, owner, target, dmaEn, idx, thrVars, ringVars, fileVars,
                   dataVars, intrVars, irqVars>>

DdmaStopFinish(t) ==
    /\ pc[t] \in {"finish", "relfinish"}
    /\ status' = "ready" /\ mux' = None
    /\ Goto(t, IF pc[t] = "finish" THEN "idle" ELSE "relmap")
    /\ UNCHANGED <<owner, idx, plxVars, thrVars, ringVars, fileVars, intrVars,
                   irqVars>>

-----------------------------------------------------------------------------
(* sis1100_ddma_mark: neither the mutex nor, for most of it, the spinlock. *)

DdmaMark(t) ==
    /\ CanCall(t)
    /\ owner = Fd(t) /\ status = "running"
    /\ \E b \in Blocks :
          /\ block[b] = "synced" /\ b = reading
          /\ idx' = [idx EXCEPT ![t] = b]
    /\ Goto(t, "free")
    /\ UNCHANGED <<dmaVars, plxVars, thrVars, fileVars, intrVars, irqVars>>

DdmaMarkFree(t) ==
    /\ pc[t] = "free"
    /\ block' = [block EXCEPT ![idx[t]] = "free"]
    /\ reading' = DmaNext(reading)
    /\ Goto(t, "restart")
    /\ UNCHANGED <<spinHeld, blstat, writing, idx, plxVars, thrVars, ownVars,
                   fileVars, intrVars, irqVars>>

\* Mutant: a blocked DMA is not restarted.
DdmaMarkNoRestart(t) ==
    /\ pc[t] = "restart" /\ ~spinHeld
    /\ Goto(t, "announce")
    /\ idx' = [idx EXCEPT ![t] = 0]
    /\ UNCHANGED <<dmaVars, plxVars, thrVars, fileVars, intrVars, irqVars>>

\* The section under dma->spin: restart the DMA if it is blocked.  The error
\* return for a block that is not the writing block leaves the lock held.
DdmaMarkRestart(t) ==
    /\ pc[t] = "restart" /\ ~spinHeld
    /\ \/ /\ blstat # "blocked"
          /\ Goto(t, "announce") /\ UNCHANGED <<spinHeld, blstat, block, plxVars>>
       \/ /\ blstat = "blocked" /\ writing = idx[t]
          /\ blstat' = "running" /\ block' = [block EXCEPT ![idx[t]] = "dma"]
          /\ StartDma(idx[t])
          /\ Goto(t, "announce") /\ UNCHANGED spinHeld
       \/ /\ blstat = "blocked" /\ writing # idx[t]
          /\ spinHeld' = TRUE
          /\ Goto(t, "idle") /\ UNCHANGED <<blstat, block, plxVars>>
    /\ idx' = [idx EXCEPT ![t] = 0]
    /\ UNCHANGED <<writing, reading, thrVars, ownVars, fileVars, intrVars, irqVars>>

\* Announce the next block if it is full already; of sem_irqinfo nothing is held.
DdmaMarkAnnounce(t) ==
    /\ pc[t] = "announce"
    /\ \/ IsFull(reading) /\ pending' = TRUE /\ woken' = TRUE
       \/ block[reading] = "free" /\ UNCHANGED <<pending, woken>>
       \/ block[reading] = "dma" /\ UNCHANGED <<pending, woken>>
    /\ Goto(t, "idle")
    /\ UNCHANGED <<autoack, idx, command, dmaVars, plxVars, runVars, fileVars,
                   intrVars>>

-----------------------------------------------------------------------------
(* sis1100_irq_wait, _get, _ack and _ctl, for the one bit ZELLVD_DDMA_IRQ.  *)

\* irq_wait: wait_event_interruptible until irq_pending holds, without a lock.
IrqWait(t) ==
    /\ CanCall(t) /\ pending /\ owned[Fd(t)]
    /\ Goto(t, "get")
    /\ UNCHANGED <<idx, dmaVars, plxVars, thrVars, fileVars, intrVars, irqVars>>

\* irq_get under sem_irqinfo: nothing is pending any more, or the reading block is
\* handed to the user, or there is no full block and he gets the vector -1.
IrqGet(t) ==
    /\ pc[t] = "get" /\ sem = "free"
    /\ \/ /\ ~(pending /\ owned[Fd(t)])
          /\ Goto(t, "idle") /\ UNCHANGED <<block, sem>>
       \/ /\ pending /\ owned[Fd(t)]
          /\ status = "running" /\ IsFull(reading)
          /\ block' = [block EXCEPT ![reading] = "synced"]
          /\ Goto(t, "got") /\ sem' = "user"
       \/ /\ pending /\ owned[Fd(t)]
          /\ ~(status = "running" /\ IsFull(reading))
          /\ Goto(t, "got") /\ sem' = "user" /\ UNCHANGED block
    /\ UNCHANGED <<spinHeld, blstat, writing, reading, command, woken, tpc, tcmd,
                   tval, idx, plxVars, ownVars, fileVars, intrVars, irqVars>>

IrqGetAutoack(t) ==
    /\ pc[t] = "got"
    /\ pending' = (pending /\ ~autoack) /\ sem' = "free"
    /\ Goto(t, "idle")
    /\ UNCHANGED <<autoack, command, woken, tpc, tcmd, tval, idx, dmaVars, plxVars,
                   fileVars, intrVars>>

IrqAck(t) ==
    /\ CanCall(t) /\ sem = "free" /\ owned[Fd(t)] /\ pending
    /\ AckBeforeMark => block[reading] = "synced"
    /\ pending' = FALSE
    /\ UNCHANGED <<autoack, dmaVars, plxVars, thrVars, userVars, intrVars>>

\* irq_ctl with a signal: reserve the interrupt, unless another process has it ...
IrqCtlReserve(t) ==
    /\ CanCall(t) /\ \A f \in Fds \ {Fd(t)} : ~owned[f]
    /\ owned' = [owned EXCEPT ![Fd(t)] = TRUE]
    /\ \E l \in {"clear", "check"} : Goto(t, l)
    /\ UNCHANGED <<fdstate, idx, dmaVars, plxVars, thrVars, intrVars, irqVars>>

\* ... acknowledge it, unless SIS1100_IRQCTL_NOCLEAR is given ...
IrqCtlClear(t) ==
    /\ pc[t] = "clear" /\ sem = "free"
    /\ pending' = FALSE
    /\ Goto(t, "check")
    /\ UNCHANGED <<autoack, idx, dmaVars, plxVars, thrVars, fileVars, intrVars>>

\* Mutant: a DMA that is blocked already is not announced.
IrqCtlCheckNot(t) ==
    /\ pc[t] = "check"
    /\ autoack' \in BOOLEAN
    /\ Goto(t, "idle")
    /\ UNCHANGED <<pending, idx, dmaVars, plxVars, thrVars, fileVars, intrVars>>

\* ... and announce a DMA that is blocked already.
IrqCtlCheck(t) ==
    /\ pc[t] = "check"
    /\ autoack' \in BOOLEAN
    /\ \/ /\ status = "running" /\ owner = Fd(t) /\ blstat = "blocked"
          /\ pending' = TRUE /\ woken' = TRUE
       \/ /\ ~(status = "running" /\ owner = Fd(t) /\ blstat = "blocked")
          /\ UNCHANGED <<pending, woken>>
    /\ Goto(t, "idle")
    /\ UNCHANGED <<idx, command, dmaVars, plxVars, runVars, fileVars, intrVars>>

IrqCtlDisable(t) ==
    /\ CanCall(t) /\ owned[Fd(t)]
    /\ autoack' = FALSE
    /\ owned' = [owned EXCEPT ![Fd(t)] = FALSE]
    /\ UNCHANGED <<pending, fdstate, pc, idx, dmaVars, plxVars, thrVars, intrVars>>

-----------------------------------------------------------------------------
(* sis1100_release, entered when the last reference to the file is gone.   *)

\* Mutant: only a running DMA is taken down.
ReleaseKeepsMapping(t) ==
    /\ CanCall(t) /\ \A u \in Threads : Fd(u) = Fd(t) => pc[u] = "idle"
    /\ fdstate' = [fdstate EXCEPT ![Fd(t)] = "closing"]
    /\ Goto(t, IF status = "running" /\ owner = Fd(t) THEN "relstop" ELSE "relend")
    /\ UNCHANGED <<owned, idx, dmaVars, plxVars, thrVars, intrVars, irqVars>>

Release(t) ==
    /\ CanCall(t) /\ \A u \in Threads : Fd(u) = Fd(t) => pc[u] = "idle"
    /\ fdstate' = [fdstate EXCEPT ![Fd(t)] = "closing"]
    /\ Goto(t, IF status = "invalid" \/ owner # Fd(t) THEN "relend"
               ELSE IF status = "running" THEN "relstop" ELSE "relmap")
    /\ UNCHANGED <<owned, idx, dmaVars, plxVars, thrVars, intrVars, irqVars>>

\* EALREADY from ddma_map, ignored.
ReleaseMapRefused(t) ==
    /\ pc[t] = "relmap" /\ mux = None /\ status = "running"
    /\ Goto(t, "relend")
    /\ UNCHANGED <<idx, dmaVars, plxVars, thrVars, fileVars, intrVars, irqVars>>

ReleaseEnd(t) ==
    /\ pc[t] = "relend"
    /\ fdstate' = [fdstate EXCEPT ![Fd(t)] = "closed"]
    /\ owned' = [owned EXCEPT ![Fd(t)] = FALSE]
    /\ Goto(t, "idle")
    /\ UNCHANGED <<idx, dmaVars, plxVars, thrVars, intrVars, irqVars>>

-----------------------------------------------------------------------------
Map(t)    == DdmaMapFree(t) \/ DdmaMapNone(t) \/ DdmaMapBlocks(t)
Start(t)  == DdmaStart(t) \/ DdmaStartLaunch(t) \/ DdmaStartDone(t)
Stop(t)   == \/ DdmaStop(t) \/ DdmaStopDisable(t)
             \/ DdmaStopAbort(t) \/ DdmaStopFinish(t)
Mark(t)   == \/ DdmaMark(t) \/ DdmaMarkFree(t)
             \/ DdmaMarkRestart(t) \/ DdmaMarkAnnounce(t)
Get(t)    == IrqWait(t) \/ IrqGet(t) \/ IrqGetAutoack(t) \/ IrqAck(t)
Ctl(t)    == \/ IrqCtlReserve(t) \/ IrqCtlClear(t) \/ IrqCtlCheck(t)
             \/ IrqCtlDisable(t)
Rel(t)    == Open(t) \/ Release(t) \/ ReleaseMapRefused(t) \/ ReleaseEnd(t)

User(t)   == Map(t) \/ Start(t) \/ Stop(t) \/ Mark(t) \/ Get(t) \/ Ctl(t) \/ Rel(t)

Next == Fill \/ Intr \/ IntrOther \/ Handler \/ \E t \in Threads : User(t)

Spec == Init /\ [][Next]_vars

(* What scheduling gives: the hardware delivers as long as there is a block *)
(* to fill, the interrupt handler runs, the irq thread and the calls that   *)
(* were entered go on and get the mutexes they queue for (hence SF), and a  *)
(* process that serves its interrupt comes back to it.                      *)
InCall(t) == pc[t] # "idle" /\ User(t)

Fairness ==
    /\ WF_vars(Fill) /\ WF_vars(Intr) /\ SF_vars(Handler)
    /\ \A t \in Threads :
          SF_vars(InCall(t)) /\ SF_vars(IrqWait(t)) /\ SF_vars(DdmaMark(t))

FairSpec == Spec /\ Fairness

-----------------------------------------------------------------------------
(* Properties.                                                             *)

CallLabels == {"idle", "mapping", "launch", "launched", "disable", "abort", "finish",
               "free", "restart", "announce", "get", "got", "clear", "check",
               "relstop", "reldisable", "relabort", "relfinish", "relmap",
               "relunmapped", "relend"}
MuxLabels == {"mapping", "launch", "launched", "disable", "abort", "finish",
              "reldisable", "relabort", "relfinish", "relunmapped"}

TypeRing ==
    /\ status \in {"invalid", "ready", "running"}
    /\ owner \in Fds \cup {None} /\ mux \in Threads \cup {None}
    /\ spinHeld \in BOOLEAN
    /\ blstat \in {"running", "blocked", "aborting"}
    /\ writing \in Blocks \cup {Dummy} /\ reading \in Blocks
    /\ block \in [Blocks -> {"free", "dma", "full", "synced"}]
TypePlx ==
    /\ chan \in {"idle", "busy"} /\ target \in Blocks \cup {Dummy}
    /\ done \in BOOLEAN /\ dmaEn \in BOOLEAN
    /\ data \in [Blocks -> Tags] /\ nextTag \in Tags
TypeIntr ==
    /\ hook \in BOOLEAN
    /\ ipc \in {"idle", "ack", "test", "full", "advance", "notify"}
TypeThread ==
    /\ command \in SUBSET {"ddma", "other"} /\ woken \in BOOLEAN
    /\ tpc \in {"sleep", "taken", "store"} /\ tcmd \in SUBSET {"ddma", "other"}
    /\ tval \in BOOLEAN /\ sem \in {"free", "handler", "user"}
    /\ pending \in BOOLEAN /\ autoack \in BOOLEAN
TypeUser ==
    /\ fdstate \in [Fds -> {"closed", "open", "closing"}]
    /\ owned \in [Fds -> BOOLEAN]
    /\ pc \in [Threads -> CallLabels] /\ idx \in [Threads -> Blocks]

\* Every variable of the driver and of the channel stays in its range.
TypeOK == TypeRing /\ TypePlx /\ TypeIntr /\ TypeThread /\ TypeUser

\* The hook's sanity check never fails and the hook never runs on the dummy
\* block (the messages "current block %d has status %d" and "dma0_hook called
\* with active dummyblock", sis1100_ddma.c 63-75).
HookSane == ipc = "full" => writing # Dummy /\ block[writing] = "dma"

\* ddma_mark never takes the error return that keeps dma->spin (358-363):
\* whenever the DMA is blocked it waits for the very block being marked.
SpinNeverLeaked == ~spinHeld

\* The channel only writes into a block that is the driver's at that moment:
\* never into one that is full, handed to the user or free.
NoOverwrite == chan = "busy" /\ target # Dummy => block[target] = "dma"

\* Once ddma_stop has succeeded the channel is idle, and stays so until the next
\* ddma_start; so no DMA runs into memory ddma_map has given back.
StoppedIsIdle ==
    status # "running" /\ (\A t \in Threads : pc[t] # "launched"
                            /\ pc[t] \notin {"finish", "relfinish"})
        => chan = "idle"

\* An interrupt handler in the hook has a mapped ring to work on.
HookHasRing == ipc \in {"full", "advance"} => status # "invalid"

\* The mutex is held by a call in progress, never by one that has returned.
MuxReleased == mux # None => pc[mux] \in MuxLabels

\* No mapping outlives the release of the file that made it.
OwnerIsOpen == status # "invalid" => fdstate[owner] # "closed"

\* A DMA that waits for the user has told the user, if he has reserved the
\* interrupt: the announcement is pending or on its way, the block has been handed
\* out already, or the call that will restart the DMA or announce is in progress.
Announced ==
    \/ pending \/ ipc = "notify" \/ "ddma" \in command \/ "ddma" \in tcmd
    \/ block[reading] = "synced"
    \/ \E t \in Threads : pc[t] \in {"free", "restart", "announce", "clear", "check"}
BlockedIsAnnounced ==
    status = "running" /\ blstat = "blocked" /\ owned[owner] => Announced

\* A blocked DMA gets going again if its owner serves the interrupt.
Serving == status = "running" /\ owned[owner]
BlockedResumes == Serving /\ blstat = "blocked" ~> ~Serving \/ blstat # "blocked"

=============================================================================
