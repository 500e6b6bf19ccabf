--------------------------- MODULE DemandDmaRingInv ---------------------------
(***************************************************************************)
(* The shape of the ring: the full blocks are the run that starts at the   *)
(* reading block, and the hook works at the end of that run.               *)
(***************************************************************************)
EXTENDS DemandDmaInv, DemandDmaQueue

\* Blocks from the reading block to b, along the ring.
Dist(b) == IF b >= reading THEN b - reading ELSE b - reading + NumBlocks

RunOfFull == \A b \in Blocks : IsFull(b) <=> Dist(b) < FullBlocks

\* The block the hook has, or will have, in hand.
HookBlock == IF ipc = "advance" THEN DmaNext(writing) ELSE writing
HeadFollows ==
    hook /\ writing # Dummy => \/ Dist(HookBlock) = FullBlocks
                               \/ Dist(HookBlock) = 0 /\ FullBlocks = NumBlocks

\* At most the reading block is in the user's hands.
OnlyReadingSynced == \A b \in Blocks : block[b] = "synced" => b = reading

\* A call in ddma_mark frees the reading block, and then stands right behind it.
NoOvertaking == NumBlocks > 1 \/ MarkOutrunsFill
MarkOk(t) ==
    /\ pc[t] = "free" => idx[t] = reading
    /\ pc[t] = "restart" => DmaNext(idx[t]) = reading
    /\ pc[t] = "restart" /\ blstat = "blocked" /\ NoOvertaking =>
           ~IsFull(idx[t]) \/ writing # idx[t]
    /\ pc[t] = "restart" /\ MarkOutrunsFill =>
           \/ block[idx[t]] = "free"
           \/ block[idx[t]] = "dma" /\ chan = "busy"
MarkInv == \A t \in Threads : MarkOk(t)

\* A DMA that waits has all blocks full, or a call about to restart it.
BlockedInv ==
    blstat = "blocked" => \/ FullBlocks = NumBlocks
                          \/ \E t \in Threads : pc[t] = "restart" /\ idx[t] = writing

\* The number of the block not yet noticed precedes the one that comes next.
DataInv == Unnoticed => nextTag = NextTag(data[writing])

RingInv == /\ RunOfFull /\ HeadFollows /\ OnlyReadingSynced /\ MarkInv
           /\ BlockedInv /\ DataInv

\* sem_irqinfo has one holder, and what the irq thread took is gone when it sleeps.
SemInv ==
    /\ tpc = "store" <=> sem = "handler"
    /\ tpc = "sleep" => tcmd = {}
    /\ \A t \in Threads : pc[t] = "got" => sem = "user"
    /\ \A t, u \in Threads : pc[t] = "got" /\ pc[u] = "got" => t = u

\* One file has the interrupt, and keeps it during its calls.
OwnedInv ==
    /\ \A f, g \in Fds : owned[f] /\ owned[g] => f = g
    /\ \A t \in Threads : pc[t] \in {"get", "got", "clear", "check"} => owned[FdOf[t]]
    /\ status # "invalid" => owner \in Fds

\* A DMA that waits for a user who has reserved the interrupt has announced itself,
\* and in a way the end of irq_get does not take back.
Stalled == (status = "running" \/ Launched) /\ blstat = "blocked" /\ owned[owner]
OnItsWay == \/ ipc = "notify" \/ "ddma" \in command \/ "ddma" \in tcmd
            \/ block[reading] = "synced"
StallInv == Stalled => /\ Announced
                       /\ (\E t \in Threads : pc[t] = "got") => OnItsWay

\* The block that is being marked has been filled again before dma->spin was taken.
Overtaken(t) == pc[t] = "restart" /\ IsFull(idx[t]) /\ blstat = "blocked"
MarkOvertaken == FullBlocks = NumBlocks /\ \E t \in Threads : Overtaken(t)

\* The steps that lose an announcement: the irq thread writes back an older value of
\* pending_irqs, ddma_mark takes its error return instead of announcing, irq_ack takes
\* back the announcement of a block that has not been handed out.
LostUpdate == HandlerStore /\ pending /\ ~pending' /\ ~AtomicPending
Refused(t) == DdmaMarkRestart(t) /\ Overtaken(t) /\ writing # idx[t]
LateAck(t) == IrqAck(t) /\ block[reading] # "synced"
Unannounced == LostUpdate \/ \E t \in Threads : Refused(t) \/ LateAck(t)
=============================================================================
