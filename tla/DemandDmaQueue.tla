---------------------------- MODULE DemandDmaQueue ----------------------------
(* DemandDma implements BlockQueue: the queue is the run of full blocks that *)
(* starts at the reading block.                                              *)
EXTENDS DemandDma, Sequences, FiniteSets

\* A block has been filled and the hook has not yet marked it.
Unnoticed ==
    /\ hook /\ chan = "idle" /\ \A t \in Threads : pc[t] # "launch"
    /\ writing # Dummy /\ block[writing] = "dma"

FullBlocks == Cardinality({b \in Blocks : IsFull(b)})

FullRun   == [i \in 1 .. FullBlocks |-> data[(reading + i - 1) % NumBlocks]]
NextBlock == IF Unnoticed THEN data[writing] ELSE nextTag
UserHolds == block[reading] = "synced"

Queue == INSTANCE BlockQueue WITH
    Capacity <- NumBlocks, on <- hook, queue <- FullRun, next <- NextBlock,
    held <- UserHolds

\* The ring of blocks delivers every block the front end fills between start and
\* stop exactly once and in order, whatever the interleaving of the channel, the
\* hook, the irq thread and the calls.
InOrderDelivery == Queue!QueueSpec
=============================================================================
