----------------------------- MODULE DemandDmaInv -----------------------------
(***************************************************************************)
(* The inductive invariant behind HookSane, NoOverwrite, StoppedIsIdle and *)
(* HookHasRing.  It holds if every device file is used by one thread and   *)
(* ddma_stop outlasts a running interrupt handler.  MuxInv and FileInv     *)
(* need neither: they stand apart, with the steps that break the promises  *)
(* about the mutex, the files and the stopped channel.                     *)
(***************************************************************************)
EXTENDS DemandDma

OneThreadPerFile == \A t, u \in Threads : FdOf[t] = FdOf[u] => t = u

Launching == \E t \in Threads : pc[t] = "launch"
Launched  == \E t \in Threads : pc[t] = "launched"
NoneInDma == \A b \in Blocks : block[b] # "dma"
OnlyWritingInDma == \A b \in Blocks : block[b] = "dma" => b = writing

\* A call inside the mutex has it, and what it checked on entry is still true.
CallOk(t) ==
    /\ pc[t] \in MuxLabels => mux = t
    /\ pc[t] \in {"mapping", "relunmapped"} => status = "invalid"
    /\ pc[t] \in {"launch", "launched"} => status = "ready" /\ owner = FdOf[t]
    /\ pc[t] \in {"disable", "reldisable", "abort", "relabort", "finish", "relfinish"}
          => status = "running" /\ owner = FdOf[t] /\ blstat = "aborting"
    /\ pc[t] \in {"abort", "relabort", "finish", "relfinish"} => ~hook
    /\ pc[t] \in {"finish", "relfinish"} => chan = "idle"
    /\ pc[t] \in {"free", "restart", "announce"}
          => status = "running" /\ owner = FdOf[t]
    /\ pc[t] = "free" => block[idx[t]] = "synced"
CallInv == \A t \in Threads : CallOk(t)

\* Without the hook no interrupt of channel 0 is enabled or being handled, and a
\* running DMA is being stopped; the channel may still be busy (EIO) on its block.
HookOffInv ==
    ~hook => /\ ~dmaEn /\ ipc = "idle"
             /\ ~Launching /\ ~Launched
             /\ status = "running" => blstat = "aborting"
             /\ status # "running" => chan = "idle"
             /\ chan = "busy" /\ target # Dummy => block[target] = "dma"

\* Between the preparation and start_dma nothing moves.
LaunchInv ==
    hook /\ Launching =>
        /\ ~dmaEn /\ ipc = "idle" /\ chan = "idle"
        /\ blstat = "running" /\ writing = 0 /\ OnlyWritingInDma
        /\ block[0] = "dma"

\* The four phases of a DMA that has been started.
Filling ==
    /\ chan = "busy" /\ target = writing /\ ~done /\ dmaEn
    /\ ipc \in {"idle", "notify"} /\ blstat # "blocked"
    /\ OnlyWritingInDma
    /\ writing # Dummy => block[writing] = "dma"
    /\ writing = Dummy => blstat = "aborting"
Filled ==
    /\ chan = "idle" /\ done /\ blstat # "blocked"
    /\ writing # Dummy /\ block[writing] = "dma" /\ OnlyWritingInDma
    /\ \/ ipc \in {"idle", "notify", "ack"} /\ dmaEn
       \/ ipc \in {"test", "full"} /\ ~dmaEn
Advancing ==
    /\ chan = "idle" /\ ~dmaEn /\ ipc = "advance"
    /\ blstat # "blocked" /\ writing # Dummy /\ NoneInDma
Waiting ==
    /\ chan = "idle" /\ ~dmaEn /\ ipc \in {"idle", "notify"}
    /\ blstat = "blocked" /\ writing # Dummy /\ NoneInDma

RunInv ==
    hook /\ ~Launching => /\ status = "running" \/ Launched
                          /\ Filling \/ Filled \/ Advancing \/ Waiting

EngineInv == CallInv /\ HookOffInv /\ LaunchInv /\ RunInv

\* A call inside the mutex has it.
MuxInv == \A t \in Threads : pc[t] \in MuxLabels => mux = t

\* The return of ddma_map that keeps the mutex: no memory for the dummy descriptor.
DummyFails(t) == DdmaMapBlocks(t) /\ UNCHANGED <<status, mux>>

ReleaseLabels == {"relstop", "reldisable", "relabort", "relfinish", "relmap",
                  "relunmapped", "relend"}

\* What EIO of ddma_stop leaves: a DMA that runs on and that nobody can start again.
Orphan == AbortMayFail /\ status = "running" /\ blstat = "aborting"

\* A file stays open during its calls.  Its release runs alone and finds the mapping
\* it has to take down as it left it.
FileOk(t) ==
    /\ pc[t] \in MuxLabels => mux = t
    /\ pc[t] # "idle" => fdstate[FdOf[t]] # "closed"
    /\ pc[t] \in ReleaseLabels =>
           /\ fdstate[FdOf[t]] = "closing"
           /\ \A u \in Threads : FdOf[u] = FdOf[t] => u = t \/ pc[u] = "idle"
    /\ pc[t] \in {"mapping", "relunmapped"} => status = "invalid"
    /\ pc[t] \in {"launch", "launched"} => status = "ready" /\ owner = FdOf[t]
    /\ pc[t] \in {"disable", "abort", "finish", "relstop", "reldisable", "relabort",
                  "relfinish"} => status = "running" /\ owner = FdOf[t]
    /\ pc[t] \in {"disable", "abort", "finish", "reldisable", "relabort",
                  "relfinish"} => blstat = "aborting"
    /\ pc[t] = "relmap" => owner = FdOf[t] /\ (status = "ready" \/ Orphan)
    /\ pc[t] = "relend" => status = "invalid" \/ owner # FdOf[t] \/ Orphan
FileInv == (\A t \in Threads : FileOk(t)) /\ (OwnerIsOpen \/ Orphan)

\* The channel stays idle from the abort to the end of ddma_stop.
FinishIdle == \A t \in Threads : pc[t] \in {"finish", "relfinish"} => chan = "idle"

\* The channel is launched although it has been stopped: by a handler that was in the
\* hook when ddma_stop removed it, or by a ddma_mark of another thread.
StartedLate ==
    /\ \/ status # "running" /\ \A t \in Threads : pc[t] # "launched"
       \/ \E t \in Threads : pc[t] \in {"finish", "relfinish"}
    /\ chan' = "busy"
    /\ HookAdvance \/ \E t \in Threads : DdmaMarkRestart(t)
=============================================================================
