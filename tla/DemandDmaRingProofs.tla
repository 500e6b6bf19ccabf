------------------------- MODULE DemandDmaRingProofs --------------------------
(***************************************************************************)
(* What TLAPS proves about the order of the blocks in the ring, for every  *)
(* number of blocks, threads and files.                                    *)
(***************************************************************************)
EXTENDS DemandDmaRingInv, DemandDmaProofs, FiniteSetTheorems

-----------------------------------------------------------------------------
(* Distances along the ring.                                               *)

\* Every block has a distance of its own from the reading block, below the number
\* of blocks, and the next block is one further.
LEMMA DistFacts ==
    ASSUME reading \in Blocks
    PROVE  /\ \A b \in Blocks : Dist(b) \in 0 .. NumBlocks - 1
           /\ \A b, c \in Blocks : Dist(b) = Dist(c) => b = c
           /\ Dist(reading) = 0
           /\ \A b \in Blocks :
                 Dist(DmaNext(b)) = IF Dist(b) + 1 = NumBlocks THEN 0 ELSE Dist(b) + 1
BY NumBlocksAssumption DEF Dist, DmaNext, Blocks

\* No block is its own successor, unless it is the only one.
LEMMA NextIsOther == ASSUME NEW b \in Blocks, DmaNext(b) = b PROVE NumBlocks = 1
BY NumBlocksAssumption DEF DmaNext, Blocks

\* When the user goes on to the next block every distance shrinks by one, and the
\* old reading block comes last.
LEMMA DistAfterNext ==
    ASSUME reading \in Blocks, reading' = DmaNext(reading), NEW b \in Blocks
    PROVE  Dist(b)' = IF b = reading THEN NumBlocks - 1 ELSE Dist(b) - 1
BY NumBlocksAssumption DEF Dist, DmaNext, Blocks

-----------------------------------------------------------------------------
(* Counting full blocks.                                                   *)

\* There are never more full blocks than blocks.
LEMMA FullBlocksType ==
    /\ IsFiniteSet({b \in Blocks : IsFull(b)})
    /\ FullBlocks \in Nat /\ FullBlocks <= NumBlocks
<1> DEFINE F == {b \in Blocks : IsFull(b)}
<1>1. IsFiniteSet(Blocks) /\ Cardinality(Blocks) = NumBlocks
  BY FS_Interval, NumBlocksAssumption DEF Blocks
<1>2. F \subseteq Blocks
  OBVIOUS
<1> HIDE DEF F
<1>3. IsFiniteSet(F) /\ Cardinality(F) <= Cardinality(Blocks)
  BY <1>1, <1>2, FS_Subset
<1>4. Cardinality(F) \in Nat
  BY <1>3, FS_CardinalityType
<1> QED  BY <1>1, <1>3, <1>4 DEF F, FullBlocks

\* The count stays if no block becomes full or ceases to be.
LEMMA CountStays ==
    ASSUME \A b \in Blocks : IsFull(b)' <=> IsFull(b)
    PROVE  FullBlocks' = FullBlocks
<1>1. {b \in Blocks : IsFull(b)}' = {b \in Blocks : IsFull(b)}
  OBVIOUS
<1> QED  BY <1>1 DEF FullBlocks

\* One block more.
LEMMA CountGrows ==
    ASSUME NEW w \in Blocks, ~IsFull(w), IsFull(w)',
           \A b \in Blocks \ {w} : IsFull(b)' <=> IsFull(b)
    PROVE  FullBlocks' = FullBlocks + 1
<1> DEFINE F == {b \in Blocks : IsFull(b)}
           G == {b \in Blocks : IsFull(b)'}
<1>1. G = F \cup {w} /\ w \notin F
  OBVIOUS
<1>2. IsFiniteSet(F)
  BY FullBlocksType
<1>3. FullBlocks = Cardinality(F) /\ FullBlocks' = Cardinality(G)
  BY DEF FullBlocks
<1> HIDE DEF F, G
<1> QED  BY <1>1, <1>2, <1>3, FS_AddElement

\* One block less.
LEMMA CountShrinks ==
    ASSUME NEW r \in Blocks, IsFull(r), ~IsFull(r)',
           \A b \in Blocks \ {r} : IsFull(b)' <=> IsFull(b)
    PROVE  FullBlocks' = FullBlocks - 1
<1> DEFINE F == {b \in Blocks : IsFull(b)}
           G == {b \in Blocks : IsFull(b)'}
<1>1. G = F \ {r} /\ r \in F
  OBVIOUS
<1>2. IsFiniteSet(F)
  BY FullBlocksType
<1>3. FullBlocks = Cardinality(F) /\ FullBlocks' = Cardinality(G)
  BY DEF FullBlocks
<1> HIDE DEF F, G
<1> QED  BY <1>1, <1>2, <1>3, FS_RemoveElement

\* No block is full, none is counted.
LEMMA CountZero ==
    ASSUME \A b \in Blocks : ~IsFull(b)'
    PROVE  FullBlocks' = 0
<1>1. {b \in Blocks : IsFull(b)}' = {}
  OBVIOUS
<1> QED  BY <1>1, FS_EmptySet DEF FullBlocks

-----------------------------------------------------------------------------
(* Steps that leave the ring as it is.                                     *)

RingLabels == {"free", "restart", "launch"}

RingStays ==
    /\ UNCHANGED <<ringVars, dataVars, hook, chan>>
    /\ ipc' = "advance" <=> ipc = "advance"
    /\ \A t \in Threads : /\ pc'[t] = pc[t] \/ {pc[t], pc'[t]} \cap RingLabels = {}
                          /\ pc[t] \in RingLabels => idx'[t] = idx[t]

Elsewhere(t) ==
    \/ Map(t) \/ DdmaStartDone(t) \/ DdmaStopFinish(t) \/ DdmaMarkAnnounce(t)
    \/ IrqWait(t) \/ IrqGetAutoack(t) \/ IrqAck(t) \/ Ctl(t) \/ Rel(t)
AtRest == \/ IntrEnter \/ IntrAck \/ IntrTest \/ HookNotify \/ IntrOther \/ Handler
          \/ (\E t \in Threads : Elsewhere(t)) \/ UNCHANGED vars

\* The steps of the irq thread, of most calls, and of the handler outside the hook.
LEMMA AtRestStays == ASSUME TypeOK, AtRest PROVE RingStays
<1> USE DEF TypeOK, TypeUser, RingStays, RingLabels, Goto, CanCall, StartDma,
            dmaVars, plxVars, intrVars, thrVars, irqVars, userVars, ownVars,
            ringVars, chanVars, dataVars, runVars, fileVars
<1>1. CASE IntrEnter \/ IntrAck \/ IntrTest \/ HookNotify \/ IntrOther \/ Handler
  BY <1>1 DEF IntrEnter, IntrAck, IntrTest, HookNotify, IntrOther, Handler,
             HandlerTake, HandlerLoad, HandlerStore
<1>2. ASSUME NEW t \in Threads, Elsewhere(t) PROVE RingStays
  <2>1. CASE Map(t)
    BY <2>1 DEF Map, DdmaMapFree, DdmaMapNone, DdmaMapBlocks
  <2>2. CASE DdmaStartDone(t) \/ DdmaStopFinish(t) \/ DdmaMarkAnnounce(t)
    BY <2>2 DEF DdmaStartDone, DdmaStopFinish, DdmaMarkAnnounce
  <2>3. CASE IrqWait(t) \/ IrqGetAutoack(t) \/ IrqAck(t)
    BY <2>3 DEF IrqWait, IrqGetAutoack, IrqAck
  <2>4. CASE Ctl(t)
    BY <2>4 DEF Ctl, IrqCtlReserve, IrqCtlClear, IrqCtlCheck, IrqCtlDisable
  <2>5. CASE Rel(t)
    BY <2>5 DEF Rel, Open, Release, ReleaseMapRefused, ReleaseEnd
  <2> QED  BY <1>2, <2>1, <2>2, <2>3, <2>4, <2>5 DEF Elsewhere
<1>3. CASE UNCHANGED vars
  BY <1>3 DEF vars
<1> QED  BY <1>1, <1>2, <1>3 DEF AtRest

\* What they do not touch stays true.
LEMMA RingInvStays == ASSUME TypeOK, RingInv, RingStays PROVE RingInv'
<1>1. FullBlocks' = FullBlocks
  BY CountStays DEF RingStays, ringVars, IsFull
<1> USE <1>1 DEF RingStays, RingInv, ringVars, dataVars, RingLabels
<1>2. RunOfFull'          BY DEF RunOfFull, IsFull, Dist
<1>3. HeadFollows'        BY DEF HeadFollows, HookBlock, Dist
<1>4. OnlyReadingSynced'  BY DEF OnlyReadingSynced
<1>5. MarkInv'            BY DEF MarkInv, MarkOk, IsFull
<1>6. BlockedInv'         BY DEF BlockedInv
<1>7. DataInv'            BY DEF DataInv, Unnoticed
<1> QED  BY <1>2, <1>3, <1>4, <1>5, <1>6, <1>7

-----------------------------------------------------------------------------
(* Steps that work on the ring, one lemma for each.                        *)

USE ZeroAndDummy, DmaNextInBlocks, NumBlocksAssumption, FdOfAssumption
    DEF TypeOK, TypeRing, TypePlx, TypeUser, OneThreadPerFile, Goto, Fd, CanCall,
        StartDma, dmaVars, plxVars, intrVars, thrVars, irqVars, userVars, ownVars,
        ringVars, chanVars, dataVars, runVars, fileVars

\* A block has been filled: its number is known, the ring stays.
LEMMA RingFill ==
    ASSUME TypeOK, EngineInv, RingInv, OneThreadPerFile, Fill PROVE RingInv'
<1> USE DEF EngineInv, CallInv, CallOk, HookOffInv, LaunchInv, RunInv, Launching,
            Launched, Filling, Filled, Advancing, Waiting, NoneInDma,
            OnlyWritingInDma, MuxLabels
<1> USE DEF Fill, RingInv
<1>1. FullBlocks' = FullBlocks  BY CountStays DEF IsFull
<1>2. RunOfFull'                BY <1>1 DEF RunOfFull, Dist, IsFull
<1>3. HeadFollows'              BY <1>1 DEF HeadFollows, HookBlock, Dist
<1>4. OnlyReadingSynced'        BY DEF OnlyReadingSynced
<1>5. MarkInv'                  BY DEF MarkInv, MarkOk, IsFull
<1>6. BlockedInv'               BY <1>1 DEF BlockedInv
<1>7. DataInv'                  BY DEF DataInv, Unnoticed
<1> QED  BY <1>2, <1>3, <1>4, <1>5, <1>6, <1>7

\* The hook marks its block full: the run of full blocks grows at its end.
LEMMA RingHookFull ==
    ASSUME TypeOK, EngineInv, RingInv, OneThreadPerFile, HookFull PROVE RingInv'
<1> USE DEF EngineInv, CallInv, CallOk, HookOffInv, LaunchInv, RunInv, Launching,
            Launched, Filling, Filled, Advancing, Waiting, NoneInDma,
            OnlyWritingInDma, MuxLabels
<1> USE FullBlocksType DEF HookFull, RingInv
<1>1. /\ writing \in Blocks /\ block[writing] = "dma"
      /\ block' = [block EXCEPT ![writing] = "full"] /\ ipc' = "advance"
      /\ hook /\ ~Launching /\ blstat # "blocked" /\ chan = "idle"
  OBVIOUS
<1>2. FullBlocks' = FullBlocks + 1
  BY <1>1, CountGrows DEF IsFull
<1>3. Dist(writing) = FullBlocks
  BY <1>1 DEF RunOfFull, HeadFollows, HookBlock, IsFull, Dist
<1>4. \A b \in Blocks : Dist(b) \in Int /\ (Dist(b) = Dist(writing) => b = writing)
  BY <1>1, DistFacts
<1>5. RunOfFull'
  <2> SUFFICES ASSUME NEW b \in Blocks PROVE IsFull(b)' <=> Dist(b)' < FullBlocks'
    BY DEF RunOfFull
  <2>1. Dist(b)' = Dist(b)
    BY DEF Dist
  <2>2. IsFull(b)' <=> IsFull(b) \/ b = writing
    BY <1>1 DEF IsFull
  <2>3. IsFull(b) <=> Dist(b) < FullBlocks
    BY DEF RunOfFull
  <2> QED  BY <1>2, <1>3, <1>4, <2>1, <2>2, <2>3
<1>6. HeadFollows'
  BY <1>1, <1>2, <1>3 DEF HeadFollows, HookBlock, Dist, DmaNext, Blocks
<1>7. OnlyReadingSynced'  BY <1>1 DEF OnlyReadingSynced
<1>8. MarkInv'            BY <1>1 DEF MarkInv, MarkOk, IsFull
<1>9. BlockedInv'         BY <1>1 DEF BlockedInv
<1>10. DataInv'           BY <1>1 DEF DataInv, Unnoticed
<1> QED  BY <1>5, <1>6, <1>7, <1>8, <1>9, <1>10

\* The hook goes on to a free block, or finds the ring full and waits.
LEMMA RingHookAdvance ==
    ASSUME TypeOK, EngineInv, RingInv, OneThreadPerFile, NoOvertaking, HookAdvance
    PROVE  RingInv'
<1> USE DEF EngineInv, CallInv, CallOk, HookOffInv, LaunchInv, RunInv, Launching,
            Launched, Filling, Filled, Advancing, Waiting, NoneInDma,
            OnlyWritingInDma, MuxLabels
<1> USE FullBlocksType DEF HookAdvance, RingInv
<1>1. /\ ipc = "advance" /\ ipc' = "notify" /\ hook /\ writing \in Blocks
      /\ ~Launching /\ blstat # "blocked" /\ NoneInDma
  OBVIOUS
<1>2. FullBlocks' = FullBlocks
  BY <1>1, CountStays DEF IsFull
<1>3. RunOfFull'
  BY <1>1, <1>2 DEF RunOfFull, Dist, IsFull
<1>4. HeadFollows'
  BY <1>1, <1>2 DEF HeadFollows, HookBlock, Dist
<1>5. OnlyReadingSynced'  BY <1>1 DEF OnlyReadingSynced
<1>6. blstat' = "blocked" => FullBlocks = NumBlocks /\ writing' = reading
                             /\ block' = block
  <2> SUFFICES ASSUME blstat' = "blocked"
               PROVE  FullBlocks = NumBlocks /\ writing' = reading /\ block' = block
    OBVIOUS
  <2>1. /\ DmaNext(writing) \in Blocks /\ writing' = DmaNext(writing)
        /\ block' = block /\ IsFull(DmaNext(writing))
    BY <1>1 DEF IsFull
  <2>2. Dist(DmaNext(writing)) < FullBlocks
    BY <2>1 DEF RunOfFull
  <2>3. Dist(DmaNext(writing)) = 0 /\ FullBlocks = NumBlocks
    BY <1>1, <2>1, <2>2 DEF HeadFollows, HookBlock
  <2> QED  BY <2>1, <2>3, DistFacts
<1>7. MarkInv'
  <2> SUFFICES ASSUME NEW u \in Threads PROVE MarkOk(u)'
    BY DEF MarkInv
  <2>1. MarkOk(u) /\ pc' = pc /\ idx' = idx /\ reading' = reading
    BY DEF MarkInv
  <2>2. (pc[u] = "restart" => DmaNext(idx[u]) = reading)
    BY <2>1 DEF MarkOk
  <2>3. pc[u] = "restart" /\ MarkOutrunsFill =>
           \/ block'[idx[u]] = "free"
           \/ block'[idx[u]] = "dma" /\ chan' = "busy"
    BY <1>1, <2>1 DEF MarkOk
  <2>4. pc[u] = "restart" /\ blstat' = "blocked" /\ NumBlocks > 1 => writing' # idx[u]
    BY <1>6, <2>2, NextIsOther
  <2> QED  BY <2>1, <2>2, <2>3, <2>4, <1>1 DEF MarkOk, IsFull, NoOvertaking
<1>8. BlockedInv'         BY <1>1, <1>2, <1>6 DEF BlockedInv
<1>9. DataInv'           BY <1>1 DEF DataInv, Unnoticed
<1> QED  BY <1>3, <1>4, <1>5, <1>7, <1>8, <1>9

\* A new stream begins with an empty ring.
LEMMA RingDdmaStart ==
    ASSUME TypeOK, EngineInv, RingInv, OneThreadPerFile, NEW t \in Threads, DdmaStart(t)
    PROVE  RingInv'
<1> USE DEF EngineInv, CallInv, CallOk, HookOffInv, LaunchInv, RunInv, Launching,
            Launched, Filling, Filled, Advancing, Waiting, NoneInDma,
            OnlyWritingInDma, MuxLabels
<1> USE DEF DdmaStart, RingInv
<1>1. /\ \A b \in Blocks : ~IsFull(b)' /\ block'[b] # "synced"
      /\ reading' = 0 /\ writing' = 0 /\ blstat' = "running" /\ ipc' = "idle"
      /\ \A u \in Threads : pc'[u] \notin {"free", "restart"}
  BY NoneAssumption DEF IsFull
<1>2. FullBlocks' = 0
  BY <1>1, CountZero
<1>3. Dist(0)' = 0 /\ \A b \in Blocks : Dist(b)' \in Nat
  BY <1>1 DEF Dist, Blocks
<1>4. RunOfFull'          BY <1>1, <1>2, <1>3 DEF RunOfFull
<1>5. HeadFollows'        BY <1>1, <1>2, <1>3 DEF HeadFollows, HookBlock
<1>6. OnlyReadingSynced'  BY <1>1 DEF OnlyReadingSynced
<1>7. MarkInv'            BY <1>1 DEF MarkInv, MarkOk
<1>8. BlockedInv'         BY <1>1 DEF BlockedInv
<1>9. DataInv'           BY DEF DataInv, Unnoticed
<1> QED  BY <1>4, <1>5, <1>6, <1>7, <1>8, <1>9

\* The channel is launched on block 0.
LEMMA RingDdmaStartLaunch ==
    ASSUME TypeOK, EngineInv, RingInv, OneThreadPerFile,
           NEW t \in Threads, DdmaStartLaunch(t)
    PROVE  RingInv'
<1> USE DEF EngineInv, CallInv, CallOk, HookOffInv, LaunchInv, RunInv, Launching,
            Launched, Filling, Filled, Advancing, Waiting, NoneInDma,
            OnlyWritingInDma, MuxLabels
<1> USE DEF DdmaStartLaunch, RingInv
<1>1. FullBlocks' = FullBlocks  BY CountStays DEF IsFull
<1>2. RunOfFull'                BY <1>1 DEF RunOfFull, Dist, IsFull
<1>3. HeadFollows'              BY <1>1 DEF HeadFollows, HookBlock, Dist
<1>4. OnlyReadingSynced'        BY DEF OnlyReadingSynced
<1>5. MarkInv'                  BY DEF MarkInv, MarkOk, IsFull
<1>6. BlockedInv'               BY <1>1 DEF BlockedInv
<1>7. DataInv'                  BY DEF DataInv, Unnoticed
<1> QED  BY <1>2, <1>3, <1>4, <1>5, <1>6, <1>7

\* The DMA is being stopped: the hook keeps its block, or gets the dummy block.
LEMMA RingStop ==
    ASSUME TypeOK, EngineInv, RingInv, OneThreadPerFile, NEW t \in Threads,
           DdmaStop(t) \/ DdmaStopDisable(t) \/ DdmaStopAbort(t)
    PROVE  RingInv'
<1> USE DEF EngineInv, CallInv, CallOk, HookOffInv, LaunchInv, RunInv, Launching,
            Launched, Filling, Filled, Advancing, Waiting, NoneInDma,
            OnlyWritingInDma, MuxLabels
<1> USE DEF DdmaStop, DdmaStopDisable, DdmaStopAbort, RingInv
<1>1. FullBlocks' = FullBlocks  BY CountStays DEF IsFull
<1>2. RunOfFull'                BY <1>1 DEF RunOfFull, Dist, IsFull
<1>3. HeadFollows'              BY <1>1 DEF HeadFollows, HookBlock, Dist
<1>4. OnlyReadingSynced'        BY DEF OnlyReadingSynced
<1>5. MarkInv'                  BY DEF MarkInv, MarkOk, IsFull
<1>6. BlockedInv'               BY <1>1 DEF BlockedInv
<1>7. DataInv'                  BY DEF DataInv, Unnoticed
<1> QED  BY <1>2, <1>3, <1>4, <1>5, <1>6, <1>7

\* ddma_mark accepts the block the user has: it is the reading block.
LEMMA RingDdmaMark ==
    ASSUME TypeOK, EngineInv, RingInv, OneThreadPerFile, NEW t \in Threads, DdmaMark(t)
    PROVE  RingInv'
<1> USE DEF EngineInv, CallInv, CallOk, HookOffInv, LaunchInv, RunInv, Launching,
            Launched, Filling, Filled, Advancing, Waiting, NoneInDma,
            OnlyWritingInDma, MuxLabels
<1> USE DEF DdmaMark, RingInv
<1>1. FullBlocks' = FullBlocks  BY CountStays DEF IsFull
<1>2. RunOfFull'                BY <1>1 DEF RunOfFull, Dist, IsFull
<1>3. HeadFollows'              BY <1>1 DEF HeadFollows, HookBlock, Dist
<1>4. OnlyReadingSynced'        BY DEF OnlyReadingSynced
<1>5. MarkInv'                  BY DEF MarkInv, MarkOk, IsFull
<1>6. BlockedInv'               BY <1>1 DEF BlockedInv
<1>7. DataInv'                  BY DEF DataInv, Unnoticed
<1> QED  BY <1>2, <1>3, <1>4, <1>5, <1>6, <1>7

\* irq_get hands the reading block to the user.
LEMMA RingIrqGet ==
    ASSUME TypeOK, EngineInv, RingInv, OneThreadPerFile, NEW t \in Threads, IrqGet(t)
    PROVE  RingInv'
<1> USE DEF EngineInv, CallInv, CallOk, HookOffInv, LaunchInv, RunInv, Launching,
            Launched, Filling, Filled, Advancing, Waiting, NoneInDma,
            OnlyWritingInDma, MuxLabels
<1> USE DEF IrqGet, RingInv
<1>1. \A b \in Blocks : IsFull(b)' <=> IsFull(b)  BY DEF IsFull
<1>2. FullBlocks' = FullBlocks  BY <1>1, CountStays
<1>3. RunOfFull'                BY <1>1, <1>2 DEF RunOfFull, Dist
<1>4. HeadFollows'              BY <1>2 DEF HeadFollows, HookBlock, Dist
<1>5. OnlyReadingSynced'        BY DEF OnlyReadingSynced
<1>6. MarkInv'                  BY DEF MarkInv, MarkOk, IsFull
<1>7. BlockedInv'               BY <1>2 DEF BlockedInv
<1>8. DataInv'                  BY DEF DataInv, Unnoticed, IsFull
<1> QED  BY <1>3, <1>4, <1>5, <1>6, <1>7, <1>8

\* ddma_mark frees the block: the run of full blocks shrinks at its beginning.
LEMMA RingDdmaMarkFree ==
    ASSUME TypeOK, EngineInv, RingInv, OneThreadPerFile,
           NEW t \in Threads, DdmaMarkFree(t)
    PROVE  RingInv'
<1> USE DEF EngineInv, CallInv, CallOk, HookOffInv, LaunchInv, RunInv, Launching,
            Launched, Filling, Filled, Advancing, Waiting, NoneInDma,
            OnlyWritingInDma, MuxLabels
<1> USE FullBlocksType DEF DdmaMarkFree, RingInv
<1>1. /\ block[reading] = "synced" /\ idx[t] = reading
      /\ block' = [block EXCEPT ![reading] = "free"] /\ reading' = DmaNext(reading)
      /\ ~Launching /\ ipc' = ipc
      /\ \A u \in Threads \ {t} : pc'[u] = pc[u] /\ pc[u] \notin {"free", "restart"}
  <2>1. idx[t] = reading  BY DEF MarkInv, MarkOk
  <2>2. block[idx[t]] = "synced"  OBVIOUS
  <2>3. ~Launching /\ ipc' = ipc  OBVIOUS
  <2>4. ASSUME NEW u \in Threads \ {t}
        PROVE  pc'[u] = pc[u] /\ pc[u] \notin {"free", "restart"}
    OBVIOUS
  <2> QED  BY <2>1, <2>2, <2>3, <2>4
<1>2. FullBlocks' = FullBlocks - 1
  BY <1>1, CountShrinks DEF IsFull
<1>3. \A b \in Blocks : /\ Dist(b) \in 0 .. NumBlocks - 1
                        /\ Dist(b)' = IF b = reading THEN NumBlocks - 1 ELSE Dist(b) - 1
                        /\ Dist(b) = 0 <=> b = reading
  BY <1>1, DistFacts, DistAfterNext
<1>4. RunOfFull'
  <2> SUFFICES ASSUME NEW b \in Blocks PROVE IsFull(b)' <=> Dist(b)' < FullBlocks'
    BY DEF RunOfFull
  <2>1. IsFull(b)' <=> IsFull(b) /\ b # reading
    BY <1>1 DEF IsFull
  <2>2. IsFull(b) <=> Dist(b) < FullBlocks
    BY DEF RunOfFull
  <2> QED  BY <1>2, <1>3, <2>1, <2>2
<1>5. HeadFollows'
  <2> SUFFICES ASSUME hook', writing' # Dummy
               PROVE  \/ Dist(HookBlock)' = FullBlocks'
                      \/ Dist(HookBlock)' = 0 /\ FullBlocks' = NumBlocks
    BY DEF HeadFollows
  <2>1. HookBlock' = HookBlock /\ HookBlock \in Blocks
    BY <1>1 DEF HookBlock
  <2>2. \/ Dist(HookBlock) = FullBlocks
        \/ Dist(HookBlock) = 0 /\ FullBlocks = NumBlocks
    BY DEF HeadFollows
  <2>3. Dist(HookBlock)' = IF HookBlock = reading THEN NumBlocks - 1
                           ELSE Dist(HookBlock) - 1
    BY <2>1, <1>3 DEF Dist
  <2>4. IsFull(reading) /\ Dist(reading) < FullBlocks
    BY <1>1 DEF IsFull, RunOfFull
  <2> QED  BY <1>2, <1>3, <2>1, <2>2, <2>3, <2>4
<1>6. OnlyReadingSynced'  BY <1>1 DEF OnlyReadingSynced
<1>7. MarkInv'            BY <1>1 DEF MarkInv, MarkOk, IsFull
<1>8. BlockedInv'
  <2> SUFFICES ASSUME blstat' = "blocked"
               PROVE  pc'[t] = "restart" /\ idx'[t] = writing'
    BY DEF BlockedInv
  <2>1. blstat = "blocked" /\ FullBlocks = NumBlocks
    BY <1>1 DEF BlockedInv
  <2>2. hook /\ writing \in Blocks /\ ipc # "advance"
    OBVIOUS
  <2>3. Dist(writing) = 0
    BY <2>1, <2>2, <1>3 DEF HeadFollows, HookBlock
  <2> QED  BY <2>2, <2>3, <1>1, <1>3
<1>9. DataInv'           BY <1>1 DEF DataInv, Unnoticed
<1> QED  BY <1>4, <1>5, <1>6, <1>7, <1>8, <1>9

\* ddma_mark restarts a blocked DMA on the block it has freed.
LEMMA RingDdmaMarkRestart ==
    ASSUME TypeOK, EngineInv, RingInv, OneThreadPerFile, NoOvertaking,
           NEW t \in Threads, DdmaMarkRestart(t)
    PROVE  RingInv'
<1> USE DEF EngineInv, CallInv, CallOk, HookOffInv, LaunchInv, RunInv, Launching,
            Launched, Filling, Filled, Advancing, Waiting, NoneInDma,
            OnlyWritingInDma, MuxLabels
<1> USE DEF DdmaMarkRestart, RingInv
<1>1. /\ pc[t] = "restart" /\ ~Launching
      /\ blstat = "blocked" /\ writing = idx[t] => ~IsFull(idx[t])
      /\ \A u \in Threads \ {t} :
            pc'[u] = pc[u] /\ pc[u] \notin {"free", "restart"} /\ idx'[u] = idx[u]
  BY DEF MarkInv, MarkOk
<1>2. \A b \in Blocks : /\ IsFull(b)' <=> IsFull(b)
                        /\ block'[b] = "synced" <=> block[b] = "synced"
  BY <1>1 DEF IsFull
<1>3. FullBlocks' = FullBlocks  BY <1>2, CountStays
<1>4. RunOfFull'                BY <1>2, <1>3 DEF RunOfFull, Dist
<1>5. HeadFollows'              BY <1>3 DEF HeadFollows, HookBlock, Dist
<1>6. OnlyReadingSynced'        BY <1>2 DEF OnlyReadingSynced
<1>7. MarkInv'                  BY <1>1 DEF MarkInv, MarkOk
<1>8. BlockedInv'               BY <1>1, <1>3, FullBlocksType DEF BlockedInv
<1>9. DataInv'                 BY <1>1 DEF DataInv, Unnoticed
<1> QED  BY <1>4, <1>5, <1>6, <1>7, <1>8, <1>9

\* Initially the ring is empty.
LEMMA RingInit == Init => RingInv
<1> SUFFICES ASSUME Init PROVE RingInv
  OBVIOUS
<1>1. \A b \in Blocks : ~IsFull(b)
  BY DEF Init, IsFull
<1>2. FullBlocks = 0
  <2>1. {b \in Blocks : IsFull(b)} = {}
    BY <1>1
  <2> QED  BY <2>1, FS_EmptySet DEF FullBlocks
<1>3. RunOfFull          BY <1>1, <1>2 DEF RunOfFull, Init, Dist, Blocks
<1>4. HeadFollows        BY DEF HeadFollows, Init
<1>5. OnlyReadingSynced  BY DEF OnlyReadingSynced, Init
<1>6. MarkInv            BY DEF MarkInv, MarkOk, Init
<1>7. BlockedInv         BY DEF BlockedInv, Init
<1>8. DataInv            BY DEF DataInv, Unnoticed, Init
<1> QED  BY <1>3, <1>4, <1>5, <1>6, <1>7, <1>8 DEF RingInv

RingAction(t) ==
    \/ DdmaStart(t) \/ DdmaStartLaunch(t)
    \/ DdmaStop(t) \/ DdmaStopDisable(t) \/ DdmaStopAbort(t)
    \/ DdmaMark(t) \/ DdmaMarkFree(t) \/ DdmaMarkRestart(t) \/ IrqGet(t)

\* Every step either leaves the ring alone or is one of those above.
LEMMA StepCases ==
    ASSUME [Next]_vars
    PROVE  \/ AtRest \/ Fill \/ HookFull \/ HookAdvance
           \/ \E t \in Threads : RingAction(t)
<1>1. ASSUME NEW t \in Threads, User(t) PROVE Elsewhere(t) \/ RingAction(t)
  BY <1>1 DEF User, Start, Stop, Mark, Get, Elsewhere, RingAction
<1> QED  BY <1>1 DEF Next, Intr, AtRest

\* The ring keeps its shape.
LEMMA RingInvStep ==
    ASSUME TypeOK, EngineInv, RingInv, OneThreadPerFile, NoOvertaking, [Next]_vars
    PROVE  RingInv'
<1>1. CASE AtRest
  BY <1>1, AtRestStays, RingInvStays
<1>2. CASE Fill \/ HookFull \/ HookAdvance
  BY <1>2, RingFill, RingHookFull, RingHookAdvance
<1>3. ASSUME NEW t \in Threads, RingAction(t) PROVE RingInv'
  BY <1>3, RingDdmaStart, RingDdmaStartLaunch, RingStop, RingDdmaMark,
     RingDdmaMarkFree, RingDdmaMarkRestart, RingIrqGet DEF RingAction
<1> QED  BY <1>1, <1>2, <1>3, StepCases

\* A ddma_mark that finds another block waiting finds all blocks full.
LEMMA RefusedFacts ==
    ASSUME TypeOK, EngineInv, RingInv, OneThreadPerFile, NEW t \in Threads,
           DdmaMarkRestart(t), spinHeld' # spinHeld
    PROVE  Refused(t) /\ FullBlocks = NumBlocks
<1>1. pc[t] = "restart" /\ blstat = "blocked" /\ writing # idx[t] /\ idx[t] \in Blocks
  BY DEF DdmaMarkRestart, TypeOK, TypeUser
<1>2. \A u \in Threads : pc[u] = "restart" => u = t
  BY <1>1 DEF EngineInv, CallInv, CallOk, OneThreadPerFile
<1>3. FullBlocks = NumBlocks
  BY <1>1, <1>2 DEF RingInv, BlockedInv
<1>4. IsFull(idx[t])
  BY <1>1, <1>3, DistFacts DEF RingInv, RunOfFull, TypeOK, TypeRing
<1> QED  BY <1>1, <1>3, <1>4 DEF Refused, Overtaken

\* No other step leaves the spinlock held.
LEMMA SpinStep ==
    ASSUME TypeOK, EngineInv, RingInv, OneThreadPerFile, [Next]_vars, spinHeld' # spinHeld
    PROVE  FullBlocks = NumBlocks /\ \E t \in Threads : Overtaken(t)
<1>1. CASE AtRest
  <2>1. RingStays  BY <1>1, AtRestStays
  <2> QED  BY <2>1 DEF RingStays
<1>2. ASSUME NEW t \in Threads, DdmaMarkRestart(t)
      PROVE  FullBlocks = NumBlocks /\ Overtaken(t)
  BY <1>2, RefusedFacts DEF Refused
<1>3. ASSUME NEW t \in Threads, RingAction(t), ~DdmaMarkRestart(t) PROVE FALSE
  BY <1>3 DEF RingAction, DdmaStart, DdmaStartLaunch, DdmaStop, DdmaStopDisable,
             DdmaStopAbort, DdmaMark, DdmaMarkFree, IrqGet, dmaVars, ringVars
<1>4. CASE Fill \/ HookFull \/ HookAdvance
  BY <1>4 DEF Fill, HookFull, HookAdvance, dmaVars, ringVars
<1> QED  BY <1>1, <1>2, <1>3, <1>4, StepCases

\* The full blocks are always the run that begins at the reading block, and the
\* hook works at its end.
THEOREM RingCorrect ==
    OneThreadPerFile /\ StopWaitsForIntr /\ NoOvertaking /\ Spec => []RingInv
<1> SUFFICES ASSUME OneThreadPerFile, StopWaitsForIntr, NoOvertaking
             PROVE  Spec => []RingInv
  OBVIOUS
<1>1. OneThreadPerFile /\ StopWaitsForIntr /\ Spec => [](TypeOK /\ EngineInv)
  BY EngineCorrect
<1>2. TypeOK /\ EngineInv /\ RingInv /\ [Next]_vars => RingInv'
  BY RingInvStep
<1> QED  BY RingInit, <1>1, <1>2, PTL DEF Spec

\* dma->spin is left locked only by a ddma_mark that has been overtaken: the very block
\* it has freed has been filled again, so that the whole ring is full, before it took
\* the lock.  No other call, and no other order of steps, leaves the lock held.
THEOREM SpinCorrect ==
    OneThreadPerFile /\ StopWaitsForIntr /\ NoOvertaking /\ Spec
        => [][SpinNeverLeaked => SpinNeverLeaked' \/ MarkOvertaken]_vars
<1> SUFFICES ASSUME OneThreadPerFile, StopWaitsForIntr, NoOvertaking
             PROVE  Spec => [][SpinNeverLeaked => SpinNeverLeaked' \/ MarkOvertaken]_vars
  OBVIOUS
<1>1. OneThreadPerFile /\ StopWaitsForIntr /\ Spec => [](TypeOK /\ EngineInv)
  BY EngineCorrect
<1>2. OneThreadPerFile /\ StopWaitsForIntr /\ NoOvertaking /\ Spec => []RingInv
  BY RingCorrect
<1>3. TypeOK /\ EngineInv /\ RingInv /\ [Next]_vars
          => [SpinNeverLeaked => SpinNeverLeaked' \/ MarkOvertaken]_vars
  BY SpinStep DEF SpinNeverLeaked, MarkOvertaken
<1> QED  BY <1>1, <1>2, <1>3, PTL DEF Spec

-----------------------------------------------------------------------------
(* The ring implements the queue of BlockQueue.                            *)

Place(i) == (reading + i - 1) % NumBlocks

\* The i-th entry of the queue lies i - 1 blocks behind the reading block, so it is
\* the data of a full block.
LEMMA PlaceFacts ==
    ASSUME reading \in Blocks, NEW i \in 1 .. NumBlocks
    PROVE  Place(i) \in Blocks /\ Dist(Place(i)) = i - 1
<1>1. reading \in Nat /\ reading < NumBlocks /\ NumBlocks \in Nat \ {0}
  BY DEF Blocks
<1>2. CASE reading + i - 1 < NumBlocks
  <2>1. Place(i) = reading + i - 1
    BY <1>1, <1>2 DEF Place
  <2> QED  BY <1>1, <1>2, <2>1 DEF Dist, Blocks
<1>3. CASE reading + i - 1 >= NumBlocks
  <2>1. Place(i) = reading + i - 1 - NumBlocks
    BY <1>1, <1>3 DEF Place
  <2> QED  BY <1>1, <1>3, <2>1 DEF Dist, Blocks
<1> QED  BY <1>1, <1>2, <1>3

\* Seen from the next block the entries have moved up by one.
LEMMA PlaceAfterNext ==
    ASSUME reading \in Blocks, reading' = DmaNext(reading), NEW i \in 1 .. NumBlocks - 1
    PROVE  Place(i)' = Place(i + 1)
<1>1. reading \in Nat /\ reading < NumBlocks /\ NumBlocks \in Nat \ {0}
  BY DEF Blocks
<1>2. Place(i)' = (reading' + i - 1) % NumBlocks /\ Place(i + 1) = (reading + i) % NumBlocks
  BY DEF Place
<1>3. CASE reading + 1 < NumBlocks
  BY <1>1, <1>2, <1>3 DEF DmaNext
<1>4. CASE reading + 1 = NumBlocks
  <2>1. reading' = 0 /\ (reading + i) % NumBlocks = i - 1 /\ (i - 1) % NumBlocks = i - 1
    BY <1>1, <1>4 DEF DmaNext
  <2> QED  BY <1>2, <2>1
<1> QED  BY <1>1, <1>3, <1>4

\* The numbers in the queue are numbers of the stream.
LEMMA FullRunType ==
    ASSUME TypeOK PROVE FullRun \in Seq(Tags) /\ Len(FullRun) = FullBlocks
<1>1. \A i \in 1 .. FullBlocks : data[Place(i)] \in Tags
  BY PlaceFacts, FullBlocksType
<1>2. FullRun = [i \in 1 .. FullBlocks |-> data[Place(i)]]
  BY DEF FullRun, Place
<1> QED  BY <1>1, <1>2, FullBlocksType

\* Both count the stream modulo TagMod.
LEMMA NextTagIsSucc == \A n \in Tags : NextTag(n) = Queue!Succ(n)
BY TagModAssumption DEF NextTag, Queue!Succ, Tags

\* The queue stays if the run and what is in it stay.
LEMMA FullRunStays ==
    ASSUME TypeOK, RingInv, UNCHANGED reading, FullBlocks' = FullBlocks,
           \A b \in Blocks : IsFull(b) => data'[b] = data[b]
    PROVE  FullRun' = FullRun
<1>1. \A i \in 1 .. FullBlocks : IsFull(Place(i)) /\ Place(i) \in Blocks
  BY PlaceFacts, FullBlocksType DEF RingInv, RunOfFull
<1>2. /\ FullRun = [i \in 1 .. FullBlocks |-> data[Place(i)]]
      /\ FullRun' = [i \in 1 .. FullBlocks |-> data'[Place(i)]]
  BY DEF FullRun, Place
<1> QED  BY <1>1, <1>2

\* What every step of the driver is shown to be, one lemma for each kind of step.
QueueStep == [Queue!Next]_(Queue!qvars)

\* A step that changes nothing the queue is made of leaves it alone.
LEMMA QueueSame ==
    ASSUME hook' = hook, FullRun' = FullRun, NextBlock' = NextBlock,
           UserHolds' = UserHolds
    PROVE  QueueStep
BY DEF QueueStep, Queue!qvars

\* Steps that leave the ring alone leave the queue alone.
LEMMA AtRestQueue == ASSUME TypeOK, RingInv, RingStays PROVE QueueStep
<1> USE DEF RingStays
<1>1. FullBlocks' = FullBlocks  BY CountStays DEF IsFull
<1>2. FullRun' = FullRun        BY <1>1, FullRunStays
<1>3. NextBlock' = NextBlock    BY DEF NextBlock, Unnoticed, RingLabels
<1>4. UserHolds' = UserHolds    BY DEF UserHolds
<1> QED  BY <1>2, <1>3, <1>4, QueueSame

\* A block that has been filled enters the stream unnoticed; a channel that could
\* not be stopped drops its block.
LEMMA FillQueue == ASSUME TypeOK, EngineInv, RingInv, Fill PROVE QueueStep
<1> USE DEF EngineInv, CallInv, CallOk, HookOffInv, LaunchInv, RunInv, Launching,
            Launched, Filling, Filled, Advancing, Waiting, NoneInDma,
            OnlyWritingInDma, MuxLabels
<1> USE DEF Fill
<1>1. FullBlocks' = FullBlocks
  BY CountStays DEF IsFull
<1>2. block[target] = "dma"
  OBVIOUS
<1>3. FullRun' = FullRun
  BY <1>1, <1>2, FullRunStays DEF IsFull
<1>4. UserHolds' = UserHolds
  BY DEF UserHolds
<1>5. CASE hook
  <2>1. NextBlock' = NextBlock
    BY <1>5 DEF NextBlock, Unnoticed
  <2> QED  BY <1>3, <1>4, <2>1, QueueSame
<1>6. CASE ~hook
  <2>1. NextBlock = nextTag /\ NextBlock' = NextTag(nextTag)
    BY <1>6 DEF NextBlock, Unnoticed
  <2> QED  BY <1>3, <1>4, <1>6, <2>1, NextTagIsSucc
           DEF QueueStep, Queue!Next, Queue!Drop
<1> QED  BY <1>5, <1>6

\* The hook's notice of a full block puts it into the queue.
LEMMA HookFullQueue ==
    ASSUME TypeOK, EngineInv, RingInv, OneThreadPerFile, HookFull PROVE QueueStep
<1> USE DEF EngineInv, CallInv, CallOk, HookOffInv, LaunchInv, RunInv, Launching,
            Launched, Filling, Filled, Advancing, Waiting, NoneInDma,
            OnlyWritingInDma, MuxLabels
<1> USE FullBlocksType DEF HookFull
<1>1. /\ writing \in Blocks /\ block[writing] = "dma"
      /\ block' = [block EXCEPT ![writing] = "full"] /\ ipc' = "advance"
      /\ hook /\ ~Launching /\ blstat # "blocked" /\ chan = "idle"
  OBVIOUS
<1>2. FullBlocks' = FullBlocks + 1
  BY <1>1, CountGrows DEF IsFull
<1>3. Dist(writing) = FullBlocks /\ FullBlocks < NumBlocks
  BY <1>1, DistFacts DEF RingInv, RunOfFull, HeadFollows, HookBlock, IsFull
<1>4. Place(FullBlocks + 1) = writing
  BY <1>1, <1>3, PlaceFacts, DistFacts
<1>5. /\ FullRun = [i \in 1 .. FullBlocks |-> data[Place(i)]]
      /\ FullRun' = [i \in 1 .. FullBlocks + 1 |-> data[Place(i)]]
  BY <1>2 DEF FullRun, Place
<1>6. Unnoticed /\ ~Unnoticed'
  BY <1>1 DEF Unnoticed
<1>7. NextBlock = data[writing] /\ NextBlock' = Queue!Succ(NextBlock)
  BY <1>1, <1>6, NextTagIsSucc DEF NextBlock, RingInv, DataInv
<1>8. FullRun' = Append(FullRun, NextBlock)
  BY <1>4, <1>5, <1>7, FullRunType
<1>9. UserHolds' = UserHolds
  BY <1>1 DEF UserHolds
<1> QED  BY <1>1, <1>3, <1>7, <1>8, <1>9, FullRunType
         DEF QueueStep, Queue!Next, Queue!Produce

\* The hook's choice of the next block is not seen in the queue.
LEMMA HookAdvanceQueue ==
    ASSUME TypeOK, EngineInv, RingInv, HookAdvance PROVE QueueStep
<1> USE DEF EngineInv, CallInv, CallOk, HookOffInv, LaunchInv, RunInv, Launching,
            Launched, Filling, Filled, Advancing, Waiting, NoneInDma,
            OnlyWritingInDma, MuxLabels
<1> USE DEF HookAdvance
<1>1. hook /\ NoneInDma /\ ~Launching
  OBVIOUS
<1>2. FullBlocks' = FullBlocks  BY CountStays DEF IsFull
<1>3. FullRun' = FullRun        BY <1>2, FullRunStays
<1>4. NextBlock' = NextBlock    BY <1>1 DEF NextBlock, Unnoticed
<1>5. UserHolds' = UserHolds    BY DEF UserHolds
<1> QED  BY <1>3, <1>4, <1>5, QueueSame

\* ddma_start begins a new stream.
LEMMA StartQueue ==
    ASSUME TypeOK, EngineInv, RingInv, NEW t \in Threads, DdmaStart(t) PROVE QueueStep
<1> USE DEF EngineInv, CallInv, CallOk, HookOffInv, LaunchInv, RunInv, Launching,
            Launched, Filling, Filled, Advancing, Waiting, NoneInDma,
            OnlyWritingInDma, MuxLabels
<1> USE DEF DdmaStart
<1>1. ~hook /\ hook'
  BY NoneAssumption
<1>2. FullBlocks' = 0
  BY CountZero DEF IsFull
<1>3. FullRun' = << >>
  BY <1>2 DEF FullRun
<1>4. NextBlock' = 0
  BY DEF NextBlock, Unnoticed
<1>5. ~UserHolds'
  BY DEF UserHolds
<1>6. UserHolds' = FALSE
  BY <1>5 DEF UserHolds
<1> QED  BY <1>1, <1>3, <1>4, <1>6 DEF QueueStep, Queue!Next, Queue!Start

\* Launching the channel, taking the lock to stop, aborting, accepting a block in
\* ddma_mark and restarting on it are not seen in the queue.
LEMMA UnseenQueue ==
    ASSUME TypeOK, EngineInv, RingInv, OneThreadPerFile, NoOvertaking, NEW t \in Threads,
           \/ DdmaStartLaunch(t) \/ DdmaStop(t) \/ DdmaStopAbort(t)
           \/ DdmaMark(t) \/ DdmaMarkRestart(t)
    PROVE  QueueStep
<1> USE DEF EngineInv, CallInv, CallOk, HookOffInv, LaunchInv, RunInv, Launching,
            Launched, Filling, Filled, Advancing, Waiting, NoneInDma,
            OnlyWritingInDma, MuxLabels
<1> USE DEF DdmaStartLaunch, DdmaStop, DdmaStopAbort, DdmaMark, DdmaMarkRestart
<1>1. ASSUME DdmaMarkRestart(t), blstat = "blocked", writing = idx[t]
      PROVE  ~IsFull(idx[t]) /\ NoneInDma
  BY <1>1 DEF RingInv, MarkInv, MarkOk
<1>2. /\ \A b \in Blocks : IsFull(b)' <=> IsFull(b)
      /\ \A b \in Blocks : block'[b] = "synced" <=> block[b] = "synced"
  BY <1>1 DEF IsFull
<1>3. FullBlocks' = FullBlocks  BY <1>2, CountStays
<1>4. FullRun' = FullRun        BY <1>3, FullRunStays
<1>5. NextBlock' = NextBlock    BY <1>1 DEF NextBlock, Unnoticed
<1>6. UserHolds' = UserHolds    BY <1>2 DEF UserHolds
<1>7. hook' = hook              OBVIOUS
<1> QED  BY <1>4, <1>5, <1>6, <1>7, QueueSame

\* Removing the hook ends the stream; a block that was not noticed is dropped.
LEMMA StopQueue ==
    ASSUME TypeOK, EngineInv, RingInv, NEW t \in Threads, DdmaStopDisable(t)
    PROVE  QueueStep
<1> USE DEF EngineInv, CallInv, CallOk, HookOffInv, LaunchInv, RunInv, Launching,
            Launched, Filling, Filled, Advancing, Waiting, NoneInDma,
            OnlyWritingInDma, MuxLabels
<1> USE DEF DdmaStopDisable
<1>1. FullBlocks' = FullBlocks  BY CountStays DEF IsFull
<1>2. FullRun' = FullRun        BY <1>1, FullRunStays
<1>3. UserHolds' = UserHolds    BY DEF UserHolds
<1>4. NextBlock' = nextTag /\ nextTag \in Tags
  BY DEF NextBlock, Unnoticed
<1>5. hook' = FALSE
  OBVIOUS
<1>6. CASE hook
  <2>1. NextBlock = nextTag \/ (data[writing] \in Tags /\ NextBlock = data[writing]
                                /\ nextTag = NextTag(data[writing]))
    BY DEF NextBlock, RingInv, DataInv, Unnoticed
  <2>2. NextBlock' \in {NextBlock, Queue!Succ(NextBlock)}
    BY <1>4, <2>1, NextTagIsSucc
  <2> QED  BY <1>2, <1>3, <1>5, <1>6, <2>2 DEF QueueStep, Queue!Next, Queue!Stop
<1>7. CASE ~hook
  <2>1. NextBlock' = NextBlock
    BY <1>7, <1>4 DEF NextBlock, Unnoticed
  <2>2. hook' = hook
    BY <1>5, <1>7 DEF TypeIntr
  <2> QED  BY <1>2, <1>3, <2>1, <2>2, QueueSame
<1> QED  BY <1>6, <1>7

\* irq_get hands out the head of the queue.
LEMMA GetQueue ==
    ASSUME TypeOK, EngineInv, RingInv, NEW t \in Threads, IrqGet(t) PROVE QueueStep
<1> USE FullBlocksType DEF IrqGet
<1>1. \A b \in Blocks : IsFull(b)' <=> IsFull(b)  BY DEF IsFull
<1>2. FullBlocks' = FullBlocks  BY <1>1, CountStays
<1>3. FullRun' = FullRun        BY <1>2, FullRunStays
<1>4. NextBlock' = NextBlock    BY DEF NextBlock, Unnoticed, IsFull
<1>5. CASE block' = block
  BY <1>3, <1>4, <1>5, QueueSame DEF UserHolds
<1>6. CASE IsFull(reading) /\ block' = [block EXCEPT ![reading] = "synced"]
  <2>1. FullBlocks > 0
    BY <1>6, DistFacts DEF RingInv, RunOfFull
  <2>2. FullRun # << >>
    BY <2>1, FullRunType
  <2>3. UserHolds' = TRUE
    BY <1>6 DEF UserHolds
  <2> QED  BY <1>3, <1>4, <2>2, <2>3 DEF QueueStep, Queue!Next, Queue!Hand
<1> QED  BY <1>5, <1>6

\* ddma_mark takes the head off the queue.
LEMMA FreeQueue ==
    ASSUME TypeOK, EngineInv, RingInv, OneThreadPerFile, NEW t \in Threads,
           DdmaMarkFree(t)
    PROVE  QueueStep
<1> USE DEF EngineInv, CallInv, CallOk, HookOffInv, LaunchInv, RunInv, Launching,
            Launched, Filling, Filled, Advancing, Waiting, NoneInDma,
            OnlyWritingInDma, MuxLabels
<1> USE FullBlocksType DEF DdmaMarkFree
<1>1. /\ block[reading] = "synced" /\ reading' = DmaNext(reading)
      /\ block' = [block EXCEPT ![reading] = "free"]
  <2>1. idx[t] = reading  BY DEF RingInv, MarkInv, MarkOk
  <2> QED  BY <2>1
<1>2. FullBlocks' = FullBlocks - 1 /\ FullBlocks > 0
  <2>1. FullBlocks' = FullBlocks - 1
    BY <1>1, CountShrinks DEF IsFull
  <2>2. IsFull(reading) /\ Dist(reading) = 0
    BY <1>1, DistFacts DEF IsFull
  <2> QED  BY <2>1, <2>2 DEF RingInv, RunOfFull
<1>3. \A i \in 1 .. FullBlocks - 1 : Place(i)' = Place(i + 1)
  BY <1>1, PlaceAfterNext
<1>4. /\ FullRun = [i \in 1 .. FullBlocks |-> data[Place(i)]]
      /\ FullRun' = [i \in 1 .. FullBlocks - 1 |-> data[Place(i + 1)]]
  BY <1>2, <1>3 DEF FullRun, Place
<1>5. FullRun' = Tail(FullRun)
  BY <1>2, <1>4, FullRunType
<1>6. UserHolds /\ UserHolds' = FALSE
  BY <1>1, NextIsOther DEF UserHolds, RingInv, OnlyReadingSynced
<1>7. NextBlock' = NextBlock
  BY <1>1 DEF NextBlock, Unnoticed
<1>8. hook' = hook
  OBVIOUS
<1> QED  BY <1>5, <1>6, <1>7, <1>8 DEF QueueStep, Queue!Next, Queue!Free

\* Initially there is no stream and the queue is empty.
LEMMA QueueInit == Init => Queue!Init
<1> SUFFICES ASSUME Init PROVE Queue!Init
  OBVIOUS
<1>1. FullBlocks = 0
  <2>1. {b \in Blocks : IsFull(b)} = {}
    BY DEF Init, IsFull
  <2> QED  BY <2>1, FS_EmptySet DEF FullBlocks
<1>2. FullRun = << >>
  BY <1>1 DEF FullRun
<1>3. NextBlock = 0 /\ UserHolds = FALSE /\ hook = FALSE
  BY DEF Init, NextBlock, Unnoticed, UserHolds
<1> QED  BY <1>2, <1>3 DEF Queue!Init

\* Every step of the driver is a step of the queue, or leaves it alone.
LEMMA QueueNext ==
    ASSUME TypeOK, EngineInv, RingInv, OneThreadPerFile, NoOvertaking, [Next]_vars
    PROVE  QueueStep
<1>1. CASE AtRest
  BY <1>1, AtRestStays, AtRestQueue
<1>2. CASE Fill \/ HookFull \/ HookAdvance
  BY <1>2, FillQueue, HookFullQueue, HookAdvanceQueue
<1>3. ASSUME NEW t \in Threads, RingAction(t) PROVE QueueStep
  BY <1>3, StartQueue, UnseenQueue, StopQueue, GetQueue, FreeQueue DEF RingAction
<1> QED  BY <1>1, <1>2, <1>3, StepCases

\* Between start and stop demand-mode DMA is a bounded queue: blocks come out in the
\* order in which the front end has filled them, none is lost, none twice.  A ring of
\* a single block needs in addition a ddma_mark that is not overtaken.
THEOREM DeliversInOrder ==
    OneThreadPerFile /\ StopWaitsForIntr /\ NoOvertaking /\ Spec => InOrderDelivery
<1> SUFFICES ASSUME OneThreadPerFile, StopWaitsForIntr, NoOvertaking
             PROVE  Spec => InOrderDelivery
  OBVIOUS
<1>1. OneThreadPerFile /\ StopWaitsForIntr /\ Spec => [](TypeOK /\ EngineInv)
  BY EngineCorrect
<1>2. OneThreadPerFile /\ StopWaitsForIntr /\ NoOvertaking /\ Spec => []RingInv
  BY RingCorrect
<1>3. TypeOK /\ EngineInv /\ RingInv /\ [Next]_vars => [Queue!Next]_(Queue!qvars)
  BY QueueNext DEF QueueStep
<1> QED  BY QueueInit, <1>1, <1>2, <1>3, PTL DEF Spec, InOrderDelivery, Queue!QueueSpec


-----------------------------------------------------------------------------
(* A DMA that waits has told the user.                                     *)

\* sem_irqinfo keeps its one holder; the irq thread sleeps with nothing in hand.
LEMMA SemInvStep == ASSUME TypeOK, SemInv, [Next]_vars PROVE SemInv'
<1> USE DEF TypeThread, SemInv
<1>1. CASE Fill \/ Intr \/ IntrOther
  BY <1>1 DEF Fill, Intr, IntrEnter, IntrAck, IntrTest, HookFull, HookAdvance,
             HookNotify, IntrOther
<1>2. CASE Handler
  BY <1>2 DEF Handler, HandlerTake, HandlerLoad, HandlerStore
<1>3. ASSUME NEW t \in Threads, User(t) PROVE SemInv'
  <2> DEFINE Calm == /\ UNCHANGED <<tpc, tcmd, sem>>
                     /\ \A u \in Threads : pc'[u] = "got" => pc[u] = "got"
  <2>1. ASSUME Map(t) PROVE Calm
    BY <2>1 DEF Map, DdmaMapFree, DdmaMapNone, DdmaMapBlocks
  <2>2. ASSUME Start(t) PROVE Calm
    BY <2>2 DEF Start, DdmaStart, DdmaStartLaunch, DdmaStartDone
  <2>3. ASSUME Stop(t) PROVE Calm
    BY <2>3 DEF Stop, DdmaStop, DdmaStopDisable, DdmaStopAbort, DdmaStopFinish
  <2>4. ASSUME Mark(t) PROVE Calm
    BY <2>4 DEF Mark, DdmaMark, DdmaMarkFree, DdmaMarkRestart, DdmaMarkAnnounce
  <2>5. ASSUME Ctl(t) PROVE Calm
    BY <2>5 DEF Ctl, IrqCtlReserve, IrqCtlClear, IrqCtlCheck, IrqCtlDisable
  <2>6. ASSUME Rel(t) PROVE Calm
    BY <2>6 DEF Rel, Open, Release, ReleaseMapRefused, ReleaseEnd
  <2>7. Calm => SemInv'
    OBVIOUS
  <2>8. CASE Get(t)
    <3>1. ASSUME IrqWait(t) \/ IrqAck(t) PROVE Calm
      BY <3>1 DEF IrqWait, IrqAck
    <3>2. CASE IrqGet(t)
      BY <3>2 DEF IrqGet
    <3>3. CASE IrqGetAutoack(t)
      BY <3>3 DEF IrqGetAutoack
    <3> QED  BY <2>8, <2>7, <3>1, <3>2, <3>3 DEF Get
  <2> QED  BY <1>3, <2>1, <2>2, <2>3, <2>4, <2>5, <2>6, <2>7, <2>8 DEF User
<1>4. CASE UNCHANGED vars
  BY <1>4 DEF vars
<1> QED  BY <1>1, <1>2, <1>3, <1>4 DEF Next

\* The interrupt stays with its file, and a ring that is mapped with its owner.
LEMMA OwnedInvStep ==
    ASSUME TypeOK, EngineInv, OneThreadPerFile, OwnedInv, [Next]_vars PROVE OwnedInv'
<1> USE DEF OwnedInv
<1>1. CASE Fill \/ Intr \/ IntrOther \/ Handler
  BY <1>1 DEF Fill, Intr, IntrEnter, IntrAck, IntrTest, HookFull, HookAdvance,
             HookNotify, IntrOther, Handler, HandlerTake, HandlerLoad, HandlerStore
<1>2. ASSUME NEW t \in Threads, User(t) PROVE OwnedInv'
  <2>1. CASE Map(t)
    BY <2>1 DEF Map, DdmaMapFree, DdmaMapNone, DdmaMapBlocks
  <2>2. CASE Start(t)
    BY <2>2 DEF Start, DdmaStart, DdmaStartLaunch, DdmaStartDone, EngineInv, CallInv,
               CallOk
  <2>3. CASE Stop(t)
    BY <2>3 DEF Stop, DdmaStop, DdmaStopDisable, DdmaStopAbort, DdmaStopFinish,
               EngineInv, CallInv, CallOk
  <2>4. CASE Mark(t)
    BY <2>4 DEF Mark, DdmaMark, DdmaMarkFree, DdmaMarkRestart, DdmaMarkAnnounce
  <2>5. CASE Get(t)
    BY <2>5 DEF Get, IrqWait, IrqGet, IrqGetAutoack, IrqAck
  <2>6. CASE Ctl(t)
    BY <2>6 DEF Ctl, IrqCtlReserve, IrqCtlClear, IrqCtlCheck, IrqCtlDisable
  <2>7. CASE Rel(t)
    BY <2>7 DEF Rel, Open, Release, ReleaseMapRefused, ReleaseEnd
  <2> QED  BY <1>2, <2>1, <2>2, <2>3, <2>4, <2>5, <2>6, <2>7 DEF User
<1>3. CASE UNCHANGED vars
  BY <1>3 DEF vars
<1> QED  BY <1>1, <1>2, <1>3 DEF Next

\* In a DMA that waits the channel is idle and the hook has left its block.
LEMMA StalledWaits == ASSUME EngineInv, Stalled PROVE Waiting
BY DEF EngineInv, HookOffInv, LaunchInv, RunInv, Filling, Filled, Advancing, Waiting,
       Stalled, Launched, Launching

\* If the owner of a waiting DMA has the interrupt, his are the only calls on it.
LEMMA OwnerAlone ==
    ASSUME EngineInv, OneThreadPerFile, OwnedInv, owned[owner], status # "invalid"
    PROVE  \A t, u \in Threads : FdOf[t] = owner /\ owned[FdOf[u]] => u = t
BY DEF OwnedInv

\* All blocks are full, the reading block too.
LEMMA AllFull ==
    ASSUME TypeOK, RingInv, FullBlocks = NumBlocks PROVE IsFull(reading)
BY DistFacts DEF RingInv, RunOfFull

\* Interrupt handler and irq thread pass the announcement on, or lose an update.
LEMMA StallIntr ==
    ASSUME TypeOK, EngineInv, SemInv, StallInv, Fill \/ Intr \/ IntrOther \/ Handler
    PROVE  StallInv' \/ LostUpdate
<1> USE DEF SemInv, StallInv, Stalled, Announced, OnItsWay, Launched,
            TypeThread
<1>1. CASE Fill \/ IntrEnter \/ IntrAck \/ IntrTest \/ HookNotify \/ IntrOther
  BY <1>1, StalledWaits DEF Fill, IntrEnter, IntrAck, IntrTest, HookNotify, IntrOther,
             Waiting
<1>2. CASE HookFull
  BY <1>2, StalledWaits DEF HookFull, Waiting
<1>3. CASE HookAdvance
  BY <1>3 DEF HookAdvance
<1>4. CASE Handler
  BY <1>4 DEF Handler, HandlerTake, HandlerLoad, HandlerStore, LostUpdate
<1> QED  BY <1>1, <1>2, <1>3, <1>4 DEF Intr

\* Calls that map, start and stop the ring.
LEMMA StallSetup ==
    ASSUME TypeOK, EngineInv, OneThreadPerFile, OwnedInv, StallInv,
           NEW t \in Threads, Map(t) \/ Start(t) \/ Stop(t) \/ Rel(t)
    PROVE  StallInv'
<1> USE DEF EngineInv, CallInv, CallOk, HookOffInv, LaunchInv, RunInv, Launching,
            Launched, Filling, Filled, Advancing, Waiting, NoneInDma,
            OnlyWritingInDma, MuxLabels
<1> USE DEF OwnedInv, StallInv, Stalled, Announced, OnItsWay
<1>1. CASE Map(t)
  BY <1>1, NoneAssumption DEF Map, DdmaMapFree, DdmaMapNone, DdmaMapBlocks
<1>2. CASE DdmaStart(t) \/ DdmaStartLaunch(t)
  BY <1>2 DEF DdmaStart, DdmaStartLaunch
<1>3. CASE DdmaStartDone(t)
  BY <1>3 DEF DdmaStartDone
<1>4. CASE Stop(t)
  BY <1>4 DEF Stop, DdmaStop, DdmaStopDisable, DdmaStopAbort, DdmaStopFinish
<1>5. CASE Rel(t)
  BY <1>5 DEF Rel, Open, Release, ReleaseMapRefused, ReleaseEnd
<1> QED  BY <1>1, <1>2, <1>3, <1>4, <1>5 DEF Start

\* ddma_mark announces or restarts, unless it is refused.
LEMMA StallMark ==
    ASSUME TypeOK, EngineInv, RingInv, OneThreadPerFile, OwnedInv, StallInv,
           NEW t \in Threads, Mark(t), ~Refused(t)
    PROVE  StallInv'
<1>1. SUFFICES ASSUME Stalled'
               PROVE  Announced' /\ ((\E u \in Threads : pc[u] = "got")' => OnItsWay')
  BY DEF StallInv
<1>2. owner = FdOf[t] /\ status = "running"
  BY DEF Mark, DdmaMark, DdmaMarkFree, DdmaMarkRestart, DdmaMarkAnnounce, EngineInv,
         CallInv, CallOk
<1>3. owned[owner] /\ status' = status /\ owned' = owned /\ owner' = owner
  BY <1>1 DEF Mark, DdmaMark, DdmaMarkFree, DdmaMarkRestart, DdmaMarkAnnounce, Stalled
<1>4. pc'[t] # "got" /\ \A u \in Threads \ {t} : pc'[u] = pc[u]
  BY DEF Mark, DdmaMark, DdmaMarkFree, DdmaMarkRestart, DdmaMarkAnnounce
<1>5. \A u \in Threads : pc'[u] # "got"
  BY <1>2, <1>3, <1>4, OwnerAlone DEF OwnedInv
<1>6. CASE DdmaMark(t) \/ DdmaMarkFree(t)
  BY <1>5, <1>6 DEF DdmaMark, DdmaMarkFree, Announced
<1>7. CASE DdmaMarkRestart(t)
  <2>1. spinHeld' = spinHeld
    BY <1>7, RefusedFacts
  <2> QED  BY <1>1, <1>5, <1>7, <2>1 DEF DdmaMarkRestart, Stalled, Announced
<1>8. CASE DdmaMarkAnnounce(t)
  <2>1. blstat = "blocked"
    BY <1>1, <1>8 DEF DdmaMarkAnnounce, Stalled
  <2>2. ASSUME NEW u \in Threads, pc[u] = "restart" PROVE FALSE
    BY <1>2, <1>8, <2>2 DEF DdmaMarkAnnounce, EngineInv, CallInv, CallOk
  <2>3. IsFull(reading)
    BY <2>1, <2>2, AllFull DEF RingInv, BlockedInv
  <2> QED  BY <1>5, <1>8, <2>3 DEF DdmaMarkAnnounce, IsFull, Announced
<1> QED  BY <1>6, <1>7, <1>8 DEF Mark

\* irq_get takes back no announcement of a DMA that waits; irq_ack does if it is late.
LEMMA StallGet ==
    ASSUME TypeOK, EngineInv, RingInv, OneThreadPerFile, SemInv, OwnedInv, StallInv,
           NEW t \in Threads, Get(t), ~LateAck(t)
    PROVE  StallInv'
<1> USE DEF SemInv, StallInv, Stalled, Announced, OnItsWay, Launched
<1>1. CASE IrqWait(t)
  BY <1>1 DEF IrqWait
<1>2. CASE IrqGet(t)
  <2>1. CASE pc'[t] # "got"
    BY <1>2, <2>1 DEF IrqGet
  <2>2. CASE block'[reading] = "synced"
    BY <1>2, <2>2 DEF IrqGet
  <2>3. ASSUME pending, owned[Fd(t)], ~(status = "running" /\ IsFull(reading)), Stalled
        PROVE  FALSE
    <3>1. owner = FdOf[t]
      BY <2>3 DEF OwnedInv, EngineInv, CallInv, CallOk
    <3>2. ASSUME NEW u \in Threads, pc[u] \in {"launched", "restart"} PROVE FALSE
      BY <1>2, <3>1, <3>2 DEF IrqGet, EngineInv, CallInv, CallOk
    <3>3. FullBlocks # NumBlocks
      BY <2>3, <3>2, AllFull
    <3> QED  BY <2>3, <3>2, <3>3 DEF RingInv, BlockedInv
  <2> QED  BY <1>2, <2>1, <2>2, <2>3 DEF IrqGet
<1>3. CASE IrqGetAutoack(t)
  BY <1>3 DEF IrqGetAutoack
<1>4. CASE IrqAck(t)
  BY <1>4 DEF IrqAck, LateAck
<1> QED  BY <1>1, <1>2, <1>3, <1>4 DEF Get

\* irq_ctl announces a DMA that waits before it returns.
LEMMA StallCtl ==
    ASSUME TypeOK, EngineInv, OneThreadPerFile, SemInv, OwnedInv, StallInv,
           NEW t \in Threads, Ctl(t)
    PROVE  StallInv'
<1> USE DEF SemInv, OwnedInv, StallInv, Stalled, Announced, OnItsWay,
            Launched
<1>1. CASE IrqCtlReserve(t)
  <2>1. \A u \in Threads : pc'[u] # "got"
    BY <1>1 DEF IrqCtlReserve
  <2> QED  BY <1>1, <2>1 DEF IrqCtlReserve
<1>2. CASE IrqCtlClear(t)
  BY <1>2 DEF IrqCtlClear
<1>3. CASE IrqCtlCheck(t)
  <2>1. owned[FdOf[t]] /\ \A u \in Threads : pc'[u] # "got"
    BY <1>3 DEF IrqCtlCheck
  <2>2. Stalled' => status = "running" /\ owner = FdOf[t] /\ blstat = "blocked"
    BY <1>3, <2>1 DEF IrqCtlCheck, EngineInv, CallInv, CallOk
  <2> QED  BY <1>3, <2>1, <2>2 DEF IrqCtlCheck
<1>4. CASE IrqCtlDisable(t)
  BY <1>4 DEF IrqCtlDisable
<1> QED  BY <1>1, <1>2, <1>3, <1>4 DEF Ctl

\* Every other step keeps the promise.
LEMMA StallInvStep ==
    ASSUME TypeOK, EngineInv, RingInv, OneThreadPerFile, SemInv, OwnedInv, StallInv,
           [Next]_vars
    PROVE  StallInv' \/ Unannounced
<1>1. CASE Fill \/ Intr \/ IntrOther \/ Handler
  BY <1>1, StallIntr DEF Unannounced
<1>2. ASSUME NEW t \in Threads, User(t) PROVE StallInv' \/ Refused(t) \/ LateAck(t)
  BY <1>2, StallSetup, StallMark, StallGet, StallCtl DEF User
<1>3. CASE UNCHANGED vars
  BY <1>3 DEF vars, StallInv, Stalled, Announced, OnItsWay, Launched
<1> QED  BY <1>1, <1>2, <1>3 DEF Next, Unannounced

\* A DMA that waits for a user who has reserved its interrupt has told him, whatever
\* he does at that moment.  Only three steps can lose the announcement: the irq
\* thread's update of pending_irqs if it is not atomic, a ddma_mark that has been
\* overtaken, and an irq_ack that comes after the mark instead of before it.
THEOREM AnnounceCorrect ==
    /\ StallInv => BlockedIsAnnounced
    /\ OneThreadPerFile /\ StopWaitsForIntr /\ NoOvertaking /\ Spec
           => StallInv /\ [][StallInv => StallInv' \/ Unannounced]_vars
<1>1. StallInv => BlockedIsAnnounced
  BY DEF StallInv, Stalled, BlockedIsAnnounced
<1>2. ASSUME OneThreadPerFile, StopWaitsForIntr, NoOvertaking
      PROVE  Spec => StallInv /\ [][StallInv => StallInv' \/ Unannounced]_vars
  <2>1. Init => SemInv /\ OwnedInv /\ StallInv
    BY NoneAssumption DEF Init, SemInv, OwnedInv, StallInv, Stalled, Launched
  <2>2. OneThreadPerFile /\ StopWaitsForIntr /\ Spec => [](TypeOK /\ EngineInv)
    BY EngineCorrect
  <2>3. OneThreadPerFile /\ StopWaitsForIntr /\ NoOvertaking /\ Spec => []RingInv
    BY RingCorrect
  <2>4. TypeOK /\ EngineInv /\ RingInv /\ SemInv /\ OwnedInv /\ [Next]_vars
            => /\ SemInv' /\ OwnedInv'
               /\ [StallInv => StallInv' \/ Unannounced]_vars
    BY <1>2, SemInvStep, OwnedInvStep, StallInvStep
  <2> QED  BY <1>2, <2>1, <2>2, <2>3, <2>4, PTL DEF Spec
<1> QED  BY <1>1, <1>2
=============================================================================
