--------------------------- MODULE DemandDmaProofs ---------------------------
(***************************************************************************)
(* What TLAPS proves about DemandDma for every number of blocks, threads   *)
(* and files.  Type correctness needs no assumption beyond those on the    *)
(* constants; the ring theorem assumes one thread per device file and that *)
(* ddma_stop outlasts a running interrupt handler.  StopCorrect,           *)
(* MuxCorrect and OwnerCorrect hold without any assumption and name the    *)
(* steps and states in which the driver breaks its promise.                *)
(***************************************************************************)
EXTENDS DemandDmaInv, TLAPS

-----------------------------------------------------------------------------
(* Type correctness.                                                       *)

\* DMA_NEXT stays inside the ring.
LEMMA DmaNextInBlocks == ASSUME NEW b \in Blocks PROVE DmaNext(b) \in Blocks
BY NumBlocksAssumption DEF Blocks, DmaNext

\* Block 0 exists, and no block is the dummy.
LEMMA ZeroAndDummy == 0 \in Blocks /\ Dummy \notin Blocks
BY NumBlocksAssumption DEF Blocks, Dummy

\* The data counter wraps inside its range.
LEMMA NextTagInTags == 0 \in Tags /\ \A x \in Tags : NextTag(x) \in Tags
BY TagModAssumption DEF Tags, NextTag

\* The driver starts in a state of the right type.
LEMMA TypeInit == Init => TypeOK
<1> SUFFICES ASSUME Init PROVE TypeOK
  OBVIOUS
<1> USE ZeroAndDummy, NextTagInTags DEF Init
<1>1. TypeRing    BY DEF TypeRing
<1>2. TypePlx     BY DEF TypePlx
<1>3. TypeIntr    BY DEF TypeIntr
<1>4. TypeThread  BY DEF TypeThread
<1>5. TypeUser    BY DEF TypeUser, CallLabels
<1> QED  BY <1>1, <1>2, <1>3, <1>4, <1>5 DEF TypeOK

\* Steps keep the types of struct demand_dma.
LEMMA TypeRingStep == ASSUME TypeOK, [Next]_vars PROVE TypeRing'
<1> USE ZeroAndDummy, DmaNextInBlocks, NextTagInTags, FdOfAssumption
    DEF TypeOK, TypeRing, CallLabels, Goto, Fd, CanCall,
        dmaVars, plxVars, intrVars, thrVars, irqVars, userVars, ownVars,
        ringVars, chanVars, dataVars, runVars, fileVars
<1>1. CASE Fill
  BY <1>1 DEF Fill, TypeRing, TypePlx
<1>2. CASE Intr
  BY <1>2 DEF Intr, IntrEnter, IntrAck, IntrTest, HookFull, HookAdvance, HookNotify,
             StartDma, TypeRing, TypePlx
<1>3. CASE IntrOther
  BY <1>3 DEF IntrOther
<1>4. CASE Handler
  BY <1>4 DEF Handler, HandlerTake, HandlerLoad, HandlerStore
<1>5. ASSUME NEW t \in Threads, User(t) PROVE TypeRing'
  <2>1. CASE Map(t)
    BY <2>1 DEF Map, DdmaMapFree, DdmaMapNone, DdmaMapBlocks, TypeRing
  <2>2. CASE Start(t)
    BY <2>2 DEF Start, DdmaStart, DdmaStartLaunch, DdmaStartDone, StartDma, TypeRing
  <2>3. CASE Stop(t)
    BY <2>3 DEF Stop, DdmaStop, DdmaStopDisable, DdmaStopAbort, DdmaStopFinish,
               StartDma, TypeRing
  <2>4. CASE Mark(t)
    BY <2>4 DEF Mark, DdmaMark, DdmaMarkFree, DdmaMarkRestart, DdmaMarkAnnounce,
               StartDma, TypeRing
  <2>5. CASE Get(t)
    BY <2>5 DEF Get, IrqWait, IrqGet, IrqGetAutoack, IrqAck, TypeRing
  <2>6. CASE Ctl(t)
    BY <2>6 DEF Ctl, IrqCtlReserve, IrqCtlClear, IrqCtlCheck, IrqCtlDisable, TypeRing
  <2>7. CASE Rel(t)
    BY <2>7 DEF Rel, Open, Release, ReleaseMapRefused, ReleaseEnd, TypeRing
  <2> QED  BY <1>5, <2>1, <2>2, <2>3, <2>4, <2>5, <2>6, <2>7 DEF User
<1>6. CASE UNCHANGED vars
  BY <1>6 DEF vars
<1> QED  BY <1>1, <1>2, <1>3, <1>4, <1>5, <1>6 DEF Next

\* Steps keep the types of the DMA channel.
LEMMA TypePlxStep == ASSUME TypeOK, [Next]_vars PROVE TypePlx'
<1> USE ZeroAndDummy, DmaNextInBlocks, NextTagInTags, FdOfAssumption
    DEF TypeOK, TypePlx, CallLabels, Goto, Fd, CanCall,
        dmaVars, plxVars, intrVars, thrVars, irqVars, userVars, ownVars,
        ringVars, chanVars, dataVars, runVars, fileVars
<1>1. CASE Fill
  BY <1>1 DEF Fill, TypeRing, TypePlx
<1>2. CASE Intr
  BY <1>2 DEF Intr, IntrEnter, IntrAck, IntrTest, HookFull, HookAdvance, HookNotify,
             StartDma, TypeRing, TypePlx
<1>3. CASE IntrOther
  BY <1>3 DEF IntrOther
<1>4. CASE Handler
  BY <1>4 DEF Handler, HandlerTake, HandlerLoad, HandlerStore
<1>5. ASSUME NEW t \in Threads, User(t) PROVE TypePlx'
  <2>1. CASE Map(t)
    BY <2>1 DEF Map, DdmaMapFree, DdmaMapNone, DdmaMapBlocks, TypeRing
  <2>2. CASE Start(t)
    BY <2>2 DEF Start, DdmaStart, DdmaStartLaunch, DdmaStartDone, StartDma, TypeRing
  <2>3. CASE Stop(t)
    BY <2>3 DEF Stop, DdmaStop, DdmaStopDisable, DdmaStopAbort, DdmaStopFinish,
               StartDma, TypeRing
  <2>4. CASE Mark(t)
    BY <2>4 DEF Mark, DdmaMark, DdmaMarkFree, DdmaMarkRestart, DdmaMarkAnnounce,
               StartDma, TypeRing
  <2>5. CASE Get(t)
    BY <2>5 DEF Get, IrqWait, IrqGet, IrqGetAutoack, IrqAck, TypeRing
  <2>6. CASE Ctl(t)
    BY <2>6 DEF Ctl, IrqCtlReserve, IrqCtlClear, IrqCtlCheck, IrqCtlDisable, TypeRing
  <2>7. CASE Rel(t)
    BY <2>7 DEF Rel, Open, Release, ReleaseMapRefused, ReleaseEnd, TypeRing
  <2> QED  BY <1>5, <2>1, <2>2, <2>3, <2>4, <2>5, <2>6, <2>7 DEF User
<1>6. CASE UNCHANGED vars
  BY <1>6 DEF vars
<1> QED  BY <1>1, <1>2, <1>3, <1>4, <1>5, <1>6 DEF Next

\* Steps keep the types of the interrupt handler.
LEMMA TypeIntrStep == ASSUME TypeOK, [Next]_vars PROVE TypeIntr'
<1> USE ZeroAndDummy, DmaNextInBlocks, NextTagInTags, FdOfAssumption
    DEF TypeOK, TypeIntr, CallLabels, Goto, Fd, CanCall,
        dmaVars, plxVars, intrVars, thrVars, irqVars, userVars, ownVars,
        ringVars, chanVars, dataVars, runVars, fileVars
<1>1. CASE Fill
  BY <1>1 DEF Fill, TypeRing, TypePlx
<1>2. CASE Intr
  BY <1>2 DEF Intr, IntrEnter, IntrAck, IntrTest, HookFull, HookAdvance, HookNotify,
             StartDma, TypeRing, TypePlx
<1>3. CASE IntrOther
  BY <1>3 DEF IntrOther
<1>4. CASE Handler
  BY <1>4 DEF Handler, HandlerTake, HandlerLoad, HandlerStore
<1>5. ASSUME NEW t \in Threads, User(t) PROVE TypeIntr'
  <2>1. CASE Map(t)
    BY <2>1 DEF Map, DdmaMapFree, DdmaMapNone, DdmaMapBlocks, TypeRing
  <2>2. CASE Start(t)
    BY <2>2 DEF Start, DdmaStart, DdmaStartLaunch, DdmaStartDone, StartDma, TypeRing
  <2>3. CASE Stop(t)
    BY <2>3 DEF Stop, DdmaStop, DdmaStopDisable, DdmaStopAbort, DdmaStopFinish,
               StartDma, TypeRing
  <2>4. CASE Mark(t)
    BY <2>4 DEF Mark, DdmaMark, DdmaMarkFree, DdmaMarkRestart, DdmaMarkAnnounce,
               StartDma, TypeRing
  <2>5. CASE Get(t)
    BY <2>5 DEF Get, IrqWait, IrqGet, IrqGetAutoack, IrqAck, TypeRing
  <2>6. CASE Ctl(t)
    BY <2>6 DEF Ctl, IrqCtlReserve, IrqCtlClear, IrqCtlCheck, IrqCtlDisable, TypeRing
  <2>7. CASE Rel(t)
    BY <2>7 DEF Rel, Open, Release, ReleaseMapRefused, ReleaseEnd, TypeRing
  <2> QED  BY <1>5, <2>1, <2>2, <2>3, <2>4, <2>5, <2>6, <2>7 DEF User
<1>6. CASE UNCHANGED vars
  BY <1>6 DEF vars
<1> QED  BY <1>1, <1>2, <1>3, <1>4, <1>5, <1>6 DEF Next

\* Steps keep the types of the irq thread and the pending bit.
LEMMA TypeThreadStep == ASSUME TypeOK, [Next]_vars PROVE TypeThread'
<1> USE ZeroAndDummy, DmaNextInBlocks, NextTagInTags, FdOfAssumption
    DEF TypeOK, TypeThread, CallLabels, Goto, Fd, CanCall,
        dmaVars, plxVars, intrVars, thrVars, irqVars, userVars, ownVars,
        ringVars, chanVars, dataVars, runVars, fileVars
<1>1. CASE Fill
  BY <1>1 DEF Fill, TypeRing, TypePlx
<1>2. CASE Intr
  BY <1>2 DEF Intr, IntrEnter, IntrAck, IntrTest, HookFull, HookAdvance, HookNotify,
             StartDma, TypeRing, TypePlx
<1>3. CASE IntrOther
  BY <1>3 DEF IntrOther
<1>4. CASE Handler
  BY <1>4 DEF Handler, HandlerTake, HandlerLoad, HandlerStore
<1>5. ASSUME NEW t \in Threads, User(t) PROVE TypeThread'
  <2>1. CASE Map(t)
    BY <2>1 DEF Map, DdmaMapFree, DdmaMapNone, DdmaMapBlocks, TypeRing
  <2>2. CASE Start(t)
    BY <2>2 DEF Start, DdmaStart, DdmaStartLaunch, DdmaStartDone, StartDma, TypeRing
  <2>3. CASE Stop(t)
    BY <2>3 DEF Stop, DdmaStop, DdmaStopDisable, DdmaStopAbort, DdmaStopFinish,
               StartDma, TypeRing
  <2>4. CASE Mark(t)
    BY <2>4 DEF Mark, DdmaMark, DdmaMarkFree, DdmaMarkRestart, DdmaMarkAnnounce,
               StartDma, TypeRing
  <2>5. CASE Get(t)
    BY <2>5 DEF Get, IrqWait, IrqGet, IrqGetAutoack, IrqAck, TypeRing
  <2>6. CASE Ctl(t)
    BY <2>6 DEF Ctl, IrqCtlReserve, IrqCtlClear, IrqCtlCheck, IrqCtlDisable, TypeRing
  <2>7. CASE Rel(t)
    BY <2>7 DEF Rel, Open, Release, ReleaseMapRefused, ReleaseEnd, TypeRing
  <2> QED  BY <1>5, <2>1, <2>2, <2>3, <2>4, <2>5, <2>6, <2>7 DEF User
<1>6. CASE UNCHANGED vars
  BY <1>6 DEF vars
<1> QED  BY <1>1, <1>2, <1>3, <1>4, <1>5, <1>6 DEF Next

\* Steps keep the types of files and calls.
LEMMA TypeUserStep == ASSUME TypeOK, [Next]_vars PROVE TypeUser'
<1> USE ZeroAndDummy, DmaNextInBlocks, NextTagInTags, FdOfAssumption
    DEF TypeOK, TypeUser, CallLabels, Goto, Fd, CanCall,
        dmaVars, plxVars, intrVars, thrVars, irqVars, userVars, ownVars,
        ringVars, chanVars, dataVars, runVars, fileVars
<1>1. CASE Fill
  BY <1>1 DEF Fill, TypeRing, TypePlx
<1>2. CASE Intr
  BY <1>2 DEF Intr, IntrEnter, IntrAck, IntrTest, HookFull, HookAdvance, HookNotify,
             StartDma, TypeRing, TypePlx
<1>3. CASE IntrOther
  BY <1>3 DEF IntrOther
<1>4. CASE Handler
  BY <1>4 DEF Handler, HandlerTake, HandlerLoad, HandlerStore
<1>5. ASSUME NEW t \in Threads, User(t) PROVE TypeUser'
  <2>1. CASE Map(t)
    BY <2>1 DEF Map, DdmaMapFree, DdmaMapNone, DdmaMapBlocks, TypeRing
  <2>2. CASE Start(t)
    BY <2>2 DEF Start, DdmaStart, DdmaStartLaunch, DdmaStartDone, StartDma, TypeRing
  <2>3. CASE Stop(t)
    BY <2>3 DEF Stop, DdmaStop, DdmaStopDisable, DdmaStopAbort, DdmaStopFinish,
               StartDma, TypeRing
  <2>4. CASE Mark(t)
    BY <2>4 DEF Mark, DdmaMark, DdmaMarkFree, DdmaMarkRestart, DdmaMarkAnnounce,
               StartDma, TypeRing
  <2>5. CASE Get(t)
    BY <2>5 DEF Get, IrqWait, IrqGet, IrqGetAutoack, IrqAck, TypeRing
  <2>6. CASE Ctl(t)
    <3>1. CASE IrqCtlReserve(t)  BY <3>1 DEF IrqCtlReserve
    <3>2. CASE IrqCtlClear(t)    BY <3>2 DEF IrqCtlClear
    <3>3. CASE IrqCtlCheck(t)    BY <3>3 DEF IrqCtlCheck
    <3>4. CASE IrqCtlDisable(t)  BY <3>4 DEF IrqCtlDisable
    <3> QED  BY <2>6, <3>1, <3>2, <3>3, <3>4 DEF Ctl
  <2>7. CASE Rel(t)
    BY <2>7 DEF Rel, Open, Release, ReleaseMapRefused, ReleaseEnd, TypeRing
  <2> QED  BY <1>5, <2>1, <2>2, <2>3, <2>4, <2>5, <2>6, <2>7 DEF User
<1>6. CASE UNCHANGED vars
  BY <1>6 DEF vars
<1> QED  BY <1>1, <1>2, <1>3, <1>4, <1>5, <1>6 DEF Next

\* The driver, the channel and the calls keep every variable in its range.
THEOREM TypeCorrect == Spec => []TypeOK
<1>1. TypeOK /\ [Next]_vars => TypeOK'
  BY TypeRingStep, TypePlxStep, TypeIntrStep, TypeThreadStep, TypeUserStep DEF TypeOK
<1> QED  BY TypeInit, <1>1, PTL DEF Spec

-----------------------------------------------------------------------------
(* The ring: what the interrupt handler, the channel and the calls rely on. *)

\* A call keeps what it has checked, whatever the others do.
LEMMA CallInvStep ==
    ASSUME TypeOK, EngineInv, OneThreadPerFile, StopWaitsForIntr, [Next]_vars
    PROVE  CallInv'
<1> SUFFICES ASSUME NEW u \in Threads PROVE CallOk(u)'
  BY DEF CallInv
<1> USE DmaNextInBlocks, ZeroAndDummy, FdOfAssumption, NoneAssumption
    DEF EngineInv, CallInv, CallOk, HookOffInv, LaunchInv, RunInv, OneThreadPerFile,
        Launching, Launched, Filling, Filled, Advancing, Waiting, NoneInDma,
        OnlyWritingInDma, TypeOK, TypeRing, TypePlx, TypeIntr, TypeUser, MuxLabels,
        IsFull, Goto, Fd, CanCall, Mine, StartDma, dmaVars, plxVars, intrVars,
        thrVars, irqVars, userVars, ownVars, ringVars, chanVars, dataVars, runVars,
        fileVars
<1>1. CASE Fill
  BY <1>1 DEF Fill
<1>2. CASE Intr
  <2>1. CASE IntrEnter  BY <2>1 DEF IntrEnter
  <2>2. CASE IntrAck  BY <2>2 DEF IntrAck
  <2>3. CASE IntrTest  BY <2>3 DEF IntrTest
  <2>4. CASE HookFull  BY <2>4 DEF HookFull
  <2>5. CASE HookAdvance  BY <2>5 DEF HookAdvance
  <2>6. CASE HookNotify  BY <2>6 DEF HookNotify
  <2> QED  BY <1>2, <2>1, <2>2, <2>3, <2>4, <2>5, <2>6 DEF Intr
<1>3. CASE IntrOther \/ Handler
  BY <1>3 DEF IntrOther, Handler, HandlerTake, HandlerLoad, HandlerStore
<1>4. ASSUME NEW t \in Threads, User(t) PROVE CallOk(u)'
  <2>1. CASE Map(t)
    BY <2>1 DEF Map, DdmaMapFree, DdmaMapNone, DdmaMapBlocks
  <2>2. CASE Start(t)
    BY <2>2 DEF Start, DdmaStart, DdmaStartLaunch, DdmaStartDone
  <2>3. CASE Stop(t)
    BY <2>3 DEF Stop, DdmaStop, DdmaStopDisable, DdmaStopAbort, DdmaStopFinish
  <2>4. CASE Mark(t)
    BY <2>4 DEF Mark, DdmaMark, DdmaMarkFree, DdmaMarkRestart, DdmaMarkAnnounce
  <2>5. CASE Get(t)
    BY <2>5 DEF Get, IrqWait, IrqGet, IrqGetAutoack, IrqAck
  <2>6. CASE Ctl(t)
    BY <2>6 DEF Ctl, IrqCtlReserve, IrqCtlClear, IrqCtlCheck, IrqCtlDisable
  <2>7. CASE Rel(t)
    BY <2>7 DEF Rel, Open, Release, ReleaseMapRefused, ReleaseEnd
  <2> QED  BY <1>4, <2>1, <2>2, <2>3, <2>4, <2>5, <2>6, <2>7 DEF User
<1>5. CASE UNCHANGED vars
  BY <1>5 DEF vars
<1> QED  BY <1>1, <1>2, <1>3, <1>4, <1>5 DEF Next

\* With the hook removed no interrupt of the channel is left.
LEMMA HookOffInvStep ==
    ASSUME TypeOK, EngineInv, OneThreadPerFile, StopWaitsForIntr, [Next]_vars
    PROVE  HookOffInv'
<1> USE DmaNextInBlocks, ZeroAndDummy, FdOfAssumption, NoneAssumption
    DEF EngineInv, CallInv, CallOk, HookOffInv, LaunchInv, RunInv, OneThreadPerFile,
        Launching, Launched, Filling, Filled, Advancing, Waiting, NoneInDma,
        OnlyWritingInDma, TypeOK, TypeRing, TypePlx, TypeIntr, TypeUser, MuxLabels,
        IsFull, Goto, Fd, CanCall, Mine, StartDma, dmaVars, plxVars, intrVars,
        thrVars, irqVars, userVars, ownVars, ringVars, chanVars, dataVars, runVars,
        fileVars
<1>1. CASE Fill
  BY <1>1 DEF Fill
<1>2. CASE Intr
  <2>1. CASE IntrEnter  BY <2>1 DEF IntrEnter
  <2>2. CASE IntrAck  BY <2>2 DEF IntrAck
  <2>3. CASE IntrTest  BY <2>3 DEF IntrTest
  <2>4. CASE HookFull  BY <2>4 DEF HookFull
  <2>5. CASE HookAdvance  BY <2>5 DEF HookAdvance
  <2>6. CASE HookNotify  BY <2>6 DEF HookNotify
  <2> QED  BY <1>2, <2>1, <2>2, <2>3, <2>4, <2>5, <2>6 DEF Intr
<1>3. CASE IntrOther \/ Handler
  BY <1>3 DEF IntrOther, Handler, HandlerTake, HandlerLoad, HandlerStore
<1>4. ASSUME NEW t \in Threads, User(t) PROVE HookOffInv'
  <2>1. CASE Map(t)
    BY <2>1 DEF Map, DdmaMapFree, DdmaMapNone, DdmaMapBlocks
  <2>2. CASE Start(t)
    BY <2>2 DEF Start, DdmaStart, DdmaStartLaunch, DdmaStartDone
  <2>3. CASE Stop(t)
    BY <2>3 DEF Stop, DdmaStop, DdmaStopDisable, DdmaStopAbort, DdmaStopFinish
  <2>4. CASE Mark(t)
    BY <2>4 DEF Mark, DdmaMark, DdmaMarkFree, DdmaMarkRestart, DdmaMarkAnnounce
  <2>5. CASE Get(t)
    BY <2>5 DEF Get, IrqWait, IrqGet, IrqGetAutoack, IrqAck
  <2>6. CASE Ctl(t)
    BY <2>6 DEF Ctl, IrqCtlReserve, IrqCtlClear, IrqCtlCheck, IrqCtlDisable
  <2>7. CASE Rel(t)
    BY <2>7 DEF Rel, Open, Release, ReleaseMapRefused, ReleaseEnd
  <2> QED  BY <1>4, <2>1, <2>2, <2>3, <2>4, <2>5, <2>6, <2>7 DEF User
<1>5. CASE UNCHANGED vars
  BY <1>5 DEF vars
<1> QED  BY <1>1, <1>2, <1>3, <1>4, <1>5 DEF Next

\* Between preparation and start_dma nothing moves.
LEMMA LaunchInvStep ==
    ASSUME TypeOK, EngineInv, OneThreadPerFile, StopWaitsForIntr, [Next]_vars
    PROVE  LaunchInv'
<1> USE DmaNextInBlocks, ZeroAndDummy, FdOfAssumption, NoneAssumption
    DEF EngineInv, CallInv, CallOk, HookOffInv, LaunchInv, RunInv, OneThreadPerFile,
        Launching, Launched, Filling, Filled, Advancing, Waiting, NoneInDma,
        OnlyWritingInDma, TypeOK, TypeRing, TypePlx, TypeIntr, TypeUser, MuxLabels,
        IsFull, Goto, Fd, CanCall, Mine, StartDma, dmaVars, plxVars, intrVars,
        thrVars, irqVars, userVars, ownVars, ringVars, chanVars, dataVars, runVars,
        fileVars
<1>1. CASE Fill
  BY <1>1 DEF Fill
<1>2. CASE Intr
  <2>1. CASE IntrEnter  BY <2>1 DEF IntrEnter
  <2>2. CASE IntrAck  BY <2>2 DEF IntrAck
  <2>3. CASE IntrTest  BY <2>3 DEF IntrTest
  <2>4. CASE HookFull  BY <2>4 DEF HookFull
  <2>5. CASE HookAdvance  BY <2>5 DEF HookAdvance
  <2>6. CASE HookNotify  BY <2>6 DEF HookNotify
  <2> QED  BY <1>2, <2>1, <2>2, <2>3, <2>4, <2>5, <2>6 DEF Intr
<1>3. CASE IntrOther \/ Handler
  BY <1>3 DEF IntrOther, Handler, HandlerTake, HandlerLoad, HandlerStore
<1>4. ASSUME NEW t \in Threads, User(t) PROVE LaunchInv'
  <2>1. CASE Map(t)
    BY <2>1 DEF Map, DdmaMapFree, DdmaMapNone, DdmaMapBlocks
  <2>2. CASE Start(t)
    <3>1. CASE DdmaStart(t)  BY <3>1 DEF DdmaStart
    <3>2. CASE DdmaStartLaunch(t)  BY <3>2 DEF DdmaStartLaunch
    <3>3. CASE DdmaStartDone(t)  BY <3>3 DEF DdmaStartDone
    <3> QED  BY <2>2, <3>1, <3>2, <3>3 DEF Start
  <2>3. CASE Stop(t)
    BY <2>3 DEF Stop, DdmaStop, DdmaStopDisable, DdmaStopAbort, DdmaStopFinish
  <2>4. CASE Mark(t)
    <3>1. CASE DdmaMark(t)  BY <3>1 DEF DdmaMark
    <3>2. CASE DdmaMarkFree(t)  BY <3>2 DEF DdmaMarkFree
    <3>3. CASE DdmaMarkRestart(t)  BY <3>3 DEF DdmaMarkRestart
    <3>4. CASE DdmaMarkAnnounce(t)  BY <3>4 DEF DdmaMarkAnnounce
    <3> QED  BY <2>4, <3>1, <3>2, <3>3, <3>4 DEF Mark
  <2>5. CASE Get(t)
    <3>1. CASE IrqWait(t)  BY <3>1 DEF IrqWait
    <3>2. CASE IrqGet(t)  BY <3>2 DEF IrqGet
    <3>3. CASE IrqGetAutoack(t)  BY <3>3 DEF IrqGetAutoack
    <3>4. CASE IrqAck(t)  BY <3>4 DEF IrqAck
    <3> QED  BY <2>5, <3>1, <3>2, <3>3, <3>4 DEF Get
  <2>6. CASE Ctl(t)
    BY <2>6 DEF Ctl, IrqCtlReserve, IrqCtlClear, IrqCtlCheck, IrqCtlDisable
  <2>7. CASE Rel(t)
    <3>1. CASE Open(t)  BY <3>1 DEF Open
    <3>2. CASE Release(t)  BY <3>2 DEF Release
    <3>3. CASE ReleaseMapRefused(t)  BY <3>3 DEF ReleaseMapRefused
    <3>4. CASE ReleaseEnd(t)  BY <3>4 DEF ReleaseEnd
    <3> QED  BY <2>7, <3>1, <3>2, <3>3, <3>4 DEF Rel
  <2> QED  BY <1>4, <2>1, <2>2, <2>3, <2>4, <2>5, <2>6, <2>7 DEF User
<1>5. CASE UNCHANGED vars
  BY <1>5 DEF vars
<1> QED  BY <1>1, <1>2, <1>3, <1>4, <1>5 DEF Next

\* A started DMA is in one of its four phases.
LEMMA RunInvStep ==
    ASSUME TypeOK, EngineInv, OneThreadPerFile, StopWaitsForIntr, [Next]_vars
    PROVE  RunInv'
<1> USE DmaNextInBlocks, ZeroAndDummy, FdOfAssumption, NoneAssumption
    DEF EngineInv, CallInv, CallOk, HookOffInv, LaunchInv, RunInv, OneThreadPerFile,
        Launching, Launched, Filling, Filled, Advancing, Waiting, NoneInDma,
        OnlyWritingInDma, TypeOK, TypeRing, TypePlx, TypeIntr, TypeUser, MuxLabels,
        IsFull, Goto, Fd, CanCall, Mine, StartDma, dmaVars, plxVars, intrVars,
        thrVars, irqVars, userVars, ownVars, ringVars, chanVars, dataVars, runVars,
        fileVars
<1>1. CASE Fill
  BY <1>1 DEF Fill
<1>2. CASE Intr
  <2>1. CASE IntrEnter  BY <2>1 DEF IntrEnter
  <2>2. CASE IntrAck  BY <2>2 DEF IntrAck
  <2>3. CASE IntrTest  BY <2>3 DEF IntrTest
  <2>4. CASE HookFull  BY <2>4 DEF HookFull
  <2>5. CASE HookAdvance  BY <2>5 DEF HookAdvance
  <2>6. CASE HookNotify  BY <2>6 DEF HookNotify
  <2> QED  BY <1>2, <2>1, <2>2, <2>3, <2>4, <2>5, <2>6 DEF Intr
<1>3. CASE IntrOther \/ Handler
  BY <1>3 DEF IntrOther, Handler, HandlerTake, HandlerLoad, HandlerStore
<1>4. ASSUME NEW t \in Threads, User(t) PROVE RunInv'
  <2>1. CASE Map(t)
    BY <2>1 DEF Map, DdmaMapFree, DdmaMapNone, DdmaMapBlocks
  <2>2. CASE Start(t)
    <3>1. CASE DdmaStart(t)  BY <3>1 DEF DdmaStart
    <3>2. CASE DdmaStartLaunch(t)  BY <3>2 DEF DdmaStartLaunch
    <3>3. CASE DdmaStartDone(t)  BY <3>3 DEF DdmaStartDone
    <3> QED  BY <2>2, <3>1, <3>2, <3>3 DEF Start
  <2>3. CASE Stop(t)
    BY <2>3 DEF Stop, DdmaStop, DdmaStopDisable, DdmaStopAbort, DdmaStopFinish
  <2>4. CASE Mark(t)
    <3>1. CASE DdmaMark(t)  BY <3>1 DEF DdmaMark
    <3>2. CASE DdmaMarkFree(t)  BY <3>2 DEF DdmaMarkFree
    <3>3. CASE DdmaMarkRestart(t)  BY <3>3 DEF DdmaMarkRestart
    <3>4. CASE DdmaMarkAnnounce(t)  BY <3>4 DEF DdmaMarkAnnounce
    <3> QED  BY <2>4, <3>1, <3>2, <3>3, <3>4 DEF Mark
  <2>5. CASE Get(t)
    <3>1. CASE IrqWait(t)  BY <3>1 DEF IrqWait
    <3>2. CASE IrqGet(t)  BY <3>2 DEF IrqGet
    <3>3. CASE IrqGetAutoack(t)  BY <3>3 DEF IrqGetAutoack
    <3>4. CASE IrqAck(t)  BY <3>4 DEF IrqAck
    <3> QED  BY <2>5, <3>1, <3>2, <3>3, <3>4 DEF Get
  <2>6. CASE Ctl(t)
    BY <2>6 DEF Ctl, IrqCtlReserve, IrqCtlClear, IrqCtlCheck, IrqCtlDisable
  <2>7. CASE Rel(t)
    <3>1. CASE Open(t)  BY <3>1 DEF Open
    <3>2. CASE Release(t)  BY <3>2 DEF Release
    <3>3. CASE ReleaseMapRefused(t)  BY <3>3 DEF ReleaseMapRefused
    <3>4. CASE ReleaseEnd(t)  BY <3>4 DEF ReleaseEnd
    <3> QED  BY <2>7, <3>1, <3>2, <3>3, <3>4 DEF Rel
  <2> QED  BY <1>4, <2>1, <2>2, <2>3, <2>4, <2>5, <2>6, <2>7 DEF User
<1>5. CASE UNCHANGED vars
  BY <1>5 DEF vars
<1> QED  BY <1>1, <1>2, <1>3, <1>4, <1>5 DEF Next

\* The invariant holds initially.
LEMMA EngineInit == Init => EngineInv
BY NoneAssumption
   DEF Init, EngineInv, CallInv, CallOk, HookOffInv, LaunchInv, RunInv, Launching,
       Launched, MuxLabels

\* In a state of the right type the invariant gives the four properties.
LEMMA EngineImplies ==
    ASSUME TypeOK, EngineInv
    PROVE  HookSane /\ NoOverwrite /\ StoppedIsIdle /\ HookHasRing
<1> USE DEF EngineInv, CallInv, CallOk, HookOffInv, LaunchInv, RunInv, Launching,
            Launched, Filling, Filled, Advancing, Waiting, TypeOK, TypeRing, TypePlx,
            TypeIntr
<1>1. HookSane       BY DEF HookSane
<1>2. NoOverwrite    BY DEF NoOverwrite
<1>3. StoppedIsIdle  BY DEF StoppedIsIdle
<1>4. HookHasRing    BY DEF HookHasRing
<1> QED  BY <1>1, <1>2, <1>3, <1>4

\* With one thread per device file, and ddma_stop outlasting a running interrupt
\* handler, the invariant holds in every reachable state.
THEOREM EngineCorrect ==
    OneThreadPerFile /\ StopWaitsForIntr /\ Spec => [](TypeOK /\ EngineInv)
<1> SUFFICES ASSUME OneThreadPerFile, StopWaitsForIntr
             PROVE  Spec => [](TypeOK /\ EngineInv)
  OBVIOUS
<1>1. Init => EngineInv
  BY EngineInit
<1>2. TypeOK /\ EngineInv /\ [Next]_vars => EngineInv'
  BY CallInvStep, HookOffInvStep, LaunchInvStep, RunInvStep DEF EngineInv
<1> QED  BY TypeCorrect, <1>1, <1>2, PTL DEF Spec

\* Under the same two assumptions: the hook's sanity check never fails, the channel
\* never writes into a block that is not the driver's, a stopped DMA is idle, and
\* the hook never works on a ring that has been given back.
THEOREM RingSafe ==
    OneThreadPerFile /\ StopWaitsForIntr /\ Spec
        => [](HookSane /\ NoOverwrite /\ StoppedIsIdle /\ HookHasRing)
<1>1. TypeOK /\ EngineInv => HookSane /\ NoOverwrite /\ StoppedIsIdle /\ HookHasRing
  BY EngineImplies
<1> QED  BY EngineCorrect, <1>1, PTL

\* The hook's sanity check never fails: the block it looks at is in use by the
\* channel, and it is not the dummy block.
COROLLARY HookCorrect == OneThreadPerFile /\ StopWaitsForIntr /\ Spec => []HookSane
BY RingSafe, PTL

-----------------------------------------------------------------------------
(* The mutex and the files: what release relies on.                        *)

\* A call inside the mutex keeps it, and a call that returns gives it back, except
\* for one return of ddma_map; a mutex that is lost stays lost.
LEMMA MuxStep ==
    ASSUME TypeOK, MuxInv, [Next]_vars
    PROVE  /\ MuxInv'
           /\ MuxReleased => MuxReleased' \/ \E t \in Threads : DummyFails(t)
           /\ ~MuxReleased => ~MuxReleased' /\ mux' = mux
<1> DEFINE Step(t) == /\ MuxInv'
                      /\ MuxReleased => MuxReleased' \/ DummyFails(t)
                      /\ ~MuxReleased => ~MuxReleased' /\ mux' = mux
<1> USE NoneAssumption
    DEF TypeOK, TypeRing, TypeUser, MuxInv, MuxReleased, MuxLabels, Goto, CanCall, Fd,
        dmaVars, plxVars, intrVars, thrVars, irqVars, userVars, ownVars, ringVars,
        chanVars, dataVars, runVars, fileVars
<1>1. CASE Fill \/ Intr \/ IntrOther \/ Handler
  BY <1>1 DEF Fill, Intr, IntrEnter, IntrAck, IntrTest, HookFull, HookAdvance,
             HookNotify, IntrOther, Handler, HandlerTake, HandlerLoad, HandlerStore
<1>2. ASSUME NEW t \in Threads, User(t) PROVE Step(t)
  <2>1. CASE DdmaMapFree(t) \/ DdmaMapNone(t)
    BY <2>1 DEF DdmaMapFree, DdmaMapNone
  <2>2. CASE DdmaMapBlocks(t)
    BY <2>2 DEF DdmaMapBlocks, DummyFails
  <2>3. CASE Start(t)
    BY <2>3 DEF Start, DdmaStart, DdmaStartLaunch, DdmaStartDone
  <2>4. CASE Stop(t)
    BY <2>4 DEF Stop, DdmaStop, DdmaStopDisable, DdmaStopAbort, DdmaStopFinish
  <2>5. CASE Mark(t)
    BY <2>5 DEF Mark, DdmaMark, DdmaMarkFree, DdmaMarkRestart, DdmaMarkAnnounce
  <2>6. CASE Get(t)
    BY <2>6 DEF Get, IrqWait, IrqGet, IrqGetAutoack, IrqAck
  <2>7. CASE Ctl(t)
    BY <2>7 DEF Ctl, IrqCtlReserve, IrqCtlClear, IrqCtlCheck, IrqCtlDisable
  <2>8. CASE Rel(t)
    BY <2>8 DEF Rel, Open, Release, ReleaseMapRefused, ReleaseEnd
  <2> QED  BY <1>2, <2>1, <2>2, <2>3, <2>4, <2>5, <2>6, <2>7, <2>8 DEF User, Map
<1>3. CASE UNCHANGED vars
  BY <1>3 DEF vars
<1> QED  BY <1>1, <1>2, <1>3 DEF Next

\* Whatever error return a call takes, it gives dma->mux back, with one exception:
\* the return of ddma_map without memory for the dummy descriptor keeps it, and then
\* no step of anybody ever gives it back.
THEOREM MuxCorrect ==
    Spec => /\ MuxReleased
            /\ [][MuxReleased => MuxReleased' \/ \E t \in Threads : DummyFails(t)]_vars
            /\ [][~MuxReleased => ~MuxReleased' /\ mux' = mux]_vars
<1>1. Init => MuxInv /\ MuxReleased
  BY NoneAssumption DEF Init, MuxInv, MuxReleased, MuxLabels
<1>2. TypeOK /\ MuxInv /\ [Next]_vars =>
          /\ MuxInv'
          /\ [MuxReleased => MuxReleased' \/ \E t \in Threads : DummyFails(t)]_vars
          /\ [~MuxReleased => ~MuxReleased' /\ mux' = mux]_vars
  BY MuxStep
<1> QED  BY TypeCorrect, <1>1, <1>2, PTL DEF Spec

\* No step of a call or a release disturbs another file's release.
LEMMA FileInvStep ==
    ASSUME TypeOK, FileInv, [Next]_vars PROVE FileInv'
<1> USE NoneAssumption, FdOfAssumption
    DEF TypeOK, TypeRing, TypeUser, FileInv, FileOk, OwnerIsOpen, Orphan,
        ReleaseLabels, MuxLabels, Goto, CanCall, Mine, Fd, dmaVars, plxVars, intrVars, thrVars,
        irqVars, userVars, ownVars, ringVars, chanVars, dataVars, runVars, fileVars
<1>1. CASE Fill \/ Intr \/ IntrOther \/ Handler
  BY <1>1 DEF Fill, Intr, IntrEnter, IntrAck, IntrTest, HookFull, HookAdvance,
             HookNotify, IntrOther, Handler, HandlerTake, HandlerLoad, HandlerStore
<1>2. ASSUME NEW t \in Threads, User(t) PROVE FileInv'
  <2>1. CASE Map(t)
    <3>1. CASE DdmaMapFree(t)    BY <3>1 DEF DdmaMapFree
    <3>2. CASE DdmaMapNone(t)    BY <3>2 DEF DdmaMapNone
    <3>3. CASE DdmaMapBlocks(t)  BY <3>3 DEF DdmaMapBlocks
    <3> QED  BY <2>1, <3>1, <3>2, <3>3 DEF Map
  <2>2. CASE Start(t)
    <3>1. CASE DdmaStart(t)        BY <3>1 DEF DdmaStart
    <3>2. CASE DdmaStartLaunch(t)  BY <3>2 DEF DdmaStartLaunch
    <3>3. CASE DdmaStartDone(t)    BY <3>3 DEF DdmaStartDone
    <3> QED  BY <2>2, <3>1, <3>2, <3>3 DEF Start
  <2>3. CASE Stop(t)
    <3>1. CASE DdmaStop(t)         BY <3>1 DEF DdmaStop
    <3>2. CASE DdmaStopDisable(t)  BY <3>2 DEF DdmaStopDisable
    <3>3. CASE DdmaStopAbort(t)    BY <3>3 DEF DdmaStopAbort
    <3>4. CASE DdmaStopFinish(t)   BY <3>4 DEF DdmaStopFinish
    <3> QED  BY <2>3, <3>1, <3>2, <3>3, <3>4 DEF Stop
  <2>4. CASE Mark(t)
    BY <2>4 DEF Mark, DdmaMark, DdmaMarkFree, DdmaMarkRestart, DdmaMarkAnnounce
  <2>5. CASE Get(t)
    BY <2>5 DEF Get, IrqWait, IrqGet, IrqGetAutoack, IrqAck
  <2>6. CASE Ctl(t)
    BY <2>6 DEF Ctl, IrqCtlReserve, IrqCtlClear, IrqCtlCheck, IrqCtlDisable
  <2>7. CASE Rel(t)
    <3>1. CASE Open(t)               BY <3>1 DEF Open
    <3>2. CASE Release(t)            BY <3>2 DEF Release
    <3>3. CASE ReleaseMapRefused(t)  BY <3>3 DEF ReleaseMapRefused
    <3>4. CASE ReleaseEnd(t)         BY <3>4 DEF ReleaseEnd
    <3> QED  BY <2>7, <3>1, <3>2, <3>3, <3>4 DEF Rel
  <2> QED  BY <1>2, <2>1, <2>2, <2>3, <2>4, <2>5, <2>6, <2>7 DEF User
<1>3. CASE UNCHANGED vars
  BY <1>3 DEF vars
<1> QED  BY <1>1, <1>2, <1>3 DEF Next

\* No mapping outlives the release of the file that made it, however many threads
\* share a file and whatever other files do, with one exception: a DMA that runs on
\* because ddma_stop has returned EIO.
THEOREM OwnerCorrect == Spec => [](OwnerIsOpen \/ Orphan)
<1>1. Init => FileInv
  BY DEF Init, FileInv, FileOk, OwnerIsOpen, MuxLabels, ReleaseLabels
<1>2. TypeOK /\ FileInv /\ [Next]_vars => FileInv'
  BY FileInvStep
<1>3. FileInv => OwnerIsOpen \/ Orphan
  BY DEF FileInv
<1> QED  BY TypeCorrect, <1>1, <1>2, <1>3, PTL DEF Spec

-----------------------------------------------------------------------------
(* What ddma_stop promises.                                                *)

\* Only the hook and ddma_mark can launch a channel that has been stopped.
LEMMA StopStep ==
    ASSUME TypeOK, FileInv, StoppedIsIdle, FinishIdle, [Next]_vars
    PROVE  (StoppedIsIdle /\ FinishIdle)' \/ StartedLate
<1> USE NoneAssumption
    DEF TypeOK, TypeRing, TypeUser, TypePlx, FileInv, FileOk, StoppedIsIdle, FinishIdle,
        MuxLabels, Goto, CanCall, Fd, dmaVars, plxVars, intrVars, thrVars, irqVars,
        userVars, ownVars, ringVars, chanVars, dataVars, runVars, fileVars
<1>1. CASE HookAdvance
  BY <1>1 DEF HookAdvance, StartDma, StartedLate
<1>2. CASE Fill \/ IntrEnter \/ IntrAck \/ IntrTest \/ HookFull \/ HookNotify
           \/ IntrOther \/ Handler
  BY <1>2 DEF Fill, IntrEnter, IntrAck, IntrTest, HookFull, HookNotify, IntrOther,
             Handler, HandlerTake, HandlerLoad, HandlerStore
<1>3. ASSUME NEW t \in Threads, User(t)
      PROVE  (StoppedIsIdle /\ FinishIdle)' \/ StartedLate
  <2>1. CASE Map(t)
    BY <2>1 DEF Map, DdmaMapFree, DdmaMapNone, DdmaMapBlocks
  <2>2. CASE Start(t)
    BY <2>2 DEF Start, DdmaStart, DdmaStartLaunch, DdmaStartDone, StartDma
  <2>3. CASE Stop(t)
    <3>1. CASE DdmaStop(t)         BY <3>1 DEF DdmaStop, StartDma
    <3>2. CASE DdmaStopDisable(t)  BY <3>2 DEF DdmaStopDisable
    <3>3. CASE DdmaStopAbort(t)    BY <3>3 DEF DdmaStopAbort
    <3>4. CASE DdmaStopFinish(t)   BY <3>4 DEF DdmaStopFinish
    <3> QED  BY <2>3, <3>1, <3>2, <3>3, <3>4 DEF Stop
  <2>4. CASE DdmaMarkRestart(t)
    <3>1. pc[t] = "restart" /\ pc'[t] \in {"announce", "idle"}
      BY <2>4 DEF DdmaMarkRestart
    <3>2. /\ status' = status
          /\ \A u \in Threads \ {t} : pc'[u] = pc[u]
      BY <2>4 DEF DdmaMarkRestart
    <3>3. chan' = chan \/ chan' = "busy"
      BY <2>4 DEF DdmaMarkRestart, StartDma
    <3>4. CASE chan' = chan
      BY <3>1, <3>2, <3>4
    <3>5. CASE chan' = "busy"
      BY <2>4, <3>1, <3>2, <3>5 DEF StartedLate
    <3> QED  BY <3>3, <3>4, <3>5
  <2>5. CASE DdmaMark(t) \/ DdmaMarkFree(t) \/ DdmaMarkAnnounce(t)
    BY <2>5 DEF DdmaMark, DdmaMarkFree, DdmaMarkAnnounce
  <2>6. CASE Get(t)
    BY <2>6 DEF Get, IrqWait, IrqGet, IrqGetAutoack, IrqAck
  <2>7. CASE Ctl(t)
    BY <2>7 DEF Ctl, IrqCtlReserve, IrqCtlClear, IrqCtlCheck, IrqCtlDisable
  <2>8. CASE Rel(t)
    BY <2>8 DEF Rel, Open, Release, ReleaseMapRefused, ReleaseEnd
  <2> QED  BY <1>3, <2>1, <2>2, <2>3, <2>4, <2>5, <2>6, <2>7, <2>8 DEF User, Mark
<1>4. CASE UNCHANGED vars
  BY <1>4 DEF vars
<1> QED  BY <1>1, <1>2, <1>3, <1>4 DEF Next, Intr

\* After a ddma_stop that has succeeded the channel stays idle until the next start,
\* unless a handler that is still in the hook, or a ddma_mark of another thread that
\* is still on its way, launches it once more: no other step can.
THEOREM StopCorrect ==
    Spec => /\ StoppedIsIdle /\ FinishIdle
            /\ [][StoppedIsIdle /\ FinishIdle
                      => (StoppedIsIdle /\ FinishIdle)' \/ StartedLate]_vars
<1>1. Init => FileInv /\ StoppedIsIdle /\ FinishIdle
  BY DEF Init, FileInv, FileOk, OwnerIsOpen, MuxLabels, ReleaseLabels, StoppedIsIdle,
         FinishIdle
<1>2. TypeOK /\ FileInv /\ [Next]_vars =>
          /\ FileInv'
          /\ [StoppedIsIdle /\ FinishIdle
                 => (StoppedIsIdle /\ FinishIdle)' \/ StartedLate]_vars
  BY FileInvStep, StopStep
<1> QED  BY TypeCorrect, <1>1, <1>2, PTL DEF Spec
=============================================================================
