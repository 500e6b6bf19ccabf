-------------------------- MODULE LinkMonitorProofs --------------------------
(***************************************************************************)
(* What TLAPS proves about LinkMonitor for any number of files and kinds   *)
(* of remote hardware.  A theorem that has to exclude windows names them.   *)
(***************************************************************************)
EXTENDS LinkMonitorInv, TLAPS

-----------------------------------------------------------------------------
(* Type correctness.                                                       *)

\* The driver starts in a state of the right type.
LEMMA TypeInit == Init => TypeOK
BY ActorAssumption, TypeAssumption DEF Init, TypeOK, Actors

\* Every step keeps the types.
LEMMA TypeStep == TypeOK /\ [Next]_vars => TypeOK'
<1> SUFFICES ASSUME TypeOK, [Next]_vars PROVE TypeOK'
  OBVIOUS
<1> USE ActorAssumption, TypeAssumption
    DEF TypeOK, Actors, Goto,
        vars, sysVars, hwVars, linkVars, intrVars, drvVars, cmdVars, userVars, fdVars, procVars
<1>1. CASE LinkDown
  <2>1. up' \in BOOLEAN /\ chg' \in BOOLEAN
    BY <1>1 DEF LinkDown
  <2>2. UNCHANGED <<attached, en, intrVars, drvVars, userVars>>
    BY <1>1 DEF LinkDown
  <2> QED  BY ONLY ActorAssumption, TypeAssumption, TypeOK, <2>1, <2>2
<1>2. CASE LinkUp
  BY <1>2 DEF LinkUp
<1>3. CASE IntrRead
  BY <1>3 DEF IntrRead
<1>4. CASE IntrAct
  BY <1>4 DEF IntrAct
<1>5. CASE IntrClear
  BY <1>5 DEF IntrClear
<1>6. CASE IntrPost
  BY <1>6 DEF IntrPost
<1>7. CASE TimerFires
  BY <1>7 DEF TimerFires
<1>8. CASE IntrOther
  BY <1>8 DEF IntrOther
<1>9. CASE HandlerTake
  <2>1. tcmd' \in BOOLEAN /\ command' = {} /\ woken' = FALSE
    BY <1>9 DEF HandlerTake
  <2>2. pc' = [pc EXCEPT ![Handler] = "taken"] /\ UNCHANGED <<hwVars, remote, reg, fdVars, procVars>>
    BY <1>9 DEF HandlerTake
  <2> QED  BY <2>1, <2>2
<1>10. CASE HandlerSkip
  BY <1>10 DEF HandlerSkip
<1>11. CASE HandlerEnable
  BY <1>11 DEF HandlerEnable
<1>12. CASE HandlerSynch
  BY <1>12 DEF HandlerSynch
<1>13. CASE HandlerSignal
  BY <1>13 DEF HandlerSignal
<1>14. CASE HandlerWake
  BY <1>14 DEF HandlerWake
<1>15. ASSUME NEW a \in Actors, InitRemote(a) PROVE TypeOK'
  BY <1>15 DEF InitRemote, Return
<1>16. ASSUME NEW a \in Actors, InitRemoteSet(a) PROVE TypeOK'
  BY <1>16 DEF InitRemoteSet, Return
<1>17. ASSUME NEW f \in Fds, Process(f) PROVE TypeOK'
  <2>1. CASE DmaEnable(f)
    BY <2>1 DEF DmaEnable
  <2>2. CASE Open(f)
    BY <2>2 DEF Open
  <2>3. CASE Release(f)
    BY <2>3 DEF Release
  <2>4. CASE IrqCtl(f)
    BY <2>4 DEF IrqCtl
  <2>5. CASE IrqCtlStore(f)
    BY <2>5 DEF IrqCtlStore
  <2>6. CASE IrqWait(f)
    BY <2>6 DEF IrqWait
  <2>7. CASE IrqWaitCheck(f)
    BY <2>7 DEF IrqWaitCheck
  <2>8. CASE IrqPoll(f)
    BY <2>8 DEF IrqPoll
  <2>9. CASE SignalHandle(f)
    BY <2>9 DEF SignalHandle
  <2>10. CASE IrqGet(f)
    BY <2>10 DEF IrqGet
  <2>11. CASE IrqGetStatus(f)
    BY <2>11 DEF IrqGetStatus
  <2>12. CASE IrqGetStore(f)
    BY <2>12 DEF IrqGetStore
  <2>13. CASE RemoteReset(f)
    BY <2>13 DEF RemoteReset
  <2> QED
    BY <1>15, <1>16, <1>17, <2>1, <2>2, <2>3, <2>4, <2>5, <2>6, <2>7, <2>8, <2>9, <2>10, <2>11, <2>12, <2>13
       DEF Process, InCall, Actors
<1>18. CASE UNCHANGED vars
  BY <1>18
<1> QED  BY <1>1, <1>2, <1>3, <1>4, <1>5, <1>6, <1>7, <1>8, <1>9, <1>10, <1>11, <1>12, <1>13, <1>14, <1>15, <1>16, <1>17, <1>18 DEF Next, Intr, Thread, Actors

\* Every variable keeps its type.
THEOREM TypeCorrect == Spec => []TypeOK
BY TypeInit, TypeStep, PTL DEF Spec

-----------------------------------------------------------------------------
(* What a process was told.                                                *)

\* A process that opens or watches from a known state starts in step.
LEMMA ToldInit == Init => ToldInv
BY ActorAssumption DEF Init, ToldInv, Actors

\* No other step separates told from old_remote_hw.
LEMMA ToldStep == TypeOK /\ ToldInv /\ [Next]_vars => ToldInv' \/ GetRaced
<1> SUFFICES ASSUME TypeOK, ToldInv, [Next]_vars, ~GetRaced PROVE ToldInv'
  OBVIOUS
<1> USE ActorAssumption, TypeAssumption
    DEF TypeOK, ToldInv, Actors, Goto,
        vars, sysVars, hwVars, linkVars, intrVars, drvVars, cmdVars, userVars, fdVars, procVars
<1>1. CASE LinkDown
  BY <1>1 DEF LinkDown
<1>2. CASE LinkUp
  BY <1>2 DEF LinkUp
<1>3. CASE IntrRead
  BY <1>3 DEF IntrRead
<1>4. CASE IntrAct
  BY <1>4 DEF IntrAct, GetRaced
<1>5. CASE IntrClear
  BY <1>5 DEF IntrClear
<1>6. CASE IntrPost
  BY <1>6 DEF IntrPost
<1>7. CASE TimerFires
  BY <1>7 DEF TimerFires
<1>8. CASE IntrOther
  BY <1>8 DEF IntrOther
<1>9. CASE HandlerTake
  BY <1>9 DEF HandlerTake
<1>10. CASE HandlerSkip
  BY <1>10 DEF HandlerSkip
<1>11. CASE HandlerEnable
  BY <1>11 DEF HandlerEnable
<1>12. CASE HandlerSynch
  BY <1>12 DEF HandlerSynch
<1>13. CASE HandlerSignal
  BY <1>13 DEF HandlerSignal
<1>14. CASE HandlerWake
  BY <1>14 DEF HandlerWake
<1>15. ASSUME NEW a \in Actors, InitRemote(a) PROVE ToldInv'
  BY <1>15 DEF InitRemote, Return
<1>16. ASSUME NEW a \in Actors, InitRemoteSet(a) PROVE ToldInv'
  BY <1>16 DEF InitRemoteSet, Return, GetRaced
<1>17. ASSUME NEW f \in Fds, Process(f) PROVE ToldInv'
  <2>1. CASE DmaEnable(f)
    BY <2>1 DEF DmaEnable
  <2>2. CASE Open(f)
    BY <2>2 DEF Open
  <2>3. CASE Release(f)
    BY <2>3 DEF Release
  <2>4. CASE IrqCtl(f)
    BY <2>4 DEF IrqCtl
  <2>5. CASE IrqCtlStore(f)
    BY <2>5 DEF IrqCtlStore
  <2>6. CASE IrqWait(f)
    BY <2>6 DEF IrqWait
  <2>7. CASE IrqWaitCheck(f)
    BY <2>7 DEF IrqWaitCheck
  <2>8. CASE IrqPoll(f)
    BY <2>8 DEF IrqPoll
  <2>9. CASE SignalHandle(f)
    BY <2>9 DEF SignalHandle
  <2>10. CASE IrqGet(f)
    BY <2>10 DEF IrqGet
  <2>11. CASE IrqGetStatus(f)
    BY <2>11 DEF IrqGetStatus
  <2>12. CASE IrqGetStore(f)
    BY <2>12 DEF IrqGetStore
  <2>13. CASE RemoteReset(f)
    BY <2>13 DEF RemoteReset
  <2> QED
    BY <1>15, <1>16, <1>17, <2>1, <2>2, <2>3, <2>4, <2>5, <2>6, <2>7, <2>8, <2>9, <2>10, <2>11, <2>12, <2>13
       DEF Process, InCall, Actors
<1>18. CASE UNCHANGED vars
  BY <1>18
<1> QED  BY <1>1, <1>2, <1>3, <1>4, <1>5, <1>6, <1>7, <1>8, <1>9, <1>10, <1>11, <1>12, <1>13, <1>14, <1>15, <1>16, <1>17, <1>18 DEF Next, Intr, Thread, Actors

\* What a process was told and what its file's old_remote_hw stands for stay the
\* same, in irq_get, irq_ctl and open and whatever the link, the handler and the irq
\* thread do between their reads.  Only a change of remote_hw between the second and
\* the third read of irq_get parts them.
THEOREM ToldCorrect == Spec => ToldKept
<1>1. TypeOK /\ [Next]_vars => [ToldInv => ToldInv' \/ GetRaced]_vars
  BY ToldStep
<1> QED  BY TypeInit, TypeStep, <1>1, PTL DEF Spec, ToldKept

-----------------------------------------------------------------------------
(* What the driver knows of the link.                                      *)

\* No link change hits a window of sis1100_init_remote or sis1100_enable_irq.
NoRace == Races \cap {"init", "clear", "glitch", "reset"} = {}

\* sis1100_init ends with a link that is known.
LEMMA LinkInit == Init => LinkInv
BY ActorAssumption, TypeAssumption
   DEF Init, LinkInv, DisabledInv, LookingInv, ValidInv, MissingInv, EnableComing, Actors

\* The interrupt never stays disabled.
LEMMA DisabledStep == ASSUME NoRace, TypeOK, LinkInv, [Next]_vars PROVE DisabledInv'
<1> USE ActorAssumption, TypeAssumption
    DEF TypeOK, LinkInv, DisabledInv, EnableComing, Actors, Goto, NoRace, HwFree,
        vars, sysVars, hwVars, linkVars, intrVars, drvVars, cmdVars, userVars, fdVars, procVars
<1>1. CASE LinkDown
  BY <1>1 DEF LinkDown, LinkWindow
<1>2. CASE LinkUp
  BY <1>2 DEF LinkUp, LinkWindow
<1>3. CASE IntrRead
  BY <1>3 DEF IntrRead
<1>4. CASE IntrAct
  BY <1>4 DEF IntrAct
<1>5. CASE IntrClear
  BY <1>5 DEF IntrClear
<1>6. CASE IntrPost
  BY <1>6 DEF IntrPost
<1>7. CASE TimerFires
  BY <1>7 DEF TimerFires
<1>8. CASE IntrOther
  BY <1>8 DEF IntrOther
<1>9. CASE HandlerTake
  BY <1>9 DEF HandlerTake
<1>10. CASE HandlerSkip
  BY <1>10 DEF HandlerSkip
<1>11. CASE HandlerEnable
  BY <1>11 DEF HandlerEnable, ClearWindow
<1>12. CASE HandlerSynch
  BY <1>12 DEF HandlerSynch
<1>13. CASE HandlerSignal
  BY <1>13 DEF HandlerSignal
<1>14. CASE HandlerWake
  BY <1>14 DEF HandlerWake
<1>15. ASSUME NEW a \in Actors, InitRemote(a) PROVE DisabledInv'
  BY <1>15 DEF InitRemote, Return, Settled
<1>16. ASSUME NEW a \in Actors, InitRemoteSet(a) PROVE DisabledInv'
  BY <1>16 DEF InitRemoteSet, Return
<1>17. ASSUME NEW f \in Fds, Process(f) PROVE DisabledInv'
  <2>1. CASE DmaEnable(f)
    BY <2>1 DEF DmaEnable, ClearWindow
  <2>2. CASE Open(f)
    BY <2>2 DEF Open
  <2>3. CASE Release(f)
    BY <2>3 DEF Release
  <2>4. CASE IrqCtl(f)
    BY <2>4 DEF IrqCtl
  <2>5. CASE IrqCtlStore(f)
    BY <2>5 DEF IrqCtlStore
  <2>6. CASE IrqWait(f)
    BY <2>6 DEF IrqWait
  <2>7. CASE IrqWaitCheck(f)
    BY <2>7 DEF IrqWaitCheck
  <2>8. CASE IrqPoll(f)
    BY <2>8 DEF IrqPoll
  <2>9. CASE SignalHandle(f)
    BY <2>9 DEF SignalHandle
  <2>10. CASE IrqGet(f)
    BY <2>10 DEF IrqGet
  <2>11. CASE IrqGetStatus(f)
    BY <2>11 DEF IrqGetStatus
  <2>12. CASE IrqGetStore(f)
    BY <2>12 DEF IrqGetStore
  <2>13. CASE RemoteReset(f)
    BY <2>13 DEF RemoteReset
  <2> QED
    BY <1>15, <1>16, <1>17, <2>1, <2>2, <2>3, <2>4, <2>5, <2>6, <2>7, <2>8, <2>9, <2>10, <2>11, <2>12, <2>13
       DEF Process, InCall, Actors
<1>18. CASE UNCHANGED vars
  BY <1>18
<1> QED  BY <1>1, <1>2, <1>3, <1>4, <1>5, <1>6, <1>7, <1>8, <1>9, <1>10, <1>11, <1>12, <1>13, <1>14, <1>15, <1>16, <1>17, <1>18 DEF Next, Intr, Thread, Actors

\* What the irq thread has seen of the link stays true until it has stored it.
LEMMA LookingStep == ASSUME NoRace, TypeOK, LinkInv, [Next]_vars PROVE LookingInv'
<1> USE ActorAssumption, TypeAssumption
    DEF TypeOK, LinkInv, LookingInv, Actors, Goto, NoRace, HwFree,
        vars, sysVars, hwVars, linkVars, intrVars, drvVars, cmdVars, userVars, fdVars, procVars
<1>1. CASE LinkDown
  BY <1>1 DEF LinkDown, LinkWindow
<1>2. CASE LinkUp
  BY <1>2 DEF LinkUp, LinkWindow
<1>3. CASE IntrRead
  BY <1>3 DEF IntrRead
<1>4. CASE IntrAct
  BY <1>4 DEF IntrAct
<1>5. CASE IntrClear
  BY <1>5 DEF IntrClear
<1>6. CASE IntrPost
  BY <1>6 DEF IntrPost
<1>7. CASE TimerFires
  BY <1>7 DEF TimerFires
<1>8. CASE IntrOther
  BY <1>8 DEF IntrOther
<1>9. CASE HandlerTake
  BY <1>9 DEF HandlerTake
<1>10. CASE HandlerSkip
  BY <1>10 DEF HandlerSkip
<1>11. CASE HandlerEnable
  BY <1>11 DEF HandlerEnable, ClearWindow
<1>12. CASE HandlerSynch
  BY <1>12 DEF HandlerSynch
<1>13. CASE HandlerSignal
  BY <1>13 DEF HandlerSignal
<1>14. CASE HandlerWake
  BY <1>14 DEF HandlerWake
<1>15. ASSUME NEW a \in Actors, InitRemote(a) PROVE LookingInv'
  <2>1. ~chg /\ en /\ ipc \in {"idle", "post"}
    <3>1. CASE a = Handler
      BY <1>15, <3>1 DEF InitRemote
    <3>2. CASE a # Handler
      BY <1>15, <3>2 DEF InitRemote, Settled, DisabledInv, EnableComing
    <3> QED  BY <3>1, <3>2
  <2>2. UNCHANGED <<up, attached, chg, en, ipc>>
    BY <1>15 DEF InitRemote
  <2>3. ASSUME NEW b \in Actors, pc'[b] = "set"
        PROVE up /\ attached \in Types /\ reg'[b] = attached
    BY <1>15, <2>3 DEF InitRemote, Return
  <2>4. pc'[Handler] = "init" => up
    BY <1>15 DEF InitRemote, Return
  <2> QED  BY <2>1, <2>2, <2>3, <2>4
<1>16. ASSUME NEW a \in Actors, InitRemoteSet(a) PROVE LookingInv'
  BY <1>16 DEF InitRemoteSet, Return
<1>17. ASSUME NEW f \in Fds, Process(f) PROVE LookingInv'
  <2>1. CASE DmaEnable(f)
    BY <2>1 DEF DmaEnable, ClearWindow
  <2>2. CASE Open(f)
    BY <2>2 DEF Open
  <2>3. CASE Release(f)
    BY <2>3 DEF Release
  <2>4. CASE IrqCtl(f)
    BY <2>4 DEF IrqCtl
  <2>5. CASE IrqCtlStore(f)
    BY <2>5 DEF IrqCtlStore
  <2>6. CASE IrqWait(f)
    BY <2>6 DEF IrqWait
  <2>7. CASE IrqWaitCheck(f)
    BY <2>7 DEF IrqWaitCheck
  <2>8. CASE IrqPoll(f)
    BY <2>8 DEF IrqPoll
  <2>9. CASE SignalHandle(f)
    BY <2>9 DEF SignalHandle
  <2>10. CASE IrqGet(f)
    BY <2>10 DEF IrqGet
  <2>11. CASE IrqGetStatus(f)
    BY <2>11 DEF IrqGetStatus
  <2>12. CASE IrqGetStore(f)
    BY <2>12 DEF IrqGetStore
  <2>13. CASE RemoteReset(f)
    BY <2>13 DEF RemoteReset
  <2> QED
    BY <1>15, <1>16, <1>17, <2>1, <2>2, <2>3, <2>4, <2>5, <2>6, <2>7, <2>8, <2>9, <2>10, <2>11, <2>12, <2>13
       DEF Process, InCall, Actors
<1>18. CASE UNCHANGED vars
  BY <1>18
<1> QED  BY <1>1, <1>2, <1>3, <1>4, <1>5, <1>6, <1>7, <1>8, <1>9, <1>10, <1>11, <1>12, <1>13, <1>14, <1>15, <1>16, <1>17, <1>18 DEF Next, Intr, Thread, Actors

\* A remote side that is known is there until the handler has seen its loss.
LEMMA ValidStep == ASSUME NoRace, TypeOK, LinkInv, [Next]_vars PROVE ValidInv'
<1> USE ActorAssumption, TypeAssumption
    DEF TypeOK, LinkInv, ValidInv, LookingInv, Actors, Goto, NoRace, HwFree,
        vars, sysVars, hwVars, linkVars, intrVars, drvVars, cmdVars, userVars, fdVars, procVars
<1>1. CASE LinkDown
  BY <1>1 DEF LinkDown, LinkWindow
<1>2. CASE LinkUp
  BY <1>2 DEF LinkUp, LinkWindow
<1>3. CASE IntrRead
  BY <1>3 DEF IntrRead
<1>4. CASE IntrAct
  BY <1>4 DEF IntrAct
<1>5. CASE IntrClear
  BY <1>5 DEF IntrClear
<1>6. CASE IntrPost
  BY <1>6 DEF IntrPost
<1>7. CASE TimerFires
  BY <1>7 DEF TimerFires
<1>8. CASE IntrOther
  BY <1>8 DEF IntrOther
<1>9. CASE HandlerTake
  BY <1>9 DEF HandlerTake
<1>10. CASE HandlerSkip
  BY <1>10 DEF HandlerSkip
<1>11. CASE HandlerEnable
  BY <1>11 DEF HandlerEnable, ClearWindow
<1>12. CASE HandlerSynch
  BY <1>12 DEF HandlerSynch
<1>13. CASE HandlerSignal
  BY <1>13 DEF HandlerSignal
<1>14. CASE HandlerWake
  BY <1>14 DEF HandlerWake
<1>15. ASSUME NEW a \in Actors, InitRemote(a) PROVE ValidInv'
  BY <1>15 DEF InitRemote, Return, Settled
<1>16. ASSUME NEW a \in Actors, InitRemoteSet(a) PROVE ValidInv'
  BY <1>16 DEF InitRemoteSet, Return
<1>17. ASSUME NEW f \in Fds, Process(f) PROVE ValidInv'
  <2>1. CASE DmaEnable(f)
    BY <2>1 DEF DmaEnable, ClearWindow
  <2>2. CASE Open(f)
    BY <2>2 DEF Open
  <2>3. CASE Release(f)
    BY <2>3 DEF Release
  <2>4. CASE IrqCtl(f)
    BY <2>4 DEF IrqCtl
  <2>5. CASE IrqCtlStore(f)
    BY <2>5 DEF IrqCtlStore
  <2>6. CASE IrqWait(f)
    BY <2>6 DEF IrqWait
  <2>7. CASE IrqWaitCheck(f)
    BY <2>7 DEF IrqWaitCheck
  <2>8. CASE IrqPoll(f)
    BY <2>8 DEF IrqPoll
  <2>9. CASE SignalHandle(f)
    BY <2>9 DEF SignalHandle
  <2>10. CASE IrqGet(f)
    BY <2>10 DEF IrqGet
  <2>11. CASE IrqGetStatus(f)
    BY <2>11 DEF IrqGetStatus
  <2>12. CASE IrqGetStore(f)
    BY <2>12 DEF IrqGetStore
  <2>13. CASE RemoteReset(f)
    BY <2>13 DEF RemoteReset
  <2> QED
    BY <1>15, <1>16, <1>17, <2>1, <2>2, <2>3, <2>4, <2>5, <2>6, <2>7, <2>8, <2>9, <2>10, <2>11, <2>12, <2>13
       DEF Process, InCall, Actors
<1>18. CASE UNCHANGED vars
  BY <1>18
<1> QED  BY <1>1, <1>2, <1>3, <1>4, <1>5, <1>6, <1>7, <1>8, <1>9, <1>10, <1>11, <1>12, <1>13, <1>14, <1>15, <1>16, <1>17, <1>18 DEF Next, Intr, Thread, Actors

\* A remote side that is there is known or is being looked for.
LEMMA MissingStep == ASSUME NoRace, TypeOK, LinkInv, [Next]_vars PROVE MissingInv'
<1> USE ActorAssumption, TypeAssumption
    DEF TypeOK, LinkInv, MissingInv, EnableComing, ValidInv, LookingInv, DisabledInv, Actors, Goto, NoRace, HwFree,
        vars, sysVars, hwVars, linkVars, intrVars, drvVars, cmdVars, userVars, fdVars, procVars
<1>1. CASE LinkDown
  BY <1>1 DEF LinkDown, LinkWindow
<1>2. CASE LinkUp
  BY <1>2 DEF LinkUp, LinkWindow
<1>3. CASE IntrRead
  BY <1>3 DEF IntrRead
<1>4. CASE IntrAct
  BY <1>4 DEF IntrAct
<1>5. CASE IntrClear
  BY <1>5 DEF IntrClear
<1>6. CASE IntrPost
  BY <1>6 DEF IntrPost
<1>7. CASE TimerFires
  BY <1>7 DEF TimerFires
<1>8. CASE IntrOther
  BY <1>8 DEF IntrOther
<1>9. CASE HandlerTake
  BY <1>9 DEF HandlerTake
<1>10. CASE HandlerSkip
  BY <1>10 DEF HandlerSkip
<1>11. CASE HandlerEnable
  BY <1>11 DEF HandlerEnable, ClearWindow
<1>12. CASE HandlerSynch
  BY <1>12 DEF HandlerSynch
<1>13. CASE HandlerSignal
  BY <1>13 DEF HandlerSignal
<1>14. CASE HandlerWake
  BY <1>14 DEF HandlerWake
<1>15. ASSUME NEW a \in Actors, InitRemote(a) PROVE MissingInv'
  BY <1>15 DEF InitRemote, Return, Settled
<1>16. ASSUME NEW a \in Actors, InitRemoteSet(a) PROVE MissingInv'
  BY <1>16 DEF InitRemoteSet, Return
<1>17. ASSUME NEW f \in Fds, Process(f) PROVE MissingInv'
  <2>1. CASE DmaEnable(f)
    BY <2>1 DEF DmaEnable, ClearWindow
  <2>2. CASE Open(f)
    BY <2>2 DEF Open
  <2>3. CASE Release(f)
    BY <2>3 DEF Release
  <2>4. CASE IrqCtl(f)
    BY <2>4 DEF IrqCtl
  <2>5. CASE IrqCtlStore(f)
    BY <2>5 DEF IrqCtlStore
  <2>6. CASE IrqWait(f)
    BY <2>6 DEF IrqWait
  <2>7. CASE IrqWaitCheck(f)
    BY <2>7 DEF IrqWaitCheck
  <2>8. CASE IrqPoll(f)
    BY <2>8 DEF IrqPoll
  <2>9. CASE SignalHandle(f)
    BY <2>9 DEF SignalHandle
  <2>10. CASE IrqGet(f)
    BY <2>10 DEF IrqGet
  <2>11. CASE IrqGetStatus(f)
    BY <2>11 DEF IrqGetStatus
  <2>12. CASE IrqGetStore(f)
    BY <2>12 DEF IrqGetStore
  <2>13. CASE RemoteReset(f)
    BY <2>13 DEF RemoteReset
  <2> QED
    BY <1>15, <1>16, <1>17, <2>1, <2>2, <2>3, <2>4, <2>5, <2>6, <2>7, <2>8, <2>9, <2>10, <2>11, <2>12, <2>13
       DEF Process, InCall, Actors
<1>18. CASE UNCHANGED vars
  BY <1>18
<1> QED  BY <1>1, <1>2, <1>3, <1>4, <1>5, <1>6, <1>7, <1>8, <1>9, <1>10, <1>11, <1>12, <1>13, <1>14, <1>15, <1>16, <1>17, <1>18 DEF Next, Intr, Thread, Actors

\* The four parts together are inductive.
LEMMA LinkStep == ASSUME NoRace, TypeOK, LinkInv, [Next]_vars PROVE LinkInv'
BY DisabledStep, LookingStep, ValidStep, MissingStep DEF LinkInv

\* When no link change hits one of those windows, the driver knows the link
\* whenever nothing is under way.
THEOREM LinkCorrect == NoRace /\ Spec => []LinkKnown
<1> SUFFICES ASSUME NoRace PROVE Spec => []LinkKnown
  OBVIOUS
<1>1. TypeOK /\ LinkInv /\ [Next]_vars => TypeOK' /\ LinkInv'
  BY TypeStep, LinkStep
<1>2. TypeOK /\ LinkInv => LinkKnown
  BY ActorAssumption, TypeAssumption
     DEF TypeOK, LinkInv, DisabledInv, ValidInv, MissingInv, EnableComing, LinkKnown,
         Settled, HwFree, Actors
<1> QED  BY TypeInit, LinkInit, <1>1, <1>2, PTL DEF Spec

-----------------------------------------------------------------------------
(* What the processes come to know.                                        *)

\* No step of another party changes remote_hw under a reset or an irq_ctl.
LEMMA CallStep ==
    ASSUME Races = {}, TypeOK, LinkInv, CallInv, [Next]_vars PROVE CallInv'
<1> USE ActorAssumption, TypeAssumption
    DEF TypeOK, CallInv, Actors, Goto, HwFree,
        vars, sysVars, hwVars, linkVars, intrVars, drvVars, cmdVars, userVars, fdVars, procVars
<1>1. CASE LinkDown
  BY <1>1 DEF LinkDown
<1>2. CASE LinkUp
  BY <1>2 DEF LinkUp
<1>3. CASE IntrRead
  BY <1>3 DEF IntrRead
<1>4. CASE IntrAct
  BY <1>4 DEF IntrAct, ReadWindow, LinkInv, LookingInv
<1>5. CASE IntrClear
  BY <1>5 DEF IntrClear
<1>6. CASE IntrPost
  BY <1>6 DEF IntrPost
<1>7. CASE TimerFires
  BY <1>7 DEF TimerFires
<1>8. CASE IntrOther
  BY <1>8 DEF IntrOther
<1>9. CASE HandlerTake
  BY <1>9 DEF HandlerTake
<1>10. CASE HandlerSkip
  BY <1>10 DEF HandlerSkip
<1>11. CASE HandlerEnable
  BY <1>11 DEF HandlerEnable
<1>12. CASE HandlerSynch
  BY <1>12 DEF HandlerSynch
<1>13. CASE HandlerSignal
  BY <1>13 DEF HandlerSignal
<1>14. CASE HandlerWake
  BY <1>14 DEF HandlerWake
<1>15. ASSUME NEW a \in Actors, InitRemote(a) PROVE CallInv'
  BY <1>15 DEF InitRemote, Return, LinkInv, LookingInv, Settled, DisabledInv, EnableComing, ValidInv, MissingInv
<1>16. ASSUME NEW a \in Actors, InitRemoteSet(a) PROVE CallInv'
  BY <1>16 DEF InitRemoteSet, Return, ReadWindow, LinkInv, LookingInv
<1>17. ASSUME NEW f \in Fds, Process(f) PROVE CallInv'
  <2>1. CASE DmaEnable(f)
    BY <2>1 DEF DmaEnable
  <2>2. CASE Open(f)
    BY <2>2 DEF Open
  <2>3. CASE Release(f)
    BY <2>3 DEF Release
  <2>4. CASE IrqCtl(f)
    BY <2>4 DEF IrqCtl
  <2>5. CASE IrqCtlStore(f)
    BY <2>5 DEF IrqCtlStore
  <2>6. CASE IrqWait(f)
    BY <2>6 DEF IrqWait
  <2>7. CASE IrqWaitCheck(f)
    BY <2>7 DEF IrqWaitCheck
  <2>8. CASE IrqPoll(f)
    BY <2>8 DEF IrqPoll
  <2>9. CASE SignalHandle(f)
    BY <2>9 DEF SignalHandle
  <2>10. CASE IrqGet(f)
    BY <2>10 DEF IrqGet
  <2>11. CASE IrqGetStatus(f)
    BY <2>11 DEF IrqGetStatus
  <2>12. CASE IrqGetStore(f)
    BY <2>12 DEF IrqGetStore
  <2>13. CASE RemoteReset(f)
    BY <2>13 DEF RemoteReset
  <2> QED
    BY <1>15, <1>16, <1>17, <2>1, <2>2, <2>3, <2>4, <2>5, <2>6, <2>7, <2>8, <2>9, <2>10, <2>11, <2>12, <2>13
       DEF Process, InCall, Actors
<1>18. CASE UNCHANGED vars
  BY <1>18
<1> QED  BY <1>1, <1>2, <1>3, <1>4, <1>5, <1>6, <1>7, <1>8, <1>9, <1>10, <1>11, <1>12, <1>13, <1>14, <1>15, <1>16, <1>17, <1>18 DEF Next, Intr, Thread, Actors

\* A change of remote_hw is announced by the pass of the irq thread that is under way
\* or that the handler or the timer will ask for.
LEMMA AnnounceStep ==
    ASSUME Races = {}, TypeOK, LinkInv, CallInv, ChangeAnnounced, [Next]_vars
    PROVE  ChangeAnnounced'
<1> USE ActorAssumption, TypeAssumption
    DEF TypeOK, ChangeAnnounced, PassComing, IsOpen, Actors, Goto,
        vars, sysVars, hwVars, linkVars, intrVars, drvVars, cmdVars, userVars, fdVars, procVars
<1>1. CASE LinkDown
  BY <1>1 DEF LinkDown
<1>2. CASE LinkUp
  BY <1>2 DEF LinkUp
<1>3. CASE IntrRead
  BY <1>3 DEF IntrRead
<1>4. CASE IntrAct
  BY <1>4 DEF IntrAct
<1>5. CASE IntrClear
  BY <1>5 DEF IntrClear, LinkInv, DisabledInv
<1>6. CASE IntrPost
  BY <1>6 DEF IntrPost
<1>7. CASE TimerFires
  BY <1>7 DEF TimerFires
<1>8. CASE IntrOther
  BY <1>8 DEF IntrOther
<1>9. CASE HandlerTake
  BY <1>9 DEF HandlerTake
<1>10. CASE HandlerSkip
  BY <1>10 DEF HandlerSkip
<1>11. CASE HandlerEnable
  BY <1>11 DEF HandlerEnable
<1>12. CASE HandlerSynch
  BY <1>12 DEF HandlerSynch
<1>13. CASE HandlerSignal
  BY <1>13 DEF HandlerSignal
<1>14. CASE HandlerWake
  BY <1>14 DEF HandlerWake
<1>15. ASSUME NEW a \in Actors, InitRemote(a) PROVE ChangeAnnounced'
  BY <1>15 DEF InitRemote, Return
<1>16. ASSUME NEW a \in Actors, InitRemoteSet(a) PROVE ChangeAnnounced'
  BY <1>16 DEF InitRemoteSet, Return, LinkInv, CallInv, LookingInv
<1>17. ASSUME NEW f \in Fds, Process(f) PROVE ChangeAnnounced'
  <2>1. CASE DmaEnable(f)
    BY <2>1 DEF DmaEnable, ClearWindow
  <2>2. CASE Open(f)
    BY <2>2 DEF Open
  <2>3. CASE Release(f)
    BY <2>3 DEF Release
  <2>4. CASE IrqCtl(f)
    BY <2>4 DEF IrqCtl
  <2>5. CASE IrqCtlStore(f)
    BY <2>5 DEF IrqCtlStore, CallInv
  <2>6. CASE IrqWait(f)
    BY <2>6 DEF IrqWait
  <2>7. CASE IrqWaitCheck(f)
    BY <2>7 DEF IrqWaitCheck
  <2>8. CASE IrqPoll(f)
    BY <2>8 DEF IrqPoll
  <2>9. CASE SignalHandle(f)
    BY <2>9 DEF SignalHandle
  <2>10. CASE IrqGet(f)
    BY <2>10 DEF IrqGet
  <2>11. CASE IrqGetStatus(f)
    BY <2>11 DEF IrqGetStatus
  <2>12. CASE IrqGetStore(f)
    BY <2>12 DEF IrqGetStore
  <2>13. CASE RemoteReset(f)
    BY <2>13 DEF RemoteReset
  <2> QED
    BY <1>15, <1>16, <1>17, <2>1, <2>2, <2>3, <2>4, <2>5, <2>6, <2>7, <2>8, <2>9, <2>10, <2>11, <2>12, <2>13
       DEF Process, InCall, Actors
<1>18. CASE UNCHANGED vars
  BY <1>18
<1> QED  BY <1>1, <1>2, <1>3, <1>4, <1>5, <1>6, <1>7, <1>8, <1>9, <1>10, <1>11, <1>12, <1>13, <1>14, <1>15, <1>16, <1>17, <1>18 DEF Next, Intr, Thread, Actors

\* When no link change hits a window, every change of remote_hw is announced to every
\* process that waits for it or wants a signal.
THEOREM AnnounceCorrect == Races = {} /\ Spec => []ChangeAnnounced
<1> SUFFICES ASSUME Races = {} PROVE Spec => []ChangeAnnounced
  OBVIOUS
<1>1. Init => CallInv /\ ChangeAnnounced
  BY ActorAssumption DEF Init, CallInv, ChangeAnnounced, IsOpen, Actors
<1>2. TypeOK /\ LinkInv /\ CallInv /\ ChangeAnnounced /\ [Next]_vars
        => TypeOK' /\ LinkInv' /\ CallInv' /\ ChangeAnnounced'
  BY TypeStep, LinkStep, CallStep, AnnounceStep DEF NoRace
<1> QED  BY TypeInit, LinkInit, <1>1, <1>2, PTL DEF Spec
=============================================================================
