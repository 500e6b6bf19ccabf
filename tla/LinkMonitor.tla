------------------------------ MODULE LinkMonitor ------------------------------
(***************************************************************************)
(* What the driver knows of the other end of the optical link, and what it *)
(* tells the processes: sc->remote_hw is set by sis1100_init_remote, reset *)
(* to sis1100_hw_invalid by sis1100_intr, and each open file compares it   *)
(* with the old_remote_hw it was told last.                                *)
(*                                                                         *)
(* After a link change the interrupt for link changes stays disabled for a *)
(* second (link_up_timer); then the irq thread enables it again, looks at  *)
(* the link and initialises the remote side.  Parties: the link, the       *)
(* interrupt handler, the timer, the irq thread and the processes.         *)
(* remote_hw is volatile and read without a lock, so each read is a step.  *)
(***************************************************************************)
EXTENDS Integers

CONSTANTS
    Fds,            \* open device files, one process each
    Handler,        \* the irq thread
    Types,          \* remote hardware the driver knows
    Alien,          \* remote hardware it does not know
    Invalid,        \* sis1100_hw_invalid
    Races           \* the windows a link change may hit, a subset of RaceNames

\* init: the link changes between the irq thread's or a reset's look at the link
\*       and its store to remote_hw
\* read: remote_hw changes between two reads of one irq_get
\* order: remote_hw changes while irq_ctl copies it to old_remote_hw
\* clear: sis1100_enable_irq clears a link change in sr whose interrupt is not served
\* glitch: the link comes back before the handler has seen it down
\* reset: SIS1100_REMOTE_RESET while a link change is being handled
RaceNames == {"init", "read", "order", "clear", "glitch", "reset"}

ASSUME ActorAssumption == Handler \notin Fds
ASSUME TypeAssumption  == Alien \notin Types /\ Invalid \notin Types /\ Alien # Invalid
ASSUME RaceAssumption  == Races \subseteq RaceNames

VARIABLES
    \* the link and the bits irq_synch_chg of sr and cr
    up, attached, chg, en,
    \* sis1100_intr: where it is, what sr said; link_up_timer is running
    ipc, iup, timer,
    \* handlercomm_up and _down in handlercommand.command, a wake-up of the thread
    \* (for these or for other work), and that it took handlercomm_up
    command, woken, tcmd,
    remote,         \* sc->remote_hw
    pc,             \* where each file's call and the irq thread are
    reg,            \* a value of remote_hw or ident read earlier in the call
    \* struct sis1100_fdata
    sig,            \* a signal is wanted
    old,            \* old_remote_hw
    \* the processes
    sigdue,         \* the signal was sent and is not yet handled
    told            \* what the process was told last: the link is up

linkVars == <<up, attached>>
intrVars == <<ipc, iup, timer>>
cmdVars  == <<command, woken>>
procVars == <<sigdue, told>>
fdVars   == <<sig, old>>
hwVars   == <<linkVars, chg, en, intrVars>>
drvVars  == <<cmdVars, tcmd, remote>>
sysVars  == <<hwVars, drvVars>>
userVars == <<pc, reg, fdVars, procVars>>
vars     == <<sysVars, userVars>>

Actors     == Fds \cup {Handler}
Goto(a, l) == pc' = [pc EXCEPT ![a] = l]
InfoFree   == /\ pc[Handler] \notin {"synch", "init", "set"}    \* sem_irqinfo
              /\ \A f \in Fds : pc[f] \notin {"status", "store"}
HwFree     == \A a \in Actors : pc[a] # "set"                   \* sem_hw
IsOpen(f)  == pc[f] # "closed"

\* sis1100_init: the interrupt is enabled, remote_hw invalid, and
\* sis1100_init_remote has found what is at the other end.
Init ==
    /\ up \in BOOLEAN /\ attached \in Types /\ chg = FALSE /\ en = TRUE
    /\ ipc = "idle" /\ iup = FALSE /\ timer = FALSE
    /\ command = {} /\ woken = FALSE /\ tcmd = FALSE
    /\ remote = IF up THEN attached ELSE Invalid
    /\ pc = [a \in Actors |-> IF a = Handler THEN "sleep" ELSE "closed"]
    /\ reg = [a \in Actors |-> Invalid]
    /\ sig = [f \in Fds |-> FALSE] /\ old = [f \in Fds |-> Invalid]
    /\ sigdue = [f \in Fds |-> FALSE]
    /\ told = [f \in Fds |-> FALSE]

\* No link change is waiting for the handler, the timer or the irq thread.
Settled ==
    /\ ~(chg /\ en) /\ ipc = "idle" /\ ~timer /\ "up" \notin command
    /\ ~(pc[Handler] = "taken" /\ tcmd)
    /\ pc[Handler] \notin {"synch", "init", "set"}

-----------------------------------------------------------------------------
(* The link.                                                               *)

ClearWindow == "clear" \notin Races => ~(chg /\ en) /\ ipc \notin {"act", "clear"}
ReadWindow ==
    /\ "read" \notin Races => \A f \in Fds : pc[f] \notin {"status", "store"}
    /\ "order" \notin Races => \A f \in Fds : pc[f] # "ctl"
LinkWindow ==
    "init" \notin Races => HwFree /\ pc[Handler] \notin {"synch", "init"}

LinkDown ==
    /\ up /\ LinkWindow
    /\ up' = FALSE /\ chg' = TRUE
    /\ UNCHANGED <<attached, en, intrVars, drvVars, userVars>>

LinkUp ==
    /\ ~up /\ LinkWindow
    /\ "glitch" \notin Races => remote = Invalid
    /\ up' = TRUE /\ chg' = TRUE /\ attached' \in Types \cup {Alien}
    /\ UNCHANGED <<en, intrVars, drvVars, userVars>>

\* read_dma and write_dma enable the interrupt with sis1100_enable_irq, which
\* clears what is pending.
DmaEnable(f) ==
    /\ pc[f] = "idle" /\ remote # Invalid /\ HwFree
    /\ ClearWindow
    /\ chg' = FALSE /\ en' = TRUE
    /\ UNCHANGED <<linkVars, intrVars, drvVars, userVars>>

-----------------------------------------------------------------------------
(* sis1100_intr, the branch for irq_synch_chg, and sis1100_link_up_handler. *)

\* sr is read because of this interrupt, or because of another one while this one
\* is disabled.
IntrRead ==
    /\ ipc = "idle" /\ chg
    /\ ipc' = "act" /\ iup' = up
    /\ UNCHANGED <<linkVars, chg, en, timer, drvVars, userVars>>

\* Mutant: the timer is only started when the link is up.
IntrActTimerIfUp ==
    /\ ipc = "act" /\ ReadWindow
    /\ ipc' = "clear" /\ en' = FALSE /\ timer' = (timer \/ iup)
    /\ remote' = IF iup THEN remote ELSE Invalid
    /\ UNCHANGED <<iup, linkVars, chg, cmdVars, tcmd, userVars>>

\* The interrupt is disabled, the remote side invalid if the link is down, and the
\* timer started or prolonged.
IntrAct ==
    /\ ipc = "act" /\ ReadWindow
    /\ ipc' = "clear" /\ en' = FALSE /\ timer' = TRUE
    /\ remote' = IF iup THEN remote ELSE Invalid
    /\ UNCHANGED <<iup, linkVars, chg, cmdVars, tcmd, userVars>>

\* The bits read are written back to sr.
IntrClear ==
    /\ ipc = "clear"
    /\ ipc' = (IF iup THEN "idle" ELSE "post") /\ iup' = FALSE /\ chg' = FALSE
    /\ UNCHANGED <<timer, linkVars, en, drvVars, userVars>>

\* handlercomm_down for the irq thread.
IntrPost ==
    /\ ipc = "post"
    /\ ipc' = "idle" /\ command' = command \cup {"down"} /\ woken' = TRUE
    /\ UNCHANGED <<iup, timer, linkVars, chg, en, tcmd, remote, userVars>>

Intr == IntrRead \/ IntrAct \/ IntrClear \/ IntrPost

\* The timer runs for a second, which is longer than an interrupt handler.
TimerFires ==
    /\ timer /\ ipc = "idle"
    /\ timer' = FALSE /\ command' = command \cup {"up"} /\ woken' = TRUE
    /\ UNCHANGED <<ipc, iup, linkVars, chg, en, tcmd, remote, userVars>>

\* Any other interrupt with work for the irq thread.
IntrOther ==
    /\ woken' = TRUE
    /\ UNCHANGED <<command, hwVars, tcmd, remote, userVars>>

-----------------------------------------------------------------------------
(* sis1100_irq_thread and sis1100_synch_handler.                           *)

HandlerTake ==
    /\ pc[Handler] = "sleep" /\ (woken \/ command # {})
    /\ tcmd' = ("up" \in command) /\ command' = {} /\ woken' = FALSE
    /\ Goto(Handler, "taken")
    /\ UNCHANGED <<hwVars, remote, reg, fdVars, procVars>>

\* Nothing to do for the link, or ...
HandlerSkip ==
    /\ pc[Handler] = "taken" /\ InfoFree /\ ~tcmd
    /\ Goto(Handler, "signal")
    /\ UNCHANGED <<sysVars, reg, fdVars, procVars>>

\* Mutant: the interrupt stays disabled.
HandlerEnableNot ==
    /\ pc[Handler] = "taken" /\ InfoFree /\ tcmd /\ ClearWindow
    /\ chg' = FALSE
    /\ Goto(Handler, "synch")
    /\ UNCHANGED <<linkVars, en, intrVars, drvVars, reg, fdVars, procVars>>

\* ... clear the pending change, enable the interrupt, ...
HandlerEnable ==
    /\ pc[Handler] = "taken" /\ InfoFree /\ tcmd /\ ClearWindow
    /\ chg' = FALSE /\ en' = TRUE
    /\ Goto(Handler, "synch")
    /\ UNCHANGED <<linkVars, intrVars, drvVars, reg, fdVars, procVars>>

\* ... and look at the link.
HandlerSynch ==
    /\ pc[Handler] = "synch"
    /\ Goto(Handler, IF up THEN "init" ELSE "signal")
    /\ UNCHANGED <<sysVars, reg, fdVars, procVars>>

\* sis1100_init_remote, called by the irq thread and for SIS1100_REMOTE_RESET:
\* without link, and for hardware it does not know, it leaves remote_hw alone.
Return(a) == IF a = Handler THEN "signal" ELSE "idle"

InitRemote(a) ==
    /\ pc[a] = "init" /\ HwFree
    /\ "reset" \notin Races => a = Handler \/ Settled
    /\ \/ /\ up /\ attached \in Types
          /\ reg' = [reg EXCEPT ![a] = attached] /\ Goto(a, "set")
       \/ /\ ~(up /\ attached \in Types)
          /\ Goto(a, Return(a)) /\ UNCHANGED reg
    /\ UNCHANGED <<sysVars, fdVars, procVars>>

InitRemoteSet(a) ==
    /\ pc[a] = "set"
    /\ ReadWindow
    /\ remote' = reg[a] /\ reg' = [reg EXCEPT ![a] = Invalid]
    /\ Goto(a, Return(a))
    /\ UNCHANGED <<hwVars, cmdVars, tcmd, fdVars, procVars>>

\* Mutant: nobody is signalled for a link change.
HandlerSignalNot ==
    /\ pc[Handler] = "signal"
    /\ Goto(Handler, "wake")
    /\ UNCHANGED <<sysVars, reg, fdVars, procVars>>

\* Signals for the files that want one and do not know the remote side, ...
HandlerSignal ==
    /\ pc[Handler] = "signal"
    /\ sigdue' = [f \in Fds |->
                    sigdue[f] \/ (IsOpen(f) /\ sig[f] /\ old[f] # remote)]
    /\ Goto(Handler, "wake")
    /\ UNCHANGED <<sysVars, reg, fdVars, told>>

\* Mutant: those that sleep in irq_wait sleep on.
HandlerWakeNot ==
    /\ pc[Handler] = "wake"
    /\ Goto(Handler, "sleep") /\ tcmd' = FALSE
    /\ UNCHANGED <<hwVars, cmdVars, remote, reg, fdVars, procVars>>

\* ... and a wake-up for those that sleep in irq_wait.
HandlerWake ==
    /\ pc[Handler] = "wake"
    /\ pc' = [a \in Actors |-> IF a = Handler THEN "sleep"
                               ELSE IF pc[a] = "wait" THEN "check" ELSE pc[a]]
    /\ tcmd' = FALSE
    /\ UNCHANGED <<hwVars, cmdVars, remote, reg, fdVars, procVars>>

Thread == \/ HandlerTake \/ HandlerSkip \/ HandlerEnable \/ HandlerSynch
          \/ InitRemote(Handler) \/ InitRemoteSet(Handler)
          \/ HandlerSignal \/ HandlerWake

-----------------------------------------------------------------------------
(* The processes: open, irq_ctl, irq_wait, irq_get, release.               *)

Open(f) ==
    /\ pc[f] = "closed"
    /\ old' = [old EXCEPT ![f] = remote] /\ sig' = [sig EXCEPT ![f] = FALSE]
    /\ told' = [told EXCEPT ![f] = remote # Invalid]
    /\ Goto(f, "idle")
    /\ UNCHANGED <<sysVars, reg, sigdue>>

\* The process dies, or closes the file, while it sleeps or between two calls.
Release(f) ==
    /\ pc[f] \in {"idle", "wait", "check"}
    /\ Goto(f, "closed")
    /\ sig' = [sig EXCEPT ![f] = FALSE] /\ sigdue' = [sigdue EXCEPT ![f] = FALSE]
    /\ old' = [old EXCEPT ![f] = Invalid] /\ told' = [told EXCEPT ![f] = FALSE]
    /\ UNCHANGED <<sysVars, reg>>

\* sis1100_irq_ctl with a signal: fd->sig is set and remote_hw read ...
IrqCtl(f) ==
    /\ pc[f] = "idle"
    /\ \E s \in BOOLEAN : sig' = [sig EXCEPT ![f] = s]
    /\ reg' = [reg EXCEPT ![f] = remote]
    /\ Goto(f, "ctl")
    /\ UNCHANGED <<sysVars, old, procVars>>

\* ... and stored to old_remote_hw; the process starts to watch from here on.
IrqCtlStore(f) ==
    /\ pc[f] = "ctl"
    /\ old' = [old EXCEPT ![f] = reg[f]] /\ reg' = [reg EXCEPT ![f] = Invalid]
    /\ told' = [told EXCEPT ![f] = reg[f] # Invalid]
    /\ Goto(f, "idle")
    /\ UNCHANGED <<sysVars, sig, sigdue>>

\* sis1100_irq_wait sleeps until irq_pending holds.
IrqWait(f) ==
    /\ pc[f] = "idle"
    /\ Goto(f, "check")
    /\ UNCHANGED <<sysVars, reg, fdVars, procVars>>

IrqWaitCheck(f) ==
    /\ pc[f] = "check"
    /\ Goto(f, IF old[f] # remote THEN "get" ELSE "wait")
    /\ UNCHANGED <<sysVars, reg, fdVars, procVars>>

\* SIS1100_IRQ_GET at any time ...
IrqPoll(f) ==
    /\ pc[f] = "idle"
    /\ Goto(f, "get")
    /\ UNCHANGED <<sysVars, reg, fdVars, procVars>>

\* ... and in the signal handler; the signal ends irq_wait.
SignalHandle(f) ==
    /\ pc[f] \in {"idle", "wait"} /\ sigdue[f]
    /\ sigdue' = [sigdue EXCEPT ![f] = FALSE]
    /\ Goto(f, "get")
    /\ UNCHANGED <<sysVars, reg, fdVars, told>>

\* sis1100_irq_get: remote_hw is compared ...
IrqGet(f) ==
    /\ pc[f] = "get" /\ InfoFree
    /\ Goto(f, IF old[f] # remote THEN "status" ELSE "idle")
    /\ UNCHANGED <<sysVars, reg, fdVars, procVars>>

\* ... read again for remote_status ...
IrqGetStatus(f) ==
    /\ pc[f] = "status"
    /\ told' = [told EXCEPT ![f] = remote # Invalid]
    /\ Goto(f, "store")
    /\ UNCHANGED <<sysVars, reg, fdVars, sigdue>>

\* Mutant: old_remote_hw is not updated.
IrqGetStoreNot(f) ==
    /\ pc[f] = "store"
    /\ Goto(f, "idle")
    /\ UNCHANGED <<sysVars, reg, fdVars, procVars>>

\* ... and once more for old_remote_hw.
IrqGetStore(f) ==
    /\ pc[f] = "store"
    /\ old' = [old EXCEPT ![f] = remote]
    /\ Goto(f, "idle")
    /\ UNCHANGED <<sysVars, reg, sig, procVars>>

\* SIS1100_REMOTE_RESET.
RemoteReset(f) ==
    /\ pc[f] = "idle"
    /\ Goto(f, "init")
    /\ UNCHANGED <<sysVars, reg, fdVars, procVars>>

-----------------------------------------------------------------------------
InCall(f) == \/ IrqCtlStore(f) \/ IrqWaitCheck(f) \/ SignalHandle(f)
             \/ IrqGet(f) \/ IrqGetStatus(f) \/ IrqGetStore(f)
             \/ InitRemote(f) \/ InitRemoteSet(f)

Process(f) == \/ Open(f) \/ Release(f) \/ IrqCtl(f) \/ IrqWait(f) \/ IrqPoll(f)
              \/ RemoteReset(f) \/ DmaEnable(f) \/ InCall(f)

Next == \/ LinkDown \/ LinkUp \/ Intr \/ TimerFires \/ IntrOther \/ Thread
        \/ \E f \in Fds : Process(f)

Spec == Init /\ [][Next]_vars

(* An interrupt that is enabled is served, the timer expires, the irq thread *)
(* and a call that was entered go on and get the mutexes they queue for, and *)
(* a process that was signalled runs its handler.                            *)
Fairness ==
    /\ SF_vars(Intr /\ (ipc = "idle" => en)) /\ WF_vars(TimerFires) /\ SF_vars(Thread)
    /\ \A f \in Fds : SF_vars(InCall(f))

FairSpec == Spec /\ Fairness

-----------------------------------------------------------------------------
(* Properties.                                                             *)

\* Every variable stays in its range.
TypeOK ==
    /\ up \in BOOLEAN /\ attached \in Types \cup {Alien}
    /\ chg \in BOOLEAN /\ en \in BOOLEAN
    /\ ipc \in {"idle", "act", "clear", "post"} /\ iup \in BOOLEAN /\ timer \in BOOLEAN
    /\ command \in SUBSET {"up", "down"} /\ woken \in BOOLEAN /\ tcmd \in BOOLEAN
    /\ remote \in Types \cup {Invalid} /\ reg \in [Actors -> Types \cup {Invalid}]
    /\ pc[Handler] \in {"sleep", "taken", "synch", "init", "set", "signal", "wake"}
    /\ \A f \in Fds : pc[f] \in {"closed", "idle", "ctl", "check", "wait", "get",
                                 "status", "store", "init", "set"}
    /\ DOMAIN pc = Actors
    /\ sig \in [Fds -> BOOLEAN] /\ old \in [Fds -> Types \cup {Invalid}]
    /\ sigdue \in [Fds -> BOOLEAN] /\ told \in [Fds -> BOOLEAN]

\* With nothing under way the driver knows the link: it has the remote side that is
\* there, and none if the link is down.
LinkKnown ==
    Settled /\ HwFree =>
        /\ up /\ attached \in Types => remote = attached
        /\ ~up => remote = Invalid

\* The irq thread still has to go through its list of files and sleepers.
PassComing(l) ==
    \/ command # {} \/ woken \/ timer \/ (chg /\ en) \/ ipc # "idle"
    \/ pc[Handler] \in {"taken", "synch", "init", "set", "signal"} \cup l

\* A change a process does not know of never goes unannounced: one that sleeps in
\* irq_wait will be woken, one that wants a signal has got it or will get it.
ChangeAnnounced ==
    \A f \in Fds :
        /\ pc[f] = "wait" /\ old[f] # remote => PassComing({"wake"})
        /\ IsOpen(f) /\ sig[f] /\ old[f] # remote
              => \/ sigdue[f] \/ PassComing({})
                 \/ pc[f] \in {"get", "status", "store", "ctl"}

\* With nothing under way no process that has no news to come takes a link for up
\* that is down: "Dieser kann nicht maskiert oder disabled werden, er wird immer in
\* remote_status geliefert" (doc/ioctl.txt:317-319, of a link change).  The code keeps
\* this only where no change falls between two reads of remote_hw in one irq_get.
DownIsTold ==
    Settled /\ HwFree /\ ~up =>
        \A f \in Fds : (pc[f] \in {"idle", "wait"} /\ told[f]) => old[f] # remote

\* Once the link keeps its state the driver comes to know it and keeps it.
LinkSettles ==
    /\ <>[](up /\ attached \in Types) => <>[](remote = attached)
    /\ <>[]~up => <>[](remote = Invalid)

\* Once the link keeps its state a process that sleeps in irq_wait for good knows what
\* the driver knows.
NewsArrives ==
    \A f \in Fds : (<>[]up \/ <>[]~up) /\ <>[](pc[f] = "wait") => <>[](old[f] = remote)
=============================================================================
