----------------------------- MODULE IrqDelivery -----------------------------
(***************************************************************************)
(* Interrupts of a VME crate on their way to processes: the doorbell and   *)
(* mailbox branches of sis1100_intr, the irq thread, the block, vector and *)
(* enable accesses of sis3100rem_irq.c, and irq_ctl, irq_get, irq_ack,     *)
(* irq_wait, poll, open and release of the files.  Each file serves one    *)
(* call at a time.  The crate is external; the link stays up               *)
(* (LinkMonitor has it going down).                                        *)
(***************************************************************************)
EXTENDS Integers, FiniteSets, FiniteSetsExt

CONSTANTS
    Files, Pid,      \* device files, and the process that opened each
    Vme,             \* interrupt levels of the bus
    Ext,             \* front panel and DSP interrupts of the crate controller
    Mbx, Lemo,       \* mailbox and front panel interrupts of the PCI card
    Vectors,         \* interrupt vectors of a level
    Active,          \* the interrupts that come
    Masks, AutoMasks,\* irq_mask of a file's calls; auto_mask
    Sigs,            \* signal of irq_ctl: > 0, or < 0 for none
    Faults           \* "preempt": the irq thread runs inside irq_ctl;
                     \* "noclear": SIS1100_IRQCTL_NOCLEAR together with a signal

Remote == Vme \cup Ext
Srcs == Remote \cup {Mbx, Lemo}
BellCmd == 0       \* handlercomm_doorbell; the others are Mbx and Lemo

ASSUME IrqAssumption ==
    /\ Vme \subseteq Nat \ {0} /\ Vectors # {} /\ Pid \in [Files -> Nat]
    /\ Sigs \subseteq {-1, 1}
    /\ Masks \in [Files -> SUBSET SUBSET Srcs] /\ AutoMasks \subseteq SUBSET Srcs
    /\ Active \subseteq Srcs
    /\ Vme \cap Ext = {} /\ {Mbx, Lemo} \cap (Remote \cup {0}) = {} /\ Mbx # Lemo
    /\ Faults \subseteq {"preempt", "noclear"}

VARIABLES
    line, vec,       \* requests of the crate and the card; vector a level offers
    en, sent,        \* interrupts enabled; those whose doorbell was rung
    bell, cmd,       \* sc->doorbell, sc->handlercommand.command
    th,              \* the irq thread: place, its doorbell and new_irqs
    pending,         \* sc->pending_irqs
    vects,           \* sc->irq_vects
    autoack,         \* sc->autoack_mask
    fd,              \* the device files and the call each is in
    told             \* history: pending interrupts a file was signalled for

vars == <<line, vec, en, sent, bell, cmd, th, pending, vects, autoack, fd, told>>
crate == <<line, vec, sent>>
thread == <<bell, cmd, th>>
info == <<pending, vects, autoack>>

NoFile == [pc |-> "closed", owned |-> {}, sig |-> 0, mask |-> {},
           want |-> 0, auto |-> {}]
Asleep == [pc |-> "idle", cmd |-> {}, bell |-> {}, new |-> {}]
SomeVector == CHOOSE v \in Vectors : TRUE
InfoFree == th.pc \notin {"locked", "served"}

Init ==
    /\ line = {} /\ vec = [l \in Vme |-> SomeVector] /\ en = {} /\ sent = {}
    /\ bell = {} /\ cmd = {} /\ th = Asleep
    /\ pending = {} /\ autoack = {}
    /\ vects = [l \in Vme |-> [valid |-> FALSE, vector |-> SomeVector]]
    /\ fd = [f \in Files |-> NoFile] /\ told = [f \in Files |-> {}]

-----------------------------------------------------------------------------
\* The crate and the card.
Raise(s) ==
    /\ s \notin line
    /\ line' = line \cup {s}
    /\ \E v \in Vectors : vec' = IF s \in Vme THEN [vec EXCEPT ![s] = v] ELSE vec
    /\ UNCHANGED <<en, sent, thread, info, fd, told>>

\* An enabled request rings the doorbell once; a request that ends or is blocked
\* may ring again.  The interrupt handler takes it.
Quiet == sent' = sent \cap line' \cap en'

Doorbell(s) ==
    /\ s \in (line \cap en \cap Remote) \ sent
    /\ sent' = sent \cup {s}
    /\ bell' = bell \cup {s} /\ cmd' = cmd \cup {BellCmd}
    /\ UNCHANGED <<line, vec, en, th, info, fd, told>>

\* The handler serves mailbox and front panel bits whether they are enabled or
\* not, whenever a local interrupt of the card comes.
Local(c) ==
    /\ c \in line \cap {Mbx, Lemo}
    /\ line' = line \ {c} /\ cmd' = cmd \cup {c}
    /\ UNCHANGED <<vec, en, sent, bell, th, info, fd, told>>

-----------------------------------------------------------------------------

\* sis1100_irq_thread: the commands, sem_irqinfo and the doorbell.
\* sis1100_lemo_handler masks its bits with the decimal 30000: none is left.
CardNew(commands) == commands \cap {Mbx}

ThreadTake ==
    /\ th.pc = "idle" /\ cmd # {}
    /\ cmd' = {}
    /\ th' = [th EXCEPT !.pc = "taken", !.cmd = cmd]
    /\ UNCHANGED <<crate, en, bell, info, fd, told>>

InsideCtl(f) == fd[f].pc = "set"

\* Mutated: the doorbell is cleared by a command of the card, too.
ThreadLockDropsBell ==
    /\ th.pc = "taken"
    /\ th' = [pc |-> "locked", cmd |-> {}, new |-> CardNew(th.cmd),
              bell |-> IF BellCmd \in th.cmd THEN bell ELSE {}]
    /\ bell' = {}
    /\ UNCHANGED <<crate, en, cmd, info, fd, told>>

ThreadLock ==
    /\ th.pc = "taken"
    /\ "preempt" \in Faults \/ \A f \in Files : ~InsideCtl(f)
    /\ th' = [pc |-> "locked", cmd |-> {}, new |-> CardNew(th.cmd),
              bell |-> IF BellCmd \in th.cmd THEN bell ELSE {}]
    /\ bell' = IF BellCmd \in th.cmd THEN {} ELSE bell
    /\ UNCHANGED <<crate, en, cmd, info, fd, told>>

\* Mutated: the vector of a level that is still pending is fetched again.
ThreadServeAgain ==
    /\ th.pc = "locked"
    /\ en' = en \ th.bell /\ line' = line \ th.bell
    /\ vects' = [l \in Vme |-> IF l \in th.bell
                               THEN [valid |-> TRUE, vector |-> vec[l]] ELSE vects[l]]
    /\ th' = [th EXCEPT !.pc = "served", !.new = @ \cup th.bell]
    /\ UNCHANGED <<vec, bell, cmd, pending, autoack, fd, told>>
    /\ Quiet

\* sis3100rem_irq_handler, under sem_hw: block the levels, fetch the vectors of
\* the new ones (the request ends), block and clear the others.
ThreadServe ==
    /\ th.pc = "locked"
    /\ LET new == th.bell \ pending IN
       /\ en' = en \ th.bell
       /\ line' = line \ ((new \cap Vme) \cup (th.bell \cap Ext))
       /\ vects' = [l \in Vme |-> IF l \in new
                                  THEN [valid |-> TRUE, vector |-> vec[l]]
                                  ELSE vects[l]]
       /\ th' = [th EXCEPT !.pc = "served", !.new = @ \cup new]
    /\ UNCHANGED <<vec, bell, cmd, pending, autoack, fd, told>>
    /\ Quiet

ThreadStore ==
    /\ th.pc = "served"
    /\ pending' = pending \cup th.new
    /\ th' = [th EXCEPT !.pc = "signal", !.bell = {}]
    /\ UNCHANGED <<crate, en, bell, cmd, vects, autoack, fd, told>>

\* Mutated: only a file all of whose interrupts are new is signalled.
SignalledAll(f) == fd[f].sig # 0 /\ fd[f].owned \subseteq th.new

\* A file with sig < 0 has asked for no signal and counts as told.
Signalled(f) == fd[f].sig # 0 /\ th.new \cap fd[f].owned # {}

ThreadSignal ==
    /\ th.pc = "signal"
    /\ th' = [th EXCEPT !.pc = "wake", !.new = {}]
    /\ told' = [f \in Files |-> IF Signalled(f)
                                THEN told[f] \cup (th.new \cap pending \cap fd[f].owned)
                                ELSE told[f]]
    /\ UNCHANGED <<crate, en, bell, cmd, info, fd>>

Ready(f) == pending \cap fd[f].owned \cap fd[f].mask # {}

ThreadWake ==
    /\ th.pc = "wake"
    /\ th' = Asleep
    /\ fd' = [f \in Files |-> IF fd[f].pc = "asleep" /\ Ready(f)
                              THEN [fd[f] EXCEPT !.pc = "get"] ELSE fd[f]]
    /\ UNCHANGED <<crate, en, bell, cmd, info, told>>

-----------------------------------------------------------------------------
\* sis1100_open and sis1100_release.
Open(f) ==
    /\ fd[f].pc = "closed"
    /\ fd' = [fd EXCEPT ![f] = [NoFile EXCEPT !.pc = "idle"]]
    /\ UNCHANGED <<crate, en, thread, info, told>>

\* cleanup_fd writes only to the register of the bus levels, and to the card.
Release(f) ==
    /\ fd[f].pc = "idle"
    /\ en' = en \ (fd[f].owned \ Ext)
    /\ fd' = [fd EXCEPT ![f].pc = "close"]
    /\ UNCHANGED <<line, vec, thread, info, told>>
    /\ Quiet

Close(f) ==
    /\ fd[f].pc = "close"
    /\ fd' = [fd EXCEPT ![f] = NoFile] /\ told' = [told EXCEPT ![f] = {}]
    /\ UNCHANGED <<crate, en, thread, info>>

-----------------------------------------------------------------------------
\* Mutated: only a file with the same interrupts is in the way.
ForeignExact(f, mask) ==
    \E g \in Files \ {f} : Pid[g] # Pid[f] /\ fd[g].owned = mask

\* sis1100_irq_ctl; SIS1100_IRQCTL_NOCLEAR leaves the acknowledge out.
Foreign(f, mask) ==
    \E g \in Files \ {f} : Pid[g] # Pid[f] /\ fd[g].owned \cap mask # {}

CtlReserve(f) ==
    /\ fd[f].pc = "idle"
    /\ \E mask \in Masks[f], auto \in AutoMasks, sig \in Sigs, next \in {"ack", "set"} :
         /\ next = "set" /\ sig > 0 => "noclear" \in Faults
         /\ ~Foreign(f, mask)
         /\ fd' = [fd EXCEPT ![f] = [@ EXCEPT
                    !.owned = fd[f].owned \cup mask, !.mask = mask,
                    !.auto = auto \cap mask, !.want = sig, !.pc = next]]
    /\ UNCHANGED <<crate, en, thread, info, told>>

\* Mutated: acknowledged interrupts stay blocked.
AcknowledgeOnly(f, irqs) ==
    /\ pending' = pending \ irqs /\ en' = en
    /\ told' = [told EXCEPT ![f] = @ \ irqs]

\* _sis1100_irq_ack: what is acknowledged is enabled again.
Acknowledge(f, irqs) ==
    /\ pending' = pending \ irqs
    /\ en' = en \cup (irqs \cap Remote)
    /\ told' = [told EXCEPT ![f] = @ \ irqs]

CtlAck(f) ==
    /\ fd[f].pc = "ack" /\ InfoFree
    /\ Acknowledge(f, fd[f].mask)
    /\ fd' = [fd EXCEPT ![f].pc = "set"]
    /\ UNCHANGED <<crate, thread, vects, autoack>>

\* sis3100rem_enable_irqs and sis1100_enable_irq clear latched bits first.
CtlSet(f) ==
    /\ fd[f].pc = "set"
    /\ autoack' = (autoack \ fd[f].mask) \cup fd[f].auto
    /\ line' = line \ (fd[f].mask \ Vme)
    /\ en' = en \cup fd[f].mask
    /\ fd' = [fd EXCEPT ![f] = [@ EXCEPT !.pc = "idle", !.sig = fd[f].want,
                                         !.auto = {}, !.want = 0, !.mask = {}]]
    /\ told' = [told EXCEPT ![f] = IF fd[f].want < 0 THEN @ \cup (fd[f].mask \cap pending)
                                   ELSE @]
    /\ UNCHANGED <<vec, thread, pending, vects>>
    /\ Quiet

CtlOff(f) ==
    /\ fd[f].pc = "idle"
    /\ \E mask \in Masks[f] :
         LET irqs == fd[f].owned \cap mask IN
         /\ autoack' = autoack \ irqs /\ en' = en \ irqs
         /\ fd' = [fd EXCEPT ![f] = [@ EXCEPT !.pc = "off", !.mask = mask]]
    /\ UNCHANGED <<line, vec, thread, pending, vects, told>>
    /\ Quiet

CtlRelease(f) ==
    /\ fd[f].pc = "off"
    /\ fd' = [fd EXCEPT ![f] = [@ EXCEPT !.pc = "idle", !.mask = {},
                                         !.owned = fd[f].owned \ fd[f].mask]]
    /\ told' = [told EXCEPT ![f] = @ \ fd[f].mask]
    /\ UNCHANGED <<crate, en, thread, info>>

-----------------------------------------------------------------------------
\* Mutated: sleeps without a test.
WaitBlind(f) ==
    /\ fd[f].pc = "idle"
    /\ fd' = [fd EXCEPT ![f] = [@ EXCEPT !.mask = fd[f].owned, !.pc = "asleep"]]
    /\ UNCHANGED <<crate, en, thread, info, told>>

\* sis1100_irq_wait, sis1100_read_irqdata and poll: test, then sleep; a signal
\* ends the sleep.
Wait(f) ==
    /\ fd[f].pc = "idle"
    /\ \E mask \in Masks[f] \cup {fd[f].owned} :
         fd' = [fd EXCEPT ![f] = [@ EXCEPT !.mask = mask,
                   !.pc = IF pending \cap fd[f].owned \cap mask # {}
                          THEN "get" ELSE "asleep"]]
    /\ UNCHANGED <<crate, en, thread, info, told>>

Interrupted(f) ==
    /\ fd[f].pc = "asleep"
    /\ fd' = [fd EXCEPT ![f] = [@ EXCEPT !.pc = "idle", !.mask = {}]]
    /\ UNCHANGED <<crate, en, thread, info, told>>

\* sis1100_irq_get: the vector of the highest level that has one, and all the
\* interrupts asked for that need no acknowledge are acknowledged.
Found(irqs) == {l \in irqs \cap Vme : vects[l].valid}

Get(f) ==
    /\ fd[f].pc = "get" /\ InfoFree
    /\ LET irqs == pending \cap fd[f].owned \cap fd[f].mask IN
       /\ vects' = IF Found(irqs) = {} THEN vects
                   ELSE [vects EXCEPT ![Max(Found(irqs))].valid = FALSE]
       /\ Acknowledge(f, autoack \cap irqs)
    /\ fd' = [fd EXCEPT ![f] = [@ EXCEPT !.pc = "idle", !.mask = {}]]
    /\ UNCHANGED <<crate, thread, autoack>>

\* sis1100_irq_ack, from the ioctl or from sis1100_write_irq.
AckMask(f, mask) ==
    /\ fd[f].pc = "idle"
    /\ fd' = [fd EXCEPT ![f] = [@ EXCEPT !.pc = "acking", !.mask = mask]]
    /\ UNCHANGED <<crate, en, thread, info, told>>

Ack(f) ==
    /\ fd[f].pc = "acking" /\ InfoFree
    /\ Acknowledge(f, fd[f].owned \cap fd[f].mask \cap pending)
    /\ fd' = [fd EXCEPT ![f] = [@ EXCEPT !.pc = "idle", !.mask = {}]]
    /\ UNCHANGED <<crate, thread, vects, autoack>>

-----------------------------------------------------------------------------
Crate == \E s \in Active : Raise(s) \/ Doorbell(s) \/ Local(s)
Thread == ThreadTake \/ ThreadLock \/ ThreadServe \/ ThreadStore \/ ThreadSignal
          \/ ThreadWake
InCall(f) == Close(f) \/ CtlAck(f) \/ CtlSet(f) \/ CtlRelease(f) \/ Get(f) \/ Ack(f)
Process(f) == Open(f) \/ Release(f) \/ CtlReserve(f) \/ CtlOff(f) \/ Wait(f)
              \/ Interrupted(f) \/ \E mask \in Masks[f] \cup {Srcs} : AckMask(f, mask)
Next == Crate \/ Thread \/ \E f \in Files : InCall(f) \/ Process(f)
Spec == Init /\ [][Next]_vars

\* The handler, the irq thread and running calls go on; a process that owns
\* interrupts acknowledges all of them again and again.
Fairness ==
    /\ \A s \in Active : WF_vars(Doorbell(s)) /\ WF_vars(Local(s))
    /\ WF_vars(Thread)
    /\ \A f \in Files : SF_vars(InCall(f)) /\ SF_vars(AckMask(f, Srcs))
FairSpec == Spec /\ Fairness

-----------------------------------------------------------------------------
FdType ==
    [pc : {"closed", "idle", "ack", "set", "off", "asleep", "get", "acking",
           "close"},
     owned : SUBSET Srcs, sig : {-1, 0, 1}, mask : SUBSET Srcs,
     want : {-1, 0, 1}, auto : SUBSET Srcs]

ThreadType ==
    [pc : {"idle", "taken", "locked", "served", "signal", "wake"},
     cmd : SUBSET (Srcs \cup {BellCmd}), bell : SUBSET Remote, new : SUBSET Srcs]

\* The variables keep their types: what the thread, the handler and the calls
\* store are interrupts of the mask layout of sis1100_var.h.
TypeOK ==
    /\ line \subseteq Srcs /\ vec \in [Vme -> Vectors] /\ en \subseteq Srcs
    /\ sent \subseteq line \cap en
    /\ bell \subseteq Remote /\ cmd \subseteq Srcs \cup {BellCmd}
    /\ th \in ThreadType
    /\ pending \subseteq Srcs /\ autoack \subseteq Srcs
    /\ vects \in [Vme -> [valid : BOOLEAN, vector : Vectors]]
    /\ fd \in [Files -> FdType] /\ told \in [Files -> SUBSET Srcs]

\* reserve_irq under sem_fdata: an interrupt has owners of one process only,
\* through every interleaving of irq_ctl, release and open.
OneOwner ==
    \A f, g \in Files : fd[f].owned \cap fd[g].owned # {} => Pid[f] = Pid[g]

\* An interrupt of a file that is in no irq_ctl is enabled unless it is pending or
\* the thread has it, and a level no file has ordered is blocked in the crate: no
\* order of block, acknowledge, order, cancel and release leaves an owned interrupt
\* switched off for good, or one that nobody owns switched on.
EnabledIffOwned ==
    /\ \A f \in Files : fd[f].pc \in {"idle", "asleep", "get", "acking"} =>
           fd[f].owned \cap Remote \subseteq en \cup pending \cup bell \cup th.bell
    /\ \A l \in Vme \cap en : \E f \in Files : l \in fd[f].owned

\* A pending interrupt of a file that asked for a signal was signalled, or the
\* thread is about to: ">0: Das angegebene Signal wird an den Prozess gesendet"
\* (doc/ioctl.txt:282).  The code breaks it: an interrupt that comes between the
\* acknowledge of irq_ctl and its store of fd->sig is not signalled.
NewSig == IF th.pc = "signal" THEN th.new ELSE {}
SignalFollows ==
    \A f \in Files : fd[f].pc = "idle" /\ fd[f].sig > 0 =>
        fd[f].owned \cap pending \subseteq told[f] \cup NewSig

\* SignalFollows in the middle of a call: what an irq_ctl is releasing or ordering
\* does not count, and a file without a signal owns nothing but what it is ordering.
Kept(f) == IF fd[f].pc \in {"ack", "set", "off"} THEN fd[f].owned \ fd[f].mask
           ELSE fd[f].owned
ToldOK(f) ==
    fd[f].pc # "close" /\ fd[f].sig # 0 =>
        Kept(f) \cap pending \subseteq told[f] \cup NewSig
OrderOK(f) ==
    /\ fd[f].sig = 0 /\ fd[f].pc \notin {"ack", "set"} => fd[f].owned = {}
    /\ fd[f].pc \in {"ack", "set"} =>
         /\ fd[f].want # 0
         /\ fd[f].sig = 0 => fd[f].owned \subseteq fd[f].mask
SignalInv(f) == ToldOK(f) /\ OrderOK(f)

\* irq_ctl asks for a signal for what the thread has been through with already.
Unsignalled(f) ==
    fd[f].want > 0 /\ ~(fd[f].mask \cap pending \subseteq told[f] \cup NewSig)

\* That store of irq_ctl is the only step that leaves a pending interrupt without its
\* signal: the irq thread in the middle of a call, other files, acknowledges, orders,
\* cancellations and releases never do.
SignalKept ==
    [][\A f \in Files :
          SignalInv(f) => SignalInv(f)' \/ (CtlSet(f) /\ Unsignalled(f))]_vars

\* Who sleeps in irq_wait while an interrupt it waits for is pending is about to
\* be woken: the thread wakes after it has stored, and the sleeper tests first.
SleeperWoken ==
    \A f \in Files : fd[f].pc = "asleep" /\ Ready(f) => th.pc \in {"signal", "wake"}

\* The vector fetched for a pending level stays until a process has read it, or
\* has acknowledged the interrupt itself: later doorbells do not replace it and
\* the automatic acknowledge of irq_get does not drop it.  That is of one level: of
\* two, irq_get reads one vector and acknowledges both.
Owed(l) == l \in pending /\ vects[l].valid
VectorKept ==
    [][(\E f \in Files : Ack(f) \/ CtlAck(f)) \/
       \A l \in Vme : Owed(l) => /\ vects'[l].vector = vects[l].vector
                                 /\ l \in pending' \/ ~vects'[l].valid]_vars

\* An interrupt of a file is served, again and again, however the other file and
\* the thread interleave: none stays blocked or asserted for ever.
Served ==
    \A f \in Files : \A s \in Remote :
        s \in line /\ s \in fd[f].owned ~> s \notin line \/ s \notin fd[f].owned

=============================================================================
