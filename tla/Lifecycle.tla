------------------------------ MODULE Lifecycle ------------------------------
(***************************************************************************)
(* Loading and unloading the driver and finding and losing its cards: the  *)
(* order in which init_sis1100_device acquires things and its error path   *)
(* and done_sis1100_device give them back, while the interrupt handler,    *)
(* link_up_timer, the irq thread, readers of sysfs and processes with open *)
(* files use them.  The cards meet in sis1100_devdata, where each takes a  *)
(* place, and in the module.  What a path of the code leaves behind for a  *)
(* timer, a node, a file or the next call to trip over is followed up to   *)
(* that point, "lost": what comes then is undefined.                       *)
(***************************************************************************)
EXTENDS Naturals, Sequences

CONSTANTS
    Cards, NoCard,  \* the cards there may be, and none of them
    MaxCards,       \* sis1100_MAXCARDS
    Busy,           \* those on whose interrupt line something happens
    Procs,          \* processes, each with a device file or a file of sysfs at a time
    SerialProbes    \* the kernel calls init_sis1100_device for one card at a time

LifeAssumption ==
    /\ NoCard \notin Cards /\ Busy \subseteq Cards
    /\ MaxCards \in Nat \ {0} /\ SerialProbes \in BOOLEAN
ASSUME LifeAssumption

VARIABLES
    mod, mhas,      \* the module: "out", "loading", "live", "going"; what it holds
    devdata, unit,  \* sis1100_devdata, and each card's place in it
    pc, has, down,  \* a card's place, what is held for it, what is to be released
    intcsr,         \* whether the card may interrupt
    intr,           \* the handler: "out", "in", "mine" (there is a link change)
    armed,          \* link_up_timer
    cmd, th, stop,  \* handlercommand, irq thread, kthread_should_stop: "no", "yes",
                    \* "late" when the thread may be past its test
    file, show      \* the card whose device file a process has, whose sysfs it reads

module == <<mod, mhas>>
slots == <<devdata, unit>>
card == <<pc, has, down, intcsr>>
thread == <<cmd, th, stop>>
users == <<file, show>>
vars == <<module, slots, card, intr, armed, thread, users>>

Slots == 0..(MaxCards - 1)
ThingsOf(s) == {s[i] : i \in DOMAIN s}

\* What to take next in the order s, and what to give back next; none or one thing.
NextMissing(s, held) ==
    {s[i] : i \in {k \in DOMAIN s : s[k] \notin held /\ \A j \in 1..(k - 1) : s[j] \in held}}
NextLeft(s, left) ==
    {s[i] : i \in {k \in DOMAIN s : s[k] \in left /\ \A j \in 1..(k - 1) : s[j] \notin left}}

Order == <<"softc", "slot", "thread", "device", "regions", "plx", "reg", "irq", "dma",
           "card", "cdev", "nodes", "sysfs", "drvdata">>
Things == ThingsOf(Order)
MayFail == {"softc", "thread", "device", "regions", "plx", "reg", "irq", "dma", "card",
            "cdev", "nodes"}

\* Mutant: the registers go before the interrupt.
TeardownUnmapsFirst ==
    <<"sysfs", "nodes", "cdev", "card", "dma", "plx", "reg", "irq", "timer", "regions",
      "device", "thread", "slot", "softc", "drvdata">>

Teardown ==
    <<"sysfs", "nodes", "cdev", "card", "dma", "irq", "timer", "plx", "reg", "regions",
      "device", "thread", "slot", "softc", "drvdata">>

Init ==
    /\ mod = "out" /\ mhas = {}
    /\ devdata = [s \in Slots |-> NoCard] /\ unit = [c \in Cards |-> 0]
    /\ pc = [c \in Cards |-> "idle"]
    /\ has = [c \in Cards |-> {}] /\ down = [c \in Cards |-> {}]
    /\ intcsr = [c \in Cards |-> FALSE]
    /\ intr = [c \in Cards |-> "out"] /\ armed = [c \in Cards |-> FALSE]
    /\ cmd = [c \in Cards |-> FALSE] /\ th = [c \in Cards |-> "gone"]
    /\ stop = [c \in Cards |-> "no"]
    /\ file = [p \in Procs |-> NoCard] /\ show = [p \in Procs |-> NoCard]

Held(c, r) == r \in has[c]
Wake(c) == th' = [th EXCEPT ![c] = IF @ = "asleep" THEN "check" ELSE @]
Sound == \A c \in Cards : pc[c] # "lost"
InProbe(c) == pc[c] \in {"probe", "undo", "undone"}

-----------------------------------------------------------------------------
\* init_sis1100_module and cleanup_sis1100_module.
ModuleOrder == <<"class", "attr", "region", "driver">>

ModuleInit ==
    /\ mod \in {"out", "loading"}
    /\ \E r \in NextMissing(ModuleOrder, mhas) :
          /\ mhas' = mhas \cup {r}
          /\ mod' = IF r = "driver" THEN "live" ELSE "loading"
    /\ UNCHANGED <<slots, card, intr, armed, thread, users>>

ModuleInitFails ==
    /\ mod = "loading"
    /\ mod' = "out" /\ mhas' = {}
    /\ UNCHANGED <<slots, card, intr, armed, thread, users>>

\* A module in use stays; from here on its files are not opened any more.
ModuleExit ==
    /\ mod = "live" /\ Sound
    /\ \A p \in Procs : file[p] = NoCard
    /\ mod' = "going"
    /\ UNCHANGED <<mhas, slots, card, intr, armed, thread, users>>

ModuleGone ==
    /\ mod = "going"
    /\ \A c \in Cards : pc[c] = "idle"
    /\ mod' = "out" /\ mhas' = {}
    /\ UNCHANGED <<slots, card, intr, armed, thread, users>>

-----------------------------------------------------------------------------
\* init_sis1100_device: a place in sis1100_devdata is looked for without a lock, ...
Probe(c) ==
    /\ pc[c] = "idle" /\ mod = "live" /\ Sound
    /\ SerialProbes => \A d \in Cards : ~InProbe(d)
    /\ \E u \in Slots :
          /\ devdata[u] = NoCard /\ \A v \in 0..(u - 1) : devdata[v] # NoCard
          /\ unit' = [unit EXCEPT ![c] = u]
    /\ pc' = [pc EXCEPT ![c] = "probe"]
    /\ UNCHANGED <<module, devdata, has, down, intcsr, intr, armed, thread, users>>

\* ... then one thing is acquired after the other.  The new thread runs at once,
\* interrupts come once sis1100_init has enabled them.
Acquire(c) ==
    /\ pc[c] = "probe"
    /\ \E r \in NextMissing(Order, has[c]) :
          /\ has' = [has EXCEPT ![c] = @ \cup {r}]
          /\ devdata' = IF r = "slot" THEN [devdata EXCEPT ![unit[c]] = c] ELSE devdata
          /\ th' = IF r = "thread" THEN [th EXCEPT ![c] = "top"] ELSE th
          /\ stop' = IF r = "thread" THEN [stop EXCEPT ![c] = "no"] ELSE stop
          /\ cmd' = IF r = "softc" THEN [cmd EXCEPT ![c] = FALSE] ELSE cmd
          /\ armed' = IF r = "softc" THEN [armed EXCEPT ![c] = FALSE] ELSE armed
          /\ intcsr' = IF r = "card" THEN [intcsr EXCEPT ![c] = TRUE] ELSE intcsr
          /\ pc' = IF r = "drvdata" THEN [pc EXCEPT ![c] = "bound"] ELSE pc
    /\ UNCHANGED <<module, unit, down, intr, users>>

\* Mutant: a label is missing, the DMA memory stays allocated.
UndoKeepsDma(c) == has[c] \ {"nodes", "dma"}

\* The labels at the end: what has been acquired, but for device nodes and the
\* timer, in the order of done_sis1100_device.
Undo(c) == has[c] \ {"nodes"}

AcquireFails(c) ==
    /\ pc[c] = "probe"
    /\ \E r \in NextMissing(Order, has[c]) \cap MayFail :
          has' = IF r = "nodes" THEN [has EXCEPT ![c] = @ \cup {r}] ELSE has
    /\ pc' = [pc EXCEPT ![c] = "undo"] /\ down' = [down EXCEPT ![c] = Undo(c)]
    /\ UNCHANGED <<module, slots, intcsr, intr, armed, thread, users>>

\* res still is what request_irq returned, 0: the card counts as bound.
NoDmaMask(c) ==
    /\ pc[c] = "probe" /\ "dma" \in NextMissing(Order, has[c])
    /\ pc' = [pc EXCEPT ![c] = "undone"] /\ down' = [down EXCEPT ![c] = Undo(c)]
    /\ UNCHANGED <<module, slots, has, intcsr, intr, armed, thread, users>>

\* done_sis1100_device, when the driver is unregistered or the card is taken away.
Remove(c) ==
    /\ pc[c] = "bound"
    /\ pc' = [pc EXCEPT ![c] = "remove"]
    /\ down' = [down EXCEPT ![c] = ThingsOf(Teardown)]
    /\ UNCHANGED <<module, slots, has, intcsr, intr, armed, thread, users>>

-----------------------------------------------------------------------------
\* Giving one thing back.  free_irq and device_remove_file let nobody in any more and
\* wait for the handler and the readers inside, del_timer_sync for the timer.
Leaving(c, r) == r \in NextLeft(Teardown, down[c])

Waits(c, r) ==
    \/ r = "irq" /\ intr[c] # "out"
    \/ r = "sysfs" /\ \E p \in Procs : show[p] = c

GiveBack(c, r) ==
    /\ has' = [has EXCEPT ![c] = @ \ {r}]
    /\ down' = [down EXCEPT ![c] = @ \ {r}]

Release(c) ==
    /\ \E r \in NextLeft(Teardown, down[c]) \ {"thread"} :
          /\ ~Waits(c, r)
          /\ GiveBack(c, r)
          /\ devdata' = IF r = "slot" THEN [devdata EXCEPT ![unit[c]] = NoCard] ELSE devdata
          /\ armed' = IF r = "timer" THEN [armed EXCEPT ![c] = FALSE] ELSE armed
          /\ intcsr' = IF r = "card" THEN [intcsr EXCEPT ![c] = FALSE] ELSE intcsr
    /\ UNCHANGED <<module, unit, pc, intr, thread, users>>

\* kthread_stop sets the flag, wakes the thread and waits for its end.
StopThread(c) ==
    /\ Leaving(c, "thread") /\ stop[c] = "no"
    /\ stop' = [stop EXCEPT ![c] = IF th[c] \in {"top", "work"} THEN "late" ELSE "yes"]
    /\ Wake(c)
    /\ UNCHANGED <<module, slots, card, intr, armed, cmd, users>>

JoinThread(c) ==
    /\ Leaving(c, "thread") /\ stop[c] # "no" /\ th[c] = "gone"
    /\ GiveBack(c, "thread")
    /\ UNCHANGED <<module, slots, pc, intcsr, intr, armed, thread, users>>

\* The error path stops no timer and destroys no nodes, a probe that returns 0 for
\* nothing is removed one day, and a file may outlast its card.  Otherwise the card is
\* free; the next probe chooses its place and starts a thread anew.
Leftover(c) ==
    \/ armed[c] \/ Held(c, "nodes") \/ pc[c] = "undone"
    \/ \E p \in Procs : file[p] = c

TornDown(c) ==
    /\ pc[c] \in {"undo", "undone", "remove"} /\ down[c] = {}
    /\ pc' = [pc EXCEPT ![c] = IF Leftover(c) THEN "lost" ELSE "idle"]
    /\ unit' = [unit EXCEPT ![c] = 0] /\ stop' = [stop EXCEPT ![c] = "no"]
    /\ UNCHANGED <<module, devdata, has, down, intcsr, intr, armed, cmd, th, users>>

-----------------------------------------------------------------------------
\* The handler is called for every device of its line, and reads INTCSR.
IntrEnter(c) ==
    /\ c \in Busy /\ Held(c, "irq") /\ ~Leaving(c, "irq") /\ intr[c] = "out"
    /\ \E i \in {"in", "mine"} :
          /\ i = "mine" => intcsr[c]
          /\ intr' = [intr EXCEPT ![c] = i]
    /\ UNCHANGED <<module, slots, card, armed, thread, users>>

\* A link change starts the timer; others wake the thread at once.
IntrLeave(c) ==
    /\ intr[c] # "out" /\ intr' = [intr EXCEPT ![c] = "out"]
    /\ \/ UNCHANGED <<armed, cmd, th>>
       \/ /\ intr[c] = "mine" /\ armed' = [armed EXCEPT ![c] = TRUE]
          /\ UNCHANGED <<cmd, th>>
       \/ /\ intr[c] = "mine" /\ cmd' = [cmd EXCEPT ![c] = TRUE] /\ Wake(c)
          /\ UNCHANGED armed
    /\ UNCHANGED <<module, slots, card, stop, users>>

TimerFires(c) ==
    /\ armed[c] /\ armed' = [armed EXCEPT ![c] = FALSE]
    /\ cmd' = [cmd EXCEPT ![c] = TRUE] /\ Wake(c)
    /\ UNCHANGED <<module, slots, card, intr, stop, users>>

\* sis1100_irq_thread: sleep unless there is a command, stop, or take it.
ThreadSleep(c) ==
    /\ th[c] = "top"
    /\ th' = [th EXCEPT ![c] = IF cmd[c] THEN "check" ELSE "asleep"]
    /\ UNCHANGED <<module, slots, card, intr, armed, cmd, stop, users>>

\* Mutant: the thread looks whether it should stop when it has a command.
ThreadCheckBusy(c) ==
    /\ th[c] = "check"
    /\ th' = [th EXCEPT ![c] = IF ~cmd[c] THEN "top"
                               ELSE IF stop[c] # "no" THEN "gone" ELSE "work"]
    /\ cmd' = [cmd EXCEPT ![c] = FALSE]
    /\ UNCHANGED <<module, slots, card, intr, armed, stop, users>>

ThreadCheck(c) ==
    /\ th[c] = "check"
    /\ th' = [th EXCEPT ![c] = IF stop[c] # "no" THEN "gone"
                               ELSE IF cmd[c] THEN "work" ELSE "top"]
    /\ cmd' = [cmd EXCEPT ![c] = stop[c] # "no" /\ @]
    /\ UNCHANGED <<module, slots, card, intr, armed, stop, users>>

ThreadDone(c) ==
    /\ th[c] = "work" /\ th' = [th EXCEPT ![c] = "top"]
    /\ UNCHANGED <<module, slots, card, intr, armed, cmd, stop, users>>

-----------------------------------------------------------------------------
Free(p) == file[p] = NoCard /\ show[p] = NoCard

\* sis1100_open by way of the kernel's table of character devices: the number of the
\* node leads to the card's cdev, and once more to a place in sis1100_devdata.
Open(p, c) ==
    /\ Free(p) /\ mod = "live"
    /\ Held(c, "cdev") /\ devdata[unit[c]] # NoCard
    /\ file' = [file EXCEPT ![p] = devdata[unit[c]]]
    /\ UNCHANGED <<module, slots, card, intr, armed, thread, show>>

Close(p) ==
    /\ file[p] # NoCard /\ file' = [file EXCEPT ![p] = NoCard]
    /\ UNCHANGED <<module, slots, card, intr, armed, thread, show>>

\* show_remote_online and the like.
Show(p, c) ==
    /\ Free(p) /\ Held(c, "sysfs") /\ ~Leaving(c, "sysfs")
    /\ show' = [show EXCEPT ![p] = c]
    /\ UNCHANGED <<module, slots, card, intr, armed, thread, file>>

ShowEnds(p) ==
    /\ show[p] # NoCard /\ show' = [show EXCEPT ![p] = NoCard]
    /\ UNCHANGED <<module, slots, card, intr, armed, thread, file>>

-----------------------------------------------------------------------------
Driver(c) == Acquire(c) \/ AcquireFails(c) \/ NoDmaMask(c) \/ Release(c)
             \/ StopThread(c) \/ JoinThread(c) \/ TornDown(c)
Thread(c) == ThreadSleep(c) \/ ThreadCheck(c) \/ ThreadDone(c)
CardStep(c) == Probe(c) \/ Remove(c) \/ Driver(c)
               \/ IntrEnter(c) \/ IntrLeave(c) \/ TimerFires(c) \/ Thread(c)
ModuleStep == ModuleInit \/ ModuleInitFails \/ ModuleExit \/ ModuleGone
UserStep(p) == \/ \E c \in Cards : Open(p, c) \/ Show(p, c)
               \/ Close(p) \/ ShowEnds(p)
Next == \/ ModuleStep
        \/ \E c \in Cards : CardStep(c)
        \/ \E p \in Procs : UserStep(p)
Spec == Init /\ [][Next]_vars

\* Whatever has begun goes on; interrupts, users and the module need not come.
FairSpec ==
    /\ Spec
    /\ \A c \in Cards : WF_vars(Driver(c)) /\ WF_vars(IntrLeave(c)) /\ WF_vars(Thread(c))
    /\ \A p \in Procs : WF_vars(ShowEnds(p))

-----------------------------------------------------------------------------
\* A probe holds the beginning of Order, and only who gives back has things to.
InOrder(c) ==
    /\ pc[c] = "probe" => \A i \in DOMAIN Order : \A j \in 1..(i - 1) :
                               Held(c, Order[i]) => Held(c, Order[j])
    /\ down[c] # {} => pc[c] \in {"undo", "undone", "remove"}

TypeOK ==
    /\ mod \in {"out", "loading", "live", "going"} /\ mhas \subseteq ThingsOf(ModuleOrder)
    /\ devdata \in [Slots -> Cards \cup {NoCard}] /\ unit \in [Cards -> Slots]
    /\ pc \in [Cards -> {"idle", "probe", "undo", "undone", "bound", "remove", "lost"}]
    /\ has \in [Cards -> SUBSET Things] /\ down \in [Cards -> SUBSET ThingsOf(Teardown)]
    /\ intr \in [Cards -> {"out", "in", "mine"}]
    /\ th \in [Cards -> {"gone", "top", "asleep", "check", "work"}]
    /\ stop \in [Cards -> {"no", "yes", "late"}]
    /\ intcsr \in [Cards -> BOOLEAN] /\ armed \in [Cards -> BOOLEAN]
    /\ cmd \in [Cards -> BOOLEAN]
    /\ file \in [Procs -> Cards \cup {NoCard}] /\ show \in [Procs -> Cards \cup {NoCard}]
    /\ \A c \in Cards : InOrder(c)

\* The interrupt handler never runs without the registers and the softc it reads, in
\* no state of probe, of its error path, or of removal.
HandlerHasCard(c) == intr[c] # "out" => {"plx", "reg", "softc"} \subseteq has[c]

\* The timer never outlives the softc it is part of, once a card has been bound:
\* nothing starts it after del_timer_sync.  The error path of a probe that had
\* enabled interrupts is the exception.
TimerHasCard(c) == armed[c] => Held(c, "softc") \/ pc[c] \in {"undo", "undone", "lost"}

\* The irq thread lives no longer than its softc, and works without the registers
\* only while they are taken away: no command is left from the card before.
ThreadHasCard(c) ==
    /\ th[c] # "gone" => Held(c, "softc")
    /\ th[c] = "work" => \/ {"plx", "reg"} \subseteq has[c]
                         \/ pc[c] \in {"undo", "undone", "remove"}

\* A process with an open file has a card unless the card was taken away under it,
\* or its probe failed after cdev_add; the module, which an open file keeps, cannot
\* go first.  One that reads sysfs has a card, and its pointer in the device but for
\* the last step of probe.
FileHasCard(p, c) ==
    file[p] = c => \/ {"softc", "reg"} \subseteq has[c]
                   \/ mod = "live" /\ pc[c] \in {"undo", "remove", "lost"}
ReaderHasCard(p, c) ==
    show[p] = c => /\ {"softc", "reg"} \subseteq has[c]
                   /\ Held(c, "drvdata") \/ pc[c] = "probe"

\* Whoever runs on a card has what it runs on: nothing is given back under the
\* interrupt handler, the timer, the irq thread or a user, in no order in which they
\* meet the steps of probe, of its error path, and of removal, of this card or another.
CardIsThere ==
    \A c \in Cards :
        /\ HandlerHasCard(c) /\ TimerHasCard(c) /\ ThreadHasCard(c)
        /\ \A p \in Procs : FileHasCard(p, c) /\ ReaderHasCard(p, c)

\* A card that counts as free holds nothing, whether it was removed or its probe
\* failed; nothing of it runs any more and it does not interrupt.
FreeHoldsNothing(c) ==
    pc[c] = "idle" => /\ has[c] = {} /\ th[c] = "gone" /\ ~armed[c] /\ ~intcsr[c]
                      /\ \A s \in Slots : devdata[s] # c

\* One that counts as bound has its pointer and its own place in sis1100_devdata, by
\* which sis1100_open finds it, whatever other cards came and went meanwhile.
BoundIsFound(c) == pc[c] = "bound" => Held(c, "drvdata") /\ devdata[unit[c]] = c

\* Free cards leave nothing behind, bound ones are found, and the module goes only
\* when its cards are free.
NothingLeft ==
    /\ \A c \in Cards : FreeHoldsNothing(c) /\ BoundIsFound(c)
    /\ mod = "out" => mhas = {} /\ \A c \in Cards : pc[c] = "idle"

\* A failed probe and a removal come to their end: nobody waits for a handler that
\* does not leave, a reader, or the thread, unless the thread was past its test when
\* kthread_stop woke it and has gone to sleep since.
TeardownEnds ==
    \A c \in Cards : down[c] # {} ~> (down[c] = {} \/ (stop[c] = "late" /\ th[c] = "asleep"))

=============================================================================
