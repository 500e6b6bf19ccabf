---------------------------- MODULE LifecycleProofs ----------------------------
(***************************************************************************)
(* What TLAPS proves about finding and losing cards, for any cards, places *)
(* in sis1100_devdata, cards that interrupt, and processes.                *)
(***************************************************************************)
EXTENDS Lifecycle, TLAPS

\* The places of the things in the order of probe.
LEMMA OrderPlaces ==
    /\ DOMAIN Order = 1..14
    /\ Order[1] = "softc" /\ Order[2] = "slot" /\ Order[3] = "thread"
    /\ Order[4] = "device" /\ Order[5] = "regions" /\ Order[6] = "plx"
    /\ Order[7] = "reg" /\ Order[8] = "irq" /\ Order[9] = "dma" /\ Order[10] = "card"
    /\ Order[11] = "cdev" /\ Order[12] = "nodes" /\ Order[13] = "sysfs"
    /\ Order[14] = "drvdata"
BY DEF Order

\* ... and of what is given back.
LEMMA TeardownPlaces ==
    /\ DOMAIN Teardown = 1..15
    /\ Teardown[1] = "sysfs" /\ Teardown[2] = "nodes" /\ Teardown[3] = "cdev"
    /\ Teardown[4] = "card" /\ Teardown[5] = "dma" /\ Teardown[6] = "irq"
    /\ Teardown[7] = "timer" /\ Teardown[8] = "plx" /\ Teardown[9] = "reg"
    /\ Teardown[10] = "regions" /\ Teardown[11] = "device" /\ Teardown[12] = "thread"
    /\ Teardown[13] = "slot" /\ Teardown[14] = "softc" /\ Teardown[15] = "drvdata"
BY DEF Teardown

LEMMA ThingsAre ==
    /\ Things = {"softc", "slot", "thread", "device", "regions", "plx", "reg", "irq",
                 "dma", "card", "cdev", "nodes", "sysfs", "drvdata"}
    /\ ThingsOf(Teardown) = Things \cup {"timer"}
<1>1. Things = {"softc", "slot", "thread", "device", "regions", "plx", "reg", "irq",
                 "dma", "card", "cdev", "nodes", "sysfs", "drvdata"}
  BY OrderPlaces DEF Things, ThingsOf
<1>2. ThingsOf(Teardown) = Things \cup {"timer"}
  BY <1>1, TeardownPlaces DEF ThingsOf
<1> QED
  BY <1>1, <1>2

\* What probe takes next rests on what it holds.
LEMMA TakesInOrder ==
    ASSUME NEW held, NEW r \in NextMissing(Order, held)
    PROVE  /\ r \in Things /\ r \notin held
           /\ r # "softc" => "softc" \in held
           /\ r \notin {"softc", "slot"} => "slot" \in held
           /\ r \in {"plx", "reg"} => "thread" \in held
           /\ r \in {"irq", "dma", "card", "cdev", "sysfs"} => {"plx", "reg"} \subseteq held
           /\ r \in {"card", "cdev", "nodes", "sysfs"} => {"irq", "dma"} \subseteq held
           /\ r \in {"cdev", "nodes", "sysfs"} => "card" \in held
           /\ r \in {"nodes", "sysfs"} => "cdev" \in held
           /\ r = "drvdata" => Things \ {"drvdata"} \subseteq held
<1>1. PICK i \in DOMAIN Order : /\ r = Order[i] /\ Order[i] \notin held
                                /\ \A j \in 1..(i - 1) : Order[j] \in held
  BY DEF NextMissing
<1>2. QED
  BY <1>1, OrderPlaces, ThingsAre

\* What is given back next: nothing that is still to be given back rests on it.
LEMMA LeavesInOrder ==
    ASSUME NEW left, NEW r \in NextLeft(Teardown, left)
    PROVE  /\ r \in Things \cup {"timer"} /\ r \in left
           /\ r # "sysfs" => "sysfs" \notin left
           /\ r \notin {"sysfs", "nodes", "cdev"} => "cdev" \notin left
           /\ r \notin {"sysfs", "nodes", "cdev", "card"} => "card" \notin left
           /\ r \notin {"sysfs", "nodes", "cdev", "card", "dma", "irq"} => "irq" \notin left
           /\ r \in {"thread", "slot", "softc", "drvdata"} =>
                 {"plx", "reg", "timer"} \cap left = {}
           /\ r \in {"slot", "softc", "drvdata"} => "thread" \notin left
           /\ r \in {"softc", "drvdata"} => "slot" \notin left
           /\ r = "drvdata" => left \cap (Things \cup {"timer"}) = {"drvdata"}
<1>1. PICK i \in DOMAIN Teardown : /\ r = Teardown[i] /\ Teardown[i] \in left
                                   /\ \A j \in 1..(i - 1) : Teardown[j] \notin left
  BY DEF NextLeft
<1>2. QED
  BY <1>1, TeardownPlaces, ThingsAre

-----------------------------------------------------------------------------
(* The inductive invariant.                                                *)

\* What each thing rests on is held as long as it is.
Grounded(c) ==
    /\ Held(c, "slot") => Held(c, "softc")
    /\ Held(c, "thread") => Held(c, "slot")
    /\ Held(c, "plx") \/ Held(c, "reg") => Held(c, "thread")
    /\ Held(c, "irq") => Held(c, "plx") /\ Held(c, "reg")
    /\ Held(c, "card") => Held(c, "irq")
    /\ Held(c, "cdev") => Held(c, "card")
    /\ Held(c, "sysfs") => Held(c, "cdev")

\* What is held and what is to be given back, by the place of the card.
Placed(c) ==
    /\ pc[c] = "idle" => has[c] = {}
    /\ pc[c] = "bound" => has[c] = Things
    /\ pc[c] = "lost" => has[c] \subseteq {"nodes"}
    /\ pc[c] = "probe" => "drvdata" \notin has[c]
    /\ pc[c] = "remove" => /\ has[c] = down[c] \ {"timer"}
                           /\ down[c] # {} => "drvdata" \in down[c]
                           /\ "irq" \in down[c] => "timer" \in down[c]
                           /\ "timer" \in down[c] => "softc" \in down[c]
    /\ pc[c] \in {"undo", "undone"} => /\ down[c] = has[c] \ {"nodes"}
                                       /\ {"sysfs", "drvdata"} \cap has[c] = {}
    /\ pc[c] = "undone" => "cdev" \notin has[c]

\* Who runs on the card has been started by what is held.
Running(c) ==
    /\ intcsr[c] => Held(c, "card")
    /\ intr[c] # "out" => Held(c, "irq")
    /\ th[c] # "gone" => Held(c, "thread")
    /\ armed[c] => pc[c] # "idle"
    /\ armed[c] /\ pc[c] = "remove" => "timer" \in down[c]
    /\ pc[c] = "probe" /\ (armed[c] \/ th[c] = "work" \/ (cmd[c] /\ Held(c, "softc")))
          => Held(c, "irq")

CardInv(c) == Grounded(c) /\ Placed(c) /\ Running(c)

Readers == \A p \in Procs, c \in Cards : show[p] = c => Held(c, "sysfs")

\* A place that is taken is that of a card which has taken it.
Takers == \A s \in Slots, c \in Cards : devdata[s] = c => Held(c, "slot") /\ unit[c] = s

Loaded ==
    /\ mod \in {"out", "loading"} => \A c \in Cards : pc[c] = "idle"
    /\ mod = "out" => mhas = {}

IInv == (\A c \in Cards : CardInv(c)) /\ Readers /\ Takers /\ Loaded

\* While one card is probed at a time, the place a probe has found stays free until
\* it is taken, and a place taken stays taken.
Places ==
    /\ \A c, d \in Cards : InProbe(c) /\ InProbe(d) => c = d
    /\ \A c \in Cards : Held(c, "slot") => devdata[unit[c]] = c
    /\ \A c \in Cards : pc[c] = "probe" /\ ~Held(c, "slot") => devdata[unit[c]] = NoCard

\* An open file keeps the module, and its card was complete when it was opened.
Files ==
    \A p \in Procs, c \in Cards :
        file[p] = c => mod = "live" /\ (Held(c, "cdev") \/ pc[c] \in {"undo", "remove", "lost"})

-----------------------------------------------------------------------------
(* Type correctness.                                                       *)

\* What a step of a card leaves alone of another one, all it has.
Same(c) ==
    /\ pc'[c] = pc[c] /\ has'[c] = has[c] /\ down'[c] = down[c]
    /\ intcsr'[c] = intcsr[c] /\ intr'[c] = intr[c] /\ armed'[c] = armed[c]
    /\ cmd'[c] = cmd[c] /\ th'[c] = th[c] /\ unit'[c] = unit[c]

\* A step of one card leaves the others alone.
LEMMA OthersStay ==
    ASSUME TypeOK, NEW c \in Cards, NEW d \in Cards, c # d, CardStep(c)
    PROVE  Same(d)
<1> USE DEF TypeOK, Same, card, slots, thread
<1>1. CASE Probe(c)
  BY <1>1 DEF Probe
<1>2. CASE Remove(c)
  BY <1>2 DEF Remove
<1>3. CASE Acquire(c)
  BY <1>3 DEF Acquire
<1>4. CASE AcquireFails(c)
  BY <1>4 DEF AcquireFails
<1>5. CASE NoDmaMask(c)
  BY <1>5 DEF NoDmaMask
<1>6. CASE Release(c)
  BY <1>6 DEF Release, GiveBack
<1>7. CASE StopThread(c)
  BY <1>7 DEF StopThread, Wake
<1>8. CASE JoinThread(c)
  BY <1>8 DEF JoinThread, GiveBack
<1>9. CASE TornDown(c)
  BY <1>9 DEF TornDown
<1>10. CASE IntrEnter(c)
  BY <1>10 DEF IntrEnter
<1>11. CASE IntrLeave(c)
  BY <1>11 DEF IntrLeave, Wake
<1>12. CASE TimerFires(c)
  BY <1>12 DEF TimerFires, Wake
<1>13. CASE Thread(c)
  BY <1>13 DEF Thread, ThreadSleep, ThreadCheck, ThreadDone
<1> QED
  BY <1>1, <1>2, <1>3, <1>4, <1>5, <1>6, <1>7, <1>8, <1>9, <1>10, <1>11, <1>12, <1>13
     DEF CardStep, Driver

\* Processes and module leave every card alone.
LEMMA CardsStay ==
    ASSUME TypeOK, ModuleStep \/ \E p \in Procs : UserStep(p)
    PROVE  UNCHANGED <<slots, card, intr, armed, thread>>
<1>1. CASE ModuleStep
  BY <1>1 DEF ModuleStep, ModuleInit, ModuleInitFails, ModuleExit, ModuleGone
<1>2. CASE \E p \in Procs : UserStep(p)
  BY <1>2 DEF UserStep, Open, Close, Show, ShowEnds
<1> QED
  BY <1>1, <1>2

\* Each step of a card keeps the types.
Typed ==
    /\ devdata \in [Slots -> Cards \cup {NoCard}] /\ unit \in [Cards -> Slots]
    /\ pc \in [Cards -> {"idle", "probe", "undo", "undone", "bound", "remove", "lost"}]
    /\ has \in [Cards -> SUBSET Things] /\ down \in [Cards -> SUBSET ThingsOf(Teardown)]
    /\ intr \in [Cards -> {"out", "in", "mine"}]
    /\ th \in [Cards -> {"gone", "top", "asleep", "check", "work"}]
    /\ stop \in [Cards -> {"no", "yes", "late"}]
    /\ intcsr \in [Cards -> BOOLEAN] /\ armed \in [Cards -> BOOLEAN]
    /\ cmd \in [Cards -> BOOLEAN]

LEMMA CardTypes ==
    ASSUME TypeOK, NEW c \in Cards, CardStep(c)
    PROVE  Typed'
<1> USE DEF TypeOK, Typed, card, slots, thread
<1>1. CASE Probe(c)
  BY <1>1 DEF Probe
<1>2. CASE Remove(c)
  BY <1>2 DEF Remove
<1>3. CASE Acquire(c)
  BY <1>3, TakesInOrder DEF Acquire
<1>4. CASE AcquireFails(c)
  BY <1>4, TakesInOrder, ThingsAre DEF AcquireFails, Undo
<1>5. CASE NoDmaMask(c)
  BY <1>5, ThingsAre DEF NoDmaMask, Undo
<1>6. CASE Release(c)
  BY <1>6 DEF Release, GiveBack
<1>7. CASE StopThread(c)
  BY <1>7 DEF StopThread, Wake
<1>8. CASE JoinThread(c)
  BY <1>8 DEF JoinThread, GiveBack
<1>9. CASE TornDown(c)
  <2>1. 0 \in Slots
    BY LifeAssumption DEF LifeAssumption, Slots
  <2> QED
    BY <1>9, <2>1 DEF TornDown, Leftover
<1>10. CASE IntrEnter(c)
  BY <1>10 DEF IntrEnter
<1>11. CASE IntrLeave(c)
  BY <1>11 DEF IntrLeave, Wake
<1>12. CASE TimerFires(c)
  BY <1>12 DEF TimerFires, Wake
<1>13. CASE Thread(c)
  BY <1>13 DEF Thread, ThreadSleep, ThreadCheck, ThreadDone
<1> QED
  BY <1>1, <1>2, <1>3, <1>4, <1>5, <1>6, <1>7, <1>8, <1>9, <1>10, <1>11, <1>12, <1>13
     DEF CardStep, Driver

\* ... and what it holds in probe is the beginning of Order.
LEMMA CardOrder ==
    ASSUME TypeOK, NEW c \in Cards, CardInv(c), CardStep(c)
    PROVE  InOrder(c)'
<1> USE DEF TypeOK, card, InOrder, Held
<1>1. CASE Probe(c)
  BY <1>1 DEF Probe, CardInv, Placed
<1>2. CASE Remove(c)
  BY <1>2 DEF Remove
<1>3. CASE Acquire(c)
  <2>1. PICK r \in NextMissing(Order, has[c]) :
           /\ has' = [has EXCEPT ![c] = @ \cup {r}]
           /\ pc' = IF r = "drvdata" THEN [pc EXCEPT ![c] = "bound"] ELSE pc
    BY <1>3 DEF Acquire
  <2>2. pc[c] = "probe" /\ down' = down
    BY <1>3 DEF Acquire
  <2>3. ASSUME NEW i \in DOMAIN Order, NEW j \in 1..(i - 1), Order[i] \in has'[c]
        PROVE  Order[j] \in has'[c]
    <3>1. CASE Order[i] \in has[c]
      BY <2>1, <2>2, <2>3, <3>1
    <3>2. CASE Order[i] = r
      <4>1. PICK k \in DOMAIN Order : /\ r = Order[k]
                                      /\ \A l \in 1..(k - 1) : Order[l] \in has[c]
        BY DEF NextMissing
      <4>2. i = k
        BY <3>2, <4>1, OrderPlaces
      <4> QED
        BY <2>1, <4>1, <4>2
    <3> QED
      BY <2>1, <2>3, <3>1, <3>2
  <2> QED
    BY <2>1, <2>2, <2>3
<1>4. CASE AcquireFails(c)
  BY <1>4 DEF AcquireFails
<1>5. CASE NoDmaMask(c)
  BY <1>5 DEF NoDmaMask
<1>6. CASE Release(c)
  BY <1>6, LeavesInOrder DEF Release, GiveBack
<1>7. CASE StopThread(c)
  BY <1>7 DEF StopThread
<1>8. CASE JoinThread(c)
  BY <1>8, LeavesInOrder DEF JoinThread, GiveBack, Leaving
<1>9. CASE TornDown(c)
  BY <1>9 DEF TornDown
<1>10. CASE IntrEnter(c) \/ IntrLeave(c) \/ TimerFires(c) \/ Thread(c)
  BY <1>10 DEF IntrEnter, IntrLeave, TimerFires, Thread, ThreadSleep, ThreadCheck, ThreadDone
<1> QED
  BY <1>1, <1>2, <1>3, <1>4, <1>5, <1>6, <1>7, <1>8, <1>9, <1>10 DEF CardStep, Driver

-----------------------------------------------------------------------------
(* The invariant of a card.                                                *)

\* A card nothing happens to keeps its invariant.
LEMMA StayKeeps ==
    ASSUME NEW c \in Cards, CardInv(c), Same(c)
    PROVE  CardInv(c)'
BY DEF CardInv, Grounded, Placed, Running, Held, Same

\* Acquiring rests on what is held already; only what is acquired starts to run.
LEMMA AcquireKeeps ==
    ASSUME TypeOK, NEW c \in Cards, CardInv(c), Acquire(c)
    PROVE  CardInv(c)'
<1>1. PICK r \in NextMissing(Order, has[c]) :
         /\ has' = [has EXCEPT ![c] = @ \cup {r}]
         /\ th' = IF r = "thread" THEN [th EXCEPT ![c] = "top"] ELSE th
         /\ cmd' = IF r = "softc" THEN [cmd EXCEPT ![c] = FALSE] ELSE cmd
         /\ armed' = IF r = "softc" THEN [armed EXCEPT ![c] = FALSE] ELSE armed
         /\ intcsr' = IF r = "card" THEN [intcsr EXCEPT ![c] = TRUE] ELSE intcsr
         /\ pc' = IF r = "drvdata" THEN [pc EXCEPT ![c] = "bound"] ELSE pc
  BY DEF Acquire
<1>2. pc[c] = "probe" /\ down' = down /\ intr' = intr
  BY DEF Acquire
<1>3. has'[c] = has[c] \cup {r} /\ has[c] \subseteq Things
  BY <1>1 DEF TypeOK
<1>4. Grounded(c)'
  BY <1>3, TakesInOrder DEF Grounded, Held, CardInv
<1>5. Placed(c)'
  <2>1. r = "drvdata" => has'[c] = Things
    BY <1>3, TakesInOrder
  <2>2. pc'[c] = IF r = "drvdata" THEN "bound" ELSE "probe"
    BY <1>1, <1>2 DEF TypeOK
  <2> QED
    BY <1>2, <1>3, <2>1, <2>2 DEF Placed, CardInv
<1>6. Running(c)'
  <2>1. /\ th'[c] = IF r = "thread" THEN "top" ELSE th[c]
        /\ cmd'[c] = (r # "softc" /\ cmd[c])
        /\ armed'[c] = (r # "softc" /\ armed[c])
        /\ intcsr'[c] = (r = "card" \/ intcsr[c])
        /\ pc'[c] \in {"probe", "bound"}
    BY <1>1, <1>2 DEF TypeOK
  <2>2. "softc" \in has[c] \/ r = "softc" \/ th[c] # "work"
    BY <1>3, TakesInOrder
  <2> QED
    BY <1>2, <1>3, <2>1, <2>2, TakesInOrder DEF Running, Held, CardInv
<1> QED
  BY <1>4, <1>5, <1>6 DEF CardInv

\* What is given back is what nothing that is left rests on.
LEMMA GiveBackKeeps ==
    ASSUME TypeOK, NEW c \in Cards, CardInv(c),
           NEW r \in NextLeft(Teardown, down[c]), GiveBack(c, r), UNCHANGED <<pc, intr, th, cmd>>,
           r = "irq" => intr[c] = "out",
           r = "thread" => th[c] = "gone",
           armed'[c] = (r # "timer" /\ armed[c]),
           intcsr'[c] = (r # "card" /\ intcsr[c])
    PROVE  CardInv(c)'
<1>1. /\ has'[c] = has[c] \ {r} /\ down'[c] = down[c] \ {r}
      /\ down[c] \subseteq Things \cup {"timer"}
  BY ThingsAre DEF GiveBack, TypeOK
<1>2. pc[c] \in {"undo", "undone", "remove"}
  BY LeavesInOrder DEF TypeOK, InOrder
<1>3. \A s \in Things : s \in has[c] => s \in down[c] \/ s = "nodes"
  BY <1>2 DEF CardInv, Placed
<1>4. Grounded(c)'
  BY <1>1, <1>3, LeavesInOrder, ThingsAre DEF Grounded, Held, CardInv
<1>5. Placed(c)'
  <2>1. CASE pc[c] = "remove"
    <3>1. has'[c] = down'[c] \ {"timer"}
      BY <1>1, <2>1 DEF CardInv, Placed
    <3>2. down'[c] # {} => "drvdata" \in down'[c]
      BY <1>1, <2>1, LeavesInOrder, ThingsAre DEF CardInv, Placed
    <3>3. "irq" \in down'[c] => "timer" \in down'[c]
      BY <1>1, <2>1, LeavesInOrder, ThingsAre DEF CardInv, Placed
    <3>4. "timer" \in down'[c] => "softc" \in down'[c]
      BY <1>1, <2>1, LeavesInOrder, ThingsAre DEF CardInv, Placed
    <3> QED
      BY <2>1, <3>1, <3>2, <3>3, <3>4 DEF Placed
  <2>2. CASE pc[c] \in {"undo", "undone"}
    BY <1>1, <2>2 DEF CardInv, Placed
  <2> QED
    BY <1>2, <2>1, <2>2
<1>6. Running(c)'
  BY <1>1, <1>2, LeavesInOrder, ThingsAre DEF Running, Held, CardInv, Placed
<1> QED
  BY <1>4, <1>5, <1>6 DEF CardInv

\* What comes after the thing that is missing is not held yet.
LEMMA MissingLast ==
    ASSUME NEW held, NEW r \in NextMissing(Order, held),
           \A i \in DOMAIN Order : \A j \in 1..(i - 1) : Order[i] \in held => Order[j] \in held
    PROVE  /\ r \notin {"sysfs", "drvdata"} => "sysfs" \notin held
           /\ r = "dma" => "cdev" \notin held
<1>1. PICK k \in DOMAIN Order : r = Order[k] /\ Order[k] \notin held
  BY DEF NextMissing
<1>2. \A i \in DOMAIN Order : k < i => Order[i] \notin held
  <2> SUFFICES ASSUME NEW i \in DOMAIN Order, k < i PROVE Order[i] \notin held
    OBVIOUS
  <2>1. k \in 1..(i - 1)
    BY <1>1, OrderPlaces
  <2> QED
    BY <1>1, <2>1
<1>3. k \in 1..14
  BY <1>1, OrderPlaces
<1>4. r \notin {"sysfs", "drvdata"} => k < 13
  BY <1>1, <1>3, OrderPlaces
<1>5. k \in {11, 12, 13, 14} => r \in {"cdev", "nodes", "sysfs", "drvdata"}
  BY <1>1, OrderPlaces
<1>6. r = "dma" => k < 11
  BY <1>3, <1>5
<1> QED
  BY <1>2, <1>4, <1>6, OrderPlaces

\* Each other step of a card keeps its invariant.
LEMMA CardKeeps ==
    ASSUME TypeOK, NEW c \in Cards, CardInv(c), CardStep(c)
    PROVE  CardInv(c)'
<1> USE DEF TypeOK, card, slots, thread
<1>1. CASE Probe(c)
  BY <1>1 DEF Probe, CardInv, Grounded, Placed, Running, Held
<1>2. CASE Remove(c)
  <2>1. /\ pc[c] = "bound" /\ pc'[c] = "remove" /\ has' = has
        /\ down'[c] = Things \cup {"timer"} /\ UNCHANGED <<intcsr, intr, armed, thread>>
    BY <1>2, ThingsAre DEF Remove
  <2>2. Placed(c)'
    BY <2>1, ThingsAre DEF CardInv, Placed
  <2> QED
    BY <2>1, <2>2, ThingsAre DEF CardInv, Grounded, Running, Held
<1>3. CASE Acquire(c)
  BY <1>3, AcquireKeeps
<1>4. CASE AcquireFails(c)
  <2>1. PICK r \in NextMissing(Order, has[c]) \cap MayFail :
           has' = IF r = "nodes" THEN [has EXCEPT ![c] = @ \cup {r}] ELSE has
    BY <1>4 DEF AcquireFails
  <2>2. /\ pc[c] = "probe" /\ pc'[c] = "undo" /\ down'[c] = has[c] \ {"nodes"}
        /\ UNCHANGED <<intcsr, intr, armed, thread>>
    BY <1>4 DEF AcquireFails, Undo
  <2>3. "sysfs" \notin has[c] /\ "drvdata" \notin has[c]
    <3>1. \A i \in DOMAIN Order : \A j \in 1..(i - 1) :
             Order[i] \in has[c] => Order[j] \in has[c]
      BY <2>2 DEF InOrder, Held
    <3>2. r \in NextMissing(Order, has[c]) /\ r \notin {"sysfs", "drvdata"}
      BY <2>1 DEF MayFail
    <3> QED
      BY <2>2, <3>1, <3>2, MissingLast DEF CardInv, Placed
  <2> QED
    BY <2>1, <2>2, <2>3 DEF CardInv, Grounded, Placed, Running, Held
<1>5. CASE NoDmaMask(c)
  <2>1. /\ pc[c] = "probe" /\ pc'[c] = "undone" /\ down'[c] = has[c] \ {"nodes"}
        /\ UNCHANGED <<has, intcsr, intr, armed, thread>>
    BY <1>5 DEF NoDmaMask, Undo
  <2>2. {"cdev", "sysfs", "drvdata"} \cap has[c] = {}
    <3>1. \A i \in DOMAIN Order : \A j \in 1..(i - 1) :
             Order[i] \in has[c] => Order[j] \in has[c]
      BY <2>1 DEF InOrder, Held
    <3>2. "dma" \in NextMissing(Order, has[c])
      BY <1>5 DEF NoDmaMask
    <3>3. "sysfs" \notin has[c] /\ "cdev" \notin has[c]
      BY <3>1, <3>2, MissingLast
    <3> QED
      BY <2>1, <3>3 DEF CardInv, Placed
  <2> QED
    BY <2>1, <2>2 DEF CardInv, Grounded, Placed, Running, Held
<1>6. CASE Release(c)
  <2>1. PICK r \in NextLeft(Teardown, down[c]) \ {"thread"} :
           /\ ~Waits(c, r) /\ GiveBack(c, r)
           /\ armed' = IF r = "timer" THEN [armed EXCEPT ![c] = FALSE] ELSE armed
           /\ intcsr' = IF r = "card" THEN [intcsr EXCEPT ![c] = FALSE] ELSE intcsr
    BY <1>6 DEF Release
  <2>2. UNCHANGED <<pc, intr, th, cmd>>
    BY <1>6 DEF Release
  <2> QED
    BY <2>1, <2>2, GiveBackKeeps DEF Waits
<1>7. CASE StopThread(c)
  BY <1>7 DEF StopThread, Wake, CardInv, Grounded, Placed, Running, Held
<1>8. CASE JoinThread(c)
  <2>1. "thread" \in NextLeft(Teardown, down[c]) /\ th[c] = "gone" /\ GiveBack(c, "thread")
    BY <1>8 DEF JoinThread, Leaving
  <2>2. UNCHANGED <<pc, intr, th, cmd, armed, intcsr>>
    BY <1>8 DEF JoinThread
  <2> QED
    BY <2>1, <2>2, GiveBackKeeps
<1>9. CASE TornDown(c)
  BY <1>9 DEF TornDown, Leftover, CardInv, Grounded, Placed, Running, Held
<1>10. CASE IntrEnter(c)
  BY <1>10 DEF IntrEnter, CardInv, Grounded, Placed, Running, Held
<1>11. CASE IntrLeave(c)
  BY <1>11 DEF IntrLeave, Wake, CardInv, Grounded, Placed, Running, Held
<1>12. CASE TimerFires(c)
  BY <1>12 DEF TimerFires, Wake, CardInv, Grounded, Placed, Running, Held
<1>13. CASE Thread(c)
  BY <1>13 DEF Thread, ThreadSleep, ThreadCheck, ThreadDone,
               CardInv, Grounded, Placed, Running, Held
<1> QED
  BY <1>1, <1>2, <1>3, <1>4, <1>5, <1>6, <1>7, <1>8, <1>9, <1>10, <1>11, <1>12, <1>13
     DEF CardStep, Driver

-----------------------------------------------------------------------------
(* Readers, places and the module.                                         *)

\* The driver starts with nothing.
LEMMA InitOk == Init => TypeOK /\ IInv /\ Places /\ Files
<1> SUFFICES ASSUME Init PROVE TypeOK /\ IInv /\ Places /\ Files
  OBVIOUS
<1> USE DEF Init
<1>1. TypeOK
  <2>1. 0 \in Slots
    BY LifeAssumption DEF LifeAssumption, Slots
  <2> QED
    BY <2>1 DEF TypeOK, InOrder
<1>2. IInv
  BY LifeAssumption DEF LifeAssumption, IInv, CardInv, Grounded, Placed, Running, Held,
                        Readers, Takers, Loaded
<1>3. Places /\ Files
  BY LifeAssumption DEF LifeAssumption, Places, Files, InProbe, Held
<1> QED
  BY <1>1, <1>2, <1>3

\* A card's step leaves the module and the users alone.
LEMMA UsersStay == ASSUME NEW c \in Cards, CardStep(c) PROVE UNCHANGED <<module, users>>
BY DEF CardStep, Driver, Thread, Probe, Remove, Acquire, AcquireFails, NoDmaMask, Release,
       StopThread, JoinThread, TornDown, IntrEnter, IntrLeave, TimerFires, ThreadSleep,
       ThreadCheck, ThreadDone

\* A card keeps what it holds or gives one thing back, in its turn and without waiting.
LEMMA HasSteps ==
    ASSUME TypeOK, NEW c \in Cards, CardStep(c)
    PROVE  \/ has[c] \subseteq has'[c]
           \/ \E r \in NextLeft(Teardown, down[c]) : ~Waits(c, r) /\ has'[c] = has[c] \ {r}
<1> USE DEF TypeOK
<1>1. CASE Acquire(c) \/ AcquireFails(c)
  BY <1>1 DEF Acquire, AcquireFails
<1>2. CASE Release(c)
  BY <1>2 DEF Release, GiveBack
<1>3. CASE JoinThread(c)
  BY <1>3 DEF JoinThread, Leaving, GiveBack, Waits
<1>4. CASE \/ Probe(c) \/ Remove(c) \/ NoDmaMask(c) \/ StopThread(c) \/ TornDown(c)
          \/ IntrEnter(c) \/ IntrLeave(c) \/ TimerFires(c) \/ Thread(c)
  BY <1>4 DEF Probe, Remove, NoDmaMask, StopThread, TornDown, IntrEnter, IntrLeave, TimerFires,
              Thread, ThreadSleep, ThreadCheck, ThreadDone, card
<1> QED
  BY <1>1, <1>2, <1>3, <1>4 DEF CardStep, Driver

\* The cards' part of the invariant.
LEMMA CardsStep ==
    ASSUME TypeOK, IInv, [Next]_vars, NEW c \in Cards
    PROVE  CardInv(c)' /\ InOrder(c)'
<1> USE DEF IInv
<1>1. CASE CardStep(c)
  BY <1>1, CardKeeps, CardOrder
<1>2. CASE \E d \in Cards : d # c /\ CardStep(d)
  <2>1. Same(c)
    BY <1>2, OthersStay
  <2> QED
    BY <2>1, StayKeeps DEF TypeOK, InOrder, Same, Held
<1>3. CASE ModuleStep \/ (\E p \in Procs : UserStep(p)) \/ UNCHANGED vars
  <2>1. UNCHANGED <<slots, card, intr, armed, thread>>
    BY <1>3, CardsStay DEF vars
  <2>2. Same(c)
    BY <2>1 DEF Same, slots, card, thread
  <2> QED
    BY <2>2, StayKeeps DEF TypeOK, InOrder, Same, Held
<1> QED
  BY <1>1, <1>2, <1>3 DEF Next

\* A reader keeps the files of sysfs, which are not taken away under it.
LEMMA ReadersStep ==
    ASSUME TypeOK, IInv, [Next]_vars
    PROVE  Readers'
<1> SUFFICES ASSUME NEW p \in Procs, NEW c \in Cards, show'[p] = c
             PROVE  "sysfs" \in has'[c]
  BY DEF Readers, Held
<1>1. CASE \E d \in Cards : CardStep(d)
  <2>1. PICK d \in Cards : CardStep(d)
    BY <1>1
  <2>2. "sysfs" \in has[c] /\ show[p] = c
    BY <2>1, UsersStay DEF users, IInv, Readers, Held
  <2>3. CASE d = c
    BY <2>1, <2>2, <2>3, HasSteps DEF Waits
  <2>4. CASE d # c
    BY <2>1, <2>2, <2>4, OthersStay DEF Same
  <2> QED
    BY <2>3, <2>4
<1>2. CASE \E q \in Procs : UserStep(q)
  <2>1. has' = has
    BY <1>2, CardsStay DEF card
  <2>2. PICK q \in Procs : UserStep(q)
    BY <1>2
  <2>3. show[p] = c \/ \E d \in Cards : show' = [show EXCEPT ![q] = d] /\ Held(d, "sysfs")
    <3>1. CASE \E d \in Cards : Open(q, d) \/ Show(q, d)
      BY <3>1 DEF Open, Show
    <3>2. CASE Close(q)
      BY <3>2 DEF Close
    <3>3. CASE ShowEnds(q)
      BY <3>3, LifeAssumption DEF ShowEnds, TypeOK, LifeAssumption
    <3> QED
      BY <2>2, <3>1, <3>2, <3>3 DEF UserStep
  <2> QED
    BY <2>1, <2>3 DEF IInv, Readers, Held, TypeOK
<1>3. CASE ModuleStep \/ UNCHANGED vars
  BY <1>3, CardsStay DEF vars, card, users, ModuleStep, ModuleInit, ModuleInitFails, ModuleExit,
                         ModuleGone, IInv, Readers, Held
<1> QED
  BY <1>1, <1>2, <1>3 DEF Next

\* A card that neither takes nor gives back its place has the number it has found.
LEMMA SlotStays ==
    ASSUME TypeOK, NEW c \in Cards, CardInv(c), CardStep(c), ~Release(c), "slot" \in has[c]
    PROVE  "slot" \in has'[c] /\ unit'[c] = unit[c]
<1> USE DEF TypeOK
<1>1. CASE Probe(c) \/ TornDown(c)
  BY <1>1 DEF Probe, TornDown, CardInv, Placed
<1>2. CASE Acquire(c) \/ AcquireFails(c) \/ JoinThread(c)
  BY <1>2 DEF Acquire, AcquireFails, JoinThread, GiveBack, slots
<1>3. CASE \/ Remove(c) \/ NoDmaMask(c) \/ StopThread(c)
          \/ IntrEnter(c) \/ IntrLeave(c) \/ TimerFires(c) \/ Thread(c)
  BY <1>3 DEF Remove, NoDmaMask, StopThread, IntrEnter, IntrLeave, TimerFires, Thread,
              ThreadSleep, ThreadCheck, ThreadDone, card, slots
<1> QED
  BY <1>1, <1>2, <1>3 DEF CardStep, Driver

\* A place is taken by the card that writes itself into it, and until it takes it out.
LEMMA TakersStep ==
    ASSUME TypeOK, IInv, [Next]_vars
    PROVE  Takers'
<1> SUFFICES ASSUME NEW s \in Slots, NEW c \in Cards, devdata'[s] = c
             PROVE  "slot" \in has'[c] /\ unit'[c] = s
  BY DEF Takers, Held
<1> USE DEF TypeOK
<1>1. CASE \E d \in Cards : CardStep(d)
  <2>1. PICK d \in Cards : CardStep(d)
    BY <1>1
  <2>2. CASE Acquire(d)
    <3>1. PICK r \in NextMissing(Order, has[d]) :
             /\ has' = [has EXCEPT ![d] = @ \cup {r}]
             /\ devdata' = IF r = "slot" THEN [devdata EXCEPT ![unit[d]] = d] ELSE devdata
      BY <2>2 DEF Acquire
    <3>2. unit' = unit
      BY <2>2 DEF Acquire
    <3> QED
      BY <3>1, <3>2 DEF IInv, Takers, Held
  <2>3. CASE Release(d)
    <3>1. PICK r \in NextLeft(Teardown, down[d]) :
             /\ has' = [has EXCEPT ![d] = @ \ {r}]
             /\ devdata' = IF r = "slot" THEN [devdata EXCEPT ![unit[d]] = NoCard] ELSE devdata
      BY <2>3 DEF Release, GiveBack
    <3>2. unit' = unit
      BY <2>3 DEF Release
    <3>3. devdata[s] = c
      BY <3>1, LifeAssumption DEF LifeAssumption
    <3>4. "slot" \in has[c] /\ unit[c] = s
      BY <3>3 DEF IInv, Takers, Held
    <3> QED
      BY <3>1, <3>2, <3>4, LifeAssumption DEF LifeAssumption
  <2>4. CASE ~Acquire(d) /\ ~Release(d)
    <3>1. devdata' = devdata
      BY <2>1, <2>4 DEF CardStep, Driver, Thread, Probe, Remove, AcquireFails, NoDmaMask,
                        StopThread, JoinThread, TornDown, IntrEnter, IntrLeave, TimerFires,
                        ThreadSleep, ThreadCheck, ThreadDone, slots
    <3>2. "slot" \in has[c] /\ unit[c] = s
      BY <3>1 DEF IInv, Takers, Held
    <3>3. CASE d # c
      BY <2>1, <3>2, <3>3, OthersStay DEF Same
    <3>4. CASE d = c
      BY <2>1, <2>4, <3>2, <3>4, SlotStays DEF IInv
    <3> QED
      BY <3>3, <3>4
  <2> QED
    BY <2>2, <2>3, <2>4
<1>2. CASE ModuleStep \/ (\E p \in Procs : UserStep(p)) \/ UNCHANGED vars
  BY <1>2, CardsStay DEF vars, slots, card, IInv, Takers, Held
<1> QED
  BY <1>1, <1>2 DEF Next

\* Nothing happens to a free card before the module is live.
LEMMA IdleRests ==
    ASSUME TypeOK, IInv, NEW c \in Cards, CardStep(c), mod # "live"
    PROVE  pc[c] # "idle"
<1> SUFFICES ASSUME pc[c] = "idle" PROVE FALSE
  OBVIOUS
<1>1. /\ has[c] = {} /\ intr[c] = "out" /\ th[c] = "gone" /\ ~armed[c] /\ down[c] = {}
  BY DEF IInv, CardInv, Placed, Running, Held, TypeOK, InOrder
<1>2. NextLeft(Teardown, down[c]) = {}
  BY <1>1 DEF NextLeft
<1> QED
  BY <1>1, <1>2 DEF CardStep, Driver, Thread, Probe, Remove, Acquire, AcquireFails, NoDmaMask,
       Release, StopThread, JoinThread, TornDown, IntrEnter, IntrLeave, TimerFires, ThreadSleep,
       ThreadCheck, ThreadDone, Leaving, Held

\* The module is there for every card that is not free.
LEMMA LoadedStep ==
    ASSUME TypeOK, IInv, [Next]_vars
    PROVE  Loaded'
<1> USE DEF TypeOK, IInv, Loaded
<1>1. CASE \E d \in Cards : CardStep(d)
  <2>1. PICK d \in Cards : CardStep(d)
    BY <1>1
  <2>2. UNCHANGED <<mod, mhas>>
    BY <2>1, UsersStay DEF module
  <2>3. mod \notin {"out", "loading"}
    BY <2>1, IdleRests
  <2> QED
    BY <2>2, <2>3
<1>2. CASE ModuleStep
  <2>1. pc' = pc
    BY <1>2, CardsStay DEF card
  <2> QED
    BY <1>2, <2>1 DEF ModuleStep, ModuleInit, ModuleInitFails, ModuleExit, ModuleGone
<1>3. CASE \E p \in Procs : UserStep(p)
  <2>1. pc' = pc
    BY <1>3, CardsStay DEF card
  <2> QED
    BY <1>3, <2>1 DEF UserStep, Open, Close, Show, ShowEnds, module
<1>4. CASE UNCHANGED vars
  BY <1>4 DEF vars, module, card
<1> QED
  BY <1>1, <1>2, <1>3, <1>4 DEF Next

-----------------------------------------------------------------------------
(* One probe at a time.                                                    *)

\* The other steps of a card do not touch its place.
LEMMA QuietSlot ==
    ASSUME TypeOK, NEW c \in Cards, CardInv(c), CardStep(c),
           ~Probe(c), ~Acquire(c), ~Release(c)
    PROVE  /\ "slot" \in has'[c] => "slot" \in has[c] /\ unit'[c] = unit[c]
           /\ pc'[c] = "probe" /\ "slot" \notin has'[c] =>
                 pc[c] = "probe" /\ "slot" \notin has[c] /\ unit'[c] = unit[c]
<1> USE DEF TypeOK
<1>1. CASE TornDown(c)
  BY <1>1, ThingsAre DEF TornDown, CardInv, Placed
<1>2. CASE AcquireFails(c)
  BY <1>2 DEF AcquireFails, slots
<1>3. CASE JoinThread(c)
  BY <1>3, LeavesInOrder DEF JoinThread, Leaving, GiveBack, slots, InOrder
<1>4. CASE \/ Remove(c) \/ NoDmaMask(c) \/ StopThread(c)
          \/ IntrEnter(c) \/ IntrLeave(c) \/ TimerFires(c) \/ Thread(c)
  BY <1>4 DEF Remove, NoDmaMask, StopThread, IntrEnter, IntrLeave, TimerFires, Thread,
              ThreadSleep, ThreadCheck, ThreadDone, card, slots
<1> QED
  BY <1>1, <1>2, <1>3, <1>4 DEF CardStep, Driver

\* The place a probe has found is its own, because nobody else looks for one.
LEMMA PlacesStep ==
    ASSUME SerialProbes, TypeOK, IInv, Places, [Next]_vars
    PROVE  Places'
<1> USE DEF TypeOK
<1>1. CASE \E e \in Cards : CardStep(e)
  <2>1. PICK e \in Cards : CardStep(e)
    BY <1>1
  <2>2. \A c \in Cards : c # e => Same(c)
    BY <2>1, OthersStay
  <2>3. ASSUME NEW c \in Cards, NEW d \in Cards, InProbe(c)', InProbe(d)'
        PROVE  c = d
    <3>1. \A x \in Cards : InProbe(x)' => InProbe(x) \/ Probe(x)
      <4> SUFFICES ASSUME NEW x \in Cards, InProbe(x)', ~InProbe(x) PROVE Probe(x)
        OBVIOUS
      <4>1. x = e
        BY <2>2 DEF InProbe, Same
      <4> QED
        BY <2>1, <4>1 DEF InProbe, CardStep, Driver, Thread, Remove, Acquire, AcquireFails,
             NoDmaMask, Release, StopThread, JoinThread, TornDown, IntrEnter, IntrLeave,
             TimerFires, ThreadSleep, ThreadCheck, ThreadDone, card
    <3>2. CASE InProbe(c) /\ InProbe(d)
      BY <3>2 DEF Places
    <3>3. CASE Probe(c)
      <4>1. \A x \in Cards : x # c => pc'[x] = pc[x] /\ ~InProbe(x)
        BY <3>3 DEF Probe
      <4> QED
        BY <2>3, <4>1 DEF InProbe
    <3>4. CASE Probe(d)
      <4>1. \A x \in Cards : x # d => pc'[x] = pc[x] /\ ~InProbe(x)
        BY <3>4 DEF Probe
      <4> QED
        BY <2>3, <4>1 DEF InProbe
    <3> QED
      BY <2>3, <3>1, <3>2, <3>3, <3>4
  <2>4. /\ \A c \in Cards : Held(c, "slot") => devdata[unit[c]] = c
        /\ \A c \in Cards : pc[c] = "probe" /\ ~Held(c, "slot") => devdata[unit[c]] = NoCard
    BY DEF Places
  <2>5. \A c \in Cards : /\ Held(c, "slot")' => devdata'[unit'[c]] = c
                         /\ pc'[c] = "probe" /\ ~Held(c, "slot")' => devdata'[unit'[c]] = NoCard
    <3>1. CASE Probe(e)
      <4>1. PICK u \in Slots : devdata[u] = NoCard /\ unit' = [unit EXCEPT ![e] = u]
        BY <3>1 DEF Probe
      <4>2. devdata' = devdata /\ has' = has /\ has[e] = {}
        BY <3>1 DEF Probe, IInv, CardInv, Placed
      <4> QED
        BY <2>2, <2>4, <4>1, <4>2 DEF Held, Same
    <3>2. CASE Acquire(e)
      <4>1. PICK r \in NextMissing(Order, has[e]) :
               /\ has' = [has EXCEPT ![e] = @ \cup {r}]
               /\ devdata' = IF r = "slot" THEN [devdata EXCEPT ![unit[e]] = e] ELSE devdata
        BY <3>2 DEF Acquire
      <4>2. unit' = unit /\ pc[e] = "probe" /\ (pc'[e] = "probe" => pc[e] = "probe")
        BY <3>2 DEF Acquire
      <4>3. CASE r # "slot"
        BY <2>2, <2>4, <4>1, <4>2, <4>3 DEF Held, Same
      <4>4. CASE r = "slot"
        <5>1. devdata[unit[e]] = NoCard
          BY <2>4, <4>2, <4>4, TakesInOrder DEF Held
        <5>2. \A c \in Cards : c # e /\ pc[c] = "probe" => FALSE
          BY <4>2 DEF Places, InProbe
        <5>3. \A c \in Cards : Held(c, "slot") => unit[c] # unit[e]
          BY <2>4, <5>1, LifeAssumption DEF LifeAssumption
        <5> QED
          BY <2>2, <2>4, <4>1, <4>2, <4>4, <5>2, <5>3 DEF Held, Same
      <4> QED
        BY <4>3, <4>4
    <3>3. CASE Release(e)
      <4>1. PICK r \in NextLeft(Teardown, down[e]) :
               /\ has' = [has EXCEPT ![e] = @ \ {r}]
               /\ devdata' = IF r = "slot" THEN [devdata EXCEPT ![unit[e]] = NoCard] ELSE devdata
        BY <3>3 DEF Release, GiveBack
      <4>2. unit' = unit /\ pc' = pc /\ pc[e] # "probe"
        BY <3>3, <4>1, LeavesInOrder DEF Release, InOrder
      <4>3. CASE r # "slot"
        BY <2>4, <4>1, <4>2, <4>3 DEF Held
      <4>4. CASE r = "slot"
        <5>1. "slot" \in has[e]
          BY <4>1, <4>2, <4>4, LeavesInOrder DEF InOrder, IInv, CardInv, Placed
        <5>2. \A c \in Cards : c # e /\ Held(c, "slot") => unit[c] # unit[e]
          BY <2>4, <5>1 DEF Held
        <5> QED
          BY <2>4, <4>1, <4>2, <4>4, <5>2 DEF Held
      <4> QED
        BY <4>3, <4>4
    <3>4. CASE ~Probe(e) /\ ~Acquire(e) /\ ~Release(e)
      <4>1. devdata' = devdata
        BY <2>1, <3>4 DEF CardStep, Driver, Thread, Remove, AcquireFails, NoDmaMask,
             StopThread, JoinThread, TornDown, IntrEnter, IntrLeave, TimerFires,
             ThreadSleep, ThreadCheck, ThreadDone, slots
      <4>2. /\ "slot" \in has'[e] => "slot" \in has[e] /\ unit'[e] = unit[e]
            /\ pc'[e] = "probe" /\ "slot" \notin has'[e] =>
                  pc[e] = "probe" /\ "slot" \notin has[e] /\ unit'[e] = unit[e]
        BY <2>1, <3>4, QuietSlot DEF IInv
      <4> QED
        BY <2>2, <2>4, <4>1, <4>2 DEF Held, Same
    <3> QED
      BY <3>1, <3>2, <3>3, <3>4
  <2> QED
    BY <2>3, <2>5 DEF Places
<1>2. CASE ModuleStep \/ (\E p \in Procs : UserStep(p)) \/ UNCHANGED vars
  BY <1>2, CardsStay DEF vars, slots, card, Places, InProbe, Held
<1> QED
  BY <1>1, <1>2 DEF Next

\* A card that has had its device files goes by way of the error path or the removal, and
\* does not become free while a file is open.
LEMMA OpenedStays ==
    ASSUME TypeOK, NEW c \in Cards, CardInv(c), CardStep(c), NEW p \in Procs, file[p] = c,
           "cdev" \in has[c] \/ pc[c] \in {"undo", "remove", "lost"}
    PROVE  "cdev" \in has'[c] \/ pc'[c] \in {"undo", "remove", "lost"}
<1> USE DEF TypeOK
<1>1. CASE Probe(c) \/ Remove(c)
  BY <1>1 DEF Probe, Remove, CardInv, Placed
<1>2. CASE Acquire(c) \/ AcquireFails(c) \/ NoDmaMask(c)
  <2>1. CASE NoDmaMask(c)
    BY <2>1 DEF NoDmaMask
  <2> QED
    BY <1>2, <2>1 DEF Acquire, AcquireFails
<1>3. CASE Release(c) \/ JoinThread(c)
  <2>1. pc' = pc
    BY <1>3 DEF Release, JoinThread
  <2>2. pc[c] \in {"undo", "undone", "remove"}
    BY <1>3, LeavesInOrder DEF Release, JoinThread, Leaving, InOrder
  <2> QED
    BY <2>1, <2>2 DEF CardInv, Placed
<1>4. CASE TornDown(c)
  BY <1>4 DEF TornDown, Leftover, CardInv, Placed
<1>5. CASE StopThread(c) \/ IntrEnter(c) \/ IntrLeave(c) \/ TimerFires(c) \/ Thread(c)
  BY <1>5 DEF StopThread, IntrEnter, IntrLeave, TimerFires, Thread, ThreadSleep, ThreadCheck,
              ThreadDone, card
<1> QED
  BY <1>1, <1>2, <1>3, <1>4, <1>5 DEF CardStep, Driver

\* A file is opened on the card whose node it is, complete, and its card is lost rather
\* than free when it is taken away under it.
LEMMA FilesStep ==
    ASSUME TypeOK, IInv, Places, Files, [Next]_vars
    PROVE  Files'
<1> SUFFICES ASSUME NEW p \in Procs, NEW c \in Cards, file'[p] = c
             PROVE  /\ mod' = "live"
                    /\ "cdev" \in has'[c] \/ pc'[c] \in {"undo", "remove", "lost"}
  BY DEF Files, Held
<1> USE DEF TypeOK
<1>1. CASE \E d \in Cards : CardStep(d)
  <2>1. PICK d \in Cards : CardStep(d)
    BY <1>1
  <2>2. UNCHANGED <<mod, file>>
    BY <2>1, UsersStay DEF module, users
  <2>3. file[p] = c /\ mod = "live" /\ ("cdev" \in has[c] \/ pc[c] \in {"undo", "remove", "lost"})
    BY <2>2 DEF Files, Held
  <2>4. CASE d # c
    BY <2>1, <2>2, <2>3, <2>4, OthersStay DEF Same
  <2>5. CASE d = c
    <3>1. "cdev" \in has'[c] \/ pc'[c] \in {"undo", "remove", "lost"}
      BY <2>1, <2>3, <2>5, OpenedStays DEF IInv
    <3> QED
      BY <2>2, <2>3, <3>1
  <2> QED
    BY <2>4, <2>5
<1>2. CASE \E q \in Procs : UserStep(q)
  <2>1. pc' = pc /\ has' = has
    BY <1>2, CardsStay DEF card
  <2>2. PICK q \in Procs : UserStep(q)
    BY <1>2
  <2>3. CASE \E d \in Cards : Open(q, d)
    <3>1. PICK d \in Cards : Open(q, d)
      BY <2>3
    <3>2. "cdev" \in has[d] /\ mod = "live" /\ mod' = mod
      BY <3>1 DEF Open, Held, module
    <3>3. devdata[unit[d]] = d
      BY <3>2 DEF Places, IInv, CardInv, Grounded, Held
    <3>4. file' = [file EXCEPT ![q] = d]
      BY <3>1, <3>3 DEF Open
    <3> QED
      BY <2>1, <3>2, <3>4 DEF Files, Held
  <2>4. CASE ~\E d \in Cards : Open(q, d)
    <3>1. mod' = mod /\ file[p] = c
      BY <2>2, <2>4, LifeAssumption DEF LifeAssumption, UserStep, Show, ShowEnds, Close, module
    <3> QED
      BY <2>1, <3>1 DEF Files, Held
  <2> QED
    BY <2>3, <2>4
<1>3. CASE ModuleStep
  <2>1. pc' = pc /\ has' = has
    BY <1>3, CardsStay DEF card
  <2>2. file' = file /\ file[p] # NoCard
    BY <1>3, LifeAssumption DEF LifeAssumption, ModuleStep, ModuleInit, ModuleInitFails,
         ModuleExit, ModuleGone, users
  <2>3. mod' = mod
    BY <1>3, <2>2 DEF ModuleStep, ModuleInit, ModuleInitFails, ModuleExit, ModuleGone, Files
  <2> QED
    BY <2>1, <2>2, <2>3 DEF Files, Held
<1>4. CASE UNCHANGED vars
  BY <1>4 DEF vars, card, users, module, Files, Held
<1> QED
  BY <1>1, <1>2, <1>3, <1>4 DEF Next

-----------------------------------------------------------------------------
(* The theorems.                                                           *)

\* What the module and the users write has its type; the rest is the cards'.
LEMMA TypeStep ==
    ASSUME TypeOK, IInv, [Next]_vars
    PROVE  TypeOK'
<1>1. \A c \in Cards : InOrder(c)'
  BY CardsStep
<1>2. CASE \E c \in Cards : CardStep(c)
  <2>1. UNCHANGED <<module, users>>
    BY <1>2, UsersStay
  <2>2. Typed'
    BY <1>2, CardTypes
  <2> QED
    BY <1>1, <2>1, <2>2 DEF Typed, TypeOK, module, users
<1>3. CASE ModuleStep
  <2>1. UNCHANGED <<slots, card, intr, armed, thread>>
    BY <1>3, CardsStay
  <2>2. file' = file /\ show' = show
    BY <1>3 DEF ModuleStep, ModuleInit, ModuleInitFails, ModuleExit, ModuleGone, users
  <2>3. mod' \in {"out", "loading", "live", "going"} /\ mhas' \subseteq ThingsOf(ModuleOrder)
    <3>1. NextMissing(ModuleOrder, mhas) \subseteq ThingsOf(ModuleOrder)
      BY DEF NextMissing, ThingsOf
    <3> QED
      BY <1>3, <3>1 DEF ModuleStep, ModuleInit, ModuleInitFails, ModuleExit, ModuleGone, TypeOK
  <2> QED
    BY <1>1, <2>1, <2>2, <2>3 DEF TypeOK, slots, card, thread
<1>4. CASE \E p \in Procs : UserStep(p)
  <2>1. UNCHANGED <<slots, card, intr, armed, thread>>
    BY <1>4, CardsStay
  <2>2. PICK p \in Procs : UserStep(p)
    BY <1>4
  <2>3. UNCHANGED module
    BY <2>2 DEF UserStep, Open, Close, Show, ShowEnds
  <2>4. /\ file' \in [Procs -> Cards \cup {NoCard}]
        /\ show' \in [Procs -> Cards \cup {NoCard}]
    <3>1. ASSUME NEW c \in Cards, Open(p, c)
          PROVE  devdata[unit[c]] \in Cards
      BY <3>1 DEF Open, TypeOK
    <3> QED
      BY <2>2, <3>1 DEF UserStep, Open, Close, Show, ShowEnds, TypeOK
  <2> QED
    BY <1>1, <2>1, <2>3, <2>4 DEF TypeOK, slots, card, thread, module
<1>5. CASE UNCHANGED vars
  BY <1>1, <1>5 DEF TypeOK, vars, slots, card, thread, module, users
<1> QED
  BY <1>2, <1>3, <1>4, <1>5 DEF Next

\* Every step keeps the types, the cards' invariants, and what ties cards to readers,
\* places and the module, in whatever order several cards come and go.
THEOREM InvCorrect == Spec => [](TypeOK /\ IInv)
<1>1. TypeOK /\ IInv /\ [Next]_vars => TypeOK' /\ IInv'
  <2> SUFFICES ASSUME TypeOK, IInv, [Next]_vars PROVE TypeOK' /\ IInv'
    OBVIOUS
  <2>1. \A c \in Cards : CardInv(c)'
    BY CardsStep
  <2> QED
    BY <2>1, TypeStep, ReadersStep, TakersStep, LoadedStep DEF IInv
<1> QED
  BY InitOk, <1>1, PTL DEF Spec

\* What is held is always the beginning of the order of init_sis1100_device while a
\* card is probed, and the state of card, module and users has its types.
THEOREM TypeCorrect == Spec => []TypeOK
BY InvCorrect, PTL

\* What runs on a card is there under interrupt handler, timer, irq thread and readers
\* of sysfs, and a free card holds nothing, even when several cards are probed at once.
Hosted == \A c \in Cards : /\ HandlerHasCard(c) /\ TimerHasCard(c) /\ ThreadHasCard(c)
                           /\ \A p \in Procs : ReaderHasCard(p, c)
                           /\ FreeHoldsNothing(c)

\* The invariant says so of every card.
LEMMA HostedHolds == ASSUME TypeOK, IInv PROVE Hosted
<1> SUFFICES ASSUME NEW c \in Cards
             PROVE  /\ HandlerHasCard(c) /\ TimerHasCard(c) /\ ThreadHasCard(c)
                    /\ \A p \in Procs : ReaderHasCard(p, c)
                    /\ FreeHoldsNothing(c)
  BY DEF Hosted
<1> USE DEF Held
<1>1. CardInv(c) /\ pc[c] \in {"idle", "probe", "undo", "undone", "bound", "remove", "lost"}
  BY DEF IInv, TypeOK
<1>2. HandlerHasCard(c)
  BY <1>1 DEF HandlerHasCard, CardInv, Grounded, Running
<1>3. TimerHasCard(c)
  BY <1>1, ThingsAre DEF TimerHasCard, CardInv, Grounded, Placed, Running
<1>4. ThreadHasCard(c)
  BY <1>1, ThingsAre DEF ThreadHasCard, CardInv, Grounded, Placed, Running
<1>5. ASSUME NEW p \in Procs PROVE ReaderHasCard(p, c)
  <2> SUFFICES ASSUME show[p] = c
               PROVE  {"softc", "reg"} \subseteq has[c] /\ ("drvdata" \in has[c] \/ pc[c] = "probe")
    BY DEF ReaderHasCard
  <2>1. "sysfs" \in has[c]
    BY DEF IInv, Readers
  <2>2. "drvdata" \in has[c] \/ pc[c] = "probe"
    BY <1>1, <2>1, ThingsAre DEF CardInv, Placed
  <2> QED
    BY <1>1, <2>1, <2>2 DEF CardInv, Grounded
<1>6. FreeHoldsNothing(c)
  <2>1. \A s \in Slots : devdata[s] = c => "slot" \in has[c]
    BY DEF IInv, Takers
  <2> QED
    BY <1>1, <2>1 DEF FreeHoldsNothing, CardInv, Placed, Running
<1> QED
  BY <1>2, <1>3, <1>4, <1>5, <1>6

\* Nothing is given back under handler, timer, irq thread or readers, and free cards hold
\* nothing, whether or not the kernel probes one card at a time.
THEOREM HostedCorrect == Spec => []Hosted
BY InvCorrect, HostedHolds, PTL

\* What only holds while one card is probed at a time: nobody is given another one's
\* place in sis1100_devdata, so that a file opened on a node is that of its card.
THEOREM PlacesCorrect == SerialProbes /\ Spec => [](TypeOK /\ IInv /\ Places /\ Files)
<1> SUFFICES ASSUME SerialProbes PROVE Spec => [](TypeOK /\ IInv /\ Places /\ Files)
  OBVIOUS
<1>1. TypeOK /\ IInv /\ Places /\ Files /\ [Next]_vars => Places' /\ Files'
  BY PlacesStep, FilesStep
<1> QED
  BY InitOk, InvCorrect, <1>1, PTL DEF Spec

\* While one card is probed at a time, whoever runs on a card has what it runs on,
\* processes with open files included.
THEOREM CardCorrect == SerialProbes /\ Spec => []CardIsThere
<1> SUFFICES ASSUME SerialProbes PROVE Spec => []CardIsThere
  OBVIOUS
<1>1. TypeOK /\ IInv /\ Places /\ Files => CardIsThere
  <2> SUFFICES ASSUME TypeOK, IInv, Places, Files PROVE CardIsThere
    OBVIOUS
  <2>1. Hosted
    BY HostedHolds
  <2>2. ASSUME NEW p \in Procs, NEW c \in Cards PROVE FileHasCard(p, c)
    BY DEF FileHasCard, Files, Held, IInv, CardInv, Grounded
  <2> QED
    BY <2>1, <2>2 DEF CardIsThere, Hosted
<1> QED
  BY PlacesCorrect, <1>1, PTL

\* While one card is probed at a time, free cards leave nothing behind, bound ones are
\* found by their number, and the module goes only when its cards are free.
THEOREM LeftCorrect == SerialProbes /\ Spec => []NothingLeft
<1> SUFFICES ASSUME SerialProbes PROVE Spec => []NothingLeft
  OBVIOUS
<1>1. TypeOK /\ IInv /\ Places /\ Files => NothingLeft
  <2> SUFFICES ASSUME TypeOK, IInv, Places, Files PROVE NothingLeft
    OBVIOUS
  <2>1. Hosted
    BY HostedHolds
  <2>2. ASSUME NEW c \in Cards PROVE BoundIsFound(c)
    BY ThingsAre DEF BoundIsFound, Places, Held, IInv, CardInv, Placed
  <2>3. mod = "out" => mhas = {} /\ \A c \in Cards : pc[c] = "idle"
    BY DEF IInv, Loaded
  <2> QED
    BY <2>1, <2>2, <2>3 DEF NothingLeft, Hosted
<1> QED
  BY PlacesCorrect, <1>1, PTL

\* A thread that kthread_stop finds asleep or at its test is never asleep again: it is
\* about to see the flag, or gone.
StopSeen == \A c \in Cards : stop[c] = "yes" => th[c] \in {"check", "gone"}

\* Only the flag and the thread itself matter; what wakes it takes it to its test.
LEMMA StopStep ==
    ASSUME TypeOK, StopSeen, [Next]_vars
    PROVE  StopSeen'
<1> USE DEF TypeOK, StopSeen
<1>1. CASE \E c \in Cards : CardStep(c)
  <2>1. PICK c \in Cards : CardStep(c)
    BY <1>1
  <2>2. CASE Acquire(c)
    BY <2>2 DEF Acquire
  <2>3. CASE StopThread(c)
    BY <2>3 DEF StopThread, Wake
  <2>4. CASE TornDown(c)
    BY <2>4 DEF TornDown
  <2>5. CASE IntrLeave(c) \/ TimerFires(c)
    BY <2>5 DEF IntrLeave, TimerFires, Wake
  <2>6. CASE Thread(c)
    BY <2>6 DEF Thread, ThreadSleep, ThreadCheck, ThreadDone
  <2>7. CASE \/ Probe(c) \/ Remove(c) \/ AcquireFails(c) \/ NoDmaMask(c)
            \/ Release(c) \/ JoinThread(c) \/ IntrEnter(c)
    BY <2>7 DEF Probe, Remove, AcquireFails, NoDmaMask, Release, JoinThread, IntrEnter, thread
  <2> QED
    BY <2>1, <2>2, <2>3, <2>4, <2>5, <2>6, <2>7 DEF CardStep, Driver
<1>2. CASE ModuleStep \/ (\E p \in Procs : UserStep(p)) \/ UNCHANGED vars
  BY <1>2, CardsStay DEF vars, thread
<1> QED
  BY <1>1, <1>2 DEF Next

\* No wake-up by kthread_stop is lost but that of a thread on its way past the test: the
\* exception TeardownEnds names is the only one.
THEOREM StopCorrect == Spec => []StopSeen
<1>1. Init => StopSeen
  BY DEF Init, StopSeen
<1> QED
  BY <1>1, InvCorrect, StopStep, PTL DEF Spec

=============================================================================
