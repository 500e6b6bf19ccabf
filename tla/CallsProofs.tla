----------------------------- MODULE CallsProofs -----------------------------
(***************************************************************************)
(* What TLAPS proves about the system calls, for any files, subdevices,    *)
(* remote sides, memory sizes and word sizes the DMA cannot write.         *)
(***************************************************************************)
EXTENDS Calls, FiniteSetTheorems, TLAPS

-----------------------------------------------------------------------------
(* What every handler may do to the card and to its file.                  *)

Cards == [hw : Remotes \cup {"invalid"}, endian : {0, 1}, wants : {0, 1},
          swap : {0, 1}, ram : {0, RamSize}, berr : 0 .. 3, flags : Int]
OpenFiles == [subdev : Subdevs, am : Int, size : {1, 2, 4}, fifo : {0, 1}, dmaR : Nat,
              dmaW : Nat, pipeR : Nat, pipeW : Nat, err : Nat, pos : 0 .. Limit]

\* What the user asks for: a byte order is 0 or 1, or below 0 for none.
Sane(rq) == /\ rq.a \in Int /\ rq.b \in Int /\ rq.m \in Int /\ rq.am \in Int
            /\ rq.cmd = "SWAP" => rq.a <= 1
            /\ rq.cmd = "SETVMESPACE" => rq.b <= 1
            /\ rq.cmd = "VME_BLOCK_READ" => rq.m \in Nat
Replies == [err : Nat, moved : Nat, mem : {"fine", "noarg", "bad", "gone", "late"},
            stop : {"no", "busy", "signal", "sync", "nomem", "stuck"}, wins : {"set", "clear"}]

\* Nothing is changed.
Same(o, s, d) == o.sc = s /\ o.fd = d /\ ~o.upd

\* The answer of a handler.
Answer(o) == {"sc", "fd", "upd"} \subseteq DOMAIN o

\* Who changes what the swapping depends on goes on to update it; the rest of the
\* card is the irq thread's.
Tidy(o, s, d) ==
    /\ o.sc \in Cards /\ o.fd \in OpenFiles /\ o.upd \in BOOLEAN
    /\ o.sc.hw = s.hw /\ o.sc.endian = s.endian /\ o.sc.swap = s.swap
    /\ o.upd \/ o.sc.wants = s.wants
    /\ Answer(o)

\* A refusal is tidy, and so is an error that has changed settings like an answer.
LEMMA ErrTidy ==
    ASSUME NEW s \in Cards, NEW d \in OpenFiles, NEW e
    PROVE  /\ Tidy(Err(s, d, e), s, d)
           /\ \A t \in Cards, f \in OpenFiles :
                 t.hw = s.hw /\ t.endian = s.endian /\ t.swap = s.swap /\ t.wants = s.wants
                    => Tidy(Err(t, f, e), s, d)
<1>1. ASSUME NEW t \in Cards, NEW f \in OpenFiles,
             t.hw = s.hw /\ t.endian = s.endian /\ t.swap = s.swap /\ t.wants = s.wants
      PROVE  Tidy(Err(t, f, e), s, d)
  <2> DEFINE o == Err(t, f, e)
  <2>1. o.sc = t /\ o.fd = f /\ o.upd = FALSE /\ Answer(o)
    BY DEF Err, Ok, Answer
  <2> HIDE DEF o
  <2>2. Tidy(o, s, d)
    BY <1>1, <2>1 DEF Tidy
  <2> QED  BY <2>2 DEF o
<1> QED  BY <1>1

\* So is an answer that changes no settings.
LEMMA OkTidy ==
    ASSUME NEW s \in Cards, NEW d \in OpenFiles, NEW out, NEW touch
    PROVE  Tidy(Ok(s, d, out, touch), s, d)
BY DEF Tidy, Answer, Ok, Cards

\* The result of the checks of a handler that has one ...
LEMMA RefusedOne ==
    ASSUME NEW p \in BOOLEAN, NEW e
    PROVE  Refused(<< <<p, e>> >>) = IF p THEN e ELSE 0
<1> DEFINE c == << <<p, e>> >>
           hit == {i \in DOMAIN c : c[i][1]}
<1>1. DOMAIN c = {1} /\ c[1][1] = p /\ c[1][2] = e
  OBVIOUS
<1>2. Refused(c) = IF hit = {} THEN 0 ELSE c[CHOOSE i \in hit : \A j \in hit : i <= j][2]
  BY DEF Refused
<1> HIDE DEF c
<1>3. CASE p = TRUE
  <2>1. c[1][1] = TRUE
    BY <1>1, <1>3
  <2>2. hit = {1}
    BY <1>1, <2>1
  <2> HIDE DEF hit
  <2>3. (CHOOSE i \in hit : \A j \in hit : i <= j) = 1
    BY <2>2
  <2>4. Refused(c) = e
    BY <1>1, <1>2, <2>2, <2>3
  <2> QED  BY <1>3, <2>4 DEF c
<1>4. CASE p = FALSE
  <2>1. c[1][1] = FALSE
    BY <1>1, <1>4
  <2>2. hit = {}
    BY <1>1, <2>1
  <2> HIDE DEF hit
  <2>3. Refused(c) = 0
    BY <1>2, <2>2
  <2> QED  BY <1>4, <2>3 DEF c
<1> QED  BY <1>3, <1>4

\* ... and of one that has two.
LEMMA RefusedTwo ==
    ASSUME NEW p \in BOOLEAN, NEW e, NEW q \in BOOLEAN, NEW f
    PROVE  Refused(<< <<p, e>>, <<q, f>> >>) = IF p THEN e ELSE IF q THEN f ELSE 0
<1> DEFINE c == << <<p, e>>, <<q, f>> >>
           hit == {i \in DOMAIN c : c[i][1]}
<1>1. DOMAIN c = {1, 2} /\ c[1][1] = p /\ c[1][2] = e /\ c[2][1] = q /\ c[2][2] = f
  OBVIOUS
<1>2. Refused(c) = IF hit = {} THEN 0 ELSE c[CHOOSE i \in hit : \A j \in hit : i <= j][2]
  BY DEF Refused
<1> HIDE DEF c
<1>3. CASE p = TRUE
  <2>1. c[1][1] = TRUE
    BY <1>1, <1>3
  <2>2. 1 \in hit /\ hit \subseteq {1, 2}
    BY <1>1, <2>1
  <2> HIDE DEF hit
  <2>3. \A i \in hit : (\A j \in hit : i <= j) <=> i = 1
    BY <2>2
  <2>4. (CHOOSE i \in hit : \A j \in hit : i <= j) = 1
    BY <2>2, <2>3
  <2>5. Refused(c) = e
    BY <1>1, <1>2, <2>2, <2>4
  <2> QED  BY <1>3, <2>5 DEF c
<1>4. CASE p = FALSE /\ q = TRUE
  <2>1. c[1][1] = FALSE /\ c[2][1] = TRUE
    BY <1>1, <1>4
  <2>2. hit = {2}
    BY <1>1, <2>1
  <2> HIDE DEF hit
  <2>3. (CHOOSE i \in hit : \A j \in hit : i <= j) = 2
    BY <2>2
  <2>4. Refused(c) = f
    BY <1>1, <1>2, <2>2, <2>3
  <2> QED  BY <1>4, <2>4 DEF c
<1>5. CASE p = FALSE /\ q = FALSE
  <2>1. c[1][1] = FALSE /\ c[2][1] = FALSE
    BY <1>1, <1>5
  <2>2. hit = {}
    BY <1>1, <2>1
  <2> HIDE DEF hit
  <2>3. Refused(c) = 0
    BY <1>2, <2>2
  <2> QED  BY <1>5, <2>3 DEF c
<1> QED  BY <1>3, <1>4, <1>5

\* A handler with checks is tidy if it is when they are passed.
LEMMA CheckedTidy ==
    ASSUME NEW s \in Cards, NEW d \in OpenFiles, NEW checks, NEW good,
           Tidy(good, s, d)
    PROVE  Tidy(Checked(s, d, checks, good), s, d)
BY ErrTidy DEF Checked

\* The setting for a bus error time is one of the four.
LEMMA TimerForType == ASSUME NEW v \in Int PROVE TimerFor(v) \in 0 .. 3
<1> DEFINE T == {1, 6, 12}
           S == {t \in {1, 6, 12} : v > t}
<1>1. IsFiniteSet({1}) /\ Cardinality({1}) = 1
  BY FS_Singleton
<1>2. IsFiniteSet({1} \cup {6}) /\ Cardinality({1} \cup {6}) = 2
  BY <1>1, FS_AddElement
<1>3. IsFiniteSet(T) /\ Cardinality(T) = 3
  <2>1. T = ({1} \cup {6}) \cup {12} /\ 12 \notin {1} \cup {6}
    OBVIOUS
  <2> QED  BY <1>2, <2>1, FS_AddElement
<1>4. S \subseteq T
  OBVIOUS
<1> HIDE DEF S, T
<1>5. Cardinality(S) \in Nat /\ Cardinality(S) <= 3
  BY <1>3, <1>4, FS_Subset, FS_CardinalityType
<1> QED  BY <1>5 DEF TimerFor, S


\* The bits written back never give another value than one of the four.
LEMMA SetTimeoutsType ==
    ASSUME NEW t \in 0 .. 3, NEW v \in Int, NEW w PROVE SetTimeouts(t, v, w) \in 0 .. 3
BY TimerForType DEF SetTimeouts, Or2

\* An argument below 0 stands for the old value.
LEMMA PickType ==
    ASSUME NEW x \in Int
    PROVE  /\ \A n \in Nat : Pick(x, n) \in Nat
           /\ x <= 1 => \A b \in {0, 1} : Pick(x, b) \in {0, 1}
BY DEF Pick

\* A card with another byte order asked for ...
LEMMA WantsChanged ==
    ASSUME NEW s \in Cards, NEW b \in {0, 1}
    PROVE  LET t == [s EXCEPT !.wants = b] IN
           t \in Cards /\ t.hw = s.hw /\ t.endian = s.endian /\ t.swap = s.swap
BY DEF Cards

\* ... or with another bus error time.
LEMMA TimerChanged ==
    ASSUME NEW s \in Cards, NEW v \in 0 .. 3
    PROVE  LET t == [s EXCEPT !.berr = v] IN
           /\ t \in Cards /\ t.hw = s.hw /\ t.endian = s.endian /\ t.swap = s.swap
           /\ t.wants = s.wants
BY DEF Cards

\* ... or with other test flags.
LEMMA FlagsChanged ==
    ASSUME NEW s \in Cards, NEW v \in Int
    PROVE  LET t == [s EXCEPT !.flags = v] IN
           /\ t \in Cards /\ t.hw = s.hw /\ t.endian = s.endian /\ t.swap = s.swap
           /\ t.wants = s.wants
BY DEF Cards

\* A file with other settings.
LEMMA FileChanged ==
    ASSUME NEW d \in OpenFiles, NEW n \in Nat, NEW m \in Nat,
           NEW z \in {1, 2, 4}, NEW i \in Int
    PROVE  /\ [d EXCEPT !.dmaR = n, !.dmaW = m] \in OpenFiles
           /\ [d EXCEPT !.pipeR = n, !.pipeW = m] \in OpenFiles
           /\ [d EXCEPT !.am = i, !.size = z, !.dmaR = n, !.dmaW = m] \in OpenFiles
BY DEF OpenFiles

\* ...
LEMMA FifoChanged ==
    ASSUME NEW d \in OpenFiles, NEW b \in {0, 1} PROVE [d EXCEPT !.fifo = b] \in OpenFiles
BY DEF OpenFiles

\* An answer with other settings of the card, or of the file.
LEMMA AnswerTidy ==
    ASSUME NEW s \in Cards, NEW d \in OpenFiles, NEW t \in Cards, NEW e \in OpenFiles,
           t.hw = s.hw, t.endian = s.endian, t.swap = s.swap,
           NEW u \in BOOLEAN, u \/ t.wants = s.wants, NEW out, NEW touch
    PROVE  /\ Tidy([Ok(t, e, out, touch) EXCEPT !.upd = u], s, d)
           /\ ~u => Tidy(Ok(t, e, out, touch), s, d)
BY DEF Tidy, Answer, Ok

-----------------------------------------------------------------------------
(* The handlers one by one.                                                *)

\* ioctl_swap and ioctl_setvmespace by the native entry.
LEMMA SwapTidy ==
    ASSUME NEW s \in Cards, NEW d \in OpenFiles, NEW rq, Sane(rq)
    PROVE  /\ rq.cmd = "SETVMESPACE" => Tidy(SetVmeSpace(s, d, rq), s, d)
           /\ rq.cmd = "SWAP" => Tidy(Swap(s, d, rq), s, d)
           /\ rq.cmd = "SETVMESPACE" => Tidy(SetVmeSpace32(s, d, rq), s, d)
           /\ rq.cmd = "SWAP" /\ rq.a >= 0 => Tidy(Swap32(s, d, rq), s, d)
<1>1. rq.a \in Int /\ rq.b \in Int /\ rq.m \in Int /\ rq.am \in Int
  BY DEF Sane
<1>2. s.wants \in {0, 1} /\ d.dmaR \in Nat /\ d.dmaW \in Nat
  BY DEF Cards, OpenFiles
<1>3. ASSUME NEW x \in Int, x <= 1
      PROVE  LET t == [s EXCEPT !.wants = Pick(x, @)] IN
             /\ t \in Cards /\ t.hw = s.hw /\ t.endian = s.endian /\ t.swap = s.swap
             /\ x >= 0 \/ t.wants = s.wants
  <2> DEFINE t == [s EXCEPT !.wants = Pick(x, @)]
  <2>1. Pick(x, s.wants) \in {0, 1}
    BY <1>2, <1>3, PickType
  <2>2. x >= 0 \/ [s EXCEPT !.wants = Pick(x, @)].wants = s.wants
    BY <1>3 DEF Pick, Cards
  <2>3. [s EXCEPT !.wants = Pick(x, @)] = [s EXCEPT !.wants = Pick(x, s.wants)]
    OBVIOUS
  <2>4. t \in Cards /\ t.hw = s.hw /\ t.endian = s.endian /\ t.swap = s.swap
    <3> DEFINE b == Pick(x, s.wants)
    <3>1. t = [s EXCEPT !.wants = b] /\ b \in {0, 1}
      BY <2>1, <2>3
    <3> HIDE DEF t, b
    <3> QED  BY <3>1, WantsChanged DEF t
  <2> QED  BY <2>2, <2>4
<1>4. CASE rq.cmd = "SETVMESPACE"
  <2> DEFINE t == [s EXCEPT !.wants = Pick(rq.b, @)]
             e == [d EXCEPT !.am = rq.am, !.size = rq.a, !.dmaR = Pick(rq.m, @),
                            !.dmaW = Pick(rq.m, @)]
             o == [Ok(t, e, <<>>, "none") EXCEPT !.upd = rq.b >= 0]
  <2>1. rq.b <= 1 /\ (rq.b >= 0) \in BOOLEAN
    BY <1>1, <1>4 DEF Sane
  <2>2. CASE rq.a \in {1, 2, 4}
    <3>1. e \in OpenFiles
      BY <1>1, <1>2, <2>2, PickType, FileChanged
    <3>2. /\ t \in Cards /\ t.hw = s.hw /\ t.endian = s.endian /\ t.swap = s.swap
          /\ rq.b >= 0 \/ t.wants = s.wants
      BY <1>1, <1>3, <2>1
    <3> HIDE DEF t, e
    <3>3. Tidy(o, s, d)
      BY <2>1, <3>1, <3>2, AnswerTidy
    <3> USE DEF t, e
    <3>4. SetVmeSpace(s, d, rq) = o
      BY <2>2 DEF SetVmeSpace
    <3>5. SetVmeSpace32(s, d, rq)
             = Checked(s, d, << <<rq.a \notin {1, 2, 4}, EINVAL>> >>, o)
      BY DEF SetVmeSpace32
    <3> HIDE DEF o
    <3> QED  BY <1>4, <3>3, <3>4, <3>5, CheckedTidy
  <2>3. CASE rq.a \notin {1, 2, 4}
    <3>1. SetVmeSpace(s, d, rq) = Err(s, d, EINVAL)
      BY <2>3 DEF SetVmeSpace
    <3>2. SetVmeSpace32(s, d, rq) = Err(s, d, EINVAL)
      <4>1. Refused(<< <<rq.a \notin {1, 2, 4}, EINVAL>> >>) = EINVAL
        BY <2>3, RefusedOne
      <4> QED  BY <4>1 DEF SetVmeSpace32, Checked, EINVAL
    <3> QED  BY <1>4, <3>1, <3>2, ErrTidy
  <2> QED  BY <2>2, <2>3
<1>5. CASE rq.cmd = "SWAP"
  <2> DEFINE t == [s EXCEPT !.wants = Pick(rq.a, @)]
  <2>1. rq.a <= 1 /\ (rq.a >= 0) \in BOOLEAN
    BY <1>1, <1>5 DEF Sane
  <2>2. /\ t \in Cards /\ t.hw = s.hw /\ t.endian = s.endian /\ t.swap = s.swap
        /\ rq.a >= 0 \/ t.wants = s.wants
    BY <1>1, <1>3, <2>1
  <2>3. rq.a >= 0 => t = [s EXCEPT !.wants = rq.a]
    BY DEF Pick
  <2> HIDE DEF t
  <2>4. Tidy([Ok(t, d, <<s.wants>>, "none") EXCEPT !.upd = rq.a >= 0], s, d)
    BY <2>1, <2>2, AnswerTidy
  <2>5. rq.a >= 0 => Tidy([Ok(t, d, <<s.wants>>, "none") EXCEPT !.upd = TRUE], s, d)
    BY <2>2, AnswerTidy
  <2>6. Tidy(Swap(s, d, rq), s, d)
    BY <2>4 DEF Swap, t
  <2>7. rq.a >= 0 => Tidy(Swap32(s, d, rq), s, d)
    BY <2>3, <2>5 DEF Swap32
  <2> QED  BY <1>5, <2>6, <2>7
<1> QED  BY <1>4, <1>5

\* The calls that set and return a mode of the file, by either entry.
LEMMA ModesTidy ==
    ASSUME NEW s \in Cards, NEW d \in OpenFiles, NEW rq, Sane(rq)
    PROVE  /\ Tidy(FifoMode(s, d, rq), s, d) /\ Tidy(FifoMode32(s, d, rq), s, d)
           /\ Tidy(MinDmaLen(s, d, rq), s, d) /\ Tidy(MinDmaLen32(s, d, rq), s, d)
           /\ Tidy(MinPipeLen(s, d, rq), s, d) /\ Tidy(TestFlags(s, d, rq), s, d)
<1>1. rq.a \in Int /\ rq.b \in Int
  BY DEF Sane
<1>2. {d.dmaR, d.dmaW, d.pipeR, d.pipeW} \subseteq Nat /\ d.fifo \in {0, 1}
  BY DEF OpenFiles
<1>3. /\ [d EXCEPT !.dmaR = Pick(rq.a, @), !.dmaW = Pick(rq.b, @)] \in OpenFiles
      /\ [d EXCEPT !.pipeR = Pick(rq.a, @), !.pipeW = Pick(rq.b, @)] \in OpenFiles
  BY <1>1, <1>2, PickType, FileChanged
<1>4. /\ [d EXCEPT !.fifo = IF rq.a > 0 THEN 1 ELSE Pick(rq.a, @)] \in OpenFiles
      /\ [d EXCEPT !.fifo = IF rq.a < 0 THEN @ ELSE IF rq.a = 0 THEN 0 ELSE 1]
            \in OpenFiles
  <2> DEFINE x == IF rq.a > 0 THEN 1 ELSE Pick(rq.a, d.fifo)
             y == IF rq.a < 0 THEN d.fifo ELSE IF rq.a = 0 THEN 0 ELSE 1
  <2>1. x \in {0, 1} /\ y \in {0, 1}
    BY <1>1, <1>2 DEF Pick
  <2> HIDE DEF x, y
  <2>2. [d EXCEPT !.fifo = x] \in OpenFiles /\ [d EXCEPT !.fifo = y] \in OpenFiles
    BY <2>1, FifoChanged
  <2> QED  BY <2>2 DEF x, y
<1>5. \A e \in OpenFiles : \A out, touch : Tidy(Ok(s, e, out, touch), s, d)
  BY AnswerTidy
<1>6. Tidy(TestFlags(s, d, rq), s, d)
  <2> DEFINE t == [s EXCEPT !.flags = rq.a]
  <2>1. /\ t \in Cards /\ t.hw = s.hw /\ t.endian = s.endian /\ t.swap = s.swap
        /\ t.wants = s.wants
    BY <1>1, FlagsChanged
  <2> HIDE DEF t
  <2>2. Tidy(Ok(t, d, <<s.flags>>, "none"), s, d)
    BY <2>1, AnswerTidy
  <2> QED  BY <2>2 DEF TestFlags, t
<1> QED  BY <1>3, <1>4, <1>5, <1>6
            DEF FifoMode, FifoMode32, MinDmaLen, MinDmaLen32, MinPipeLen

\* The bus error timer, by either entry.
LEMMA TimeoutsTidy ==
    ASSUME NEW s \in Cards, NEW d \in OpenFiles, NEW rq, Sane(rq), NEW w
    PROVE  Tidy(Timeouts(s, d, rq, w), s, d) /\ Tidy(Timeouts32(s, d, rq, w), s, d)
<1> DEFINE t == NewTimer(s, rq, w)
           e == IF w.err = 0 THEN Ok(t, d, <<TimerValue(s.berr)>>, "remote")
                ELSE Err(t, d, EIO)
<1>1. s.berr \in 0 .. 3 /\ rq.a \in Int
  BY DEF Cards, Sane
<1>2. SetTimeouts(s.berr, rq.a, w) \in 0 .. 3
  BY <1>1, SetTimeoutsType
<1>3. /\ t \in Cards /\ t.hw = s.hw /\ t.endian = s.endian /\ t.swap = s.swap
      /\ t.wants = s.wants
  BY <1>2, TimerChanged DEF NewTimer
<1> HIDE DEF t
<1>4. Tidy(Ok(t, d, <<TimerValue(s.berr)>>, "remote"), s, d)
  BY <1>3, AnswerTidy
<1>5. Tidy(Err(t, d, EIO), s, d)
  BY <1>3, ErrTidy
<1>6. Tidy(e, s, d)
  BY <1>4, <1>5
<1>7. /\ Timeouts(s, d, rq, w)
            = Checked(s, d, << <<d.subdev # "remote" \/ s.hw # "vme", ENXIO>> >>, e)
      /\ Timeouts32(s, d, rq, w)
            = Checked(s, d, << <<d.subdev # "remote" \/ s.hw # "vme", ENXIO>> >>, e)
  BY DEF Timeouts, Timeouts32, t
<1> HIDE DEF e
<1> QED  BY <1>6, <1>7, CheckedTidy

\* An answer that gets lost.
LEMMA LateForm ==
    ASSUME NEW o, Answer(o), NEW x
    PROVE  LET e == [o EXCEPT !.res = x, !.out = <<>>] IN
           e.sc = o.sc /\ e.fd = o.fd /\ e.upd = o.upd /\ Answer(e)
BY DEF Answer

\* An entry adds the errors of its copies.
LEMMA EntryTidy ==
    ASSUME NEW s \in Cards, NEW d \in OpenFiles, NEW rq, NEW w, NEW o, Tidy(o, s, d)
    PROVE  Tidy(Entry(s, d, rq, w, o), s, d)
<1>1. ASSUME w.mem = "late" /\ rq.cmd \notin Silent /\ o.res = 0
      PROVE  Tidy([o EXCEPT !.res = EFAULT, !.out = <<>>], s, d)
  <2> DEFINE e == [o EXCEPT !.res = EFAULT, !.out = <<>>]
  <2>1. Answer(o)
    BY DEF Tidy
  <2>2. e.sc = o.sc /\ e.fd = o.fd /\ e.upd = o.upd /\ Answer(e)
    BY <2>1, LateForm
  <2> HIDE DEF e
  <2>3. Tidy(e, s, d)
    BY <2>2 DEF Tidy
  <2> QED  BY <2>3 DEF e
<1> QED  BY <1>1, ErrTidy DEF Entry

\* Every native ioctl, whatever is asked and answered.
LEMMA DispatchTidy ==
    ASSUME NEW s \in Cards, NEW d \in OpenFiles, NEW rq, Sane(rq), NEW w
    PROVE  Tidy(Dispatch(s, d, rq, w), s, d)
<1> USE DEF Words, Locals, Others, Infos, Unknown32
<1>1. CASE rq.cmd \in {"SETVMESPACE", "SWAP", "FIFOMODE", "MINDMALEN", "MINPIPELEN",
                       "TIMEOUTS", "TESTFLAGS"}
  <2>1. CASE rq.cmd = "SETVMESPACE"  BY <2>1, SwapTidy DEF Dispatch
  <2>2. CASE rq.cmd = "SWAP"         BY <2>2, SwapTidy DEF Dispatch
  <2>3. CASE rq.cmd = "FIFOMODE"     BY <2>3, ModesTidy DEF Dispatch
  <2>4. CASE rq.cmd = "MINDMALEN"    BY <2>4, ModesTidy DEF Dispatch
  <2>5. CASE rq.cmd = "MINPIPELEN"   BY <2>5, ModesTidy DEF Dispatch
  <2>6. CASE rq.cmd = "TIMEOUTS"     BY <2>6, TimeoutsTidy DEF Dispatch
  <2>7. CASE rq.cmd = "TESTFLAGS"    BY <2>7, ModesTidy DEF Dispatch
  <2> QED  BY <1>1, <2>1, <2>2, <2>3, <2>4, <2>5, <2>6, <2>7
<1>2. ASSUME rq.cmd \notin {"SETVMESPACE", "SWAP", "FIFOMODE", "MINDMALEN",
                            "MINPIPELEN", "TIMEOUTS", "TESTFLAGS"}
      PROVE  Tidy(Dispatch(s, d, rq, w), s, d)
  BY <1>2, OkTidy, ErrTidy, CheckedTidy
     DEF Dispatch, VmeProbe, VmeWord, VmeBlockRead, VmeBlockWrite, BlockAnswer, CtrlReg,
         CtrlBlock, Pipe, MapSize, LastError, Ident, VmeSuperBlockRead, WritePipe, Camac,
         Info, Plx, Local, Elsewhere, RemoteReset
<1> QED  BY <1>1, <1>2

\* Every ioctl of a 32 bit program, but for the SWAP below 0 that stores it.
LEMMA Dispatch32Tidy ==
    ASSUME NEW s \in Cards, NEW d \in OpenFiles, NEW rq, Sane(rq), NEW w,
           rq.cmd = "SWAP" => rq.a >= 0
    PROVE  Tidy(Dispatch32(s, d, rq, w), s, d)
<1> USE DEF Words, Locals, Others, Infos, Unknown32
<1>1. CASE rq.cmd \in {"SETVMESPACE", "SWAP", "FIFOMODE", "MINDMALEN", "TIMEOUTS"}
  <2>1. CASE rq.cmd = "SETVMESPACE"  BY <2>1, SwapTidy DEF Dispatch32
  <2>2. CASE rq.cmd = "SWAP"         BY <2>2, SwapTidy DEF Dispatch32
  <2>3. CASE rq.cmd = "FIFOMODE"     BY <2>3, ModesTidy DEF Dispatch32
  <2>4. CASE rq.cmd = "MINDMALEN"    BY <2>4, ModesTidy DEF Dispatch32
  <2>5. CASE rq.cmd = "TIMEOUTS"     BY <2>5, TimeoutsTidy DEF Dispatch32
  <2> QED  BY <1>1, <2>1, <2>2, <2>3, <2>4, <2>5
<1>2. ASSUME rq.cmd \notin {"SETVMESPACE", "SWAP", "FIFOMODE", "MINDMALEN", "TIMEOUTS"}
      PROVE  Tidy(Dispatch32(s, d, rq, w), s, d)
  BY <1>2, DispatchTidy, OkTidy, ErrTidy, CheckedTidy
     DEF Dispatch32, VmeWord32, VmeBlock32, BlockAnswer, CtrlReg32, Pipe32, WritePipe32,
         Ccci32, Ident32, Info32, DmaAlloc32, Elsewhere32, Elsewhere
<1> QED  BY <1>1, <1>2

\* With what the entries add.
LEMMA IoctlTidy ==
    ASSUME NEW s \in Cards, NEW d \in OpenFiles, NEW rq, Sane(rq), NEW w
    PROVE  /\ Tidy(Native(s, d, rq, w), s, d)
           /\ (rq.cmd = "SWAP" => rq.a >= 0) => Tidy(Compat(s, d, rq, w), s, d)
BY DispatchTidy, Dispatch32Tidy, EntryTidy DEF Native, Compat

-----------------------------------------------------------------------------
(* read, write, lseek and mmap.                                            *)

\* No more words are moved than asked for.
LEMMA MovedType ==
    ASSUME NEW num \in Nat, NEW w \in Replies PROVE Moved(num, w) \in 0 .. num
BY DEF Moved, Replies

\* What read_block and write_block report: no more words than were asked for, and
\* an error to be stored, or none.
Report(b, num) == b.num \in 0 .. num /\ b.err \in Nat \cup {-1}

\* A block that is not transferred.
LEMMA NoBlockReport == ASSUME NEW e, NEW num \in Nat PROVE Report(NoBlock(e), num)
BY DEF Report, NoBlock

\* ...
LEMMA ReadBlockReport ==
    ASSUME NEW s, NEW d, NEW size, NEW num \in Nat, NEW w \in Replies
    PROVE  Report(ReadBlock(s, d, size, num, w), num)
<1> DEFINE way == Way(d.dmaR, d.pipeR, num, TRUE)
<1>1. way \in {"dma", "pipe", "word", "loop"} /\ (way = "word" => num = 1)
  BY DEF Way
<1>2. Moved(num, w) \in 0 .. num /\ w.err \in Nat /\ DmaError(w) \in Nat
  BY MovedType DEF Replies, DmaError
<1>3. Report(ReadDma(size, num, w), num)
  BY <1>2, NoBlockReport DEF Report, ReadDma
<1>4. Report(ReadPipe(size, num, w), num)
  BY DEF Report, ReadPipe, NoBlock
<1>5. ASSUME way \in {"word", "loop"}
      PROVE  Report([res |-> 0, err |-> w.err, way |-> way,
                     num |-> IF way = "loop" THEN Moved(num, w)
                             ELSE IF w.err = 0 THEN 1 ELSE 0], num)
  <2> DEFINE k == IF way = "loop" THEN Moved(num, w) ELSE IF w.err = 0 THEN 1 ELSE 0
  <2> HIDE DEF way
  <2>1. k \in 0 .. num
    BY <1>1, <1>2, <1>5
  <2> HIDE DEF k
  <2>2. Report([res |-> 0, err |-> w.err, way |-> way, num |-> k], num)
    BY <1>2, <2>1 DEF Report
  <2> QED  BY <2>2 DEF k
<1>6. CASE num = 0 \/ Refused(BlockChecks(s, w)) # 0
  BY <1>6, NoBlockReport DEF ReadBlock
<1>7. CASE ~(num = 0 \/ Refused(BlockChecks(s, w)) # 0)
  <2> HIDE DEF way
  <2> QED  BY <1>1, <1>3, <1>4, <1>5, <1>7 DEF ReadBlock, way
<1> QED  BY <1>6, <1>7

\* ...
LEMMA WriteBlockReport ==
    ASSUME NEW s, NEW d, NEW size, NEW num \in Nat, NEW w \in Replies
    PROVE  Report(WriteBlock(s, d, size, num, w), num)
<1> DEFINE way == Way(d.dmaW, 0, num, size \notin Broken)
<1>1. Moved(num, w) \in 0 .. num /\ w.err \in Nat /\ DmaError(w) \in Nat
  BY MovedType DEF Replies, DmaError
<1>2. Report(WriteDma(s, size, num, w), num)
  BY <1>1, NoBlockReport DEF Report, WriteDma
<1>3. Report([res |-> 0, err |-> w.err, way |-> way, num |-> IF w.err = 0 THEN num ELSE 0],
             num)
  BY <1>1 DEF Report
<1>4. CASE num = 0 \/ Refused(BlockChecks(s, w)) # 0
  BY <1>4, NoBlockReport DEF WriteBlock
<1>5. CASE ~(num = 0 \/ Refused(BlockChecks(s, w)) # 0)
  <2> HIDE DEF way
  <2> QED  BY <1>2, <1>3, <1>5 DEF WriteBlock, way
<1> QED  BY <1>4, <1>5

\* The position moves by what the block transfer reports, or not at all.
LEMMA MoveTidy ==
    ASSUME NEW s \in Cards, NEW d \in OpenFiles, NEW n \in Nat, d.pos + n <= Limit, NEW b,
           Report(b, n \div WordSize(d))
    PROVE  Tidy(Move(s, d, n, b), s, d)
<1> DEFINE m == Told(d, b)
           e == [m EXCEPT !.pos = @ + b.num * WordSize(d)]
           o == IF b.res # 0 THEN Err(s, m, b.res)
                ELSE Ok(s, e, <<b.num * WordSize(d)>>, BlockTouch(b))
           c == << <<n % WordSize(d) # 0, EINVAL>> >>
<1>1. Move(s, d, n, b) = Checked(s, d, c, o)
  BY DEF Move
<1>2. d.size \in {1, 2, 4} /\ d.pos \in 0 .. Limit /\ Limit \in Nat /\ d.err \in Nat
  BY CallsAssumption DEF OpenFiles
<1>3. WordSize(d) \in {1, 2, 4}
  BY <1>2 DEF WordSize
<1>4. b.num * WordSize(d) \in 0 .. n
  <2>1. CASE WordSize(d) = 1  BY <2>1 DEF Report
  <2>2. CASE WordSize(d) = 2  BY <2>2 DEF Report
  <2>3. CASE WordSize(d) = 4  BY <2>3 DEF Report
  <2> QED  BY <1>3, <2>1, <2>2, <2>3
<1>5. m \in OpenFiles /\ m.pos = d.pos
  <2> DEFINE x == Pick(b.err, d.err)
  <2>1. x \in Nat
    BY <1>2 DEF Pick, Report
  <2>2. m = [d EXCEPT !.err = x]
    BY DEF Told
  <2> HIDE DEF x, m
  <2> QED  BY <2>1, <2>2 DEF OpenFiles
<1>6. e \in OpenFiles
  <2> HIDE DEF m
  <2> DEFINE p == m.pos + b.num * WordSize(d)
  <2>1. p \in 0 .. Limit
    BY <1>2, <1>4, <1>5
  <2>2. e = [m EXCEPT !.pos = p]
    OBVIOUS
  <2> HIDE DEF e, p
  <2> QED  BY <1>5, <2>1, <2>2 DEF OpenFiles
<1> HIDE DEF e, c, m
<1>7. Tidy(Ok(s, e, <<b.num * WordSize(d)>>, BlockTouch(b)), s, d)
  BY <1>6, AnswerTidy
<1>8. Tidy(Err(s, m, b.res), s, d)
  BY <1>5, ErrTidy
<1>9. Tidy(o, s, d)
  BY <1>7, <1>8
<1> HIDE DEF o
<1> QED  BY <1>1, <1>9, CheckedTidy

\* read and write of a number of bytes that does not lead beyond Limit.
LEMMA ReadWriteTidy ==
    ASSUME NEW s \in Cards, NEW d \in OpenFiles, NEW n \in Nat, d.pos + n <= Limit,
           NEW w \in Replies, d.subdev \in {"remote", "ram", "ctrl", "dsp"}
    PROVE  Tidy(Read(s, d, n, w), s, d) /\ Tidy(Write(s, d, n, w), s, d)
<1> DEFINE num == n \div WordSize(d)
<1>1. WordSize(d) \in {1, 2, 4}
  BY DEF WordSize, OpenFiles
<1>2. num \in Nat
  <2>1. CASE WordSize(d) = 1  BY <2>1
  <2>2. CASE WordSize(d) = 2  BY <2>2
  <2>3. CASE WordSize(d) = 4  BY <2>3
  <2> QED  BY <1>1, <2>1, <2>2, <2>3
<1>3. Tidy(Move(s, d, n, ReadBlock(s, d, WordSize(d), num, w)), s, d)
  BY <1>2, ReadBlockReport, MoveTidy
<1>4. Tidy(Move(s, d, n, WriteBlock(s, d, WordSize(d), num, w)), s, d)
  BY <1>2, WriteBlockReport, MoveTidy
<1>5. Tidy(ReadIrqData(s, d, n, w), s, d)
  BY OkTidy, CheckedTidy DEF ReadIrqData
<1>6. Tidy(WriteIrq(s, d, n, w), s, d)
  <2> DEFINE e == [d EXCEPT !.pos = @ + n]
  <2>1. d.pos + n \in 0 .. Limit
    BY CallsAssumption DEF OpenFiles
  <2>2. e \in OpenFiles
    BY <2>1 DEF OpenFiles
  <2> HIDE DEF e
  <2>3. Tidy(Ok(s, e, <<n>>, "local"), s, d)
    BY <2>2, AnswerTidy
  <2> QED  BY <2>3, CheckedTidy DEF WriteIrq, e
<1>7. Tidy(Read(s, d, n, w), s, d)
  BY <1>3, <1>5, ErrTidy DEF Read
<1>8. Tidy(Write(s, d, n, w), s, d)
  BY <1>4, <1>6 DEF Write
<1> QED  BY <1>7, <1>8

\* mmap changes nothing.
LEMMA MmapTidy ==
    ASSUME NEW s \in Cards, NEW d \in OpenFiles, NEW off, NEW len
    PROVE  Tidy(Mmap(s, d, off, len), s, d)
BY OkTidy, CheckedTidy DEF Mmap

\* lseek never sets a position out of range.
LEMMA LseekTidy ==
    ASSUME NEW s \in Cards, NEW d \in OpenFiles, NEW off \in Int, NEW whence
    PROVE  Tidy(Lseek(s, d, off, whence), s, d)
<1> DEFINE p == SeekBase(s, d, whence) + off
           c == << <<whence = "END" /\ d.subdev # "ram", EINVAL>>,
                   <<p \notin 0 .. SeekLimit(s, d), EINVAL>> >>
           o == Ok(s, [d EXCEPT !.pos = p], <<p>>, "none")
<1>1. Lseek(s, d, off, whence) = Checked(s, d, c, o)
  BY DEF Lseek
<1>2. ASSUME p \in 0 .. SeekLimit(s, d) PROVE Tidy(Lseek(s, d, off, whence), s, d)
  <2>1. p \in 0 .. Limit
    BY <1>2, CallsAssumption DEF SeekLimit, Cards
  <2> HIDE DEF p
  <2>2. [d EXCEPT !.pos = p] \in OpenFiles
    BY <2>1 DEF OpenFiles
  <2>3. Tidy(o, s, d)
    BY <2>2, AnswerTidy
  <2> HIDE DEF c, o
  <2> QED  BY <1>1, <2>3, CheckedTidy
<1>3. ASSUME p \notin 0 .. SeekLimit(s, d) PROVE Tidy(Lseek(s, d, off, whence), s, d)
  <2> HIDE DEF p
  <2>1. Refused(c) # 0
    <3>1. Refused(c) = EINVAL
      BY <1>3, RefusedTwo
    <3> QED  BY <3>1 DEF EINVAL
  <2> HIDE DEF c, o
  <2> QED  BY <1>1, <2>1, ErrTidy DEF Checked
<1> QED  BY <1>2, <1>3

-----------------------------------------------------------------------------
(* Type correctness and the byte order.                                    *)

\* What is asked for is sane.
LEMMA AskedSane ==
    /\ \A rq \in Settings \cup Spaces \cup Timers \cup Transfers \cup Singles \cup Quiet :
          Sane(rq)
    /\ BlockAnswers \cup WordAnswers \cup TimerAnswers \cup Copies \cup StepAnswers
          \subseteq Replies
    /\ Good \in Replies
<1> USE DEF R, Sane, Length, Words, Locals, Others, Infos
<1>1. \A rq \in Settings : Sane(rq)   BY DEF Settings
<1>2. \A rq \in Spaces : Sane(rq)     BY DEF Spaces
<1>3. \A rq \in Timers : Sane(rq)     BY DEF Timers
<1>4. \A rq \in Transfers : Sane(rq)  BY DEF Transfers
<1>5. \A rq \in Singles : Sane(rq)    BY DEF Singles
<1>6. \A rq \in Quiet : Sane(rq)      BY DEF Quiet
<1>7. /\ Good \in Replies /\ Copies \subseteq Replies
      /\ \A e \in Nat, m \in Nat, i \in {"set", "clear"} : W(e, m, "fine", "no", i) \in Replies
  BY DEF Copies, Good, W, Replies
<1>8. WordAnswers \subseteq Replies
  BY <1>7 DEF WordAnswers, Good, W, Replies
<1>9. BlockAnswers \subseteq Replies
  BY <1>7, <1>8 DEF BlockAnswers, Good, W, Replies
<1>10. TimerAnswers \cup StepAnswers \subseteq Replies
  BY <1>7 DEF TimerAnswers, StepAnswers
<1> QED  BY <1>1, <1>2, <1>3, <1>4, <1>5, <1>6, <1>7, <1>8, <1>9, <1>10

CallsType ==
    /\ sc \in Cards /\ fd \in [Files -> OpenFiles]
    /\ upd \in [Processes -> {"no", "read", "swap", "keep"}]
    /\ link \in [Processes -> Remotes \cup {"invalid"}]

FileCall(f) == Ioctl(f) \/ ReadFile(f) \/ WriteFile(f) \/ LseekFile(f) \/ MmapFile(f)

\* Every call on a file is tidy.
LEMMA CallTidy ==
    ASSUME CallsType, NEW f \in Files, FileCall(f)
    PROVE  \E o : Tidy(o, sc, fd[f]) /\ Do(f, o)
<1>1. sc \in Cards /\ fd[f] \in OpenFiles
  BY DEF CallsType
<1>2. CASE Ioctl(f)
  <2>1. CASE \E x \in Steps : Do(f, Native(sc, fd[f], x[1], x[2]))
    <3>1. PICK x \in Steps : Do(f, Native(sc, fd[f], x[1], x[2]))
      BY <2>1
    <3>2. Sane(x[1])
      BY AskedSane DEF Steps, Changes
    <3> QED  BY <1>1, <3>1, <3>2, IoctlTidy
  <2>2. CASE \E x \in Steps32 : Do(f, Compat(sc, fd[f], x[1], x[2]))
    <3>1. PICK x \in Steps32 : Do(f, Compat(sc, fd[f], x[1], x[2]))
      BY <2>2
    <3>2. Sane(x[1])
      BY AskedSane DEF Steps32, Changes, Changes32
    <3>3. x[1].cmd = "SWAP" => x[1].a >= 0
      BY DEF Steps32, Changes32, Changes, Settings, Spaces, Timers, R
    <3> QED  BY <1>1, <3>1, <3>2, <3>3, IoctlTidy
  <2> QED  BY <1>2, <2>1, <2>2 DEF Ioctl
<1>3. CASE ReadFile(f) \/ WriteFile(f)
  <2>1. PICK n \in StepBytes, w \in StepAnswers :
            /\ fd[f].pos + n <= Limit
            /\ Do(f, Read(sc, fd[f], n, w)) \/ Do(f, Write(sc, fd[f], n, w))
    BY <1>3 DEF ReadFile, WriteFile
  <2>2. n \in Nat /\ w \in Replies
    BY AskedSane DEF StepBytes
  <2>3. fd[f].subdev \in {"remote", "ram", "ctrl", "dsp"}
    BY <1>1, CallsAssumption DEF OpenFiles
  <2>4. Tidy(Read(sc, fd[f], n, w), sc, fd[f]) /\ Tidy(Write(sc, fd[f], n, w), sc, fd[f])
    BY <1>1, <2>1, <2>2, <2>3, ReadWriteTidy
  <2> QED  BY <2>1, <2>4
<1>4. CASE LseekFile(f)
  <2>1. PICK off \in {-4, 0, 4}, whence \in {"SET", "CUR", "END"} :
            Do(f, Lseek(sc, fd[f], off, whence))
    BY <1>4 DEF LseekFile
  <2>2. Tidy(Lseek(sc, fd[f], off, whence), sc, fd[f])
    BY <1>1, LseekTidy
  <2> QED  BY <2>1, <2>2
<1>5. CASE MmapFile(f)
  <2>1. PICK off \in {0, 4}, len \in {4, 8} : Do(f, Mmap(sc, fd[f], off, len))
    BY <1>5 DEF MmapFile
  <2>2. Tidy(Mmap(sc, fd[f], off, len), sc, fd[f])
    BY <1>1, MmapTidy
  <2> QED  BY <2>1, <2>2
<1> QED  BY <1>2, <1>3, <1>4, <1>5 DEF FileCall

\* Types are kept.
LEMMA TypeStep == ASSUME CallsType, [Next]_vars PROVE CallsType'
<1> USE CallsAssumption DEF CallsType, Processes
<1>1. ASSUME NEW f \in Files, FileCall(f) PROVE CallsType'
  <2>1. PICK o : Tidy(o, sc, fd[f]) /\ Do(f, o)
    BY <1>1, CallTidy
  <2> QED  BY <2>1 DEF Do, Tidy
<1>2. ASSUME NEW p \in Processes, UpdateSwapping(p) PROVE CallsType'
  BY <1>2 DEF UpdateSwapping
<1>3. ASSUME NEW p \in Processes, SetSwapping(p) PROVE CallsType'
  BY <1>3 DEF SetSwapping, Cards
<1>4. CASE LinkDown
  BY <1>4 DEF LinkDown, Cards
<1>5. ASSUME NEW p \in Processes, NEW h \in Remotes, InitRemote(p, h) PROVE CallsType'
  BY <1>5 DEF InitRemote, Cards
<1>6. CASE UNCHANGED vars
  BY <1>6 DEF vars
<1> QED  BY <1>1, <1>2, <1>3, <1>4, <1>5, <1>6 DEF Next, FileCall

\* Initially.
LEMMA TypeInit == Init => CallsType
BY CallsAssumption DEF Init, CallsType, Cards, OpenFiles, NewFile

\* The card, the files and what a process is doing stay of their types, whatever is
\* called on whatever files and whatever comes at the other end of the link.
THEOREM TypeCorrect == Spec => []TypeOK
<1>1. CallsType /\ [Next]_vars => CallsType'
  BY TypeStep
<1>2. CallsType => TypeOK
  BY DEF CallsType, TypeOK, Cards, OpenFiles
<1> QED  BY TypeInit, <1>1, <1>2, PTL DEF Spec

\* A process in sis1100_update_swapping is about to write a value that is no longer
\* the one to write: what it has read of it has changed since.
Stale(p) == (upd[p] = "swap") # Differs(sc)

\* Only a process that writes an outdated value breaks the swapping.
LEMMA SwapStep ==
    ASSUME CallsType, SwapSettles, Next, ~SwapSettles'
    PROVE  \E p \in Processes : SetSwapping(p) /\ Stale(p)
<1> USE DEF CallsType, Processes, Quiescent, SwapSettles
<1>1. ASSUME NEW f \in Files, FileCall(f) PROVE FALSE
  <2>1. PICK o : Tidy(o, sc, fd[f]) /\ Do(f, o)
    BY <1>1, CallTidy
  <2>2. sc' = o.sc /\ upd' = [upd EXCEPT ![f] = IF o.upd THEN "read" ELSE "no"]
    BY <2>1 DEF Do
  <2>3. CASE o.upd = TRUE
    <3>1. upd'[f] = "read"
      BY <2>2, <2>3
    <3> QED  BY <3>1
  <2>4. CASE o.upd = FALSE
    <3>1. /\ sc'.swap = sc.swap /\ sc'.endian = sc.endian /\ sc'.hw = sc.hw
          /\ sc'.wants = sc.wants
      BY <2>1, <2>2, <2>4 DEF Tidy
    <3>2. upd' = upd
      BY <2>1, <2>2, <2>4 DEF Do, CanCall
    <3> QED  BY <3>1, <3>2 DEF There, Differs
  <2> QED  BY <2>1, <2>3, <2>4 DEF Tidy
<1>2. ASSUME NEW p \in Processes, UpdateSwapping(p) PROVE FALSE
  <2>1. upd'[p] # "no"
    BY <1>2 DEF UpdateSwapping
  <2> QED  BY <2>1
<1>3. ASSUME NEW p \in Processes, SetSwapping(p) PROVE SetSwapping(p) /\ Stale(p)
  <2> SUFFICES ASSUME ~Stale(p) PROVE FALSE
    BY <1>3
  <2>1. /\ sc'.swap = (IF upd[p] = "swap" THEN 1 ELSE 0)
        /\ sc'.endian = sc.endian /\ sc'.wants = sc.wants
    BY <1>3 DEF SetSwapping, Cards
  <2>2. Differs(sc)' = Differs(sc)
    BY <2>1 DEF Differs
  <2> QED  BY <2>1, <2>2 DEF Stale
<1>4. ASSUME LinkDown PROVE FALSE
  <2>1. sc'.hw = "invalid"
    BY <1>4 DEF LinkDown, Cards
  <2> QED  BY <2>1 DEF There
<1>5. ASSUME NEW p \in Processes, NEW h \in Remotes, InitRemote(p, h) PROVE FALSE
  <2>1. upd'[p] = "read"
    BY <1>5 DEF InitRemote
  <2> QED  BY <2>1
<1> QED  BY <1>1, <1>2, <1>3, <1>4, <1>5 DEF Next, FileCall

\* Whether calls overlap in sis1100_update_swapping or not, the card stops swapping
\* words as the byte order of the remote side and the user's wish ask for it in one
\* way only: a process writes a value that it has read before another call, or a new
\* remote side, changed what the value depends on.
THEOREM SwapCorrect ==
    Spec => [][SwapSettles /\ ~SwapSettles'
                  => \E p \in Processes : SetSwapping(p) /\ Stale(p)]_vars
<1> DEFINE A == SwapSettles /\ ~SwapSettles' => \E p \in Processes : SetSwapping(p) /\ Stale(p)
<1>1. CallsType /\ [Next]_vars => CallsType'
  BY TypeStep
<1>2. CallsType /\ [Next]_vars => [A]_vars
  BY SwapStep
<1> QED  BY TypeInit, <1>1, <1>2, PTL DEF Spec
-----------------------------------------------------------------------------
(* Undoing a call.                                                         *)

\* A setting of a file given back leaves nothing of the change.
LEMMA FileRestored ==
    ASSUME NEW d \in OpenFiles, NEW n, NEW m
    PROVE  /\ [[d EXCEPT !.dmaR = n, !.dmaW = m] EXCEPT !.dmaR = d.dmaR, !.dmaW = d.dmaW] = d
           /\ [[d EXCEPT !.pipeR = n, !.pipeW = m]
                  EXCEPT !.pipeR = d.pipeR, !.pipeW = d.pipeW] = d
           /\ [[d EXCEPT !.fifo = n] EXCEPT !.fifo = d.fifo] = d
BY DEF OpenFiles

\* Nor does the user's byte order.
LEMMA CardRestored ==
    ASSUME NEW s \in Cards, NEW n
    PROVE  [[s EXCEPT !.wants = n] EXCEPT !.wants = s.wants] = s
BY DEF Cards

\* mindmalen and minpipelen, which have one handler in each entry ...
LEMMA LengthsRestored ==
    ASSUME NEW s, NEW d \in OpenFiles, NEW rq, NEW back, back.a = d.dmaR, back.b = d.dmaW
    PROVE  LET u == MinDmaLen(s, MinDmaLen(s, d, rq).fd, back) IN u.fd = d /\ u.sc = s
<1> DEFINE n == Pick(rq.a, d.dmaR)
           m == Pick(rq.b, d.dmaW)
           e == [d EXCEPT !.dmaR = n, !.dmaW = m]
<1>1. MinDmaLen(s, d, rq).fd = e
  BY DEF MinDmaLen, Ok
<1>2. /\ Pick(d.dmaR, e.dmaR) = d.dmaR /\ Pick(d.dmaW, e.dmaW) = d.dmaW
  BY DEF Pick, OpenFiles
<1>3. MinDmaLen(s, e, back) = Ok(s, [e EXCEPT !.dmaR = d.dmaR, !.dmaW = d.dmaW],
                                 <<e.dmaR, e.dmaW>>, "none")
  BY <1>2 DEF MinDmaLen
<1> HIDE DEF n, m
<1>4. [e EXCEPT !.dmaR = d.dmaR, !.dmaW = d.dmaW] = d
  BY FileRestored
<1> HIDE DEF e
<1> QED  BY <1>1, <1>3, <1>4 DEF Ok

\* ...
LEMMA PipesRestored ==
    ASSUME NEW s, NEW d \in OpenFiles, NEW rq, NEW back, back.a = d.pipeR, back.b = d.pipeW
    PROVE  LET u == MinPipeLen(s, MinPipeLen(s, d, rq).fd, back) IN u.fd = d /\ u.sc = s
<1> DEFINE n == Pick(rq.a, d.pipeR)
           m == Pick(rq.b, d.pipeW)
           e == [d EXCEPT !.pipeR = n, !.pipeW = m]
<1>1. MinPipeLen(s, d, rq).fd = e
  BY DEF MinPipeLen, Ok
<1>2. /\ Pick(d.pipeR, e.pipeR) = d.pipeR /\ Pick(d.pipeW, e.pipeW) = d.pipeW
  BY DEF Pick, OpenFiles
<1>3. MinPipeLen(s, e, back) = Ok(s, [e EXCEPT !.pipeR = d.pipeR, !.pipeW = d.pipeW],
                                  <<e.pipeR, e.pipeW>>, "none")
  BY <1>2 DEF MinPipeLen
<1> HIDE DEF n, m
<1>4. [e EXCEPT !.pipeR = d.pipeR, !.pipeW = d.pipeW] = d
  BY FileRestored
<1> HIDE DEF e
<1> QED  BY <1>1, <1>3, <1>4 DEF Ok

\* fifo_mode, any argument above 0 standing for 1 ...
LEMMA FifoRestored ==
    ASSUME NEW s, NEW d \in OpenFiles, NEW rq, NEW back, back.a = d.fifo
    PROVE  LET u == FifoMode(s, FifoMode(s, d, rq).fd, back) IN u.fd = d /\ u.sc = s
<1> DEFINE n == IF rq.a > 0 THEN 1 ELSE Pick(rq.a, d.fifo)
           e == [d EXCEPT !.fifo = n]
<1>1. FifoMode(s, d, rq).fd = e
  BY DEF FifoMode, Ok
<1>2. FifoMode(s, e, back) = Ok(s, [e EXCEPT !.fifo = d.fifo], <<e.fifo>>, "none")
  <2>1. (IF back.a > 0 THEN 1 ELSE Pick(back.a, e.fifo)) = d.fifo
    BY DEF Pick, OpenFiles
  <2> HIDE DEF e
  <2> QED  BY <2>1 DEF FifoMode
<1> HIDE DEF n
<1>3. [e EXCEPT !.fifo = d.fifo] = d
  BY FileRestored
<1> HIDE DEF e
<1> QED  BY <1>1, <1>2, <1>3 DEF Ok

\* ... and as a 32 bit program calls it ...
LEMMA Fifo32Restored ==
    ASSUME NEW s, NEW d \in OpenFiles, NEW rq, NEW back, back.a = d.fifo
    PROVE  LET u == FifoMode32(s, FifoMode32(s, d, rq).fd, back) IN u.fd = d /\ u.sc = s
<1> DEFINE n == IF rq.a < 0 THEN d.fifo ELSE IF rq.a = 0 THEN 0 ELSE 1
           e == [d EXCEPT !.fifo = n]
<1>1. FifoMode32(s, d, rq).fd = e
  BY DEF FifoMode32, Ok
<1>2. FifoMode32(s, e, back) = Ok(s, [e EXCEPT !.fifo = d.fifo], <<e.fifo>>, "none")
  <2>1. (IF back.a < 0 THEN e.fifo ELSE IF back.a = 0 THEN 0 ELSE 1) = d.fifo
    BY DEF Pick, OpenFiles
  <2> HIDE DEF e
  <2> QED  BY <2>1 DEF FifoMode32
<1> HIDE DEF n
<1>3. [e EXCEPT !.fifo = d.fifo] = d
  BY FileRestored
<1> HIDE DEF e
<1> QED  BY <1>1, <1>2, <1>3 DEF Ok

\* ... the byte order the user wants ...
LEMMA SwapRestored ==
    ASSUME NEW s \in Cards, NEW d, NEW rq, NEW back, back.a = s.wants
    PROVE  LET o == Swap(s, d, rq)
               u == Swap(o.sc, o.fd, back) IN u.fd = d /\ u.sc = s
<1> DEFINE n == Pick(rq.a, s.wants)
           t == [s EXCEPT !.wants = n]
<1>1. Swap(s, d, rq).sc = t /\ Swap(s, d, rq).fd = d
  BY DEF Swap, Ok
<1>2. Swap(t, d, back)
         = [Ok([t EXCEPT !.wants = s.wants], d, <<t.wants>>, "none") EXCEPT !.upd = back.a >= 0]
  <2>1. Pick(back.a, t.wants) = s.wants
    BY DEF Pick, Cards
  <2> HIDE DEF t
  <2> QED  BY <2>1 DEF Swap
<1> HIDE DEF n
<1>3. [t EXCEPT !.wants = s.wants] = s
  BY CardRestored
<1> HIDE DEF t
<1> QED  BY <1>1, <1>2, <1>3 DEF Ok

\* ... and as a 32 bit program sets it.
LEMMA Swap32Restored ==
    ASSUME NEW s \in Cards, NEW d, NEW rq, NEW back, back.a = s.wants
    PROVE  LET o == Swap32(s, d, rq)
               u == Swap32(o.sc, o.fd, back) IN u.fd = d /\ u.sc = s
<1> DEFINE n == rq.a
           t == [s EXCEPT !.wants = n]
<1>1. Swap32(s, d, rq).sc = t /\ Swap32(s, d, rq).fd = d
  BY DEF Swap32, Ok
<1>2. Swap32(t, d, back)
         = [Ok([t EXCEPT !.wants = s.wants], d, <<t.wants>>, "none") EXCEPT !.upd = TRUE]
  <2>1. back.a = s.wants
    BY DEF Pick, Cards
  <2> HIDE DEF t
  <2> QED  BY <2>1 DEF Swap32
<1> HIDE DEF n
<1>3. [t EXCEPT !.wants = s.wants] = s
  BY CardRestored
<1> HIDE DEF t
<1> QED  BY <1>1, <1>2, <1>3 DEF Ok

\* The test flags.
LEMMA FlagsRestored ==
    ASSUME NEW s \in Cards, NEW d, NEW rq, NEW back, back.a = s.flags
    PROVE  LET o == TestFlags(s, d, rq)
               u == TestFlags(o.sc, o.fd, back) IN u.fd = d /\ u.sc = s
BY DEF TestFlags, Ok, Cards

\* The settings, by the commands that make them.
LEMMA SettingsCmd ==
    ASSUME NEW rq \in Settings
    PROVE  /\ rq.cmd \in {"MINDMALEN", "MINPIPELEN", "FIFOMODE", "SWAP", "TESTFLAGS"}
           /\ \A x, y : LET q == [rq EXCEPT !.a = x, !.b = y] IN
                       q.a = x /\ q.b = y /\ q.cmd = rq.cmd
<1> DEFINE cmds == {"MINDMALEN", "MINPIPELEN", "FIFOMODE", "SWAP", "TESTFLAGS"}
<1>1. \E c, a, b : c \in cmds /\ rq = R(c, a, b, 0)
  BY DEF Settings
<1>2. PICK c, a, b : c \in cmds /\ rq = R(c, a, b, 0)
  BY <1>1
<1> QED  BY <1>2 DEF R

\* With good memory an entry adds nothing.
LEMMA GoodHandle ==
    ASSUME NEW entry, NEW s, NEW d, NEW rq, NEW w, w.mem = "fine"
    PROVE  Handle(entry, s, d, rq, w)
              = IF entry = "compat" THEN Dispatch32(s, d, rq, w) ELSE Dispatch(s, d, rq, w)
BY DEF Handle, Native, Compat, Entry

\* Calling mindmalen, minpipelen, fifo_mode, swap or testflags again with what the
\* first call has returned restores file and card, by either entry and for any settings that
\* the calls before have made.
THEOREM RestoreCorrect == Spec => []Restores
<1>1. CallsType /\ [Next]_vars => CallsType'
  BY TypeStep
<1>3. Good.mem = "fine"
  BY DEF Good, W
<1>2. CallsType => Restores
  <2> SUFFICES ASSUME CallsType, NEW f \in Files, NEW entry \in Entries, NEW rq \in Settings
               PROVE  LET o == Handle(entry, sc, fd[f], rq, Good)
                          back == [rq EXCEPT !.a = o.out[1], !.b = o.out[Len(o.out)]]
                          u == Handle(entry, o.sc, o.fd, back, Good)
                      IN u.fd = fd[f] /\ u.sc = sc
    BY DEF Restores
  <2> DEFINE d == fd[f]
             o == Handle(entry, sc, d, rq, Good)
             back == [rq EXCEPT !.a = o.out[1], !.b = o.out[Len(o.out)]]
             u == Handle(entry, o.sc, o.fd, back, Good)
  <2>1. sc \in Cards /\ d \in OpenFiles
    BY DEF CallsType
  <2> HIDE DEF d
  <2>2. back.a = o.out[1] /\ back.b = o.out[Len(o.out)] /\ back.cmd = rq.cmd
    <3> HIDE DEF o
    <3> QED  BY SettingsCmd
  <2>3. CASE rq.cmd = "MINDMALEN"
    <3>1. \A s, e, q : q.cmd = "MINDMALEN" =>
              Handle(entry, s, e, q, Good) = MinDmaLen(s, e, q)
      <4>1. \A s, e, q : MinDmaLen32(s, e, q) = MinDmaLen(s, e, q)
        BY DEF MinDmaLen32, MinDmaLen
      <4> QED  BY <1>3, <4>1, GoodHandle
                  DEF Dispatch, Dispatch32, Words, Locals, Others, Infos, Unknown32
    <3>2. o = MinDmaLen(sc, d, rq) /\ u = MinDmaLen(o.sc, o.fd, back)
      <4> HIDE DEF back
      <4> QED  BY <2>2, <2>3, <3>1
    <3> HIDE DEF o, back, u
    <3>3. o.sc = sc /\ o.out[1] = d.dmaR /\ o.out[Len(o.out)] = d.dmaW
      BY <3>2 DEF MinDmaLen, Ok
    <3>4. u.fd = d /\ u.sc = sc
      BY <2>1, <2>2, <3>2, <3>3, LengthsRestored
    <3> QED  BY <3>4 DEF d, o, back, u
  <2>4. CASE rq.cmd = "MINPIPELEN"
    <3>1. \A s, e, q : q.cmd = "MINPIPELEN" =>
              Handle(entry, s, e, q, Good) = MinPipeLen(s, e, q)
      BY <1>3, GoodHandle
         DEF Dispatch, Dispatch32, Words, Locals, Others, Infos, Unknown32
    <3>2. o = MinPipeLen(sc, d, rq) /\ u = MinPipeLen(o.sc, o.fd, back)
      <4> HIDE DEF back
      <4> QED  BY <2>2, <2>4, <3>1
    <3> HIDE DEF o, back, u
    <3>3. o.sc = sc /\ o.out[1] = d.pipeR /\ o.out[Len(o.out)] = d.pipeW
      BY <3>2 DEF MinPipeLen, Ok
    <3>4. u.fd = d /\ u.sc = sc
      BY <2>1, <2>2, <3>2, <3>3, PipesRestored
    <3> QED  BY <3>4 DEF d, o, back, u
  <2>5. CASE rq.cmd = "FIFOMODE"
    <3>1. \A s, e, q : q.cmd = "FIFOMODE" =>
              /\ entry = "compat" => Handle(entry, s, e, q, Good) = FifoMode32(s, e, q)
              /\ entry # "compat" => Handle(entry, s, e, q, Good) = FifoMode(s, e, q)
      <4> SUFFICES ASSUME NEW s, NEW e, NEW q, q.cmd = "FIFOMODE"
                   PROVE  /\ Dispatch32(s, e, q, Good) = FifoMode32(s, e, q)
                          /\ Dispatch(s, e, q, Good) = FifoMode(s, e, q)
        BY <1>3, GoodHandle
      <4>1. Dispatch32(s, e, q, Good) = FifoMode32(s, e, q)
        BY DEF Dispatch32, Words, Unknown32
      <4>2. Dispatch(s, e, q, Good) = FifoMode(s, e, q)
        BY DEF Dispatch, Words, Locals, Others, Infos
      <4> QED  BY <4>1, <4>2
    <3>2. /\ o = IF entry = "compat" THEN FifoMode32(sc, d, rq) ELSE FifoMode(sc, d, rq)
          /\ u = IF entry = "compat" THEN FifoMode32(o.sc, o.fd, back)
                 ELSE FifoMode(o.sc, o.fd, back)
      <4> HIDE DEF back
      <4> QED  BY <2>2, <2>5, <3>1
    <3> HIDE DEF o, back, u
    <3>3. o.sc = sc /\ o.out[1] = d.fifo
      BY <3>2 DEF FifoMode, FifoMode32, Ok
    <3>4. CASE entry = "compat"
      <4>1. o = FifoMode32(sc, d, rq) /\ u = FifoMode32(o.sc, o.fd, back)
        BY <3>2, <3>4
      <4>2. u.fd = d /\ u.sc = sc
        BY <2>1, <2>2, <3>3, <4>1, Fifo32Restored
      <4> QED  BY <4>2 DEF d, o, back, u
    <3>5. CASE entry # "compat"
      <4>1. u.fd = d /\ u.sc = sc
        BY <2>1, <2>2, <3>2, <3>3, <3>5, FifoRestored
      <4> QED  BY <4>1 DEF d, o, back, u
    <3> QED  BY <3>4, <3>5
  <2>6. CASE rq.cmd = "SWAP"
    <3>1. \A s, e, q : q.cmd = "SWAP" =>
              /\ entry = "compat" => Handle(entry, s, e, q, Good) = Swap32(s, e, q)
              /\ entry # "compat" => Handle(entry, s, e, q, Good) = Swap(s, e, q)
      <4> SUFFICES ASSUME NEW s, NEW e, NEW q, q.cmd = "SWAP"
                   PROVE  /\ Dispatch32(s, e, q, Good) = Swap32(s, e, q)
                          /\ Dispatch(s, e, q, Good) = Swap(s, e, q)
        BY <1>3, GoodHandle
      <4>1. Dispatch32(s, e, q, Good) = Swap32(s, e, q)
        BY DEF Dispatch32, Words, Unknown32
      <4>2. Dispatch(s, e, q, Good) = Swap(s, e, q)
        BY DEF Dispatch, Words, Locals, Others, Infos
      <4> QED  BY <4>1, <4>2
    <3>2. /\ o = IF entry = "compat" THEN Swap32(sc, d, rq) ELSE Swap(sc, d, rq)
          /\ u = IF entry = "compat" THEN Swap32(o.sc, o.fd, back)
                 ELSE Swap(o.sc, o.fd, back)
      <4> HIDE DEF back
      <4> QED  BY <2>2, <2>6, <3>1
    <3> HIDE DEF o, back, u
    <3>3. o.out[1] = sc.wants
      BY <3>2 DEF Swap, Swap32, Ok
    <3>4. CASE entry = "compat"
      <4>1. o = Swap32(sc, d, rq) /\ u = Swap32(o.sc, o.fd, back)
        BY <3>2, <3>4
      <4>2. u.fd = d /\ u.sc = sc
        BY <2>1, <2>2, <3>3, <4>1, Swap32Restored
      <4> QED  BY <4>2 DEF d, o, back, u
    <3>5. CASE entry # "compat"
      <4>1. u.fd = d /\ u.sc = sc
        BY <2>1, <2>2, <3>2, <3>3, <3>5, SwapRestored
      <4> QED  BY <4>1 DEF d, o, back, u
    <3> QED  BY <3>4, <3>5
  <2>7. CASE rq.cmd = "TESTFLAGS"
    <3>1. \A s, e, q : q.cmd = "TESTFLAGS" =>
              Handle(entry, s, e, q, Good) = TestFlags(s, e, q)
      BY <1>3, GoodHandle DEF Dispatch, Dispatch32, Words, Locals, Others, Infos, Unknown32
    <3>2. o = TestFlags(sc, d, rq) /\ u = TestFlags(o.sc, o.fd, back)
      <4> HIDE DEF back
      <4> QED  BY <2>2, <2>7, <3>1
    <3> HIDE DEF o, back, u
    <3>3. o.out[1] = sc.flags
      BY <3>2 DEF TestFlags, Ok
    <3>4. u.fd = d /\ u.sc = sc
      BY <2>1, <2>2, <3>2, <3>3, FlagsRestored
    <3> QED  BY <3>4 DEF d, o, back, u
  <2> QED  BY <2>3, <2>4, <2>5, <2>6, <2>7, SettingsCmd
<1> QED  BY TypeInit, <1>1, <1>2, PTL DEF Spec

-----------------------------------------------------------------------------
(* The two entries.                                                        *)

\* What is asked for is a record with a command.
LEMMA AskedForm ==
    ASSUME NEW x \in Asked
    PROVE  /\ Sane(x[1])
           /\ x[1].cmd = "SWAP" => x[1].a >= 0
           /\ [x[1] EXCEPT !.cmd = x[1].cmd].cmd = x[1].cmd
           /\ x[2] \in Replies
<1>1. x[1] \in Settings \cup Spaces \cup Timers \cup Transfers \cup Singles \cup Quiet
  BY DEF Asked, Changes32, Changes, Answers
<1>2. Sane(x[1])
  BY <1>1, AskedSane
<1>3. \E c, a, b, m, k : x[1] = [R(c, a, b, m) EXCEPT !.am = k]
  <2>1. \A c, a, b, m : R(c, a, b, m) = [R(c, a, b, m) EXCEPT !.am = 9]
    BY DEF R
  <2>2. CASE x[1] \in Spaces
    <3>1. PICK a, b, m : x[1] = [R("SETVMESPACE", a, b, m) EXCEPT !.am = IF a = 1 THEN -1 ELSE 9]
      BY <2>2 DEF Spaces
    <3> QED  BY <3>1
  <2>3. CASE x[1] \notin Spaces
    <3>1. \E c, a, b, m : x[1] = R(c, a, b, m)
      BY <1>1, <2>3 DEF Settings, Timers, Transfers, Singles, Quiet
    <3> QED  BY <2>1, <3>1
  <2> QED  BY <2>2, <2>3
<1>4. x[1].cmd = "SWAP" => x[1].a >= 0
  <2>1. CASE x \in Changes32
    BY <2>1 DEF Changes32, Changes, Settings, Spaces, Timers, R
  <2>2. CASE x \in Answers
    BY <2>2 DEF Answers, Transfers, Singles, Quiet, R, Words, Locals, Others, Infos
  <2> QED  BY <2>1, <2>2 DEF Asked
<1>5. [x[1] EXCEPT !.cmd = x[1].cmd].cmd = x[1].cmd
  <2>1. PICK c, a, b, m, k : x[1] = [R(c, a, b, m) EXCEPT !.am = k]
    BY <1>3
  <2> QED  BY <2>1 DEF R
<1>6. x[2] \in Replies
  BY AskedSane DEF Asked, Changes32, Changes, Answers
<1> QED  BY <1>2, <1>4, <1>5, <1>6

\* The handlers of the settings.
LEMMA SettingsAlike ==
    ASSUME NEW s, NEW d, NEW rq, Sane(rq), NEW w
    PROVE  /\ SetVmeSpace32(s, d, rq) = SetVmeSpace(s, d, rq)
           /\ rq.a >= 0 => Swap32(s, d, rq) = Swap(s, d, rq)
           /\ FifoMode32(s, d, rq) = FifoMode(s, d, rq)
           /\ MinDmaLen32(s, d, rq) = MinDmaLen(s, d, rq)
           /\ Timeouts32(s, d, rq, w) = Timeouts(s, d, rq, w)
<1>1. rq.a \in Int
  BY DEF Sane
<1>2. SetVmeSpace32(s, d, rq) = SetVmeSpace(s, d, rq)
  <2>1. Refused(<< <<rq.a \notin {1, 2, 4}, EINVAL>> >>)
           = IF rq.a \notin {1, 2, 4} THEN EINVAL ELSE 0
    BY RefusedOne
  <2> QED  BY <2>1 DEF SetVmeSpace32, SetVmeSpace, Checked, EINVAL
<1>3. rq.a >= 0 => Swap32(s, d, rq) = Swap(s, d, rq)
  <2> SUFFICES ASSUME rq.a >= 0 PROVE Swap32(s, d, rq) = Swap(s, d, rq)
    OBVIOUS
  <2>1. Pick(rq.a, s.wants) = rq.a /\ (rq.a >= 0) = TRUE
    BY <1>1 DEF Pick
  <2> QED  BY <2>1 DEF Swap32, Swap
<1>4. FifoMode32(s, d, rq) = FifoMode(s, d, rq)
  <2>1. (IF rq.a < 0 THEN d.fifo ELSE IF rq.a = 0 THEN 0 ELSE 1)
           = IF rq.a > 0 THEN 1 ELSE Pick(rq.a, d.fifo)
    BY <1>1 DEF Pick
  <2> QED  BY <2>1 DEF FifoMode32, FifoMode
<1>5. /\ MinDmaLen32(s, d, rq) = MinDmaLen(s, d, rq)
      /\ Timeouts32(s, d, rq, w) = Timeouts(s, d, rq, w)
  BY DEF MinDmaLen32, MinDmaLen, Timeouts32, Timeouts
<1> QED  BY <1>2, <1>3, <1>4, <1>5

\* A register of the card, or of a remote side that is there.
LEMMA CtrlAlike ==
    ASSUME NEW s, NEW d, NEW rq, Sane(rq), NEW w, There(s)
    PROVE  CtrlReg32(s, d, rq, w) = CtrlReg(s, d, rq, w)
<1>1. /\ (rq.a > CardRegs) \in BOOLEAN /\ (rq.a > RemoteRegs) \in BOOLEAN
      /\ (~There(s)) \in BOOLEAN
  BY DEF Sane, There, CardRegs, RemoteRegs
<1>2. CASE d.subdev = "ctrl"
  <2>1. Refused(<< <<rq.a > CardRegs, EINVAL>> >>) = IF rq.a > CardRegs THEN EINVAL ELSE 0
    BY <1>1, RefusedOne
  <2> QED  BY <1>2, <2>1 DEF CtrlReg32, CtrlReg, Checked, EINVAL
<1>3. CASE d.subdev # "ctrl"
  <2> DEFINE p == rq.a > RemoteRegs
             q == ~There(s)
  <2>1. p \in BOOLEAN /\ q \in BOOLEAN /\ ~q
    BY <1>1
  <2> HIDE DEF p, q
  <2>2. Refused(<< <<p, EINVAL>>, <<q, ENXIO>> >>) = IF p THEN EINVAL ELSE 0
    BY <2>1, RefusedTwo
  <2> QED  BY <1>3, <2>2 DEF CtrlReg32, CtrlReg, Checked, EINVAL, p, q
<1> QED  BY <1>2, <1>3

\* A request that is treated alike is answered alike.
LEMMA DispatchAlike ==
    ASSUME NEW s, NEW d, NEW rq, Sane(rq), NEW w, rq.cmd = "SWAP" => rq.a >= 0,
           [rq EXCEPT !.cmd = rq.cmd].cmd = rq.cmd, ~Unlike32(s, rq)
    PROVE  Dispatch32(s, d, rq, w) = Dispatch(s, d, rq, w)
<1> USE DEF Words, Locals, Others, Infos, Unknown32, Unlike32
<1>1. CASE rq.cmd \in {"SETVMESPACE", "SWAP", "FIFOMODE", "MINDMALEN", "TIMEOUTS"}
  BY <1>1, SettingsAlike DEF Dispatch32, Dispatch
<1>2. CASE rq.cmd \in {"CTRL_READ", "CTRL_WRITE"}
  BY <1>2, CtrlAlike DEF Dispatch32, Dispatch
<1>3. CASE rq.cmd \in {"VME_BLOCK_READ", "VME_BLOCK_WRITE"}
  BY <1>3 DEF Dispatch32, Dispatch, VmeBlock32, VmeBlockRead, VmeBlockWrite
<1>4. CASE rq.cmd \in Words
  BY <1>4 DEF Dispatch32, Dispatch, VmeWord32, VmeWord
<1>5. CASE rq.cmd \in {"WRITE_PIPE", "CCCI"}
  BY <1>5 DEF Dispatch32, Dispatch, WritePipe32, WritePipe, Ccci32, Camac
<1>6. CASE rq.cmd \in {"IDENT", "DEVTYPE", "DRIVERVERSION", "DMA_ALLOC"}
  BY <1>6 DEF Dispatch32, Dispatch, Ident32, Ident, Info32, Info, DmaAlloc32
<1>7. CASE rq.cmd \in {"DSP_LOAD", "DEMAND_DMA"}
  <2>1. [rq EXCEPT !.cmd = IF @ = "DSP_READ" THEN "DSP_LOAD" ELSE @].cmd = rq.cmd
    BY <1>7
  <2> QED  BY <1>7, <2>1 DEF Dispatch32, Dispatch, Elsewhere32, Elsewhere
<1>8. CASE rq.cmd \notin {"SETVMESPACE", "SWAP", "FIFOMODE", "MINDMALEN", "TIMEOUTS",
                          "CTRL_READ", "CTRL_WRITE", "VME_BLOCK_READ", "VME_BLOCK_WRITE",
                          "WRITE_PIPE", "CCCI", "IDENT", "DEVTYPE", "DRIVERVERSION", "DMA_ALLOC",
                          "DSP_LOAD", "DEMAND_DMA"} \cup Words
  BY <1>8 DEF Dispatch32
<1> QED  BY <1>1, <1>2, <1>3, <1>4, <1>5, <1>6, <1>7, <1>8

\* Whatever state the calls before have left, a 32 bit program has the same effect
\* and the same answer as a 64 bit one, but for the calls named in Unlike32.
THEOREM CompatCorrect == Spec => []SameAnswer
<1>1. SameAnswer
  <2> SUFFICES ASSUME NEW f \in Files, NEW x \in Asked, ~Unlike32(sc, x[1])
               PROVE  Compat(sc, fd[f], x[1], x[2]) = Native(sc, fd[f], x[1], x[2])
    BY DEF SameAnswer
  <2> QED  BY AskedForm, DispatchAlike DEF Compat, Native
<1> QED  BY <1>1, PTL
-----------------------------------------------------------------------------
(* Making a failed call again.                                             *)

\* Nothing is changed by an error ...
LEMMA ErrSame == ASSUME NEW s, NEW d, NEW e PROVE Same(Err(s, d, e), s, d)
BY DEF Same, Err, Ok

\* ... nor by an answer without new settings ...
LEMMA OkSame == ASSUME NEW s, NEW d, NEW out, NEW touch PROVE Same(Ok(s, d, out, touch), s, d)
BY DEF Same, Ok

\* ... nor by checks before it.
LEMMA CheckedSame ==
    ASSUME NEW s, NEW d, NEW checks, NEW good, Same(good, s, d)
    PROVE  Same(Checked(s, d, checks, good), s, d)
BY ErrSame DEF Checked

\* The calls that change a setting.
Setters == {"SETVMESPACE", "MINDMALEN", "MINPIPELEN", "FIFOMODE", "SWAP", "TESTFLAGS",
            "TIMEOUTS"}

\* The others change nothing, for whatever request and answer, by the native entry ...
LEMMA OthersSame ==
    ASSUME NEW s, NEW d, NEW rq, rq.cmd \notin Setters, NEW w
    PROVE  Same(Dispatch(s, d, rq, w), s, d)
<1>1. /\ Same(CtrlReg(s, d, rq, w), s, d) /\ Same(CtrlBlock(s, d, rq, w), s, d)
      /\ Same(Local(s, d, rq, w), s, d) /\ Same(Elsewhere(s, d, rq, w), s, d)
      /\ Same(RemoteReset(s, d), s, d) /\ Same(Camac(s, d, rq, w), s, d)
  BY ErrSame, OkSame, CheckedSame
     DEF CtrlReg, CtrlBlock, Local, Elsewhere, RemoteReset, Camac
<1>2. /\ Same(VmeProbe(s, d, rq, w), s, d) /\ Same(VmeWord(s, d, rq, w), s, d)
      /\ Same(VmeBlockRead(s, d, rq, w), s, d) /\ Same(VmeBlockWrite(s, d, rq, w), s, d)
      /\ Same(VmeSuperBlockRead(s, d, rq, w), s, d)
      /\ Same(Pipe(s, d, rq, w), s, d) /\ Same(WritePipe(s, d, rq, w), s, d)
  BY OkSame, CheckedSame DEF VmeProbe, VmeWord, VmeBlockRead, VmeBlockWrite,
                             VmeSuperBlockRead, BlockAnswer, Pipe, WritePipe
<1>3. /\ Same(MapSize(s, d), s, d) /\ Same(LastError(s, d), s, d)
      /\ Same(Ident(s, d), s, d) /\ Same(Info(s, d, rq), s, d) /\ Same(Plx(s, d), s, d)
  BY OkSame DEF MapSize, LastError, Ident, Info, Plx
<1>4. Same(Err(s, d, ENOTTY), s, d)
  BY ErrSame
<1> QED  BY <1>1, <1>2, <1>3, <1>4 DEF Dispatch, Setters, Words, Locals, Others, Infos

\* ... and by the other one.
LEMMA OthersSame32 ==
    ASSUME NEW s, NEW d, NEW rq, rq.cmd \notin Setters, NEW w
    PROVE  Same(Dispatch32(s, d, rq, w), s, d)
<1>1. /\ Same(VmeWord32(s, d, rq, w), s, d) /\ Same(VmeBlock32(s, d, rq, w), s, d)
      /\ Same(CtrlReg32(s, d, rq, w), s, d) /\ Same(Pipe32(s, d, rq, w), s, d)
      /\ Same(WritePipe32(s, d, rq, w), s, d) /\ Same(Ccci32(s, d, rq, w), s, d)
  BY OkSame, CheckedSame
     DEF VmeWord32, VmeBlock32, BlockAnswer, CtrlReg32, Pipe32, WritePipe32, Ccci32
<1>2. /\ Same(Ident32(s, d), s, d) /\ Same(Info32(s, d, rq), s, d)
      /\ Same(DmaAlloc32(s, d), s, d) /\ Same(Elsewhere32(s, d, rq, w), s, d)
  BY ErrSame, OkSame, CheckedSame DEF Ident32, Info32, DmaAlloc32, Elsewhere32, Elsewhere
<1>3. Same(Err(s, d, ENOTTY), s, d) /\ Same(Dispatch(s, d, rq, w), s, d)
  BY ErrSame, OthersSame
<1> QED  BY <1>1, <1>2, <1>3 DEF Dispatch32, Setters, Words, Unknown32

\* A call and the same again, in the state that it leaves.
Settled(o, u) == u.res = 0 /\ u.sc = o.sc /\ u.fd = o.fd

\* A setting that is made twice is made once.
LEMMA PickTwice == ASSUME NEW x, NEW y PROVE Pick(x, Pick(x, y)) = Pick(x, y)
BY DEF Pick

\* The settings of a file ...
LEMMA FileSettled ==
    ASSUME NEW s, NEW d \in OpenFiles, NEW rq
    PROVE  /\ Settled(MinDmaLen(s, d, rq), MinDmaLen(s, MinDmaLen(s, d, rq).fd, rq))
           /\ Settled(MinPipeLen(s, d, rq), MinPipeLen(s, MinPipeLen(s, d, rq).fd, rq))
           /\ Settled(FifoMode(s, d, rq), FifoMode(s, FifoMode(s, d, rq).fd, rq))
<1>1. ASSUME NEW n, NEW m
      PROVE  /\ [[d EXCEPT !.dmaR = n, !.dmaW = m] EXCEPT !.dmaR = n, !.dmaW = m]
                    = [d EXCEPT !.dmaR = n, !.dmaW = m]
             /\ [[d EXCEPT !.pipeR = n, !.pipeW = m] EXCEPT !.pipeR = n, !.pipeW = m]
                    = [d EXCEPT !.pipeR = n, !.pipeW = m]
             /\ [[d EXCEPT !.fifo = n] EXCEPT !.fifo = n] = [d EXCEPT !.fifo = n]
  BY DEF OpenFiles
<1>2. Settled(MinDmaLen(s, d, rq), MinDmaLen(s, MinDmaLen(s, d, rq).fd, rq))
  <2> DEFINE n == Pick(rq.a, d.dmaR)
             m == Pick(rq.b, d.dmaW)
             e == [d EXCEPT !.dmaR = n, !.dmaW = m]
  <2>1. MinDmaLen(s, d, rq) = Ok(s, e, <<d.dmaR, d.dmaW>>, "none")
    BY DEF MinDmaLen
  <2>2. Pick(rq.a, e.dmaR) = n /\ Pick(rq.b, e.dmaW) = m
    BY PickTwice DEF OpenFiles
  <2> HIDE DEF n, m
  <2>3. [e EXCEPT !.dmaR = n, !.dmaW = m] = e
    BY <1>1
  <2> HIDE DEF e
  <2>4. MinDmaLen(s, e, rq) = Ok(s, e, <<e.dmaR, e.dmaW>>, "none")
    BY <2>2, <2>3 DEF MinDmaLen
  <2> QED  BY <2>1, <2>4 DEF Settled, Ok
<1>3. Settled(MinPipeLen(s, d, rq), MinPipeLen(s, MinPipeLen(s, d, rq).fd, rq))
  <2> DEFINE n == Pick(rq.a, d.pipeR)
             m == Pick(rq.b, d.pipeW)
             e == [d EXCEPT !.pipeR = n, !.pipeW = m]
  <2>1. MinPipeLen(s, d, rq) = Ok(s, e, <<d.pipeR, d.pipeW>>, "none")
    BY DEF MinPipeLen
  <2>2. Pick(rq.a, e.pipeR) = n /\ Pick(rq.b, e.pipeW) = m
    BY PickTwice DEF OpenFiles
  <2> HIDE DEF n, m
  <2>3. [e EXCEPT !.pipeR = n, !.pipeW = m] = e
    BY <1>1
  <2> HIDE DEF e
  <2>4. MinPipeLen(s, e, rq) = Ok(s, e, <<e.pipeR, e.pipeW>>, "none")
    BY <2>2, <2>3 DEF MinPipeLen
  <2> QED  BY <2>1, <2>4 DEF Settled, Ok
<1>4. Settled(FifoMode(s, d, rq), FifoMode(s, FifoMode(s, d, rq).fd, rq))
  <2> DEFINE n == IF rq.a > 0 THEN 1 ELSE Pick(rq.a, d.fifo)
             e == [d EXCEPT !.fifo = n]
  <2>1. FifoMode(s, d, rq) = Ok(s, e, <<d.fifo>>, "none")
    BY DEF FifoMode
  <2>2. (IF rq.a > 0 THEN 1 ELSE Pick(rq.a, e.fifo)) = n
    BY PickTwice DEF OpenFiles
  <2> HIDE DEF n
  <2>3. [e EXCEPT !.fifo = n] = e
    BY <1>1
  <2> HIDE DEF e
  <2>4. FifoMode(s, e, rq) = Ok(s, e, <<e.fifo>>, "none")
    BY <2>2, <2>3 DEF FifoMode
  <2> QED  BY <2>1, <2>4 DEF Settled, Ok
<1> QED  BY <1>2, <1>3, <1>4

\* ... and of the card ...
LEMMA CardSettled ==
    ASSUME NEW s \in Cards, NEW d, NEW rq
    PROVE  /\ Settled(Swap(s, d, rq), Swap(Swap(s, d, rq).sc, d, rq))
           /\ Settled(TestFlags(s, d, rq), TestFlags(TestFlags(s, d, rq).sc, d, rq))
           /\ Swap(s, d, rq).fd = d /\ TestFlags(s, d, rq).fd = d
           /\ Swap(s, d, rq).res = 0 /\ TestFlags(s, d, rq).res = 0
<1>1. Settled(Swap(s, d, rq), Swap(Swap(s, d, rq).sc, d, rq))
  <2> DEFINE n == Pick(rq.a, s.wants)
             t == [s EXCEPT !.wants = n]
  <2>1. Swap(s, d, rq) = [Ok(t, d, <<s.wants>>, "none") EXCEPT !.upd = rq.a >= 0]
    BY DEF Swap
  <2>2. Pick(rq.a, t.wants) = n
    BY PickTwice DEF Cards
  <2> HIDE DEF n
  <2>3. [t EXCEPT !.wants = n] = t
    BY DEF Cards
  <2> HIDE DEF t
  <2>4. Swap(t, d, rq) = [Ok(t, d, <<t.wants>>, "none") EXCEPT !.upd = rq.a >= 0]
    BY <2>2, <2>3 DEF Swap
  <2> QED  BY <2>1, <2>4 DEF Settled, Ok
<1>2. Settled(TestFlags(s, d, rq), TestFlags(TestFlags(s, d, rq).sc, d, rq))
  BY DEF Settled, TestFlags, Ok, Cards
<1> QED  BY <1>1, <1>2 DEF Swap, TestFlags, Ok

\* ... and the bus error timer, whose bits are the same the second time.
LEMMA OrTwice ==
    ASSUME NEW x \in 0 .. 3, NEW y \in 0 .. 3 PROVE Or2(Or2(x, y), y) = Or2(x, y)
BY DEF Or2

\* ...
LEMMA TimerSettled ==
    ASSUME NEW s \in Cards, NEW rq, Sane(rq), NEW w \in Replies
    PROVE  LET t == NewTimer(s, rq, w) IN
           NewTimer(t, rq, SameCallAgain(w)) = IF w.err = 0 \/ w.moved > 0 THEN t
                                               ELSE NewTimer(s, rq, SameCallAgain(w))
<1> DEFINE again == SameCallAgain(w)
<1>1. again.err = 0 /\ again.wins = w.wins
  BY DEF SameCallAgain, Replies
<1>2. s.berr \in 0 .. 3 /\ TimerFor(rq.a) \in 0 .. 3
  BY TimerForType DEF Cards, Sane
<1>3. SetTimeouts(SetTimeouts(s.berr, rq.a, w), rq.a, again) = SetTimeouts(s.berr, rq.a, w)
  BY <1>1, <1>2, OrTwice DEF SetTimeouts
<1> HIDE DEF again
<1>4. CASE w.err = 0 \/ w.moved > 0
  <2> DEFINE n == SetTimeouts(s.berr, rq.a, w)
             t == [s EXCEPT !.berr = n]
  <2>1. NewTimer(s, rq, w) = t /\ t.berr = n
    BY <1>4 DEF NewTimer, Cards
  <2>2. SetTimeouts(t.berr, rq.a, again) = n
    BY <1>3, <2>1
  <2> HIDE DEF n
  <2>3. [t EXCEPT !.berr = n] = t
    BY DEF Cards
  <2> HIDE DEF t
  <2>4. NewTimer(t, rq, again) = [t EXCEPT !.berr = SetTimeouts(t.berr, rq.a, again)]
    BY <1>1 DEF NewTimer
  <2> QED  BY <1>4, <2>1, <2>2, <2>3, <2>4 DEF again
<1>5. CASE ~(w.err = 0 \/ w.moved > 0)
  BY <1>5 DEF NewTimer, again
<1> QED  BY <1>4, <1>5

\* A change of the timer that fails has not been made, or it can be made again.
LEMMA TimeoutsRetry ==
    ASSUME NEW s \in Cards, NEW d, NEW rq, Sane(rq), NEW w \in Replies
    PROVE  LET o == Timeouts(s, d, rq, w)
               u == Timeouts(o.sc, o.fd, rq, SameCallAgain(w))
           IN Same(o, s, d) \/ Settled(o, u)
<1> DEFINE p == d.subdev # "remote" \/ s.hw # "vme"
           again == SameCallAgain(w)
           t == NewTimer(s, rq, w)
           o == Timeouts(s, d, rq, w)
<1>1. Refused(<< <<p, ENXIO>> >>) = IF p THEN ENXIO ELSE 0
  BY RefusedOne
<1>2. CASE p
  <2>1. o = Err(s, d, ENXIO)
    BY <1>1, <1>2 DEF Timeouts, Checked, ENXIO
  <2> QED  BY <2>1, ErrSame
<1>3. CASE ~p /\ (w.err = 0 \/ w.moved > 0)
  <2>1. o.sc = t /\ o.fd = d
    <3>1. o = IF w.err = 0 THEN Ok(t, d, <<TimerValue(s.berr)>>, "remote")
              ELSE Err(t, d, EIO)
      BY <1>1, <1>3 DEF Timeouts, Checked
    <3> HIDE DEF o, t
    <3> QED  BY <3>1 DEF Ok, Err
  <2>2. again.err = 0
    BY DEF SameCallAgain, Replies
  <2>3. t.hw = s.hw
    BY DEF NewTimer, Cards
  <2>4. NewTimer(t, rq, again) = t
    BY <1>3, TimerSettled
  <2> DEFINE q == d.subdev # "remote" \/ t.hw # "vme"
  <2>5. ~q
    BY <1>3, <2>3
  <2> HIDE DEF t, again, o
  <2>6. Refused(<< <<q, ENXIO>> >>) = IF q THEN ENXIO ELSE 0
    BY RefusedOne
  <2>7. Timeouts(t, d, rq, again) = Ok(t, d, <<TimerValue(t.berr)>>, "remote")
    BY <2>2, <2>4, <2>5, <2>6 DEF Timeouts, Checked
  <2>8. Settled(o, Timeouts(o.sc, o.fd, rq, again))
    BY <2>1, <2>7 DEF Settled, Ok
  <2> QED  BY <2>8 DEF o, again
<1>4. CASE ~p /\ ~(w.err = 0 \/ w.moved > 0)
  <2>1. o = Err(s, d, EIO)
    BY <1>1, <1>4 DEF Timeouts, Checked, NewTimer
  <2> QED  BY <2>1, ErrSame
<1> QED  BY <1>2, <1>3, <1>4

\* The setters by the entry that is used, but for SETVMESPACE.
Setter(s, d, rq, w) ==
    CASE rq.cmd = "MINDMALEN" -> MinDmaLen(s, d, rq)
      [] rq.cmd = "MINPIPELEN" -> MinPipeLen(s, d, rq)
      [] rq.cmd = "FIFOMODE" -> FifoMode(s, d, rq)
      [] rq.cmd = "SWAP" -> Swap(s, d, rq)
      [] rq.cmd = "TESTFLAGS" -> TestFlags(s, d, rq)
      [] rq.cmd = "TIMEOUTS" -> Timeouts(s, d, rq, w)

\* The call without the copies of its entry.
Inner(entry, s, d, rq, w) ==
    IF entry = "compat" THEN Dispatch32(s, d, rq, w) ELSE Dispatch(s, d, rq, w)

\* ...
LEMMA SetterAlike ==
    ASSUME NEW entry, NEW s, NEW d, NEW rq, Sane(rq), NEW w, rq.cmd = "SWAP" => rq.a >= 0,
           rq.cmd \in Setters \ {"SETVMESPACE"}
    PROVE  Inner(entry, s, d, rq, w) = Setter(s, d, rq, w)
<1> USE DEF Setter
<1>1. CASE rq.cmd = "MINDMALEN"
  BY <1>1, SettingsAlike DEF Inner, Dispatch, Dispatch32, Words, Locals,
                           Others, Infos, Unknown32
<1>2. CASE rq.cmd = "MINPIPELEN"
  BY <1>2 DEF Inner, Dispatch, Dispatch32, Words, Locals,
                           Others, Infos, Unknown32
<1>3. CASE rq.cmd = "FIFOMODE"
  BY <1>3, SettingsAlike DEF Inner, Dispatch, Dispatch32, Words, Locals,
                           Others, Infos, Unknown32
<1>4. CASE rq.cmd = "SWAP"
  BY <1>4, SettingsAlike DEF Inner, Dispatch, Dispatch32, Words, Locals,
                           Others, Infos, Unknown32
<1>5. CASE rq.cmd = "TESTFLAGS"
  BY <1>5 DEF Inner, Dispatch, Dispatch32, Words, Locals,
                           Others, Infos, Unknown32
<1>6. CASE rq.cmd = "TIMEOUTS"
  BY <1>6, SettingsAlike DEF Inner, Dispatch, Dispatch32, Words, Locals,
                           Others, Infos, Unknown32
<1> QED  BY <1>1, <1>2, <1>3, <1>4, <1>5, <1>6 DEF Setters

\* A setter that has changed something can be called again.
LEMMA SetterRetry ==
    ASSUME NEW s \in Cards, NEW d \in OpenFiles, NEW rq, Sane(rq), NEW w \in Replies,
           rq.cmd \in Setters \ {"SETVMESPACE"}
    PROVE  LET o == Setter(s, d, rq, w)
               u == Setter(o.sc, o.fd, rq, SameCallAgain(w))
           IN Same(o, s, d) \/ Settled(o, u)
<1> USE DEF Setter
<1>1. CASE rq.cmd = "MINDMALEN"
  <2>1. MinDmaLen(s, d, rq).sc = s
    BY DEF MinDmaLen, Ok
  <2> QED  BY <1>1, <2>1, FileSettled
<1>2. CASE rq.cmd = "MINPIPELEN"
  <2>1. MinPipeLen(s, d, rq).sc = s
    BY DEF MinPipeLen, Ok
  <2> QED  BY <1>2, <2>1, FileSettled
<1>3. CASE rq.cmd = "FIFOMODE"
  <2>1. FifoMode(s, d, rq).sc = s
    BY DEF FifoMode, Ok
  <2> QED  BY <1>3, <2>1, FileSettled
<1>4. CASE rq.cmd = "SWAP"       BY <1>4, CardSettled
<1>5. CASE rq.cmd = "TESTFLAGS"  BY <1>5, CardSettled
<1>6. CASE rq.cmd = "TIMEOUTS"   BY <1>6, TimeoutsRetry
<1> QED  BY <1>1, <1>2, <1>3, <1>4, <1>5, <1>6 DEF Setters

\* SETVMESPACE fails without an effect: nothing is copied back after it.
LEMMA SpaceSame ==
    ASSUME NEW entry, NEW s, NEW d, NEW rq, Sane(rq), rq.cmd = "SETVMESPACE", NEW w
    PROVE  LET o == Inner(entry, s, d, rq, w) IN o.res # 0 => Same(o, s, d)
<1> DEFINE o == SetVmeSpace(s, d, rq)
<1>1. Inner(entry, s, d, rq, w) = o
  BY SettingsAlike DEF Inner, Dispatch, Dispatch32, Words, Locals, Others, Infos, Unknown32
<1>2. o.res # 0 => o = Err(s, d, EINVAL)
  BY DEF SetVmeSpace, Ok
<1> HIDE DEF o
<1> QED  BY <1>1, <1>2, ErrSame

\* An ioctl by either entry.
LEMMA IoctlRetry ==
    ASSUME NEW entry, NEW s \in Cards, NEW d \in OpenFiles, NEW rq, Sane(rq),
           rq.cmd = "SWAP" => rq.a >= 0, NEW w \in Replies,
           Handle(entry, s, d, rq, w).res # 0
    PROVE  LET o == Handle(entry, s, d, rq, w)
               u == Handle(entry, o.sc, o.fd, rq, SameCallAgain(w))
           IN Same(o, s, d) \/ Settled(o, u)
<1> DEFINE i == Inner(entry, s, d, rq, w)
           o == Handle(entry, s, d, rq, w)
           again == SameCallAgain(w)
<1>1. o = Entry(s, d, rq, w, i)
  BY DEF Handle, Native, Compat, Inner
<1>2. again.mem = "fine"
  BY DEF SameCallAgain, Replies
<1>3. \A x, y : Handle(entry, x, y, rq, again) = Inner(entry, x, y, rq, again)
  BY <1>2, GoodHandle DEF Inner
<1>4. CASE o = Err(s, d, EFAULT)
  BY <1>4, ErrSame
<1>9. Answer(i)
  BY DispatchTidy, Dispatch32Tidy DEF Inner, Tidy
<1>5. ASSUME o # Err(s, d, EFAULT)
      PROVE  /\ o.sc = i.sc /\ o.fd = i.fd /\ o.upd = i.upd
             /\ i.res # 0 \/ rq.cmd \notin Silent
  <2> HIDE DEF o, i
  <2>1. CASE o = i
    <3>1. o.res # 0
      BY DEF o
    <3> QED  BY <2>1, <3>1
  <2>2. CASE rq.cmd \notin Silent /\ o = [i EXCEPT !.res = EFAULT, !.out = <<>>]
    BY <2>2, <1>9, LateForm
  <2> QED  BY <1>1, <1>5, <2>1, <2>2 DEF Entry
<1>6. CASE o # Err(s, d, EFAULT) /\ rq.cmd \notin Setters
  <2>1. Same(i, s, d)
    BY <1>6, OthersSame, OthersSame32 DEF Inner
  <2> HIDE DEF o, i
  <2>2. Same(o, s, d)
    BY <1>5, <1>6, <2>1 DEF Same
  <2> QED  BY <2>2 DEF o
<1>7. CASE o # Err(s, d, EFAULT) /\ rq.cmd = "SETVMESPACE"
  <2>1. i.res # 0 => Same(i, s, d)
    BY <1>7, SpaceSame
  <2> HIDE DEF o, i
  <2>2. Same(o, s, d)
    BY <1>5, <1>7, <2>1 DEF Same, Silent
  <2> QED  BY <2>2 DEF o
<1>8. CASE o # Err(s, d, EFAULT) /\ rq.cmd \in Setters \ {"SETVMESPACE"}
  <2>1. \A x, y, z : Inner(entry, x, y, rq, z) = Setter(x, y, rq, z)
    BY <1>8, SetterAlike
  <2>2. Same(i, s, d) \/ Settled(i, Inner(entry, i.sc, i.fd, rq, again))
    BY <1>8, <2>1, SetterRetry
  <2> HIDE DEF o, i, again
  <2>3. Same(o, s, d) \/ Settled(o, Handle(entry, o.sc, o.fd, rq, again))
    BY <1>3, <1>5, <1>8, <2>2 DEF Same, Settled
  <2> QED  BY <2>3 DEF o, again
<1> QED  BY <1>4, <1>6, <1>7, <1>8

\* A failed read or write has changed nothing but the error the file remembers.
LEMMA MoveRetry ==
    ASSUME NEW s, NEW d \in OpenFiles, NEW n, NEW b
    PROVE  LET o == Move(s, d, n, b) IN
           o.res # 0 => o.sc = s /\ ~o.upd /\ o.fd = [d EXCEPT !.err = o.fd.err]
<1> DEFINE m == Told(d, b)
           e == [m EXCEPT !.pos = @ + b.num * WordSize(d)]
           g == IF b.res # 0 THEN Err(s, m, b.res)
                ELSE Ok(s, e, <<b.num * WordSize(d)>>, BlockTouch(b))
           c == << <<n % WordSize(d) # 0, EINVAL>> >>
           o == Move(s, d, n, b)
<1>1. o = Checked(s, d, c, g)
  BY DEF Move
<1>2. m = [d EXCEPT !.err = m.err] /\ d = [d EXCEPT !.err = d.err]
  BY DEF Told, OpenFiles
<1> HIDE DEF m, c
<1>3. o \in {Err(s, d, Refused(c)), Err(s, m, b.res),
             Ok(s, e, <<b.num * WordSize(d)>>, BlockTouch(b))}
  BY <1>1 DEF Checked
<1> HIDE DEF o, e
<1>4. o.res # 0 => o.sc = s /\ ~o.upd /\ o.fd \in {d, m}
  BY <1>3 DEF Err, Ok
<1> QED  BY <1>2, <1>4 DEF o

\* The same of the interrupt records and of read and write as a whole.
LEMMA ReadWriteRetry ==
    ASSUME NEW s, NEW d \in OpenFiles, NEW n, NEW w,
           d.subdev \in {"remote", "ram", "ctrl", "dsp"}
    PROVE  \A o \in {Read(s, d, n, w), Write(s, d, n, w)} :
               o.res # 0 => o.sc = s /\ ~o.upd /\ o.fd = [d EXCEPT !.err = o.fd.err]
<1> DEFINE P(o) == o.res # 0 => o.sc = s /\ ~o.upd /\ o.fd = [d EXCEPT !.err = o.fd.err]
<1>1. \A b : P(Move(s, d, n, b))
  BY MoveRetry
<1>2. \A e : P(Err(s, d, e))
  BY DEF Err, Ok, OpenFiles
<1>3. \A t, f, out, touch : P(Ok(t, f, out, touch))
  BY DEF Ok
<1> HIDE DEF P
<1>4. P(ReadIrqData(s, d, n, w)) /\ P(WriteIrq(s, d, n, w))
  BY <1>2, <1>3 DEF ReadIrqData, WriteIrq, Checked
<1>5. P(Read(s, d, n, w))
  BY <1>1, <1>2, <1>4 DEF Read
<1>6. P(Write(s, d, n, w))
  BY <1>1, <1>4 DEF Write
<1> QED  BY <1>5, <1>6 DEF P

\* A failed call can be made again, by either entry, in every state that calls lead
\* to and whatever hardware and memory have answered: it has changed nothing, or the
\* same call succeeds and changes no more; read and write leave all but the error
\* they report as it was.
THEOREM RetryCorrect == Spec => []RetryIsSafe
<1>1. CallsType /\ [Next]_vars => CallsType'
  BY TypeStep
<1>2. CallsType => RetryIsSafe
  <2> SUFFICES ASSUME CallsType, NEW f \in Files
               PROVE  /\ \A entry \in Entries : \A x \in Asked :
                            LET o == Handle(entry, sc, fd[f], x[1], x[2])
                                u == Handle(entry, o.sc, o.fd, x[1], SameCallAgain(x[2]))
                            IN o.res # 0 => Same(o, sc, fd[f]) \/ Settled(o, u)
                      /\ \A n \in Bytes, w \in BlockAnswers :
                            \A o \in {Read(sc, fd[f], n, w), Write(sc, fd[f], n, w)} :
                                o.res # 0 => /\ o.sc = sc /\ ~o.upd
                                             /\ o.fd = [fd[f] EXCEPT !.err = o.fd.err]
    BY DEF RetryIsSafe, Same, Settled
  <2>1. sc \in Cards /\ fd[f] \in OpenFiles
    BY DEF CallsType
  <2>2. fd[f].subdev \in {"remote", "ram", "ctrl", "dsp"}
    BY <2>1, CallsAssumption DEF OpenFiles
  <2>3. ASSUME NEW entry \in Entries, NEW x \in Asked
        PROVE  LET o == Handle(entry, sc, fd[f], x[1], x[2])
                   u == Handle(entry, o.sc, o.fd, x[1], SameCallAgain(x[2]))
               IN o.res # 0 => Same(o, sc, fd[f]) \/ Settled(o, u)
    BY <2>1, AskedForm, IoctlRetry
  <2> QED  BY <2>1, <2>2, <2>3, ReadWriteRetry
<1> QED  BY TypeInit, <1>1, <1>2, PTL DEF Spec
=============================================================================
