-------------------------------- MODULE Calls --------------------------------
(***************************************************************************)
(* The system calls of one card: ioctl by its native and its compat entry, *)
(* read, write, lseek and mmap, and what they do to the settings of a file *)
(* and of the card.  A handler is a function of the card, the file, the    *)
(* request and what the hardware and the user's memory answer; the DMA,    *)
(* the interrupts and the words on the link are modelled elsewhere.        *)
(***************************************************************************)
EXTENDS Integers, FiniteSets, Sequences

CONSTANTS
    Files,          \* open files
    Subdevs,        \* their subdevices: remote, ram, ctrl, dsp
    Remotes,        \* what may be at the other end of the link
    RamSize,        \* bytes of memory on a VME controller
    Limit,          \* stands for 0xffffffff, the end of the other devices
    Broken,         \* word sizes the card's DMA cannot write (sc->broken)
    Concurrent      \* whether calls overlap in sis1100_update_swapping

ASSUME CallsAssumption ==
    /\ Files # {} /\ IsFiniteSet(Files)
    /\ Subdevs \subseteq {"remote", "ram", "ctrl", "dsp"}
    /\ Remotes \subseteq {"pci", "vme", "camac", "lvd"}
    /\ RamSize \in Nat /\ Limit \in Nat /\ RamSize <= Limit /\ Broken \subseteq {1, 2}
    /\ Concurrent \in BOOLEAN

VARIABLES
    sc,     \* the card: remote_hw, remote_endian, user_wants_swap, the swap
            \* bits of its registers, ram_size, bus error timer, testflags
    fd,     \* the files: subdev, vmespace_am, _datasize, fifo_mode,
            \* mindmalen, minpipelen, last_prot_err, f_pos
    upd,    \* where a process is in sis1100_update_swapping
    link    \* what a process in sis1100_init_remote is going to set remote_hw to

vars == <<sc, fd, upd, link>>

Thread == "irq thread"
Processes == Files \cup {Thread}

EINTR == 4
EIO == 5
ENXIO == 6
EAGAIN == 11
ENOMEM == 12
EFAULT == 14
EBUSY == 16
EINVAL == 22
ENOTTY == 25
ERESTARTSYS == -512     \* as wait_event_interruptible gives it, with its sign

\* What a handler does: the card and the file after it, its result, what the
\* user gets back, what hardware it reaches, and whether it updates the swapping.
Ok(s, d, out, touch) == [sc |-> s, fd |-> d, res |-> 0, out |-> out,
                         touch |-> touch, upd |-> FALSE]
Err(s, d, e) == [Ok(s, d, <<>>, "none") EXCEPT !.res = e]
There(s) == s.hw # "invalid"

\* The checks of a handler in their order: the first that applies, or 0.
Refused(checks) ==
    LET hit == {i \in DOMAIN checks : checks[i][1]}
    IN IF hit = {} THEN 0 ELSE checks[CHOOSE i \in hit : \A j \in hit : i <= j][2]
Checked(s, d, checks, good) ==
    IF Refused(checks) # 0 THEN Err(s, d, Refused(checks)) ELSE good
Pick(arg, old) == IF arg >= 0 THEN arg ELSE old

-----------------------------------------------------------------------------
\* read_block and write_block: the way a block takes, the words reported, the
\* result, and what is stored as its protocol error, -1 if nothing is.  An answer
\* w holds the words really moved before the error w.err; what of the user's memory
\* fails (w.mem): the arguments, the block or list, its data, the arguments'
\* copy back; and what stops the transfer (w.stop): a DMA that is still active,
\* a signal, a lost synchronisation, no memory, a DMA that does not end.
NoBlock(e) == [res |-> e, num |-> 0, err |-> IF e = 0 THEN 0 ELSE -1, way |-> "none"]

Way(min, pipe, num, dma) ==
    IF min > 0 /\ num >= min /\ dma THEN "dma"
    ELSE IF pipe > 0 /\ num >= pipe THEN "pipe"
    ELSE IF num = 1 THEN "word" ELSE "loop"

Moved(num, w) == IF w.err = 0 \/ w.moved > num THEN num ELSE w.moved

BlockChecks(s, w) == << <<~There(s), ENXIO>>, <<w.mem = "bad", EFAULT>> >>

\* The error of an aborted DMA, or the remote side's; bit 0x200 says that the
\* transfer ended early, which is no failure.
DmaError(w) == CASE w.stop = "signal" -> 769 [] w.stop = "sync" -> 770 [] OTHER -> w.err
Early(e) == (e \div 512) % 2 = 1

\* After an abort the count is whatever it was before: w.moved stands for it.
ReadDma(size, num, w) ==
    IF w.stop = "busy" THEN NoBlock(EIO)
    ELSE [res |-> IF size = 4 /\ w.mem = "gone" /\ Moved(num, w) > 0 THEN EFAULT
                  ELSE IF w.stop = "signal" THEN ERESTARTSYS
                  ELSE IF DmaError(w) = 0 \/ Early(DmaError(w)) THEN 0 ELSE EIO,
          err |-> DmaError(w), way |-> "dma", num |-> Moved(num, w)]

\* The pipe tells nobody what error it met.
ReadPipe(size, num, w) ==
    [NoBlock(IF w.stop = "nomem" THEN ENOMEM
             ELSE IF size = 4 /\ w.mem = "gone" THEN EFAULT
             ELSE IF w.stop = "signal" THEN ERESTARTSYS ELSE 0)
     EXCEPT !.num = num, !.err = -1, !.way = "pipe"]

ReadBlock(s, d, size, num, w) ==
    LET way == Way(d.dmaR, d.pipeR, num, TRUE)
    IN IF num = 0 \/ Refused(BlockChecks(s, w)) # 0
       THEN NoBlock(IF num = 0 THEN 0 ELSE Refused(BlockChecks(s, w)))
       ELSE CASE way = "dma" -> ReadDma(size, num, w)
              [] way = "pipe" -> ReadPipe(size, num, w)
              [] OTHER -> [res |-> 0, err |-> w.err, way |-> way,
                           num |-> IF way = "loop" THEN Moved(num, w)
                                   ELSE IF w.err = 0 THEN 1 ELSE 0]

WriteDma(s, size, num, w) ==
    IF w.stop = "busy" THEN NoBlock(EIO)
    ELSE IF size = 4 /\ w.mem = "gone" THEN NoBlock(EFAULT)
    ELSE [res |-> IF w.stop \in {"signal", "sync", "stuck"} THEN EIO
                  ELSE IF w.err = 0 \/ Early(w.err) THEN 0 ELSE EIO,
          err |-> DmaError(w), way |-> "dma",
          num |-> IF w.err = 0 THEN num ELSE IF s.hw = "vme" THEN Moved(num, w) ELSE 0]

WriteBlock(s, d, size, num, w) ==
    LET way == Way(d.dmaW, 0, num, size \notin Broken)
    IN IF num = 0 \/ Refused(BlockChecks(s, w)) # 0
       THEN NoBlock(IF num = 0 THEN 0 ELSE Refused(BlockChecks(s, w)))
       ELSE IF way = "dma" THEN WriteDma(s, size, num, w)
       ELSE [res |-> 0, err |-> w.err, way |-> way,
             num |-> IF w.err = 0 THEN num ELSE 0]

BlockTouch(b) == IF b.way = "none" THEN "none" ELSE "remote"

-----------------------------------------------------------------------------
\* Registers of the card and of the remote side.  Their spaces are 16 and 8
\* bytes here; the upper half of the card's space is the remote side's.
CardRegs == 15
RemoteRegs == 7

CtrlReg(s, d, rq, w) ==
    IF d.subdev = "ctrl"
    THEN IF rq.a > CardRegs THEN Err(s, d, EINVAL) ELSE Ok(s, d, <<0>>, "ctrl")
    ELSE IF rq.a > RemoteRegs THEN Err(s, d, EINVAL) ELSE Ok(s, d, <<w.err>>, "ctrl")

\* b is fifo, m is count.  Width stands for 2^32: the end of the block wraps.
Width == 32
BlockRefused(rq, max) ==
    \/ rq.a % 4 # 0 \/ rq.a > max
    \/ rq.b = 0 /\ (rq.a + rq.m * 4) % Width > max

CtrlBlock(s, d, rq, w) ==
    IF d.subdev = "ctrl"
    THEN Checked(s, d, << <<BlockRefused(rq, CardRegs), EINVAL>> >>,
                 Ok(s, d, <<rq.m, 0>>, "ctrl"))
    ELSE Checked(s, d, << <<~There(s), ENXIO>>, <<BlockRefused(rq, RemoteRegs), EINVAL>> >>,
                 Ok(s, d, <<IF rq.cmd = "CTRL_READ_BLOCK" THEN Moved(rq.m, w)
                            ELSE IF w.err = 0 THEN rq.m ELSE 0, w.err>>, "remote"))

Plx(s, d) == Ok(s, d, <<0>>, "local")

Ident(s, d) == Ok(s, d, <<There(s)>>, "local")

\* The kind of the file, the card's number, the driver's version.
Info(s, d, rq) == Ok(s, d, <<IF rq.cmd = "DEVTYPE" THEN d.subdev ELSE rq.cmd>>, "none")

-----------------------------------------------------------------------------
\* The settings of a file and of the card.
MinDmaLen(s, d, rq) ==
    Ok(s, [d EXCEPT !.dmaR = Pick(rq.a, @), !.dmaW = Pick(rq.b, @)],
       <<d.dmaR, d.dmaW>>, "none")

MinPipeLen(s, d, rq) ==
    Ok(s, [d EXCEPT !.pipeR = Pick(rq.a, @), !.pipeW = Pick(rq.b, @)],
       <<d.pipeR, d.pipeW>>, "none")

\* a is datasize, b swap, m mindmalen
SetVmeSpace(s, d, rq) ==
    IF rq.a \notin {1, 2, 4} THEN Err(s, d, EINVAL)
    ELSE [Ok([s EXCEPT !.wants = Pick(rq.b, @)],
             [d EXCEPT !.am = rq.am, !.size = rq.a, !.dmaR = Pick(rq.m, @),
                       !.dmaW = Pick(rq.m, @)], <<>>, "none")
          EXCEPT !.upd = rq.b >= 0]

Swap(s, d, rq) ==
    [Ok([s EXCEPT !.wants = Pick(rq.a, @)], d, <<s.wants>>, "none")
     EXCEPT !.upd = rq.a >= 0]

\* Mutant: the old value of fifo_mode is read after it has been changed.
FifoModeReadsLate(s, d, rq) ==
    LET n == [d EXCEPT !.fifo = IF rq.a > 0 THEN 1 ELSE Pick(rq.a, @)]
    IN Ok(s, n, <<n.fifo>>, "none")

FifoMode(s, d, rq) ==
    Ok(s, [d EXCEPT !.fifo = IF rq.a > 0 THEN 1 ELSE Pick(rq.a, @)], <<d.fifo>>, "none")

TestFlags(s, d, rq) == Ok([s EXCEPT !.flags = rq.a], d, <<s.flags>>, "none")

LastError(s, d) == Ok(s, d, <<d.err>>, "none")

MapSize(s, d) ==
    Ok(s, d, <<CASE d.subdev = "ram" -> IF There(s) THEN s.ram ELSE 0
                 [] d.subdev = "dsp" -> 0
                 [] OTHER -> Limit>>, "none")

-----------------------------------------------------------------------------
\* The bus error timer of the VME controller, 0..3, for 1250, 6250, 12500 and
\* 100000 ns; below a microsecond stands for 1.
TimerValue(t) == CASE t = 0 -> 1 [] t = 1 -> 6 [] t = 2 -> 12 [] t = 3 -> 100

TimerFor(v) == Cardinality({t \in {1, 6, 12} : v > t})

\* The bits that are set are written back with the ones to set and to clear: a
\* bit that is in both is set or cleared.
Or2(x, y) == IF {x, y} = {1, 2} THEN 3 ELSE IF x > y THEN x ELSE y
SetTimeouts(t, v, w) == IF v < 0 THEN t
                        ELSE IF w.wins = "set" THEN Or2(t, TimerFor(v)) ELSE TimerFor(v)

\* A write that fails may have reached the register or not.
NewTimer(s, rq, w) ==
    IF w.err = 0 \/ w.moved > 0 THEN [s EXCEPT !.berr = SetTimeouts(@, rq.a, w)] ELSE s
Timeouts(s, d, rq, w) ==
    Checked(s, d, << <<d.subdev # "remote" \/ s.hw # "vme", ENXIO>> >>,
            IF w.err = 0
            THEN Ok(NewTimer(s, rq, w), d, <<TimerValue(s.berr)>>, "remote")
            ELSE Err(NewTimer(s, rq, w), d, EIO))

-----------------------------------------------------------------------------
\* Accesses to the remote side.
Lists(s, w) == << <<~There(s), ENXIO>>, <<w.stop = "nomem", ENOMEM>>,
                  <<w.mem = "bad", EFAULT>> >>
PipeChecks(s, w) == Lists(s, w) \o << <<w.mem = "gone", EFAULT>>,
                                     <<w.stop = "signal", ERESTARTSYS>> >>
Pipe(s, d, rq, w) ==
    Checked(s, d, PipeChecks(s, w), Ok(s, d, <<w.moved, w.err>>, "remote"))

WritePipe(s, d, rq, w) == Checked(s, d, Lists(s, w), Ok(s, d, <<w.err>>, "remote"))

VmeProbe(s, d, rq, w) ==
    Checked(s, d, << <<s.hw # "vme", ENXIO>>, <<w.err # 0, EIO>> >>, Ok(s, d, <<>>, "remote"))

VmeWord(s, d, rq, w) ==
    Checked(s, d, << <<~There(s), ENXIO>> >>,
            Ok(s, d, <<IF rq.cmd = "VME_WRITE_BLIND" THEN 0 ELSE w.err>>, "remote"))

BlockAnswer(s, d, b) ==
    Checked(s, d, << <<~There(s), ENXIO>>, <<b.res # 0, b.res>> >>,
            Ok(s, d, <<b.num, b.err>>, BlockTouch(b)))

\* m is num, a size.  An error of -1 comes back as the user passed it.
VmeBlockRead(s, d, rq, w) == BlockAnswer(s, d, ReadBlock(s, d, rq.a, rq.m, w))
VmeBlockWrite(s, d, rq, w) == BlockAnswer(s, d, WriteBlock(s, d, rq.a, rq.m, w))

\* a requests, of which w.moved are read before one fails; the call succeeds all
\* the same, says how many it has read, and hands the list back.
VmeSuperBlockRead(s, d, rq, w) ==
    Checked(s, d, Lists(s, w) \o << <<w.mem = "gone", EFAULT>> >>,
            Ok(s, d, IF w.stop # "no" /\ w.moved < rq.a THEN <<w.moved, w.stop>>
                     ELSE <<rq.a, 0>>, "remote"))

Camac(s, d, rq, w) ==
    Checked(s, d, << <<s.hw # "camac", ENXIO>> >>,
            Ok(s, d, IF rq.cmd = "CNAF" THEN <<w.err>> ELSE <<>>, "remote"))

\* Serial numbers and EEPROM, whose accesses may fail; JTAG, test calls and the
\* reset of the card, which do not (test_super always returns 0).
Local(s, d, rq, w) ==
    Checked(s, d, << <<rq.cmd \in {"SERIAL_NO", "EEPROM"} /\ w.stop = "busy", EIO>> >>,
            Ok(s, d, <<>>, "local"))

\* Calls whose work is modelled elsewhere: interrupts, demand DMA, DSP, front panel.
\* The error stands for theirs.
Elsewhere(s, d, rq, w) ==
    Checked(s, d, << <<w.stop = "busy", EIO>> >>, Ok(s, d, <<rq.cmd>>, "local"))

\* The card is initialised anew by InitRemote.
RemoteReset(s, d) == Ok(s, d, <<>>, "remote")

-----------------------------------------------------------------------------
\* _sis1100_ioctl.
Words == {"VME_READ", "VME_WRITE", "VME_WRITE_BLIND"}
Others == {"IRQ", "DEMAND_DMA", "DSP_LOAD", "DSP_READ", "FRONT_IO", "TRANSPARENT"}
Locals == {"SERIAL_NO", "EEPROM", "JTAG", "TESTACTION", "RESET"}
Infos == {"DEVTYPE", "CARD_IDX", "DRIVERVERSION"}

Dispatch(s, d, rq, w) ==
    CASE rq.cmd = "SETVMESPACE" -> SetVmeSpace(s, d, rq)
      [] rq.cmd = "VME_PROBE" -> VmeProbe(s, d, rq, w)
      [] rq.cmd \in Words -> VmeWord(s, d, rq, w)
      [] rq.cmd = "VME_BLOCK_READ" -> VmeBlockRead(s, d, rq, w)
      [] rq.cmd = "VME_BLOCK_WRITE" -> VmeBlockWrite(s, d, rq, w)
      [] rq.cmd \in {"CTRL_READ", "CTRL_WRITE"} -> CtrlReg(s, d, rq, w)
      [] rq.cmd \in {"CTRL_READ_BLOCK", "CTRL_WRITE_BLOCK"} -> CtrlBlock(s, d, rq, w)
      [] rq.cmd = "PIPE" -> Pipe(s, d, rq, w)
      [] rq.cmd = "MAPSIZE" -> MapSize(s, d)
      [] rq.cmd = "LAST_ERROR" -> LastError(s, d)
      [] rq.cmd = "IDENT" -> Ident(s, d)
      [] rq.cmd = "FIFOMODE" -> FifoMode(s, d, rq)
      [] rq.cmd = "MINDMALEN" -> MinDmaLen(s, d, rq)
      [] rq.cmd = "MINPIPELEN" -> MinPipeLen(s, d, rq)
      [] rq.cmd = "VME_SUPER_BLOCK_READ" -> VmeSuperBlockRead(s, d, rq, w)
      [] rq.cmd = "WRITE_PIPE" -> WritePipe(s, d, rq, w)
      [] rq.cmd \in {"CCCZ", "CCCC", "CCCI", "CNAF"} -> Camac(s, d, rq, w)
      [] rq.cmd = "SWAP" -> Swap(s, d, rq)
      [] rq.cmd = "TIMEOUTS" -> Timeouts(s, d, rq, w)
      [] rq.cmd \in Infos -> Info(s, d, rq)
      [] rq.cmd = "TESTFLAGS" -> TestFlags(s, d, rq)
      [] rq.cmd = "REMOTE_RESET" -> RemoteReset(s, d)
      [] rq.cmd = "PLX" -> Plx(s, d)
      [] rq.cmd \in Locals -> Local(s, d, rq, w)
      [] rq.cmd \in Others -> Elsewhere(s, d, rq, w)
      [] OTHER -> Err(s, d, ENOTTY)

-----------------------------------------------------------------------------
\* _sis1100_ioctl32: handlers of its own for the calls whose arguments have
\* another layout; everything else goes to _sis1100_ioctl.
SetVmeSpace32(s, d, rq) ==
    Checked(s, d, << <<rq.a \notin {1, 2, 4}, EINVAL>> >>,
            [Ok([s EXCEPT !.wants = Pick(rq.b, @)],
                [d EXCEPT !.am = rq.am, !.size = rq.a, !.dmaR = Pick(rq.m, @),
                          !.dmaW = Pick(rq.m, @)], <<>>, "none")
             EXCEPT !.upd = rq.b >= 0])

VmeWord32(s, d, rq, w) ==
    Checked(s, d, << <<~There(s), ENXIO>> >>,
            Ok(s, d, <<IF rq.cmd = "VME_WRITE_BLIND" THEN 0 ELSE w.err>>, "remote"))

\* num goes through a variable of its own and comes back whole.
VmeBlock32(s, d, rq, w) ==
    BlockAnswer(s, d, IF rq.cmd = "VME_BLOCK_READ" THEN ReadBlock(s, d, rq.a, rq.m, w)
                      ELSE WriteBlock(s, d, rq.a, rq.m, w))

CtrlReg32(s, d, rq, w) ==
    IF d.subdev = "ctrl"
    THEN Checked(s, d, << <<rq.a > CardRegs, EINVAL>> >>, Ok(s, d, <<0>>, "ctrl"))
    ELSE Checked(s, d, << <<rq.a > RemoteRegs, EINVAL>>, <<~There(s), ENXIO>> >>,
                 Ok(s, d, <<w.err>>, "ctrl"))

\* num does not come back.
Pipe32(s, d, rq, w) ==
    Checked(s, d, PipeChecks(s, w), Ok(s, d, <<rq.m, w.err>>, "remote"))

WritePipe32(s, d, rq, w) == Checked(s, d, Lists(s, w), Ok(s, d, <<w.err>>, "remote"))

FifoMode32(s, d, rq) ==
    Ok(s, [d EXCEPT !.fifo = IF rq.a < 0 THEN @ ELSE IF rq.a = 0 THEN 0 ELSE 1],
       <<d.fifo>>, "none")

\* Mutant: one of the two lengths is forgotten.
MinDmaLen32ReadOnly(s, d, rq) ==
    Ok(s, [d EXCEPT !.dmaR = Pick(rq.a, @)], <<d.dmaR, d.dmaW>>, "none")

MinDmaLen32(s, d, rq) ==
    Ok(s, [d EXCEPT !.dmaR = Pick(rq.a, @), !.dmaW = Pick(rq.b, @)],
       <<d.dmaR, d.dmaW>>, "none")

Ccci32(s, d, rq, w) == Checked(s, d, << <<s.hw # "camac", ENXIO>> >>, Ok(s, d, <<>>, "remote"))

\* Without a test for -1.
Swap32(s, d, rq) ==
    [Ok([s EXCEPT !.wants = rq.a], d, <<s.wants>>, "none") EXCEPT !.upd = TRUE]

Timeouts32(s, d, rq, w) ==
    Checked(s, d, << <<d.subdev # "remote" \/ s.hw # "vme", ENXIO>> >>,
            IF w.err = 0
            THEN Ok(NewTimer(s, rq, w), d, <<TimerValue(s.berr)>>, "remote")
            ELSE Err(NewTimer(s, rq, w), d, EIO))

Ident32(s, d) == Ok(s, d, <<There(s)>>, "local")
Info32(s, d, rq) ==
    Ok(s, d, <<IF rq.cmd = "DEVTYPE" THEN d.subdev ELSE "DRIVERVERSION">>, "none")
DmaAlloc32(s, d) == Err(s, d, ENOTTY)

\* ioctl32_dsp_read calls sis1100_dsp_load.
Elsewhere32(s, d, rq, w) ==
    Elsewhere(s, d, [rq EXCEPT !.cmd = IF @ = "DSP_READ" THEN "DSP_LOAD" ELSE @], w)

\* The arguments of these hold a pointer and have no 32 bit handler: their command
\* numbers hold another size, which _sis1100_ioctl does not know.
Unknown32 == {"CTRL_READ_BLOCK", "CTRL_WRITE_BLOCK", "VME_SUPER_BLOCK_READ"}

Dispatch32(s, d, rq, w) ==
    CASE rq.cmd = "SETVMESPACE" -> SetVmeSpace32(s, d, rq)
      [] rq.cmd \in Words -> VmeWord32(s, d, rq, w)
      [] rq.cmd \in {"VME_BLOCK_READ", "VME_BLOCK_WRITE"} -> VmeBlock32(s, d, rq, w)
      [] rq.cmd \in {"CTRL_READ", "CTRL_WRITE"} -> CtrlReg32(s, d, rq, w)
      [] rq.cmd = "PIPE" -> Pipe32(s, d, rq, w)
      [] rq.cmd = "WRITE_PIPE" -> WritePipe32(s, d, rq, w)
      [] rq.cmd = "FIFOMODE" -> FifoMode32(s, d, rq)
      [] rq.cmd = "MINDMALEN" -> MinDmaLen32(s, d, rq)
      [] rq.cmd = "CCCI" -> Ccci32(s, d, rq, w)
      [] rq.cmd = "SWAP" -> Swap32(s, d, rq)
      [] rq.cmd = "TIMEOUTS" -> Timeouts32(s, d, rq, w)
      [] rq.cmd = "IDENT" -> Ident32(s, d)
      [] rq.cmd \in {"DEVTYPE", "DRIVERVERSION"} -> Info32(s, d, rq)
      [] rq.cmd = "DMA_ALLOC" -> DmaAlloc32(s, d)
      [] rq.cmd \in {"DSP_LOAD", "DSP_READ", "DEMAND_DMA"} -> Elsewhere32(s, d, rq, w)
      [] rq.cmd \in Unknown32 -> Err(s, d, ENOTTY)
      [] OTHER -> Dispatch(s, d, rq, w)

\* sis1100_ioctl and sis1100_ioctl32: the arguments are copied in before the call
\* and back after it, as its number says; a group of calls counts as doing both.
Argless == {"MAPSIZE", "LAST_ERROR", "IDENT", "SERIAL_NO", "CCCZ", "CCCC", "RESET",
            "REMOTE_RESET"} \cup Infos
Silent == {"SETVMESPACE", "VME_PROBE", "CCCZ", "CCCC", "CCCI", "RESET", "REMOTE_RESET",
           "DSP_LOAD"}
Entry(s, d, rq, w, o) ==
    IF w.mem = "noarg" /\ rq.cmd \notin Argless THEN Err(s, d, EFAULT)
    ELSE IF w.mem = "late" /\ rq.cmd \notin Silent /\ o.res = 0
    THEN [o EXCEPT !.res = EFAULT, !.out = <<>>]
    ELSE o

Native(s, d, rq, w) == Entry(s, d, rq, w, Dispatch(s, d, rq, w))
Compat(s, d, rq, w) == Entry(s, d, rq, w, Dispatch32(s, d, rq, w))

-----------------------------------------------------------------------------
\* read, write, lseek and mmap.  n is a number of bytes; an interrupt record has
\* AckLen, CtlLen or GetLen bytes.
AckLen == 1
CtlLen == 2
GetLen == 2
WordSize(d) == IF d.subdev = "remote" THEN d.size ELSE 4

\* The error is stored where the block has been transferred, the call failing or not.
Told(d, b) == [d EXCEPT !.err = Pick(b.err, @)]

\* Mutant: the position moves by what was read or written before the call failed.
MoveAdvances(s, d, n, b) ==
    LET e == [Told(d, b) EXCEPT !.pos = @ + b.num * WordSize(d)]
    IN Checked(s, d, << <<n % WordSize(d) # 0, EINVAL>> >>,
               IF b.res # 0 THEN Err(s, e, b.res)
               ELSE Ok(s, e, <<b.num * WordSize(d)>>, BlockTouch(b)))

Move(s, d, n, b) ==
    Checked(s, d, << <<n % WordSize(d) # 0, EINVAL>> >>,
            IF b.res # 0 THEN Err(s, Told(d, b), b.res)
            ELSE Ok(s, [Told(d, b) EXCEPT !.pos = @ + b.num * WordSize(d)],
                    <<b.num * WordSize(d)>>, BlockTouch(b)))

\* w.stop: nothing pending for a file that does not block, a signal.
ReadIrqData(s, d, n, w) ==
    Checked(s, d, << <<n < GetLen, EINVAL>>, <<w.stop = "busy", EAGAIN>>,
                     <<w.stop = "signal", EINTR>>, <<w.mem = "gone", EFAULT>> >>,
            Ok(s, d, <<GetLen>>, "local"))

Read(s, d, n, w) ==
    CASE d.subdev \in {"ram", "remote"} ->
           Move(s, d, n, ReadBlock(s, d, WordSize(d), n \div WordSize(d), w))
      [] d.subdev = "ctrl" -> ReadIrqData(s, d, n, w)
      [] d.subdev = "dsp" -> Err(s, d, ENOTTY)      \* transparent mode is off

\* The position counts what is written to ctrl too.  A copy that fails comes back
\* with the wrong sign; an interrupt may be another file's.
WriteIrq(s, d, n, w) ==
    Checked(s, d, << <<n < AckLen, EINVAL>>, <<n > AckLen /\ n < CtlLen, EINVAL>>,
                     <<w.mem = "gone", -EFAULT>>, <<w.stop = "busy", EBUSY>> >>,
            Ok(s, [d EXCEPT !.pos = @ + n], <<n>>, "local"))

Write(s, d, n, w) ==
    IF d.subdev = "ctrl" THEN WriteIrq(s, d, n, w)
    ELSE Move(s, d, n, WriteBlock(s, d, WordSize(d), n \div WordSize(d), w))

SeekBase(s, d, whence) ==
    CASE whence = "SET" -> 0
      [] whence = "CUR" -> d.pos
      [] whence = "END" -> IF There(s) THEN s.ram ELSE 0
SeekLimit(s, d) == IF d.subdev = "ram" THEN s.ram ELSE Limit

\* Mutant: only positions before the start are refused.
LseekUnlimited(s, d, off, whence) ==
    Checked(s, d, << <<whence = "END" /\ d.subdev # "ram", EINVAL>>,
                     <<SeekBase(s, d, whence) + off < 0, EINVAL>> >>,
            Ok(s, [d EXCEPT !.pos = SeekBase(s, d, whence) + off],
               <<SeekBase(s, d, whence) + off>>, "none"))

Lseek(s, d, off, whence) ==
    Checked(s, d, << <<whence = "END" /\ d.subdev # "ram", EINVAL>>,
                     <<SeekBase(s, d, whence) + off \notin 0 .. SeekLimit(s, d), EINVAL>> >>,
            Ok(s, [d EXCEPT !.pos = SeekBase(s, d, whence) + off],
               <<SeekBase(s, d, whence) + off>>, "none"))

PageSize == 4
Mappable(d) == IF d.subdev \in {"remote", "ctrl"} THEN Limit ELSE 0
Mmap(s, d, off, len) ==
    Checked(s, d, << <<off + len > ((Mappable(d) + PageSize - 1) \div PageSize) * PageSize,
                       EINVAL>> >>, Ok(s, d, <<off>>, "none"))

-----------------------------------------------------------------------------
\* init_fd and the end of sis1100_init.
NewFile(subdev) == [subdev |-> subdev, am |-> 9, size |-> 4, fifo |-> 0, dmaR |-> 2,
                    dmaW |-> 2, pipeR |-> 0, pipeW |-> 0, err |-> 0, pos |-> 0]

Init ==
    /\ fd \in [Files -> {NewFile(x) : x \in Subdevs}]
    /\ sc = [hw |-> "invalid", endian |-> 1, wants |-> 0, swap |-> 1, ram |-> 0, berr |-> 0,
              flags |-> 0]
    /\ upd = [p \in Processes |-> "no"]
    /\ link = [p \in Processes |-> "invalid"]

\* A process in sis1100_update_swapping does nothing else; another one that
\* would update it waits only if calls do not overlap.
CanCall(p, updates) ==
    /\ upd[p] = "no"
    /\ updates /\ ~Concurrent => \A q \in Processes : upd[q] = "no"

Do(f, o) ==
    /\ CanCall(f, o.upd)
    /\ sc' = o.sc /\ fd' = [fd EXCEPT ![f] = o.fd]
    /\ upd' = [upd EXCEPT ![f] = IF o.upd THEN "read" ELSE "no"]
    /\ UNCHANGED link

\* sis1100_update_swapping reads what the register should be, and writes it.
Differs(s) == (s.endian = 1) # (s.wants # 0)
UpdateSwapping(p) ==
    /\ upd[p] = "read"
    /\ upd' = [upd EXCEPT ![p] = IF Differs(sc) THEN "swap" ELSE "keep"]
    /\ UNCHANGED <<sc, fd, link>>

\* sis1100_init_remote stores remote_hw after it.
SetSwapping(p) ==
    /\ upd[p] \in {"swap", "keep"}
    /\ sc' = [sc EXCEPT !.swap = IF upd[p] = "swap" THEN 1 ELSE 0,
                        !.hw = IF link[p] # "invalid" THEN link[p] ELSE @]
    /\ upd' = [upd EXCEPT ![p] = "no"]
    /\ link' = [link EXCEPT ![p] = "invalid"]
    /\ UNCHANGED fd

LinkDown ==
    /\ There(sc)
    /\ sc' = [sc EXCEPT !.hw = "invalid"]
    /\ UNCHANGED <<fd, upd, link>>

\* The irq thread initialises a remote side that is not there, a process with
\* SIS1100_REMOTE_RESET any; sem_hw lets in one at a time.
CanInit(p, h) ==
    /\ CanCall(p, TRUE) /\ \A q \in Processes : link[q] = "invalid"
    /\ There(sc) => p # Thread /\ h = sc.hw

\* Mutant: the byte order of the other kinds is not looked at.
InitRemoteBigEndian(p, h) ==
    /\ CanInit(p, h)
    /\ link' = [link EXCEPT ![p] = h]
    /\ sc' = [sc EXCEPT !.endian = 1, !.ram = IF h = "vme" THEN RamSize ELSE 0]
    /\ upd' = [upd EXCEPT ![p] = "keep"]
    /\ UNCHANGED fd

\* sis1100_init_remote with a remote side that answers.
InitRemote(p, h) ==
    /\ CanInit(p, h)
    /\ link' = [link EXCEPT ![p] = h]
    /\ sc' = [sc EXCEPT !.endian = IF h = "lvd" THEN 0 ELSE 1,
                        !.ram = IF h = "vme" THEN RamSize ELSE 0]
    /\ upd' = [upd EXCEPT ![p] = "read"]
    /\ UNCHANGED fd

-----------------------------------------------------------------------------
\* What is asked for, and what the hardware and the user's memory answer.
R(cmd, a, b, m) == [cmd |-> cmd, a |-> a, b |-> b, m |-> m, am |-> 9]
Length == {-1, 0, 2}
Settings ==
    {R("MINDMALEN", a, b, 0) : a \in Length, b \in Length} \cup
    {R("MINPIPELEN", a, -1, 0) : a \in Length} \cup
    {R("FIFOMODE", a, 0, 0) : a \in {-1, 0, 5}} \cup
    {R("SWAP", a, 0, 0) : a \in {-1, 0, 1}} \cup
    {R("TESTFLAGS", a, 0, 0) : a \in {0, 1}}
Spaces == {[R("SETVMESPACE", a, b, m) EXCEPT !.am = IF a = 1 THEN -1 ELSE 9] :
               a \in {1, 3, 4}, b \in {-1, 1}, m \in {-1, 0}}
Timers == {R("TIMEOUTS", a, 0, 0) : a \in {-1, 8}}
Transfers ==
    {R("VME_BLOCK_READ", 4, 0, num) : num \in 0 .. 2} \cup
    {R("VME_BLOCK_WRITE", size, 0, num) : size \in {1, 4}, num \in 1 .. 2} \cup
    {R("VME_SUPER_BLOCK_READ", 2, 0, 0), R("PIPE", 0, 0, 0), R("WRITE_PIPE", 0, 0, 0)}
Singles ==
    {R("CTRL_READ_BLOCK", a, b, 2) : a \in {0, 2, 8}, b \in {0, 1}} \cup
    {R("CTRL_READ_BLOCK", 0, 0, 8), R("CTRL_WRITE_BLOCK", 4, 0, 1)} \cup
    {R(c, a, 0, 0) : c \in {"CTRL_READ", "CTRL_WRITE"}, a \in {0, 8, 16}} \cup
    {R(c, 0, 0, 0) : c \in Words \cup Locals \cup Others \cup {"VME_PROBE", "CCCI", "CNAF"}}
Quiet == {R(c, 0, 0, 0) : c \in Infos \cup {"MAPSIZE", "LAST_ERROR", "IDENT", "PLX",
                                            "DMA_ALLOC", "REMOTE_RESET"}}

W(err, moved, mem, stop, wins) ==
    [err |-> err, moved |-> moved, mem |-> mem, stop |-> stop, wins |-> wins]
Good == W(0, 1, "fine", "no", "set")
Copies == {[Good EXCEPT !.mem = m] : m \in {"fine", "noarg", "late"}}
WordAnswers == Copies \cup {W(3, 1, "fine", "no", "set"), [Good EXCEPT !.stop = "busy"]}
BlockAnswers ==
    WordAnswers \cup {W(3, 0, "fine", "no", "set"), W(513, 1, "fine", "no", "set")}
    \cup {[Good EXCEPT !.mem = m] : m \in {"bad", "gone"}}
    \cup {[Good EXCEPT !.stop = x] : x \in {"signal", "sync", "nomem", "stuck"}}
TimerAnswers ==
    Copies \cup {W(0, 1, "fine", "no", "clear")}
    \cup {W(3, m, "fine", "no", "set") : m \in {0, 1}}

\* The ioctls that may change something, and the others.  A compat SWAP below 0
\* is left out, see Swap32.
Changes == (Settings \cup Spaces) \X Copies \cup Timers \X TimerAnswers
Changes32 == {x \in Changes : x[1] # R("SWAP", -1, 0, 0)}
Answers == Transfers \X BlockAnswers \cup Singles \X WordAnswers \cup Quiet \X Copies
Asked == Changes32 \cup Answers
Handle(entry, s, d, rq, w) == IF entry = "compat" THEN Compat(s, d, rq, w)
                              ELSE Native(s, d, rq, w)
Entries == {"native", "compat"}
Bytes == {0, 3, 4}
StepBytes == {0, 4}
StepAnswers == {Good, W(3, 1, "fine", "no", "set")}
Steps == {x \in Changes : x[1].cmd = "MINDMALEN" => x[1].a = x[1].b}
Steps32 == Steps \cap Changes32

\* The calls on a file; the position is bounded by Limit.
Ioctl(f) ==
    \/ \E x \in Steps : Do(f, Native(sc, fd[f], x[1], x[2]))
    \/ \E x \in Steps32 : Do(f, Compat(sc, fd[f], x[1], x[2]))
ReadFile(f) == \E n \in StepBytes, w \in StepAnswers :
                   fd[f].pos + n <= Limit /\ Do(f, Read(sc, fd[f], n, w))
WriteFile(f) == \E n \in StepBytes, w \in StepAnswers :
                    fd[f].pos + n <= Limit /\ Do(f, Write(sc, fd[f], n, w))
LseekFile(f) == \E off \in {-4, 0, 4}, whence \in {"SET", "CUR", "END"} :
                    Do(f, Lseek(sc, fd[f], off, whence))
MmapFile(f) == \E off \in {0, 4}, len \in {4, 8} : Do(f, Mmap(sc, fd[f], off, len))

Next ==
    \/ \E f \in Files : Ioctl(f) \/ ReadFile(f) \/ WriteFile(f) \/ LseekFile(f) \/ MmapFile(f)
    \/ \E p \in Processes : UpdateSwapping(p) \/ SetSwapping(p)
    \/ LinkDown
    \/ \E p \in Processes, h \in Remotes : InitRemote(p, h)
Spec == Init /\ [][Next]_vars

-----------------------------------------------------------------------------
TypeOK ==
    /\ sc.hw \in Remotes \cup {"invalid"} /\ link \in [Processes -> Remotes \cup {"invalid"}]
    /\ sc.endian \in {0, 1} /\ sc.swap \in {0, 1} /\ sc.wants \in {0, 1}
    /\ sc.ram \in {0, RamSize} /\ sc.berr \in 0 .. 3
    /\ \A f \in Files : /\ fd[f].size \in {1, 2, 4} /\ fd[f].fifo \in {0, 1}
                        /\ fd[f].pos \in 0 .. Limit /\ fd[f].subdev \in Subdevs
                        /\ {fd[f].dmaR, fd[f].dmaW, fd[f].pipeR, fd[f].pipeW} \subseteq Nat

Quiescent == \A p \in Processes : upd[p] = "no"

\* With a remote side there and no update under way, the card swaps words exactly
\* when the byte orders differ or the user wants it, not both: the comments of
\* sis1100_update_swapping and doc/ioctl.txt, SIS1100_SWAP.
SwapSettles ==
    There(sc) /\ Quiescent => (sc.swap = 1) = Differs(sc)

\* A 32 bit program gets the same effect and the same answer as a 64 bit one,
\* except where the code treats it differently: the number of a pipelined read
\* does not come back, a register of a remote side that is not there is refused,
\* DSP_READ loads, and three calls are unknown (_sis1100_ioctl32).
Unlike32(s, rq) ==
    \/ rq.cmd \in Unknown32 \cup {"PIPE", "DSP_READ"}
    \/ rq.cmd \in {"CTRL_READ", "CTRL_WRITE"} /\ ~There(s)
SameAnswer ==
    Quiescent => \A f \in Files : \A x \in Asked :
        Unlike32(sc, x[1]) \/ Compat(sc, fd[f], x[1], x[2]) = Native(sc, fd[f], x[1], x[2])

\* A call that reports an error can be made again: it has changed nothing, or all
\* that it was asked for, its answer being lost (sis1100_ioctl copies it back after
\* the call), and then the same call succeeds and changes no more.  read and write
\* leave the position where it was and the settings alone, and only say in
\* last_prot_err what has happened.
SameCallAgain(w) == [w EXCEPT !.mem = "fine", !.err = 0]
RetryIsSafe ==
    Quiescent => \A f \in Files :
        /\ \A entry \in Entries : \A x \in Asked :
               LET o == Handle(entry, sc, fd[f], x[1], x[2])
                   u == Handle(entry, o.sc, o.fd, x[1], SameCallAgain(x[2]))
               IN o.res # 0 => \/ o.sc = sc /\ o.fd = fd[f] /\ ~o.upd
                               \/ u.res = 0 /\ u.sc = o.sc /\ u.fd = o.fd
        /\ \A n \in Bytes, w \in BlockAnswers :
               \A o \in {Read(sc, fd[f], n, w), Write(sc, fd[f], n, w)} :
                   o.res # 0 => /\ o.sc = sc /\ ~o.upd
                                /\ o.fd = [fd[f] EXCEPT !.err = o.fd.err]

\* The old values that a call returns, given back to it, undo the call
\* ("the old values are returned", ioctl_mindmalen and the like).
Restores ==
    Quiescent => \A f \in Files, entry \in Entries, rq \in Settings :
        (entry = "compat" /\ rq.cmd = "SWAP" => rq.a >= 0) =>
        LET o == Handle(entry, sc, fd[f], rq, Good)
            back == [rq EXCEPT !.a = o.out[1], !.b = o.out[Len(o.out)]]
            u == Handle(entry, o.sc, o.fd, back, Good)
        IN u.fd = fd[f] /\ u.sc = sc

=============================================================================
