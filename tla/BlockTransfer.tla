---------------------------- MODULE BlockTransfer ----------------------------
(***************************************************************************)
(* DMA transfers of blocks: the chunk loops of sis1100_read_dma and        *)
(* sis1100_write_dma with _sis1100_read_dma and _sis1100_write_dma, the    *)
(* branches of sis1100_intr they wait for, and the link that may go away.  *)
(* One call at a time holds sem_hw; pc places it.  The card, the remote    *)
(* side and the link are external.  Counts are words, addresses bytes.     *)
(***************************************************************************)
EXTENDS Integers, FiniteSets

CONSTANTS
    Requests,   \* number of words, address and bytes of a word
    MaxChunk,   \* DMA_MAX/4
    Boundary,   \* 2 GiB: half of the remote address space
    Faults      \* what may happen, see below

\* kill:  a fatal signal            down:  the link goes down or up
\* stuck: the channel cannot be stopped
\* armed: the handler serves a link change between the two halves of
\*        write_dma's preparation   late: a handler or the remote side's answer
\*        outlives a call
\* masked: with a link change the handler serves an error left from before,
\*        whose interrupt is disabled, while read_dma enables it
\* hook:  a demand DMA is blocked, and its hook takes the interrupts of channel 0
ASSUME ConstAssumption ==
    /\ {MaxChunk, Boundary} \subseteq Nat \ {0}
    /\ Requests \subseteq [words : Nat \ {0}, addr : 0 .. 2 * Boundary - 1, size : {1, 2, 4}]
    /\ Faults \subseteq {"kill", "down", "stuck", "armed", "late", "masked", "hook"}

VARIABLES
    pc, call,        \* the call that holds sem_hw: place and local variables
    got, cr, sr,     \* sc->got_irqs; enabled and latched interrupts of the card
    dmaEn, done,     \* plxirq_dma0 in INTCSR; the channel's done interrupt
    chan,            \* PLX channel 0
    quota, bc, reg,  \* words to come; d0_bc or dma_write_counter; prot_error
    isnap, iup,      \* what a running interrupt handler has read ({}: none runs)
    up, remote,      \* the link; sc->remote_hw is valid
    timer,           \* link_up_timer and the irq thread it wakes
    moved, short, cut \* history of the call: words moved, ended early, link lost

vars == <<pc, call, got, cr, sr, dmaEn, done, chan, quota, bc, reg, isnap, iup,
          up, remote, timer, moved, short, cut>>
card == <<cr, sr, dmaEn, done, chan, quota, bc, reg>>
intr == <<isnap, iup, up, remote, timer>>
history == <<moved, short, cut>>

Unset == -1          \* an int the code has not written yet
AbortCode == {"aborted"} \X SUBSET {"kill", "sync"}  \* 0x300|1|2
None == <<"none", {}>>
BusError == <<"bus", {}>>  \* 0x2xx: fewer words than asked
HardError == <<"hard", {}>>
LeSynch == <<"le_synch", {}>>
Errors == {None, BusError, HardError, LeSynch} \cup AbortCode

NoCall == [kind |-> "none", asked |-> 0, left |-> 0, addr |-> 0, size |-> 1, chunk |-> 0,
           cnt |-> Unset, more |-> FALSE, res |-> "ok", err |-> None,
           vme |-> TRUE, fifo |-> FALSE, stuck |-> FALSE]
Smaller(a, b) == IF a < b THEN a ELSE b

Init ==
    /\ pc = "idle" /\ call = NoCall
    /\ got = {} /\ cr = {"sync"} /\ sr = {} /\ dmaEn = FALSE /\ done = FALSE
    /\ chan = "idle" /\ quota = 0 /\ bc = 0 /\ reg = None
    /\ isnap = {} /\ iup = FALSE /\ up = TRUE /\ remote = TRUE /\ timer = "off"
    /\ moved = 0 /\ short = FALSE /\ cut = FALSE
-----------------------------------------------------------------------------
(* The remote side and the link (external).  quota counts the words that   *)
(* are still to move for the request; the channel ends with the last.      *)
EndOfRequest(irqs) == quota' = 0 /\ sr' = sr \cup irqs

RemoteWord ==
    /\ up /\ quota > 0 /\ bc' = bc + 1 /\ moved' = IF pc = "idle" THEN 0 ELSE moved + 1
    /\ IF quota > 1 THEN quota' = quota - 1 /\ UNCHANGED <<sr, chan, done>>
       ELSE EndOfRequest({"end"}) /\ chan' = "idle" /\ done' = TRUE
    /\ UNCHANGED <<pc, call, got, cr, dmaEn, reg, intr, short, cut>>

\* a bus error or another one; the channel may be left waiting for data
RemoteError ==
    /\ up /\ quota > 0 /\ reg' \in {BusError, HardError}
    /\ \/ EndOfRequest({"lerr"})
       \/ call.kind = "write" /\ EndOfRequest({"end"})
    /\ \/ chan' = "idle" /\ done' = TRUE
       \/ UNCHANGED <<chan, done>>
    /\ UNCHANGED <<pc, call, got, cr, dmaEn, bc, intr, history>>

\* the end of a block of unknown length (EOT) ends the channel
RemoteShort ==
    /\ up /\ quota > 0 /\ call.kind = "read" /\ EndOfRequest({"end"})
    /\ chan' = "idle" /\ done' = TRUE /\ short' = TRUE
    /\ UNCHANGED <<pc, call, got, cr, dmaEn, bc, reg, intr, moved, cut>>

LinkChange ==
    /\ "down" \in Faults /\ up' = ~up /\ sr' = sr \cup {"sync"}
    /\ quota' = 0 /\ cut' = (pc # "idle")
    /\ UNCHANGED <<pc, call, got, cr, dmaEn, done, chan, bc, reg, isnap, iup,
                   remote, timer, moved, short>>

\* A request on a link that is down is answered by the card itself.
Request(n) ==
    IF up THEN quota' = n /\ reg' = None /\ sr' = sr \ {"sync", "lerr", "end"}
    ELSE quota' = 0 /\ reg' = LeSynch /\ sr' = (sr \ {"sync", "end"}) \cup {"lerr"}
-----------------------------------------------------------------------------
(* sis1100_intr.  It reads INTCSR and sr, then acts on what it has read;   *)
(* sr shows disabled interrupts too.                                        *)
IntrEnter ==
    /\ isnap = {}
    /\ pc = "rLaunch" /\ {"sync", "lerr"} \subseteq sr => "masked" \in Faults
    /\ isnap' = (IF done /\ dmaEn THEN {"dma0"} ELSE {})
                \cup (IF sr \cap cr # {} THEN sr ELSE {})
    /\ isnap' # {} /\ iup' = up
    /\ UNCHANGED <<pc, call, got, card, up, remote, timer, history>>

IntrAct ==
    /\ isnap # {}
    /\ "sync" \in isnap /\ pc = "wGo" => "armed" \in Faults
    /\ got' = got \cup (IF "hook" \in Faults THEN isnap \ {"dma0"} ELSE isnap)
    /\ dmaEn' = (dmaEn /\ "dma0" \notin isnap)
    /\ sr' = sr \ isnap
    /\ IF "sync" \in isnap
       THEN /\ cr' = cr \ {"sync", "end", "lerr"} /\ timer' = "on"
            /\ remote' = (remote /\ iup)
       ELSE UNCHANGED <<cr, timer, remote>>
    /\ isnap' = {} /\ iup' = FALSE
    /\ UNCHANGED <<pc, call, done, chan, quota, bc, reg, up, history>>

\* A second after the last change the irq thread enables the interrupt again,
\* and initialises the remote side when it gets sem_hw.  An interrupt that is
\* due is served before.
SynchEnable ==
    /\ timer = "on" /\ sr \cap cr = {} /\ isnap = {}
    /\ cr' = cr \cup {"sync", "lerr"} /\ sr' = sr \ {"sync", "lerr"}
    /\ timer' = IF up THEN "init" ELSE "off"
    /\ UNCHANGED <<pc, call, got, dmaEn, done, chan, quota, bc, reg, isnap, iup,
                   up, remote, history>>

SynchInit ==
    /\ timer = "init" /\ pc = "idle" /\ timer' = "off" /\ remote' = up
    /\ UNCHANGED <<pc, call, got, card, isnap, iup, up, history>>
-----------------------------------------------------------------------------
(* The calls.  sis1100_read_block and sis1100_write_block have found the   *)
(* remote side there and the block long enough for DMA.                     *)
Settled(irqs) == "late" \in Faults \/ isnap \cap irqs = {}
Quiet == "late" \in Faults \/ (quota = 0 /\ sr \cap cr \subseteq {"sync"})
Begin(kind, rq) ==
    /\ pc = "idle" /\ remote /\ Quiet
    /\ \E v \in {TRUE, kind = "read"}, f \in {FALSE, kind = "write"} :
         call' = [NoCall EXCEPT !.kind = kind, !.asked = rq.words, !.left = rq.words,
                                !.addr = rq.addr, !.size = rq.size, !.vme = v, !.fifo = f]
    /\ pc' = IF kind = "read" THEN "rSetup" ELSE "wSetup"
    /\ UNCHANGED <<got, card, intr, history>>

Fail(code) == pc' = "end" /\ call' = [call EXCEPT !.res = code]

\* Mutant: d0_bc is not cleared.
ReadSetupKeepsCount ==
    /\ pc = "rSetup"
    /\ IF chan = "busy" THEN Fail("EIO") /\ UNCHANGED <<chan, bc, done>>
       ELSE /\ pc' = "rArm" /\ chan' = "busy" /\ done' = FALSE /\ UNCHANGED bc
            /\ call' = [call EXCEPT !.chunk = Smaller(call.left, MaxChunk)]
    /\ UNCHANGED <<got, cr, sr, dmaEn, quota, reg, intr, history>>

\* prepares channel and card and enables the channel
ReadSetup ==
    /\ pc = "rSetup"
    /\ IF chan = "busy" THEN Fail("EIO") /\ UNCHANGED <<chan, bc, done>>
       ELSE /\ pc' = "rArm" /\ chan' = "busy" /\ bc' = 0 /\ done' = FALSE
            /\ call' = [call EXCEPT !.chunk = Smaller(call.left, MaxChunk)]
    /\ UNCHANGED <<got, cr, sr, dmaEn, quota, reg, intr, history>>

\* Mutant: got_irqs keeps what the last chunk has left.
ReadArmKeepsGot ==
    /\ pc = "rArm" /\ Settled({"dma0", "lerr", "end"}) /\ pc' = "rLaunch"
    /\ UNCHANGED <<got, call, card, intr, history>>

ReadArm ==
    /\ pc = "rArm" /\ Settled({"dma0", "lerr", "end"})
    /\ got' = {} /\ pc' = "rLaunch"
    /\ UNCHANGED <<call, card, intr, history>>

\* Mutant: irq_synch_chg is taken for enabled.
ReadLaunchNoSynch ==
    /\ pc = "rLaunch" /\ pc' = "rWait"
    /\ dmaEn' = TRUE /\ cr' = cr \cup {"lerr"} /\ Request(call.chunk)
    /\ UNCHANGED <<call, got, done, chan, bc, intr, history>>

ReadLaunch ==
    /\ pc = "rLaunch" /\ pc' = "rWait"
    /\ dmaEn' = TRUE /\ cr' = cr \cup {"sync", "lerr"} /\ Request(call.chunk)
    /\ UNCHANGED <<call, got, done, chan, bc, intr, history>>

\* wait_event_interruptible: the condition comes before the signal
Woken(irqs) == got \cap irqs # {}

EndReadWait ==
    /\ pc' = "rCount" /\ dmaEn' = FALSE /\ cr' = cr \ {"lerr"}
    /\ UNCHANGED <<got, sr, done, chan, quota, bc, reg, intr, history>>

ReadWait == pc = "rWait" /\ Woken({"dma0", "sync", "lerr"}) /\ EndReadWait /\ UNCHANGED call

ReadKilled ==
    /\ pc = "rWait" /\ ~Woken({"dma0", "sync", "lerr"}) /\ "kill" \in Faults
    /\ EndReadWait /\ call' = [call EXCEPT !.res = "ERESTARTSYS"]

Aborted == <<"aborted", (IF call.res = "ERESTARTSYS" THEN {"kill"} ELSE {})
                        \cup (got \cap {"sync"})>>

ReadCount ==
    /\ pc = "rCount" /\ pc' = "rStop"
    /\ call' = IF got \cap {"dma0", "lerr"} # {}
               THEN [call EXCEPT !.cnt = bc, !.more = bc = call.chunk, !.err = None]
               ELSE [call EXCEPT !.err = Aborted]
    /\ UNCHANGED <<got, card, intr, history>>

\* Mutant: the channel is not aborted.
ReadStopNoAbort ==
    /\ pc = "rStop" /\ pc' = "rFinish" /\ UNCHANGED <<call, got, card, intr, history>>

ReadStop ==
    /\ pc = "rStop" /\ pc' = "rFinish"
    /\ IF "dma0" \in got \/ chan = "idle" THEN UNCHANGED <<chan, call>>
       ELSE \/ chan' = "idle" /\ UNCHANGED call
            \/ "stuck" \in Faults /\ call' = [call EXCEPT !.stuck = TRUE] /\ UNCHANGED chan
    /\ UNCHANGED <<got, cr, sr, dmaEn, done, quota, bc, reg, intr, history>>

Used(n) == IF n = Unset THEN 0 .. MaxChunk ELSE {n}
\* In fifo mode the address stays (nothing here depends on the address of a read).
Advance(n) ==
    [call EXCEPT !.left = @ - n, !.cnt = n,
                 !.addr = IF call.fifo THEN @ ELSE (@ + n * call.size) % (2 * Boundary)]

\* Words of four bytes are copied to the user as a block, which may fail.
CopyFails(n) == call.size = 4 /\ n # 0

\* The registers are read, the words handed out, and the loop of read_dma decides.
ReadFinish ==
    /\ pc = "rFinish"
    /\ LET err == IF call.err \in AbortCode THEN call.err ELSE reg
           res == IF err \in {HardError, LeSynch} THEN "EIO" ELSE call.res
       IN /\ quota' = IF call.err \in AbortCode THEN 0 ELSE quota  \* flush_fifo
          /\ \E n \in Used(call.cnt) :
                \E code \in {res} \cup IF CopyFails(n) THEN {"EFAULT"} ELSE {} :
                   IF code # "ok"
                   THEN pc' = "end" /\ call' = [call EXCEPT !.res = code, !.err = err]
                   ELSE /\ call' = [Advance(n) EXCEPT !.err = err]
                        /\ pc' = IF call.left # n /\ call.more /\ err = None
                                 THEN "rSetup" ELSE "end"
    /\ UNCHANGED <<got, cr, sr, dmaEn, done, chan, bc, reg, intr, history>>
-----------------------------------------------------------------------------
Side(a) == (a % (2 * Boundary)) \div Boundary

\* Mutant: the boundary is forgotten.
WriteChunkUnlimited == Smaller(call.left, MaxChunk)

\* _sis1100_write_dma limits the words so that bit 31 of the address stays
WriteChunk ==
    LET n == Smaller(call.left, MaxChunk)
    IN IF Side(call.addr) # Side(call.addr + n * call.size)
       THEN (Boundary - call.addr) % (2 * Boundary) ELSE n

\* an old DMA is killed; the data are copied, which may fail
WriteSetup ==
    /\ pc = "wSetup"
    /\ \/ chan = "busy" /\ "stuck" \in Faults /\ Fail("EIO") /\ UNCHANGED <<chan, done, bc>>
       \/ Fail("EFAULT") /\ chan' = "idle" /\ UNCHANGED <<done, bc>>
       \/ /\ pc' = "wEnable" /\ chan' = "idle" /\ done' = FALSE /\ bc' = 0
          /\ call' = [call EXCEPT !.chunk = WriteChunk, !.cnt = WriteChunk]
    /\ UNCHANGED <<got, cr, sr, dmaEn, quota, reg, intr, history>>

WriteEnable ==
    /\ pc = "wEnable" /\ Settled({"lerr", "end"}) /\ pc' = "wGo"
    /\ cr' = cr \cup {"lerr", "sync", "end"} /\ sr' = sr \ {"lerr", "sync", "end"}
    /\ UNCHANGED <<call, got, dmaEn, done, chan, quota, bc, reg, intr, history>>

WriteGo ==
    /\ pc = "wGo" /\ pc' = "wWait" /\ got' = {} /\ chan' = "busy"
    /\ IF up THEN quota' = call.chunk /\ reg' = None /\ UNCHANGED sr
       ELSE quota' = 0 /\ reg' = LeSynch /\ sr' = sr \cup {"lerr"}
    /\ UNCHANGED <<call, cr, dmaEn, done, bc, intr, history>>

EndWriteWait ==
    /\ pc' = "wCheck" /\ cr' = cr \ {"end"}
    /\ UNCHANGED <<got, sr, dmaEn, done, chan, quota, bc, reg, intr, history>>

WriteWait == pc = "wWait" /\ Woken({"end", "sync", "lerr"}) /\ EndWriteWait /\ UNCHANGED call

WriteKilled ==
    /\ pc = "wWait" /\ ~Woken({"end", "sync", "lerr"}) /\ "kill" \in Faults
    /\ EndWriteWait /\ call' = [call EXCEPT !.res = "ERESTARTSYS"]

\* what the remote side's counter says after a bus error
WrittenCounts ==
    IF ~call.vme THEN {0} ELSE IF up THEN {bc} ELSE 0 .. MaxChunk

WriteCheck ==
    /\ pc = "wCheck"
    /\ LET lost == call.res # "ok" \/ "sync" \in got
           err == IF lost THEN Aborted ELSE reg
           res == IF lost \/ err \in {HardError, LeSynch} \/ chan = "busy" THEN "EIO" ELSE "ok"
       IN \E n \in IF err = BusError THEN WrittenCounts ELSE {call.cnt} :
            IF res # "ok"
            THEN pc' = "end" /\ call' = [call EXCEPT !.res = res, !.err = err]
            ELSE /\ call' = [Advance(n) EXCEPT !.err = err]
                 /\ pc' = IF call.left # n /\ err = None THEN "wSetup" ELSE "end"
    /\ UNCHANGED <<got, card, intr, history>>

Return ==
    /\ pc = "end" /\ pc' = "idle" /\ call' = NoCall
    /\ moved' = 0 /\ short' = FALSE /\ cut' = FALSE
    /\ bc' = 0 /\ reg' = None  \* written before they are read again
    /\ UNCHANGED <<got, cr, sr, dmaEn, done, chan, quota, intr>>
-----------------------------------------------------------------------------
Call ==
    \/ ReadSetup \/ ReadArm \/ ReadLaunch \/ ReadWait \/ ReadCount \/ ReadStop \/ ReadFinish
    \/ WriteSetup \/ WriteEnable \/ WriteGo \/ WriteWait \/ WriteCheck \/ Return
Remote == RemoteWord \/ RemoteError \/ RemoteShort
Next ==
    \/ Call \/ Remote \/ LinkChange \/ ReadKilled \/ WriteKilled \/ IntrEnter \/ IntrAct \/ SynchEnable \/ SynchInit
    \/ \E k \in {"read", "write"}, rq \in Requests : Begin(k, rq)

Spec == Init /\ [][Next]_vars
\* The processor goes on, a raised interrupt is served, the remote side answers.
FairSpec == Spec /\ WF_vars(Call) /\ WF_vars(Remote) /\ WF_vars(IntrEnter)
                 /\ WF_vars(IntrAct) /\ WF_vars(SynchEnable)
-----------------------------------------------------------------------------
\* Where a block crosses the boundary its chunks may be wrong, even negative.
TypeOK ==
    /\ pc \in {"idle", "end", "rSetup", "rArm", "rLaunch", "rWait", "rCount", "rStop",
               "rFinish", "wSetup", "wEnable", "wGo", "wWait", "wCheck"}
    /\ call.res \in {"ok", "EIO", "EFAULT", "ERESTARTSYS"} /\ call.err \in Errors
    /\ call.asked \in Int /\ call.left \in Int /\ call.cnt \in Int /\ reg \in Errors
    /\ got \cup isnap \subseteq {"dma0", "sync", "end", "lerr"}
    /\ cr \cup sr \subseteq {"sync", "end", "lerr"} /\ quota \in Int /\ bc \in Nat

Reported == call.asked - call.left

(* What a call reports as transferred was transferred, whatever interrupt  *)
(* ended each wait, unless the transfer was aborted or the remote side is  *)
(* one that cannot tell how much of a write it took.                        *)
ReportedIsMoved ==
    /\ pc = "end" /\ call.res = "ok" /\ call.err \notin AbortCode
    /\ call.kind = "write" /\ call.err = BusError => call.vme /\ ~cut
    => Reported = moved

(* "num" after the call says how many words were really read: also when    *)
(* the link was lost (doc/ioctl.txt:154).                                   *)
NumIsMoved == pc = "end" /\ call.res = "ok" /\ call.kind = "read" => Reported = moved

(* A call that reports neither an error nor an abort has moved all it was  *)
(* asked for, unless the remote side ended the block.                       *)
ShortHasReason ==
    pc = "end" /\ call.res = "ok" /\ call.err = None => Reported = call.asked \/ short

(* A call that reports success leaves the channel idle for the next one,   *)
(* unless the channel has refused to stop.                                  *)
IdleAfterSuccess ==
    pc = "end" /\ call.res = "ok" /\ ~call.stuck => chan = "idle"

(* A DMA write keeps bit 31 of its address and takes no more words than    *)
(* are left ("we cannot cross the 2 GiByte boundary").  The code sees to   *)
(* it for words of one byte and for blocks that do not reach the boundary.   *)
NeverCrosses ==
    pc \in {"wEnable", "wGo", "wWait"} =>
        /\ Side(call.addr) = Side(call.addr + call.chunk * call.size - 1)
        /\ call.chunk <= call.left

(* Every call ends: the end of the DMA, an error or the loss of the link   *)
(* wakes it, in whatever order they come.                                   *)
CallEnds == (pc # "idle") ~> (pc = "idle")
=============================================================================
