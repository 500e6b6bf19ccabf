----------------------------- MODULE RemoteWords -----------------------------
(***************************************************************************)
(* Accesses to the remote side that the processor makes word by word:      *)
(* sis1100_tmp_read and _write, the register accesses, the loops of        *)
(* read_loop, write_loop and ctrl_rw_block, and the pipelined accesses.    *)
(* One call at a time holds sem_hw.  The card keeps a send FIFO, the       *)
(* balance of requests without confirmation and prot_error; the remote     *)
(* side confirms in order.  Data and addresses are left out.               *)
(***************************************************************************)
EXTENDS Integers, FiniteSets

CONSTANTS
    Kinds,      \* kinds of calls, see AllKinds
    MaxWords,   \* words of a call
    Fifo,       \* sc->sendfifo_size
    MaxOld,     \* bound: requests of earlier calls still without an answer
    Faults      \* what may happen, see below

\* berr:   a word fails on the bus       lost:   the remote side does not answer
\* dlock:  a confirmation is held back by incoming data, or read too early
\* signal: a signal ends the wait of a pipelined read
AllKinds == {"word", "put", "blind", "reg", "rloop", "wloop", "cread", "cwrite",
             "wpipe", "rpipe"}
ASSUME WordsAssumption ==
    /\ Kinds \subseteq AllKinds /\ MaxWords \in Nat \ {0} /\ Fifo \in Nat \ (0 .. 7)
    /\ MaxOld \in Nat
    /\ Faults \subseteq {"berr", "lost", "dlock", "signal"}

Singles == {"word", "put", "blind", "reg"}
Polling == {"word", "put", "reg", "rloop", "cread"}   \* one request at a time
Counting == {"wloop", "cwrite"}                       \* balance kept below fifolen

VARIABLES
    c,          \* the call: place, words asked and sent, cc, *prot_error, balance
    queue,      \* requests in the send FIFO
    flight,     \* requests the remote side has
    old,        \* those of both that belong to earlier calls
    dead,       \* requests that get no answer, still in the balance
    err, hdr,   \* prot_error; whether tc_hdr has an error confirmation
    latch,      \* irq_prot_l_err in sr
    ok, bad,    \* history: words done before the first failure; one failed
    ret         \* what the last call returned, and what was true then

vars == <<c, queue, flight, old, dead, err, hdr, latch, ok, bad, ret>>
card == <<queue, flight, old, dead, err, hdr, latch>>
history == <<ok, bad, ret>>

NoCall == [pc |-> "idle", kind |-> "word", n |-> 0, sent |-> 0, cc |-> 0, perr |-> 0,
           bal |-> 0]
NoRet == [kind |-> "word", n |-> 0, num |-> 0, err |-> 0, ok |-> 0, bad |-> FALSE,
          sig |-> FALSE]
LeDlock == 1    \* 0x105: values of prot_error
LeTo == 2       \* 0x107
Berr == 3       \* 0x2xx
EDlock == 4     \* 0x005
Balance == queue + flight + dead

Init ==
    /\ c = NoCall /\ queue = 0 /\ flight = 0 /\ old = 0 /\ dead = 0 /\ err = 0
    /\ hdr = FALSE /\ latch = FALSE /\ ok = 0 /\ bad = FALSE /\ ret = NoRet

-----------------------------------------------------------------------------
\* The card sends; the remote side confirms the oldest request.  prot_error
\* keeps the first error until it is read.
Send ==
    /\ queue > 0
    /\ queue' = queue - 1 /\ flight' = flight + 1
    /\ UNCHANGED <<c, old, dead, err, hdr, latch, history>>

NewError(e) == /\ err' = IF err = 0 THEN e ELSE err
               /\ latch' = TRUE

Account(failed) ==
    /\ old' = IF old > 0 THEN old - 1 ELSE 0
    /\ IF old > 0 THEN UNCHANGED <<ok, bad>>
       ELSE /\ ok' = IF failed \/ bad THEN ok ELSE ok + 1
            /\ bad' = (bad \/ failed)

\* The confirmation the call waits for is stuck behind other data; the card gives
\* up with le_dlock, leaves its header in tc_hdr and waits for prot_error to be read.
HeldBack == "dlock" \in Faults /\ err = 0 /\ old = 0 /\ c.pc \in {"poll", "drain"}

Confirm ==
    /\ flight > 0 /\ err # LeDlock
    /\ flight' = flight - 1
    /\ Account(FALSE)
    /\ \/ UNCHANGED <<err, hdr, latch>>
       \/ HeldBack /\ NewError(LeDlock) /\ hdr' = FALSE
    /\ UNCHANGED <<c, queue, dead, ret>>

Fail ==
    /\ "berr" \in Faults /\ flight > 0 /\ err # LeDlock
    /\ flight' = flight - 1
    /\ Account(TRUE)
    /\ \/ NewError(Berr) /\ hdr' = hdr
       \/ HeldBack /\ NewError(LeDlock) /\ hdr' = TRUE
    /\ UNCHANGED <<c, queue, dead, ret>>

\* The requests under way get no answer: the card times out, again and again
\* when it is asked, and the balance stays.
Lost ==
    /\ "lost" \in Faults /\ queue = 0 /\ flight + dead > 0 /\ (err = 0 \/ ~latch)
    /\ NewError(LeTo)
    /\ dead' = dead + flight /\ flight' = 0 /\ old' = 0
    /\ bad' = (bad \/ flight > old)
    /\ UNCHANGED <<c, queue, hdr, ok, ret>>

-----------------------------------------------------------------------------
Begin(kind, n) ==
    /\ c.pc = "idle" /\ Balance <= MaxOld
    /\ c' = [NoCall EXCEPT !.pc = "put", !.kind = kind, !.n = n]
    /\ latch' = IF kind = "wloop" THEN FALSE ELSE latch
    /\ old' = queue + flight
    /\ ok' = 0 /\ bad' = FALSE /\ ret' = NoRet
    /\ UNCHANGED <<queue, flight, dead, err, hdr>>

Return(num, e, sig) ==
    /\ c' = NoCall
    /\ ret' = [kind |-> c.kind, n |-> c.n, num |-> num, err |-> e, sig |-> sig,
               ok |-> ok, bad |-> bad \/ queue + flight > old]

\* A request goes into the FIFO.
AfterPut ==
    CASE c.kind \in Polling -> "poll"
      [] c.kind \in Counting -> "gate"
      [] c.kind = "blind" -> "done"
      [] c.kind = "wpipe" -> IF c.sent + 1 < c.n THEN "put" ELSE "poll"
      [] c.kind = "rpipe" -> IF c.sent + 1 < c.n THEN "put" ELSE "wait"

Put ==
    /\ c.pc = "put"
    /\ queue' = queue + 1
    /\ c' = [c EXCEPT !.sent = @ + 1, !.cc = @ + 1, !.pc = AfterPut]
    /\ UNCHANGED <<flight, old, dead, err, hdr, latch, history>>

BlindReturn ==
    /\ c.pc = "done"
    /\ Return(1, 0, FALSE)
    /\ UNCHANGED <<card, ok, bad>>

-----------------------------------------------------------------------------
\* Reading prot_error gives the first error and clears it, or 0 once nothing is
\* outstanding; until then it gives sis1100_e_dlock and the code reads again.
Readable == err # 0 \/ Balance = 0
ReadOnce == (IF Readable THEN {err} ELSE {}) \cup
            (IF "dlock" \in Faults /\ ~Readable THEN {EDlock} ELSE {})

\* Mutant: remote_reg_read looks at t_hdr too.
SeenInHeaderSent(kind) ==
    IF err # LeDlock THEN err
    ELSE CASE kind \in {"word", "put", "reg"} \/ kind \in Counting -> 0
           [] OTHER -> LeDlock

\* The single accesses look at t_hdr, the header they have written, so that a
\* confirmation held back always counts as good; remote_reg_read and the write
\* loops look at tc_hdr; the read loops take le_dlock as an error.
Seen(kind) ==
    IF err # LeDlock THEN err
    ELSE CASE kind \in {"word", "put"} -> 0
           [] kind = "reg" \/ kind \in Counting -> IF hdr THEN Berr ELSE 0
           [] OTHER -> LeDlock

\* Mutant: the word that failed is counted.
PollCountsFailed ==
    /\ c.pc = "poll" /\ Readable
    /\ err' = 0
    /\ IF c.kind \in {"rloop", "cread"} /\ Seen(c.kind) = 0 /\ c.sent < c.n
       THEN c' = [c EXCEPT !.pc = "put"] /\ UNCHANGED ret
       ELSE Return(c.sent, Seen(c.kind), FALSE)
    /\ UNCHANGED <<queue, flight, old, dead, hdr, latch, ok, bad>>

Poll ==
    /\ c.pc = "poll" /\ Readable
    /\ err' = 0
    /\ IF c.kind \in {"rloop", "cread"} /\ Seen(c.kind) = 0 /\ c.sent < c.n
       THEN c' = [c EXCEPT !.pc = "put"] /\ UNCHANGED ret
       ELSE Return(IF Seen(c.kind) = 0 THEN c.sent
                   ELSE IF c.kind \in {"rloop", "cread"} THEN c.sent - 1 ELSE 0,
                   Seen(c.kind), FALSE)
    /\ UNCHANGED <<queue, flight, old, dead, hdr, latch, ok, bad>>

-----------------------------------------------------------------------------
\* wait_for_fifo, with 4 words for a request that has an address modifier and 3
\* for the others.
RequestLen(kind) == IF kind = "wloop" THEN 4 ELSE 3
FifoLen(kind) == Fifo \div RequestLen(kind) - 1
NextWord == [c EXCEPT !.pc = IF c.sent < c.n THEN "put" ELSE "balance"]

\* Mutant: cc starts again from 0 when it has reached the limit.
GateClosedFromZero ==
    /\ c.pc = "gate" /\ c.cc >= FifoLen(c.kind) /\ ~latch
    /\ c' = [c EXCEPT !.cc = 0]
    /\ UNCHANGED <<card, history>>

GateOpen ==
    /\ c.pc = "gate" /\ c.cc < FifoLen(c.kind)
    /\ c' = NextWord
    /\ UNCHANGED <<card, history>>

GateClosed ==
    /\ c.pc = "gate" /\ c.cc >= FifoLen(c.kind) /\ ~latch
    /\ c' = [c EXCEPT !.cc = Balance]
    /\ UNCHANGED <<card, history>>

\* irq_prot_l_err is set: prot_error is read once, a transient dead lock counts
\* as an error; without an error the next word goes out, and cc stays.
GateError ==
    /\ c.pc = "gate" /\ c.cc >= FifoLen(c.kind) /\ latch
    /\ \E e \in ReadOnce :
           /\ c' = IF e = 0 THEN NextWord ELSE [c EXCEPT !.pc = "balance", !.perr = e]
           /\ err' = IF e = EDlock THEN err ELSE 0
    /\ UNCHANGED <<queue, flight, old, dead, hdr, latch, history>>

\* The end of the write loops: until the balance that was read is 0.
DrainBalance ==
    /\ c.pc = "balance"
    /\ c' = [c EXCEPT !.pc = "drain", !.bal = Balance]
    /\ UNCHANGED <<card, history>>

FirstError == IF c.perr = 0 THEN Seen(c.kind) ELSE c.perr

NoBalance == queue' = 0 /\ flight' = 0 /\ old' = 0 /\ dead' = 0

\* Mutant: prot_error is read once, as in sis1100_write_pipe.
DrainOnce ==
    /\ c.pc = "drain" /\ Readable
    /\ err' = 0
    /\ Return(IF FirstError = 0 THEN c.n ELSE 0, FirstError, FALSE)
    /\ UNCHANGED <<queue, flight, old, dead, hdr, latch, ok, bad>>

\* Mutant: the balance of requests that got no answer is not reset.
DrainKeepsBalance ==
    /\ c.pc = "drain" /\ Readable
    /\ err' = 0
    /\ IF c.bal > 0
       THEN c' = [c EXCEPT !.pc = "balance", !.perr = FirstError] /\ UNCHANGED ret
       ELSE Return(IF FirstError = 0 THEN c.n ELSE 0, FirstError, FALSE)
    /\ UNCHANGED <<queue, flight, old, dead, hdr, latch, ok, bad>>

Drain ==
    /\ c.pc = "drain" /\ Readable
    /\ err' = 0
    /\ \/ err = LeTo /\ NoBalance
       \/ err # LeTo /\ UNCHANGED <<queue, flight, old, dead>>
    /\ \/ c.bal > 0 /\ c' = [c EXCEPT !.pc = "balance", !.perr = FirstError] /\ UNCHANGED ret
       \/ c.bal = 0 /\ Return(IF FirstError = 0 THEN c.n ELSE 0, FirstError, FALSE)
    /\ UNCHANGED <<hdr, latch, ok, bad>>

-----------------------------------------------------------------------------
\* sis1100_read_pipe and _read_pipe_seq wait for the balance or a signal, read
\* prot_error once and return; an error or a signal flushes what has come.
PipeReturn(sig) ==
    /\ \E e \in ReadOnce : Return(c.n, e, sig) /\ err' = IF e = EDlock THEN err ELSE 0
    /\ UNCHANGED <<queue, flight, old, dead, hdr, latch, ok, bad>>
PipeDone == c.pc = "wait" /\ Balance = 0 /\ PipeReturn(FALSE)
PipeSignal == "signal" \in Faults /\ c.pc = "wait" /\ PipeReturn(TRUE)

\* ioctl_reset: flush, balance and prot_error.
Reset ==
    /\ c.pc = "idle"
    /\ NoBalance /\ err' = 0
    /\ UNCHANGED <<c, hdr, latch, history>>

-----------------------------------------------------------------------------
Remote == Send \/ Confirm \/ Fail \/ Lost
Call == Put \/ BlindReturn \/ Poll \/ GateOpen \/ GateClosed \/ GateError
        \/ DrainBalance \/ Drain \/ PipeDone \/ PipeSignal
Next == \/ Remote \/ Call \/ Reset
        \/ \E kind \in Kinds, n \in 1 .. MaxWords :
               (kind \in Singles => n = 1) /\ Begin(kind, n)
Spec == Init /\ [][Next]_vars

\* Calls go on, the card sends, and every request is answered or timed out.
FairSpec == Spec /\ WF_vars(Call) /\ WF_vars(Send) /\ WF_vars(Confirm \/ Fail \/ Lost)

-----------------------------------------------------------------------------
Places == {"idle", "put", "poll", "gate", "balance", "drain", "wait", "done"}
CallType == [pc : Places, kind : AllKinds, n : 0 .. MaxWords, sent : Nat, cc : Nat,
             perr : 0 .. 4, bal : Nat]
TypeOK ==
    /\ c \in CallType
    /\ queue \in Nat /\ flight \in Nat /\ dead \in Nat
    /\ old \in Nat /\ old <= queue + flight
    /\ err \in 0 .. 3 /\ hdr \in BOOLEAN /\ latch \in BOOLEAN /\ bad \in BOOLEAN
    /\ ok \in Nat

\* The write loops never have more requests without confirmation than the send
\* FIFO has room for, apart from those that earlier calls left behind: the
\* purpose of wait_for_fifo (write_loop.c, ctrl_rw_block.c).
FifoBounded ==
    c.kind \in Counting /\ c.pc # "idle" =>
        (queue + flight - old) * RequestLen(c.kind) <= Fifo - RequestLen(c.kind)

\* Calls that look at tc_hdr when a confirmation is held back say "no error"
\* only when every word has been done and none is under way any more.
NoErrorMeansDone ==
    ret.kind \notin {"word", "put", "blind"} /\ ret.err = 0 /\ ~ret.sig =>
        ret.ok = ret.n /\ ~ret.bad

\* The read loops report the words before the first failure and no more: each of
\* these has come (count_read in read_loop.c and ctrl_rw_block.c).
ReadPrefix ==
    ret.kind \in {"rloop", "cread"} => ret.num <= ret.ok

\* The write loops leave the card settled: no balance and no error that the next
\* call, of another process perhaps, would read as its own.
WriteSettles ==
    [][c.pc # "idle" /\ c'.pc = "idle" /\ ret'.kind \in Counting
           => Balance' = 0 /\ err' = 0]_vars

\* A call that has sem_hw comes back, whatever the remote side does; only the
\* pipelined reads, whose wait has no timeout, need all the answers.
CallEnds == (c.pc # "idle" /\ c.kind # "rpipe") ~> (c.pc = "idle")

=============================================================================
