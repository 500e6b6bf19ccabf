-------------------------- MODULE RemoteWordsProofs --------------------------
(***************************************************************************)
(* Proofs about RemoteWords, for every size of the send FIFO, number of    *)
(* words and choice of faults: types, the bound of the send FIFO, what the *)
(* calls report, and the state in which the write loops leave the card.    *)
(***************************************************************************)
EXTENDS RemoteWords, TLAPS

\* Requests of the running call, or of the last one, without confirmation.
Own == queue + flight - old

\* The place of a call fits its kind, and there is a word left to put.
PlaceInv ==
    /\ c.sent <= c.n
    /\ c.pc = "put" => c.sent < c.n
    /\ c.pc \in {"gate", "balance", "drain"} => c.kind \in Counting
    /\ c.pc = "poll" => c.kind \in Polling \cup {"wpipe"}
    /\ c.pc = "wait" => c.kind = "rpipe"
    /\ c.pc = "done" => c.kind = "blind"
    /\ c.kind = "reg" /\ c.pc # "idle" => c.n = 1
    /\ c.kind \in {"rloop", "cread"} => c.pc \in {"put", "poll"}

\* cc never says less than the requests of the call without confirmation.
FifoInv ==
    c.kind \in Counting /\ c.pc # "idle" =>
        /\ Own <= c.cc /\ Own <= FifoLen(c.kind)
        /\ c.pc = "put" => Own < FifoLen(c.kind)

\* A balance that was read as 0 at the end of a write loop is still 0.
DrainInv == c.pc = "drain" /\ c.bal = 0 => Balance = 0

\* le_dlock is there only while a call waits, and has set the latch.
DlockInv == err = LeDlock => latch /\ c.pc \in {"poll", "drain"}

\* A register access whose confirmation was held back has nothing under way.
RegInv == c.kind = "reg" /\ err = LeDlock => Own = 0

\* A failed word is known to the call or still to be read; without one, what was
\* sent is confirmed or under way.
Looks == c.kind \notin {"word", "put", "blind"} /\ c.pc # "idle"
DoneInv ==
    Looks =>
        /\ bad => \/ c.perr # 0
                  \/ err # 0 /\ (err = LeDlock /\ c.kind \in Counting \cup {"reg"} => hdr)
        /\ ~bad /\ c.perr = 0 => ok + Own = c.sent
        /\ c.perr # 0 => c.pc \in {"balance", "drain"}
        /\ c.perr = 0 /\ c.pc \in {"balance", "drain", "wait"} => c.sent = c.n
        /\ c.pc = "poll" /\ c.kind \in {"reg", "wpipe"} => c.sent = c.n

\* A read loop has one word under way at most; those before it have come.
ReadInv ==
    c.kind \in {"rloop", "cread"} =>
        /\ c.pc = "put" => ok = c.sent /\ Own = 0 /\ ~bad
        /\ c.pc = "poll" => c.sent - 1 <= ok

CallInv == TypeOK /\ PlaceInv /\ FifoInv /\ DrainInv /\ DlockInv /\ RegInv
           /\ DoneInv /\ ReadInv
IInv == CallInv /\ NoErrorMeansDone /\ ReadPrefix

USE DEF LeDlock, LeTo, Berr, EDlock, Balance, Own, Counting, Polling

-----------------------------------------------------------------------------
(* What the helpers give.                                                  *)

LEMMA NoCallType == NoCall \in CallType /\ NoCall.pc = "idle" /\ NoCall.kind = "word"
                    /\ NoCall.sent = 0 /\ NoCall.n = 0
BY WordsAssumption DEF NoCall, CallType, Places, AllKinds

LEMMA FifoLenPositive == \A kind \in Counting : FifoLen(kind) \in Nat /\ FifoLen(kind) > 0
BY WordsAssumption DEF FifoLen, RequestLen

LEMMA SeenType == IInv => Seen(c.kind) \in 0 .. 3
BY DEF IInv, CallInv, TypeOK, Seen

\* Every error but le_dlock is what the call sees.
LEMMA SeenError == err # LeDlock => \A kind : Seen(kind) = err
<1> SUFFICES ASSUME err # LeDlock, NEW kind PROVE Seen(kind) = err
  OBVIOUS
<1> QED  BY DEF Seen

\* Reading prot_error once gives a value of prot_error; 0 only if all is confirmed.
LEMMA ReadOnceType ==
    ASSUME IInv, NEW e \in ReadOnce
    PROVE  e \in 0 .. 4 /\ (e = 0 => err = 0 /\ Balance = 0) /\ (e # EDlock => e = err)
BY DEF ReadOnce, Readable, IInv, CallInv, TypeOK

\* A confirmation of a word of the running call counts, one of an earlier call
\* does not; a bad one of the running call marks it.
Counted ==
    /\ old' \in Nat /\ old' <= queue' + flight' /\ Own' <= Own
    /\ ok' \in Nat /\ ok' >= ok /\ bad' \in BOOLEAN
    /\ ~bad' => ~bad /\ ok' + Own' = ok + Own
    /\ Own = 0 => Own' = 0 /\ ok' = ok /\ (bad' => bad)
    /\ old = 0 => Own > 0 /\ Own' = Own - 1

LEMMA AccountGood ==
    ASSUME IInv, Account(FALSE), flight > 0, flight' = flight - 1, queue' = queue
    PROVE  Counted /\ (bad' => bad)
<1>1. CASE old > 0
  BY <1>1 DEF IInv, CallInv, TypeOK, Account, Counted
<1>2. CASE old = 0
  BY <1>2 DEF IInv, CallInv, TypeOK, Account, Counted
<1>3. old > 0 \/ old = 0
  BY DEF IInv, CallInv, TypeOK
<1> QED  BY <1>1, <1>2, <1>3

LEMMA AccountBad ==
    ASSUME IInv, Account(TRUE), flight > 0, flight' = flight - 1, queue' = queue
    PROVE  Counted
<1>1. CASE old > 0
  BY <1>1 DEF IInv, CallInv, TypeOK, Account, Counted
<1>2. CASE old = 0
  <2>1. old' = 0 /\ ok' = ok
    BY <1>2 DEF Account
  <2>a. ~(old > 0)
    BY <1>2
  <2>2. bad' \in BOOLEAN /\ bad'
    BY <2>a, Zenon DEF Account
  <2>3. old' \in Nat /\ old' <= queue' + flight' /\ Own' <= Own /\ Own # 0 /\ Own > 0 /\ Own' = Own - 1 /\ ok' \in Nat /\ ok' >= ok
    BY <1>2, <2>1 DEF IInv, CallInv, TypeOK
  <2> QED  BY <2>2, <2>3, Zenon DEF Counted
<1>3. old > 0 \/ old = 0
  BY DEF IInv, CallInv, TypeOK
<1> QED  BY <1>1, <1>2, <1>3

LEMMA ErrorStep ==
    ASSUME IInv, NEW e \in 1 .. 3, NewError(e)
    PROVE  err' \in 1 .. 3 /\ (err # 0 => err' = err) /\ (err = 0 => err' = e)
           /\ latch' \in BOOLEAN /\ latch'
<1>1. err' \in 1 .. 3 /\ (err # 0 => err' = err) /\ (err = 0 => err' = e)
  BY DEF IInv, CallInv, TypeOK, NewError
<1>2. latch' \in BOOLEAN /\ latch'
  BY Zenon DEF NewError
<1> QED  BY <1>1, <1>2

-----------------------------------------------------------------------------
(* The remote side.                                                        *)

\* What a confirmation, good or bad, does to the card and to the history.
ErrorsSeen ==
    /\ err' \in 0 .. 3 /\ latch' \in BOOLEAN /\ hdr' \in BOOLEAN
    /\ err # 0 => err' = err /\ (hdr => hdr')
    /\ err' = LeDlock => latch' /\ c.pc \in {"poll", "drain"} /\ old = 0 /\ err = 0

LEMMA ConfirmFacts ==
    ASSUME IInv, Confirm \/ Fail
    PROVE  /\ flight > 0 /\ flight' = flight - 1 /\ UNCHANGED <<c, queue, dead, ret>>
           /\ err # LeDlock
           /\ ErrorsSeen
           /\ Counted
           /\ bad' => bad \/ (err' # 0 /\ (err' = LeDlock => hdr'))
<1>1. CASE Confirm
  <2>1. flight > 0 /\ flight' = flight - 1 /\ UNCHANGED <<c, queue, dead, ret>> /\ err # LeDlock
    BY <1>1 DEF Confirm
  <2>2. Counted /\ (bad' => bad)
    BY <1>1, <2>1, AccountGood DEF Confirm
  <2>3. ASSUME UNCHANGED <<err, hdr, latch>> PROVE ErrorsSeen
    <3>1. err' = err /\ err \in 0 .. 3 /\ err # LeDlock
      BY <2>1, <2>3 DEF IInv, CallInv, TypeOK
    <3>a. err' \in 0 .. 3 /\ err' # LeDlock
      BY <3>1
    <3>2. latch' \in BOOLEAN /\ hdr' \in BOOLEAN /\ (hdr => hdr')
      BY <2>3, Zenon DEF IInv, CallInv, TypeOK
    <3> QED  BY <3>1, <3>a, <3>2, Zenon DEF ErrorsSeen
  <2>4. ASSUME HeldBack, NewError(LeDlock), hdr' = FALSE PROVE ErrorsSeen
    <3>1. hdr' \in BOOLEAN
      BY <2>4, Zenon
    <3>2. /\ err = 0 /\ old = 0 /\ c.pc \in {"poll", "drain"} /\ err' = LeDlock /\ err' \in 0 .. 3 /\ err' # 0
          /\ latch' \in BOOLEAN /\ latch'
      BY <2>4, ErrorStep DEF HeldBack
    <3> QED  BY <3>1, <3>2, Zenon DEF ErrorsSeen
  <2>5. ErrorsSeen
    BY <1>1, <2>3, <2>4, Zenon DEF Confirm
  <2> QED  BY <2>1, <2>2, <2>5
<1>2. CASE Fail
  <2>1. flight > 0 /\ flight' = flight - 1 /\ UNCHANGED <<c, queue, dead, ret>> /\ err # LeDlock
    BY <1>2 DEF Fail
  <2>2. Counted
    BY <1>2, <2>1, AccountBad DEF Fail
  <2>3. ASSUME NewError(Berr), hdr' = hdr PROVE ErrorsSeen /\ err' # 0 /\ err' # LeDlock
    <3>1. /\ err' \in 1 .. 3 /\ (err # 0 => err' = err) /\ (err = 0 => err' = Berr)
          /\ latch' \in BOOLEAN /\ latch'
      BY <2>3, ErrorStep
    <3>2. err' \in 0 .. 3 /\ err' # 0 /\ err' # LeDlock /\ (err # 0 => err' = err)
      BY <2>1, <3>1
    <3>3. hdr' \in BOOLEAN /\ (hdr => hdr')
      BY <2>3, Zenon DEF IInv, CallInv, TypeOK
    <3> QED  BY <3>1, <3>2, <3>3, Zenon DEF ErrorsSeen
  <2>4. ASSUME HeldBack, NewError(LeDlock), hdr' = TRUE PROVE ErrorsSeen /\ err' # 0 /\ hdr'
    <3>1. hdr' \in BOOLEAN /\ hdr'
      BY <2>4, Zenon
    <3>2. /\ err = 0 /\ old = 0 /\ c.pc \in {"poll", "drain"} /\ err' = LeDlock /\ err' \in 0 .. 3 /\ err' # 0
          /\ latch' \in BOOLEAN /\ latch'
      BY <2>4, ErrorStep DEF HeldBack
    <3> QED  BY <3>1, <3>2, Zenon DEF ErrorsSeen
  <2>5. ErrorsSeen /\ err' # 0 /\ (err' = LeDlock => hdr')
    BY <1>2, <2>3, <2>4, Zenon DEF Fail
  <2> QED  BY <2>1, <2>2, <2>5
<1> QED  BY <1>1, <1>2

LEMMA ConfirmStep == IInv /\ (Confirm \/ Fail) => IInv'
<1> SUFFICES ASSUME IInv, Confirm \/ Fail PROVE IInv'
  OBVIOUS
<1>a. flight > 0 /\ flight' = flight - 1 /\ UNCHANGED <<c, queue, dead, ret>> /\ err # LeDlock
  BY ConfirmFacts
<1>b. ErrorsSeen
  BY ConfirmFacts
<1>c. /\ old' \in Nat /\ old' <= queue' + flight' /\ Own' <= Own /\ ok' \in Nat /\ ok' >= ok
      /\ bad' \in BOOLEAN
      /\ ~bad' => ~bad /\ ok' + Own' = ok + Own
      /\ Own = 0 => Own' = 0 /\ ok' = ok /\ (bad' => bad)
      /\ old = 0 => Own > 0 /\ Own' = Own - 1
  BY ConfirmFacts DEF Counted
<1>d. bad' => bad \/ (err' # 0 /\ (err' = LeDlock => hdr'))
  BY ConfirmFacts
<1>1. TypeOK'
  BY <1>a, <1>b, <1>c DEF IInv, CallInv, TypeOK, ErrorsSeen
<1>2. PlaceInv' /\ DlockInv' /\ NoErrorMeansDone' /\ ReadPrefix'
  BY <1>a, <1>b DEF IInv, CallInv, PlaceInv, DlockInv, NoErrorMeansDone, ReadPrefix, ErrorsSeen
<1>3. FifoInv'
  <2>a. old' \in Nat /\ Own' <= Own
    BY <1>c
  <2>b. c' = c /\ queue' = queue /\ flight' = flight - 1
    BY <1>a
  <2>c. queue \in Nat /\ flight \in Nat /\ old \in Nat
    BY DEF IInv, CallInv, TypeOK
  <2>1. Own \in Int /\ Own' \in Int
    BY <2>a, <2>b, <2>c
  <2>2. c.cc \in Nat
    BY DEF IInv, CallInv, TypeOK, CallType
  <2> QED  BY <2>a, <2>b, <2>1, <2>2, WordsAssumption
              DEF IInv, CallInv, FifoInv, FifoLen, RequestLen
<1>4. DrainInv'
  BY <1>a DEF IInv, CallInv, DrainInv, TypeOK
<1>7. RegInv'
  <2> SUFFICES ASSUME c.kind = "reg", err' = LeDlock PROVE Own' = 0
    BY <1>a DEF RegInv
  <2>1. c.pc = "poll" /\ old = 0 /\ err = 0
    BY <1>b DEF ErrorsSeen, IInv, CallInv, PlaceInv
  <2>2. ~bad /\ c.perr = 0
    BY <2>1, Zenon DEF IInv, CallInv, DoneInv, Looks
  <2>3. ok + Own = c.sent /\ c.sent = 1
    BY <2>1, <2>2 DEF IInv, CallInv, DoneInv, Looks, PlaceInv
  <2>4. Own > 0 /\ Own' = Own - 1 /\ Own \in Int /\ ok \in Nat
    BY <1>c, <2>1 DEF IInv, CallInv, TypeOK
  <2> QED  BY <2>3, <2>4
<1>5. DoneInv'
  <2> SUFFICES ASSUME Looks PROVE DoneInv'
    BY <1>a DEF DoneInv, Looks
  <2>1. bad' => \/ c.perr # 0
                \/ err' # 0 /\ (err' = LeDlock /\ c.kind \in Counting \cup {"reg"} => hdr')
    BY <1>a, <1>b, <1>d DEF IInv, CallInv, DoneInv, ErrorsSeen
  <2>2. ~bad' /\ c.perr = 0 => ok' + Own' = c.sent
    BY <1>c DEF IInv, CallInv, DoneInv
  <2> QED  BY <1>a, <2>1, <2>2 DEF IInv, CallInv, DoneInv, Looks
<1>6. ReadInv'
  <2>1. ok \in Int /\ ok' \in Int /\ c.sent \in Int
    BY <1>c DEF IInv, CallInv, TypeOK, CallType
  <2>2. c' = c /\ ok' >= ok
    BY <1>a, <1>c
  <2>3. c.kind \in {"rloop", "cread"} /\ c.pc = "poll" => c.sent - 1 <= ok'
    BY <2>1, <2>2 DEF IInv, CallInv, ReadInv
  <2>4. c.kind \in {"rloop", "cread"} /\ c.pc = "put" => ok' = c.sent /\ Own' = 0 /\ ~bad'
    BY <1>c, Zenon DEF IInv, CallInv, ReadInv
  <2> QED  BY <2>2, <2>3, <2>4, Zenon DEF ReadInv
<1> QED  BY <1>1, <1>2, <1>3, <1>4, <1>5, <1>6, <1>7 DEF IInv, CallInv

LEMMA LostStep == IInv /\ Lost => IInv'
<1> SUFFICES ASSUME IInv, Lost PROVE IInv'
  OBVIOUS
<1>a. err' \in 1 .. 3 /\ err' # LeDlock /\ latch' \in BOOLEAN
  <2>1. NewError(2) /\ err # LeDlock
    BY DEF Lost, IInv, CallInv, DlockInv
  <2> QED  BY <2>1, ErrorStep
<1>b. /\ UNCHANGED <<c, queue, hdr, ok, ret>> /\ dead' = dead + flight /\ flight' = 0 /\ old' = 0
      /\ queue = 0 /\ Balance > 0 /\ Own' = 0 /\ bad' = (bad \/ flight > old) /\ Own = flight - old
  BY DEF Lost, IInv, CallInv, TypeOK
<1>1. TypeOK'
  <2>1. bad' \in BOOLEAN
    BY Zenon DEF Lost
  <2> QED  BY <1>a, <1>b, <2>1 DEF IInv, CallInv, TypeOK
<1>2. PlaceInv' /\ DlockInv' /\ RegInv' /\ NoErrorMeansDone' /\ ReadPrefix'
  BY <1>a, <1>b DEF IInv, CallInv, PlaceInv, DlockInv, RegInv, NoErrorMeansDone, ReadPrefix
<1>3. FifoInv'
  BY <1>b, FifoLenPositive DEF IInv, CallInv, FifoInv, TypeOK, CallType
<1>4. DrainInv'
  BY <1>b DEF IInv, CallInv, DrainInv, TypeOK
<1>5. DoneInv'
  <2>1. ~bad' => ~bad /\ ~(flight > old)
    BY Zenon DEF Lost
  <2>2. ~(flight > old) => Own = 0
    BY <1>b DEF IInv, CallInv, TypeOK
  <2> QED  BY <1>a, <1>b, <2>1, <2>2 DEF IInv, CallInv, DoneInv, Looks
<1>6. ReadInv'
  BY <1>b DEF IInv, CallInv, ReadInv, TypeOK, CallType
<1> QED  BY <1>1, <1>2, <1>3, <1>4, <1>5, <1>6 DEF IInv, CallInv

LEMMA SendStep == IInv /\ Send => IInv'
<1> SUFFICES ASSUME IInv, Send PROVE IInv'
  OBVIOUS
<1>a. UNCHANGED <<c, old, dead, err, hdr, latch, ok, bad, ret>> /\ Own' = Own /\ Balance' = Balance
      /\ queue' \in Nat /\ flight' \in Nat /\ queue' + flight' = queue + flight
  BY DEF Send, history, IInv, CallInv, TypeOK
<1>1. TypeOK' /\ PlaceInv' /\ DrainInv' /\ DlockInv' /\ RegInv' /\ NoErrorMeansDone' /\ ReadPrefix'
  <2>1. TypeOK'
    BY <1>a DEF IInv, CallInv, TypeOK
  <2>2. PlaceInv' /\ DrainInv' /\ DlockInv' /\ RegInv'
    BY <1>a DEF IInv, CallInv, PlaceInv, DrainInv, DlockInv, RegInv
  <2>3. NoErrorMeansDone' /\ ReadPrefix'
    BY <1>a DEF IInv, NoErrorMeansDone, ReadPrefix
  <2> QED  BY <2>1, <2>2, <2>3
<1>2. FifoInv' /\ DoneInv' /\ ReadInv'
  BY <1>a DEF IInv, CallInv, FifoInv, DoneInv, Looks, ReadInv
<1> QED  BY <1>1, <1>2 DEF IInv, CallInv

-----------------------------------------------------------------------------
(* The calls.                                                              *)

LEMMA BeginStep ==
    ASSUME IInv, NEW kind \in Kinds, NEW n \in 1 .. MaxWords, kind \in Singles => n = 1,
           Begin(kind, n)
    PROVE  IInv'
<1>a. kind \in AllKinds /\ n \in Nat /\ n > 0
  BY WordsAssumption
<1>b. c' = [pc |-> "put", kind |-> kind, n |-> n, sent |-> 0, cc |-> 0, perr |-> 0, bal |-> 0]
  BY DEF Begin, NoCall
<1>c. /\ c' \in CallType /\ c'.pc = "put" /\ c'.kind = kind /\ c'.n = n /\ c'.sent = 0
      /\ c'.cc = 0 /\ c'.perr = 0
  BY <1>a, <1>b DEF CallType, Places
<1>d. /\ ok' = 0 /\ bad' = FALSE /\ ret' = NoRet /\ UNCHANGED <<queue, flight, dead, err, hdr>>
      /\ old' = queue + flight /\ Own' = 0 /\ latch' \in BOOLEAN /\ c.pc = "idle"
  <2>1. /\ ok' = 0 /\ bad' = FALSE /\ ret' = NoRet /\ UNCHANGED <<queue, flight, dead, err, hdr>>
        /\ old' = queue + flight /\ c.pc = "idle"
    BY DEF Begin
  <2>2. latch' \in BOOLEAN
    BY DEF Begin, IInv, CallInv, TypeOK
  <2> QED  BY <2>1, <2>2 DEF IInv, CallInv, TypeOK
<1>1. TypeOK'
  <2>1. bad' \in BOOLEAN
    BY <1>d, Zenon
  <2> QED  BY <1>c, <1>d, <2>1 DEF IInv, CallInv, TypeOK
<1>2. PlaceInv'
  BY <1>a, <1>c DEF PlaceInv, Singles
<1>3. FifoInv'
  BY <1>c, <1>d, FifoLenPositive DEF FifoInv
<1>4. DrainInv' /\ DlockInv' /\ RegInv'
  BY <1>c, <1>d DEF IInv, CallInv, DrainInv, DlockInv, RegInv
<1>5. ~bad'
  BY <1>d, Zenon
<1>6. DoneInv' /\ ReadInv'
  BY <1>c, <1>d, <1>5 DEF DoneInv, Looks, ReadInv
<1>7. NoErrorMeansDone' /\ ReadPrefix'
  BY <1>d DEF NoErrorMeansDone, ReadPrefix, NoRet
<1> QED  BY <1>1, <1>2, <1>3, <1>4, <1>6, <1>7 DEF IInv, CallInv

LEMMA PutStep == IInv /\ Put => IInv'
<1> SUFFICES ASSUME IInv, Put PROVE IInv'
  OBVIOUS
<1>a. /\ c.pc = "put" /\ c.kind \in AllKinds /\ c.sent < c.n /\ c.sent \in Nat /\ c.n \in 0 .. MaxWords
      /\ c.cc \in Nat /\ c.perr \in 0 .. 4
  BY DEF Put, IInv, CallInv, TypeOK, CallType, PlaceInv
<1>b. /\ AfterPut \in Places
      /\ c.kind \in Polling => AfterPut = "poll"
      /\ c.kind \in Counting => AfterPut = "gate"
      /\ c.kind = "blind" => AfterPut = "done"
      /\ c.kind = "wpipe" => AfterPut = IF c.sent + 1 < c.n THEN "put" ELSE "poll"
      /\ c.kind = "rpipe" => AfterPut = IF c.sent + 1 < c.n THEN "put" ELSE "wait"
  BY <1>a DEF AfterPut, Places, AllKinds
<1> HIDE DEF AfterPut
<1>c. /\ c' \in CallType /\ c'.pc = AfterPut /\ c'.sent = c.sent + 1 /\ c'.cc = c.cc + 1
      /\ c'.kind = c.kind /\ c'.n = c.n /\ c'.perr = c.perr
  <2>1. c' = [c EXCEPT !.sent = c.sent + 1, !.cc = c.cc + 1, !.pc = AfterPut]
    BY DEF Put
  <2>2. c \in CallType /\ AfterPut \in Places /\ c.sent + 1 \in Nat /\ c.cc + 1 \in Nat
    BY <1>a, <1>b DEF IInv, CallInv, TypeOK
  <2>3. \A p \in Places, s, k \in Nat : [c EXCEPT !.sent = s, !.cc = k, !.pc = p] \in CallType
    BY <2>2 DEF CallType
  <2>4. c' \in CallType
    BY <2>1, <2>2, <2>3
  <2> QED  BY <2>1, <2>2, <2>4 DEF CallType
<1>d. /\ queue' = queue + 1 /\ UNCHANGED <<flight, old, dead, err, hdr, latch, ok, bad, ret>>
      /\ Own' = Own + 1
  BY DEF Put, history, IInv, CallInv, TypeOK
<1>1. TypeOK'
  BY <1>c, <1>d DEF IInv, CallInv, TypeOK
<1>2. PlaceInv'
  BY <1>a, <1>b, <1>c DEF IInv, CallInv, PlaceInv, AllKinds
<1>3. FifoInv'
  BY <1>a, <1>b, <1>c, <1>d, FifoLenPositive DEF IInv, CallInv, FifoInv, TypeOK
<1>4. DrainInv' /\ DlockInv' /\ RegInv'
  BY <1>a, <1>b, <1>c, <1>d DEF IInv, CallInv, DrainInv, DlockInv, RegInv, AllKinds
<1>5. DoneInv'
  BY <1>a, <1>b, <1>c, <1>d DEF IInv, CallInv, DoneInv, Looks, TypeOK, PlaceInv, AllKinds
<1>6. ReadInv'
  BY <1>a, <1>b, <1>c, <1>d DEF IInv, CallInv, ReadInv
<1>7. NoErrorMeansDone' /\ ReadPrefix'
  BY <1>d DEF IInv, NoErrorMeansDone, ReadPrefix
<1> QED  BY <1>1, <1>2, <1>3, <1>4, <1>5, <1>6, <1>7 DEF IInv, CallInv

\* A call that returns leaves an idle driver, of which the invariants say nothing
\* but the types; what it reports is for the caller of this lemma to show.
LEMMA ReturnStep ==
    ASSUME IInv, c' = NoCall, err' \in 0 .. 3, err' # LeDlock, UNCHANGED <<hdr, latch, ok, bad>>,
           \/ UNCHANGED <<queue, flight, old, dead>>
           \/ queue' = 0 /\ flight' = 0 /\ old' = 0 /\ dead' = 0
    PROVE  CallInv'
<1>1. TypeOK'
  BY NoCallType DEF IInv, CallInv, TypeOK
<1>2. PlaceInv' /\ FifoInv' /\ DrainInv' /\ DlockInv' /\ RegInv' /\ DoneInv' /\ ReadInv'
  BY NoCallType DEF PlaceInv, FifoInv, DrainInv, DlockInv, RegInv, DoneInv, Looks, ReadInv
<1> QED  BY <1>1, <1>2 DEF CallInv

\* The fields of what a call returns.
LEMMA ReturnFields ==
    ASSUME NEW num, NEW e, NEW sig, Return(num, e, sig)
    PROVE  /\ c' = NoCall /\ ret'.kind = c.kind /\ ret'.n = c.n /\ ret'.num = num
           /\ ret'.err = e /\ ret'.sig = sig /\ ret'.ok = ok /\ ret'.bad = (bad \/ queue + flight > old)
BY Zenon DEF Return

LEMMA BlindStep == IInv /\ BlindReturn => IInv'
<1> SUFFICES ASSUME IInv, BlindReturn PROVE IInv'
  OBVIOUS
<1>1. c.pc = "done" /\ Return(1, 0, FALSE) /\ UNCHANGED card /\ ok' = ok /\ bad' = bad
  BY DEF BlindReturn
<1>2. c' = NoCall /\ ret'.kind = "blind"
  BY <1>1, Zenon DEF Return, IInv, CallInv, PlaceInv
<1>3. UNCHANGED <<queue, flight, old, dead, err, hdr, latch>>
  BY <1>1 DEF card
<1>4. err' \in 0 .. 3 /\ err' # LeDlock
  BY <1>1, <1>3 DEF IInv, CallInv, TypeOK, DlockInv
<1>5. CallInv'
  BY <1>1, <1>2, <1>3, <1>4, ReturnStep
<1> QED  BY <1>2, <1>5 DEF IInv, NoErrorMeansDone, ReadPrefix

\* Without an error to read and without a balance all that was sent is done.
LEMMA AllDone ==
    ASSUME IInv, Looks, err = 0, Balance = 0, c.perr = 0
    PROVE  ~bad /\ Own = 0 /\ ok = c.sent
<1>1. ~bad
  BY DEF IInv, CallInv, DoneInv
<1>2. ok + Own = c.sent
  BY <1>1 DEF IInv, CallInv, DoneInv
<1>3. Own = 0
  BY DEF IInv, CallInv, TypeOK
<1>4. ok \in Nat
  BY DEF IInv, CallInv, TypeOK
<1> QED  BY <1>1, <1>2, <1>3, <1>4

LEMMA PollStep == IInv /\ Poll => IInv'
<1> SUFFICES ASSUME IInv, Poll PROVE IInv'
  OBVIOUS
<1>a. /\ c.pc = "poll" /\ err' = 0 /\ UNCHANGED <<queue, flight, old, dead, hdr, latch, ok, bad>>
      /\ err # 0 \/ Balance = 0
  BY DEF Poll, Readable
<1>1. CASE c.kind \in {"rloop", "cread"} /\ Seen(c.kind) = 0 /\ c.sent < c.n
  <2>1. c' = [c EXCEPT !.pc = "put"] /\ ret' = ret /\ err = 0
    BY <1>1 DEF Poll, Seen
  <2>2. /\ c' \in CallType /\ c'.pc = "put" /\ c'.kind = c.kind /\ c'.sent = c.sent /\ c'.n = c.n
        /\ c'.perr = c.perr
    BY <2>1 DEF IInv, CallInv, TypeOK, CallType, Places
  <2>3. TypeOK'
    BY <1>a, <2>2 DEF IInv, CallInv, TypeOK
  <2>4. PlaceInv' /\ FifoInv' /\ DrainInv' /\ DlockInv' /\ RegInv'
    BY <1>1, <1>a, <2>2 DEF IInv, CallInv, PlaceInv, FifoInv, DrainInv, DlockInv, RegInv
  <2>5. ~bad /\ c.perr = 0 /\ Own = 0 /\ ok = c.sent
    <3>1. c.perr = 0 /\ Looks
      BY <1>1, <1>a DEF IInv, CallInv, DoneInv, Looks
    <3> QED  BY <1>a, <2>1, <3>1, AllDone
  <2>6. DoneInv' /\ ReadInv'
    BY <1>1, <1>a, <2>2, <2>5 DEF IInv, CallInv, TypeOK, CallType, DoneInv, Looks, ReadInv
  <2>7. NoErrorMeansDone' /\ ReadPrefix'
    BY <2>1 DEF IInv, NoErrorMeansDone, ReadPrefix
  <2> QED  BY <2>3, <2>4, <2>6, <2>7 DEF IInv, CallInv
<1>2. CASE ~(c.kind \in {"rloop", "cread"} /\ Seen(c.kind) = 0 /\ c.sent < c.n)
  <2> DEFINE num == IF Seen(c.kind) = 0 THEN c.sent
                    ELSE IF c.kind \in {"rloop", "cread"} THEN c.sent - 1 ELSE 0
  <2>1. Return(num, Seen(c.kind), FALSE)
    BY <1>2, Zenon DEF Poll
  <2> HIDE DEF num
  <2>2. /\ c' = NoCall /\ ret'.kind = c.kind /\ ret'.n = c.n /\ ret'.num = num
        /\ ret'.err = Seen(c.kind) /\ ret'.ok = ok /\ ret'.bad = (bad \/ queue + flight > old)
    BY <2>1, ReturnFields, Zenon
  <2>3. CallInv'
    BY <1>a, <2>2, ReturnStep
  <2>4. ReadPrefix'
    <3>1. c.kind \in {"rloop", "cread"} => num <= ok
      <4> SUFFICES ASSUME c.kind \in {"rloop", "cread"} PROVE num <= ok
        OBVIOUS
      <4>1. c.sent - 1 <= ok
        BY <1>a DEF IInv, CallInv, ReadInv
      <4>2. Seen(c.kind) = 0 => ok = c.sent
        <5> SUFFICES ASSUME Seen(c.kind) = 0 PROVE ok = c.sent
          OBVIOUS
        <5>1. err = 0
          BY DEF Seen
        <5>2. c.perr = 0 /\ Looks
          BY <1>a DEF IInv, CallInv, DoneInv, Looks
        <5> QED  BY <1>a, <5>1, <5>2, AllDone
      <4>3. ok \in Nat /\ c.sent \in Nat
        BY DEF IInv, CallInv, TypeOK, CallType
      <4> QED  BY <4>1, <4>2, <4>3 DEF num
    <3> QED  BY <2>2, <3>1 DEF ReadPrefix
  <2>5. NoErrorMeansDone'
    <3> SUFFICES ASSUME c.kind \notin {"word", "put", "blind"}, Seen(c.kind) = 0
                 PROVE  ok = c.n /\ ~(bad \/ queue + flight > old)
      BY <2>2, Zenon DEF NoErrorMeansDone
    <3>1. c.kind \in {"reg", "rloop", "cread", "wpipe"} /\ c.sent = c.n /\ c.perr = 0
      BY <1>a, <1>2 DEF IInv, CallInv, PlaceInv, DoneInv, Looks, TypeOK, CallType
    <3>2. Looks
      BY <1>a, <3>1 DEF Looks
    <3>3. CASE err = 0
      <4>1. ~bad /\ Own = 0 /\ ok = c.sent
        BY <1>a, <3>1, <3>2, <3>3, AllDone
      <4>2. ~(queue + flight > old)
        BY <4>1 DEF IInv, CallInv, TypeOK
      <4> QED  BY <3>1, <4>1, <4>2
    <3>4. CASE err # 0
      <4>1. err = LeDlock /\ ~hdr /\ c.kind = "reg"
        <5>1. err = LeDlock
          BY <3>4, SeenError
        <5>2. c.kind = "reg"
          BY <3>1, <5>1 DEF Seen
        <5>3. ASSUME hdr PROVE FALSE
          BY <5>1, <5>2, <5>3 DEF Seen
        <5> QED  BY <5>1, <5>2, <5>3
      <4>2. ~bad
        BY <3>1, <3>2, <4>1, Zenon DEF IInv, CallInv, DoneInv
      <4>3. ok + Own = c.sent /\ Own = 0 /\ ok \in Nat
        BY <3>1, <3>2, <4>1, <4>2 DEF IInv, CallInv, DoneInv, RegInv, TypeOK
      <4>4. ~(queue + flight > old)
        BY <4>3 DEF IInv, CallInv, TypeOK
      <4> QED  BY <3>1, <4>2, <4>3, <4>4
    <3> QED  BY <3>3, <3>4
  <2> QED  BY <2>3, <2>4, <2>5 DEF IInv
<1> QED  BY <1>1, <1>2

\* wait_for_fifo opens for the next word, or the call goes on to its end.
LEMMA NextStep ==
    ASSUME IInv, c.pc = "gate", c' = NextWord, UNCHANGED <<queue, flight, old, dead, hdr, latch, ok, bad, ret>>,
           err' = err, err # LeDlock, Own < FifoLen(c.kind), c.perr = 0
    PROVE  IInv'
<1>1. c' = [c EXCEPT !.pc = IF c.sent < c.n THEN "put" ELSE "balance"]
  BY DEF NextWord
<1>2. /\ c' \in CallType /\ c'.pc = (IF c.sent < c.n THEN "put" ELSE "balance")
      /\ c'.kind = c.kind /\ c'.sent = c.sent /\ c'.n = c.n /\ c'.cc = c.cc /\ c'.perr = c.perr
  BY <1>1 DEF IInv, CallInv, TypeOK, CallType, Places
<1>3. TypeOK'
  BY <1>2 DEF IInv, CallInv, TypeOK
<1>4. PlaceInv' /\ DrainInv' /\ DlockInv' /\ RegInv' /\ FifoInv' /\ ReadInv'
  BY <1>2 DEF IInv, CallInv, TypeOK, CallType, PlaceInv, DrainInv, DlockInv, RegInv, FifoInv, ReadInv
<1>5. DoneInv'
  BY <1>2 DEF IInv, CallInv, TypeOK, CallType, DoneInv, Looks, PlaceInv
<1> QED  BY <1>3, <1>4, <1>5 DEF IInv, CallInv, NoErrorMeansDone, ReadPrefix

LEMMA GateOpenStep == IInv /\ GateOpen => IInv'
<1> SUFFICES ASSUME IInv, GateOpen PROVE IInv'
  OBVIOUS
<1>1. c.pc = "gate" /\ c.cc < FifoLen(c.kind) /\ c' = NextWord
      /\ UNCHANGED <<queue, flight, old, dead, err, hdr, latch, ok, bad, ret>>
  BY DEF GateOpen, card, history
<1>2. c.kind \in Counting /\ c.perr = 0 /\ err # LeDlock
  BY <1>1 DEF IInv, CallInv, PlaceInv, DoneInv, Looks, DlockInv
<1>3. Own <= c.cc /\ Own \in Int /\ c.cc \in Nat /\ FifoLen(c.kind) \in Nat
  BY <1>1, <1>2, FifoLenPositive DEF IInv, CallInv, FifoInv, TypeOK, CallType
<1>4. Own < FifoLen(c.kind)
  BY <1>1, <1>3
<1> QED  BY <1>1, <1>2, <1>4, NextStep

LEMMA GateClosedStep == IInv /\ GateClosed => IInv'
<1> SUFFICES ASSUME IInv, GateClosed PROVE IInv'
  OBVIOUS
<1>1. c.pc = "gate" /\ UNCHANGED <<queue, flight, old, dead, err, hdr, latch, ok, bad, ret>>
  BY DEF GateClosed, card, history
<1>2. Balance \in Nat /\ Own <= Balance
  BY DEF IInv, CallInv, TypeOK
<1>3. c' = [c EXCEPT !.cc = Balance]
  BY DEF GateClosed
<1>4. /\ c' \in CallType /\ c'.pc = c.pc /\ c'.kind = c.kind /\ c'.sent = c.sent /\ c'.n = c.n
      /\ c'.cc = Balance /\ c'.perr = c.perr
  BY <1>2, <1>3 DEF IInv, CallInv, TypeOK, CallType
<1>5. TypeOK'
  BY <1>1, <1>4 DEF IInv, CallInv, TypeOK
<1>6. PlaceInv' /\ DrainInv' /\ DlockInv' /\ RegInv' /\ ReadInv' /\ DoneInv'
  BY <1>1, <1>4 DEF IInv, CallInv, PlaceInv, DrainInv, DlockInv, RegInv, ReadInv, DoneInv, Looks
<1>7. FifoInv'
  BY <1>1, <1>2, <1>4 DEF IInv, CallInv, FifoInv
<1> QED  BY <1>1, <1>5, <1>6, <1>7 DEF IInv, CallInv, NoErrorMeansDone, ReadPrefix

LEMMA GateErrorStep == IInv /\ GateError => IInv'
<1> SUFFICES ASSUME IInv, GateError PROVE IInv'
  OBVIOUS
<1>a. c.pc = "gate" /\ UNCHANGED <<queue, flight, old, dead, hdr, latch, ok, bad, ret>>
  BY DEF GateError, history
<1>b. c.kind \in Counting /\ c.perr = 0 /\ err # LeDlock
  BY <1>a DEF IInv, CallInv, PlaceInv, DoneInv, Looks, DlockInv
<1>c. PICK e \in ReadOnce :
         /\ c' = IF e = 0 THEN NextWord ELSE [c EXCEPT !.pc = "balance", !.perr = e]
         /\ err' = IF e = EDlock THEN err ELSE 0
  BY DEF GateError
<1>d. e \in 0 .. 4 /\ (e = 0 => err = 0 /\ Balance = 0) /\ (e # EDlock => e = err)
  BY ReadOnceType
<1>1. CASE e = 0
  <2>1. err' = err /\ Own = 0 /\ FifoLen(c.kind) > 0 /\ c' = NextWord
    BY <1>1, <1>b, <1>c, <1>d, FifoLenPositive DEF IInv, CallInv, TypeOK
  <2> QED  BY <1>a, <1>b, <2>1, NextStep
<1>2. CASE e # 0
  <2>1. c' = [c EXCEPT !.pc = "balance", !.perr = e]
    BY <1>2, <1>c
  <2>2. /\ c' \in CallType /\ c'.pc = "balance" /\ c'.kind = c.kind /\ c'.sent = c.sent
        /\ c'.n = c.n /\ c'.cc = c.cc /\ c'.perr = e
    BY <2>1, <1>d DEF IInv, CallInv, TypeOK, CallType, Places
  <2>3. err' \in 0 .. 3 /\ err' # LeDlock
    BY <1>b, <1>c DEF IInv, CallInv, TypeOK
  <2>4. TypeOK'
    BY <1>a, <2>2, <2>3 DEF IInv, CallInv, TypeOK
  <2>5. PlaceInv' /\ DrainInv' /\ DlockInv' /\ RegInv' /\ FifoInv' /\ ReadInv'
    BY <1>a, <1>b, <2>2, <2>3 DEF IInv, CallInv, PlaceInv, DrainInv, DlockInv, RegInv, FifoInv, ReadInv
  <2>6. DoneInv'
    BY <1>2, <2>2 DEF DoneInv, Looks
  <2> QED  BY <1>a, <2>4, <2>5, <2>6 DEF IInv, CallInv, NoErrorMeansDone, ReadPrefix
<1> QED  BY <1>1, <1>2

LEMMA BalanceStep == IInv /\ DrainBalance => IInv'
<1> SUFFICES ASSUME IInv, DrainBalance PROVE IInv'
  OBVIOUS
<1>1. c.pc = "balance" /\ c' = [c EXCEPT !.pc = "drain", !.bal = Balance]
      /\ UNCHANGED <<queue, flight, old, dead, err, hdr, latch, ok, bad, ret>>
  BY DEF DrainBalance, card, history
<1>2. Balance \in Nat
  BY DEF IInv, CallInv, TypeOK
<1>3. /\ c' \in CallType /\ c'.pc = "drain" /\ c'.kind = c.kind /\ c'.sent = c.sent /\ c'.n = c.n
      /\ c'.cc = c.cc /\ c'.perr = c.perr /\ c'.bal = Balance
  BY <1>1, <1>2 DEF IInv, CallInv, TypeOK, CallType, Places
<1>4. TypeOK'
  BY <1>1, <1>3 DEF IInv, CallInv, TypeOK
<1>5. PlaceInv' /\ DlockInv' /\ RegInv' /\ FifoInv' /\ ReadInv'
  BY <1>1, <1>3 DEF IInv, CallInv, PlaceInv, DlockInv, RegInv, FifoInv, ReadInv
<1>6. DrainInv'
  BY <1>1, <1>3 DEF DrainInv
<1>7. DoneInv'
  BY <1>1, <1>3 DEF IInv, CallInv, DoneInv, Looks
<1> QED  BY <1>1, <1>4, <1>5, <1>6, <1>7 DEF IInv, CallInv, NoErrorMeansDone, ReadPrefix

\* What the end of a write loop does to the card, and how the call goes on.
LEMMA DrainFacts ==
    ASSUME IInv, Drain
    PROVE  /\ c.kind \in Counting /\ c.pc = "drain"
           /\ err' = 0 /\ UNCHANGED <<hdr, latch, ok, bad>>
           /\ \/ UNCHANGED <<queue, flight, old, dead>> /\ err # LeTo
              \/ queue' = 0 /\ flight' = 0 /\ old' = 0 /\ dead' = 0 /\ err = LeTo
           /\ \/ c.bal = 0 /\ Return(IF FirstError = 0 THEN c.n ELSE 0, FirstError, FALSE)
              \/ ret' = ret /\ c' = [c EXCEPT !.pc = "balance", !.perr = FirstError]
<1>1. c.kind \in Counting /\ c.pc = "drain"
  BY DEF Drain, IInv, CallInv, PlaceInv
<1>2. err' = 0 /\ UNCHANGED <<hdr, latch, ok, bad>>
  BY DEF Drain
<1>3. \/ UNCHANGED <<queue, flight, old, dead>> /\ err # LeTo
      \/ queue' = 0 /\ flight' = 0 /\ old' = 0 /\ dead' = 0 /\ err = LeTo
  BY DEF Drain, NoBalance
<1>4. \/ c.bal = 0 /\ Return(IF FirstError = 0 THEN c.n ELSE 0, FirstError, FALSE)
      \/ ret' = ret /\ c' = [c EXCEPT !.pc = "balance", !.perr = FirstError]
  BY Zenon DEF Drain
<1> QED  BY <1>1, <1>2, <1>3, <1>4

\* An error that the call must not lose is among what it has seen.
LEMMA FirstErrorFacts ==
    ASSUME IInv, c.kind \in Counting, c.pc = "drain"
    PROVE  /\ FirstError \in 0 .. 4
           /\ bad => FirstError # 0
           /\ FirstError = 0 => c.perr = 0 /\ err # LeTo /\ ok + Own = c.sent /\ c.sent = c.n
<1>1. FirstError \in 0 .. 4
  BY SeenType DEF FirstError, IInv, CallInv, TypeOK, CallType
<1>2. Looks /\ (bad => c.perr # 0 \/ (err # 0 /\ (err = LeDlock => hdr)))
  BY DEF IInv, CallInv, DoneInv, Looks
<1>3. hdr /\ err = LeDlock => Seen(c.kind) = Berr
  BY DEF Seen
<1>4. bad => FirstError # 0
  <2> SUFFICES ASSUME bad, c.perr = 0 PROVE Seen(c.kind) # 0
    BY DEF FirstError
  <2>1. err # 0 /\ (err = LeDlock => hdr)
    BY <1>2
  <2>2. CASE err = LeDlock
    BY <1>3, <2>1, <2>2
  <2>3. CASE err # LeDlock
    BY <2>1, <2>3, SeenError
  <2> QED  BY <2>2, <2>3
<1>5. FirstError = 0 => c.perr = 0 /\ err # LeTo
  <2>1. FirstError = 0 => c.perr = 0 /\ Seen(c.kind) = 0
    BY DEF FirstError
  <2>2. err = LeTo => Seen(c.kind) = LeTo
    BY SeenError
  <2> QED  BY <2>1, <2>2
<1>6. FirstError = 0 => ok + Own = c.sent /\ c.sent = c.n
  BY <1>2, <1>4, <1>5 DEF IInv, CallInv, DoneInv
<1> QED  BY <1>1, <1>4, <1>5, <1>6

LEMMA DrainStep == IInv /\ Drain => IInv'
<1> SUFFICES ASSUME IInv, Drain PROVE IInv'
  OBVIOUS
<1>a. c.kind \in Counting /\ c.pc = "drain" /\ err' = 0 /\ UNCHANGED <<hdr, latch, ok, bad>>
  BY DrainFacts
<1>b. \/ UNCHANGED <<queue, flight, old, dead>> /\ err # LeTo
      \/ queue' = 0 /\ flight' = 0 /\ old' = 0 /\ dead' = 0 /\ err = LeTo
  BY DrainFacts
<1>c. /\ FirstError \in 0 .. 4
      /\ bad => FirstError # 0
      /\ FirstError = 0 => c.perr = 0 /\ err # LeTo /\ ok + Own = c.sent /\ c.sent = c.n
  BY <1>a, FirstErrorFacts
<1> DEFINE first == FirstError
<1> HIDE DEF first
<1>1. ASSUME c.bal = 0, Return(IF FirstError = 0 THEN c.n ELSE 0, FirstError, FALSE)
      PROVE  IInv'
  <2>1. /\ c' = NoCall /\ ret'.kind = c.kind /\ ret'.n = c.n /\ ret'.err = FirstError /\ ret'.ok = ok
        /\ ret'.bad = (bad \/ queue + flight > old)
    BY <1>1, ReturnFields, Zenon
  <2>2. CallInv'
    BY <1>a, <1>b, <2>1, ReturnStep
  <2>3. NoErrorMeansDone'
    <3> SUFFICES ASSUME FirstError = 0 PROVE ok = c.n /\ ~(bad \/ queue + flight > old)
      BY <2>1, Zenon DEF NoErrorMeansDone
    <3>1. ~bad
      BY <1>c
    <3>2. Own = 0 /\ ~(queue + flight > old)
      BY <1>1, <1>a DEF IInv, CallInv, TypeOK, DrainInv
    <3>3. ok = c.n
      BY <1>c, <3>2 DEF IInv, CallInv, TypeOK
    <3> QED  BY <3>1, <3>2, <3>3
  <2>4. ReadPrefix'
    BY <1>a, <2>1 DEF ReadPrefix
  <2> QED  BY <2>2, <2>3, <2>4 DEF IInv
<1>2. ASSUME ret' = ret, c' = [c EXCEPT !.pc = "balance", !.perr = FirstError]
      PROVE  IInv'
  <2>1. c' = [c EXCEPT !.pc = "balance", !.perr = first] /\ first \in 0 .. 4
    BY <1>2, <1>c DEF first
  <2>2. /\ c' \in CallType /\ c'.pc = "balance" /\ c'.kind = c.kind /\ c'.sent = c.sent
        /\ c'.n = c.n /\ c'.cc = c.cc /\ c'.perr = first
    BY <2>1 DEF IInv, CallInv, TypeOK, CallType, Places
  <2>3. TypeOK'
    BY <1>a, <1>b, <2>2 DEF IInv, CallInv, TypeOK
  <2>4. PlaceInv' /\ DrainInv' /\ DlockInv' /\ RegInv' /\ ReadInv'
    BY <1>a, <2>2 DEF IInv, CallInv, PlaceInv, DrainInv, DlockInv, RegInv, ReadInv
  <2>5. FifoInv'
    BY <1>a, <1>b, <2>2, FifoLenPositive DEF IInv, CallInv, FifoInv, TypeOK, CallType
  <2>6. DoneInv'
    <3>1. bad' => first # 0
      BY <1>a, <1>c DEF first
    <3>2. ~bad' /\ first = 0 => ok' + Own' = c'.sent
      BY <1>a, <1>b, <1>c, <2>2 DEF first
    <3>3. first = 0 => c'.sent = c'.n
      BY <1>c, <2>2 DEF first
    <3> QED  BY <2>2, <3>1, <3>2, <3>3 DEF DoneInv, Looks
  <2>7. NoErrorMeansDone' /\ ReadPrefix'
    BY <1>2 DEF IInv, NoErrorMeansDone, ReadPrefix
  <2> QED  BY <2>3, <2>4, <2>5, <2>6, <2>7 DEF IInv, CallInv
<1> QED  BY <1>1, <1>2, DrainFacts

\* A pipelined read says "no error" only when prot_error was 0, that is when all
\* is confirmed; what is told after a signal is not said to be good.
LEMMA PipeStep == IInv /\ (PipeDone \/ PipeSignal) => IInv'
<1> SUFFICES ASSUME IInv, PipeDone \/ PipeSignal PROVE IInv'
  OBVIOUS
<1>1. c.pc = "wait" /\ \E sig \in BOOLEAN : PipeReturn(sig)
  BY Zenon DEF PipeDone, PipeSignal
<1>2. PICK sig \in BOOLEAN : PipeReturn(sig)
  BY <1>1
<1>3. PICK e \in ReadOnce : Return(c.n, e, sig) /\ err' = IF e = EDlock THEN err ELSE 0
  BY <1>2, Zenon DEF PipeReturn
<1>4. UNCHANGED <<queue, flight, old, dead, hdr, latch, ok, bad>>
  BY <1>2, Zenon DEF PipeReturn
<1>5. e \in 0 .. 4 /\ (e = 0 => err = 0 /\ Balance = 0) /\ (e # EDlock => e = err)
  BY ReadOnceType
<1>6. c.kind = "rpipe" /\ Looks /\ c.perr = 0 /\ c.sent = c.n /\ err # LeDlock
  BY <1>1 DEF IInv, CallInv, PlaceInv, DoneInv, Looks, DlockInv
<1>7. /\ c' = NoCall /\ ret'.kind = c.kind /\ ret'.n = c.n /\ ret'.err = e /\ ret'.ok = ok
      /\ ret'.bad = (bad \/ queue + flight > old)
  BY <1>3, ReturnFields, Zenon
<1>8. err' \in 0 .. 3 /\ err' # LeDlock
  BY <1>3, <1>6 DEF IInv, CallInv, TypeOK
<1>9. CallInv'
  BY <1>4, <1>7, <1>8, ReturnStep
<1>10. NoErrorMeansDone'
  <2> SUFFICES ASSUME e = 0 PROVE ok = c.n /\ ~(bad \/ queue + flight > old)
    BY <1>7, Zenon DEF NoErrorMeansDone
  <2>1. ~bad /\ Own = 0 /\ ok = c.sent
    BY <1>5, <1>6, AllDone
  <2>2. ~(queue + flight > old)
    BY <2>1 DEF IInv, CallInv, TypeOK
  <2> QED  BY <1>6, <2>1, <2>2
<1>11. ReadPrefix'
  BY <1>6, <1>7 DEF ReadPrefix
<1> QED  BY <1>9, <1>10, <1>11 DEF IInv

LEMMA ResetStep == IInv /\ Reset => IInv'
<1> SUFFICES ASSUME IInv, Reset PROVE IInv'
  OBVIOUS
<1>1. /\ c.pc = "idle" /\ err' = 0 /\ UNCHANGED <<c, hdr, latch, ok, bad, ret>>
      /\ queue' = 0 /\ flight' = 0 /\ old' = 0 /\ dead' = 0
  BY DEF Reset, NoBalance, history
<1>2. TypeOK'
  BY <1>1 DEF IInv, CallInv, TypeOK
<1>3. PlaceInv' /\ FifoInv' /\ DrainInv' /\ DlockInv' /\ RegInv' /\ DoneInv' /\ ReadInv'
  BY <1>1 DEF IInv, CallInv, PlaceInv, FifoInv, DrainInv, DlockInv, RegInv, DoneInv, Looks, ReadInv
<1> QED  BY <1>1, <1>2, <1>3 DEF IInv, CallInv, NoErrorMeansDone, ReadPrefix

-----------------------------------------------------------------------------
(* The invariant, and what follows.                                        *)

LEMMA InitInv == Init => IInv
<1> SUFFICES ASSUME Init PROVE IInv
  OBVIOUS
<1>1. /\ c = NoCall /\ queue = 0 /\ flight = 0 /\ old = 0 /\ dead = 0 /\ err = 0 /\ ok = 0
      /\ ret = NoRet
  BY DEF Init
<1>2. hdr \in BOOLEAN /\ latch \in BOOLEAN /\ bad \in BOOLEAN
  BY Zenon DEF Init
<1>3. TypeOK
  BY <1>1, <1>2, NoCallType DEF TypeOK
<1>4. PlaceInv /\ FifoInv /\ DrainInv /\ DlockInv /\ RegInv /\ DoneInv /\ ReadInv
  BY <1>1, NoCallType DEF PlaceInv, FifoInv, DrainInv, DlockInv, RegInv, DoneInv, Looks, ReadInv
<1>5. NoErrorMeansDone /\ ReadPrefix
  BY <1>1 DEF NoErrorMeansDone, ReadPrefix, NoRet
<1> QED  BY <1>3, <1>4, <1>5 DEF IInv, CallInv

LEMMA StepInv == IInv /\ [Next]_vars => IInv'
<1> SUFFICES ASSUME IInv, [Next]_vars PROVE IInv'
  OBVIOUS
<1>1. CASE Remote
  BY <1>1, SendStep, ConfirmStep, LostStep DEF Remote
<1>2. CASE Call
  BY <1>2, PutStep, BlindStep, PollStep, GateOpenStep, GateClosedStep, GateErrorStep, BalanceStep,
     DrainStep, PipeStep DEF Call
<1>3. CASE Reset
  BY <1>3, ResetStep
<1>4. ASSUME NEW kind \in Kinds, NEW n \in 1 .. MaxWords, kind \in Singles => n = 1, Begin(kind, n)
      PROVE  IInv'
  BY <1>4, BeginStep
<1>5. CASE UNCHANGED vars
  <2>1. UNCHANGED <<c, queue, flight, old, dead, err, hdr, latch, ok, bad, ret>>
    BY <1>5 DEF vars
  <2>2. CallInv'
    BY <2>1 DEF IInv, CallInv, TypeOK, PlaceInv, FifoInv, DrainInv, DlockInv, RegInv, DoneInv, Looks,
                ReadInv
  <2> QED  BY <2>1, <2>2 DEF IInv, NoErrorMeansDone, ReadPrefix
<1> QED  BY <1>1, <1>2, <1>3, <1>4, <1>5 DEF Next

\* The invariant holds: types, the places of a call, what it has counted, and
\* which errors it has seen.
LEMMA Invariant == Spec => []IInv
<1>1. Init => IInv
  BY InitInv
<1>2. IInv /\ [Next]_vars => IInv'
  BY StepInv
<1> QED  BY <1>1, <1>2, PTL DEF Spec

\* Every variable keeps its type, and the requests that belong to earlier calls
\* are among those without confirmation.
THEOREM TypeCorrect == Spec => []TypeOK
<1>1. IInv => TypeOK
  BY DEF IInv, CallInv
<1> QED  BY <1>1, Invariant, PTL

\* wait_for_fifo keeps the requests of a write loop within the send FIFO, whatever
\* its size, the number of words and the errors of the remote side.
THEOREM FifoCorrect == Spec => []FifoBounded
<1>1. IInv => FifoBounded
  <2> SUFFICES ASSUME IInv, c.kind \in Counting, c.pc # "idle"
               PROVE  Own * RequestLen(c.kind) <= Fifo - RequestLen(c.kind)
    BY DEF FifoBounded
  <2>1. Own <= FifoLen(c.kind) /\ Own \in Int
    BY DEF IInv, CallInv, FifoInv, TypeOK
  <2>2. Fifo \in Nat
    BY WordsAssumption
  <2>3. CASE c.kind = "wloop"
    BY <2>1, <2>2, <2>3 DEF FifoLen, RequestLen
  <2>4. CASE c.kind = "cwrite"
    BY <2>1, <2>2, <2>4 DEF FifoLen, RequestLen
  <2> QED  BY <2>3, <2>4
<1> QED  BY <1>1, Invariant, PTL

\* A register access, a loop or a pipelined access that returns no error has had
\* every word confirmed, and no word failed.
THEOREM DoneCorrect == Spec => []NoErrorMeansDone
<1>1. IInv => NoErrorMeansDone
  BY DEF IInv
<1> QED  BY <1>1, Invariant, PTL

\* The read loops report no word that has not come.
THEOREM ReadCorrect == Spec => []ReadPrefix
<1>1. IInv => ReadPrefix
  BY DEF IInv
<1> QED  BY <1>1, Invariant, PTL

\* A write loop that ends leaves no balance and no error for the next call.
THEOREM SettleCorrect == Spec => WriteSettles
<1> DEFINE Settled == c.pc # "idle" /\ c'.pc = "idle" /\ ret'.kind \in Counting
                         => Balance' = 0 /\ err' = 0
<1>1. IInv /\ [Next]_vars => [Settled]_vars
  <2> SUFFICES ASSUME IInv, Next, c.pc # "idle", c'.pc = "idle", ret'.kind \in Counting
               PROVE  Balance' = 0 /\ err' = 0
    OBVIOUS
  <2>1. ~Remote /\ ~Reset /\ \A kind \in Kinds, n \in 1 .. MaxWords : ~Begin(kind, n)
    BY DEF Remote, Send, Confirm, Fail, Lost, Reset, Begin, history
  <2>2. Call
    BY <2>1 DEF Next
  <2>3. CASE Drain
    <3>1. c.bal = 0 \/ c' = [c EXCEPT !.pc = "balance", !.perr = FirstError]
      BY <2>3, DrainFacts
    <3>2. c' = [c EXCEPT !.pc = "balance", !.perr = FirstError] => c'.pc = "balance"
      BY DEF IInv, CallInv, TypeOK, CallType
    <3>3. c.bal = 0 /\ c.pc = "drain" /\ err' = 0
      BY <2>3, <3>1, <3>2, DrainFacts
    <3>4. queue' + flight' + dead' = 0
      <4>1. UNCHANGED <<queue, flight, dead>> \/ (queue' = 0 /\ flight' = 0 /\ dead' = 0)
        BY <2>3, DrainFacts
      <4>2. queue + flight + dead = 0
        BY <3>3 DEF IInv, CallInv, DrainInv
      <4> QED  BY <4>1, <4>2
    <3> QED  BY <3>3, <3>4
  <2>4. CASE BlindReturn \/ Poll \/ PipeDone \/ PipeSignal
    <3>1. c.kind \notin Counting
      BY <2>4 DEF BlindReturn, Poll, PipeDone, PipeSignal, IInv, CallInv, PlaceInv
    <3>2. (ret' = ret /\ c' = [c EXCEPT !.pc = "put"]) \/ \E num, e, sig : Return(num, e, sig)
      <4>1. ASSUME BlindReturn PROVE \E num, e, sig : Return(num, e, sig)
        BY <4>1, Zenon DEF BlindReturn
      <4>2. ASSUME PipeDone \/ PipeSignal PROVE \E num, e, sig : Return(num, e, sig)
        BY <4>2, Zenon DEF PipeDone, PipeSignal, PipeReturn
      <4>3. ASSUME Poll
            PROVE  (ret' = ret /\ c' = [c EXCEPT !.pc = "put"]) \/ \E num, e, sig : Return(num, e, sig)
        BY <4>3, Zenon DEF Poll
      <4> QED  BY <2>4, <4>1, <4>2, <4>3
    <3>3. (\E num, e, sig : Return(num, e, sig)) => ret'.kind = c.kind
      BY ReturnFields, Zenon
    <3>4. c' = [c EXCEPT !.pc = "put"] => c'.pc # "idle"
      BY DEF IInv, CallInv, TypeOK, CallType
    <3> QED  BY <3>1, <3>2, <3>3, <3>4
  <2>5. CASE Put \/ GateOpen \/ GateClosed \/ GateError \/ DrainBalance
    <3>1. c \in CallType /\ c.pc # "idle"
      BY DEF IInv, CallInv, TypeOK
    <3>2. ~Put
      BY <3>1 DEF Put, AfterPut, CallType, AllKinds
    <3>3. ~GateOpen /\ ~GateClosed /\ ~GateError /\ ~DrainBalance
      BY <3>1 DEF GateOpen, GateClosed, GateError, NextWord, DrainBalance, CallType
    <3> QED  BY <2>5, <3>2, <3>3
  <2> QED  BY <2>2, <2>3, <2>4, <2>5 DEF Call
<1> QED  BY <1>1, Invariant, PTL DEF Spec, WriteSettles
=============================================================================
