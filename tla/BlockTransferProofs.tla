------------------------ MODULE BlockTransferProofs ------------------------
(***************************************************************************)
(* Proofs about BlockTransfer: what a call reports was moved, a short call *)
(* has its reason, a success leaves the channel idle, and which writes keep*)
(* to their side of the 2 GiB boundary, with signals, link changes,        *)
(* handlers between any two steps and a stuck channel.                     *)
(***************************************************************************)
EXTENDS BlockTransfer, TLAPS

\* No handler and no answer outlives the call it belongs to, and no left over
\* error is served while read_dma enables its interrupt.
NothingLate == "late" \notin Faults /\ "masked" \notin Faults
Regs == {None, BusError, HardError, LeSynch}
Irqs == {"dma0", "sync", "end", "lerr"}
Results == {"ok", "EIO", "EFAULT", "ERESTARTSYS"}
CallType == [kind : {"none", "read", "write"}, asked : Int, left : Int, addr : Int,
             size : {1, 2, 4}, chunk : Int, cnt : Int, more : BOOLEAN, res : Results, err : Errors,
             vme : BOOLEAN, fifo : BOOLEAN, stuck : BOOLEAN]
ReadRun == {"rWait", "rCount", "rStop", "rFinish"}
WriteRun == {"wWait", "wCheck"}
Before == {"rSetup", "rArm", "rLaunch", "wSetup", "wEnable", "wGo"}
Places == {"idle", "end"} \cup ReadRun \cup WriteRun \cup Before

\* Counts are integers: WriteChunk may be too large, see NeverCrosses.
Types ==
    /\ pc \in Places /\ call \in CallType
    /\ got \subseteq Irqs /\ isnap \subseteq Irqs
    /\ cr \subseteq {"sync", "end", "lerr"} /\ sr \subseteq {"sync", "end", "lerr"}
    /\ quota \in Int /\ bc \in Nat /\ moved \in Int
    /\ chan \in {"idle", "busy"} /\ reg \in Regs

\* Every word moved is counted once: by the loop or by the counter of the chunk.
WordInv ==
    /\ pc = "idle" => moved = 0
    /\ pc \in Before => ~(quota > 0) /\ moved = call.asked - call.left
           /\ call.res = "ok"
    /\ pc \in {"rArm", "rLaunch", "wEnable", "wGo"} => bc = 0
    /\ pc \in ReadRun \cup WriteRun =>
         /\ moved = call.asked - call.left + bc
         /\ quota > 0 => bc + quota = call.chunk /\ reg = None
    /\ pc \in {"wEnable", "wGo"} \cup WriteRun => call.cnt = call.chunk
    /\ pc \in {"wSetup", "wEnable", "wGo"} \cup WriteRun => call.kind = "write"

\* got_irqs and a running handler hold nothing older than the chunk that waits.
IrqInv ==
    /\ pc \in {"rSetup", "rArm", "rLaunch"} => "lerr" \notin sr \cap cr
    /\ "end" \in cr => pc \in {"wGo", "wWait"}
    /\ pc \in {"rArm", "rLaunch"} => ~done
    /\ pc = "rLaunch" => {"dma0", "lerr"} \cap (got \cup isnap) = {}
    /\ pc = "wGo" => {"lerr", "end"} \cap (sr \cup isnap) = {}

\* What has woken a read says how the channel ended.
ReadInv == pc \in ReadRun =>
    /\ "lerr" \in got \cup isnap \cup sr => reg # None
    /\ "dma0" \in got \cup isnap => done
    /\ done => ~(quota > 0) /\ chan = "idle" /\ (reg # None \/ bc = call.chunk \/ short)

\* The count read after the wait is that of a channel at rest.
CountInv ==
    /\ pc \in {"rStop", "rFinish"} /\ call.err \notin AbortCode =>
        /\ ~(quota > 0) /\ call.cnt = bc
        /\ IF call.more THEN bc = call.chunk ELSE reg # None \/ short
    /\ pc = "rFinish" => chan = "idle" \/ call.stuck

\* What has woken a write says why no word comes any more.
WriteInv ==
    /\ pc \in WriteRun =>
        /\ "lerr" \in got \cup isnap \cup sr => reg # None
        /\ "end" \in got \cup isnap \cup sr => reg # None \/ bc = call.chunk
        /\ reg = BusError /\ ~cut => up
    /\ pc = "wCheck" /\ call.res = "ok" => got \cap {"end", "sync", "lerr"} # {}

\* The result of a call, and the three properties in it.
EndInv == pc = "end" /\ call.res = "ok" =>
    /\ chan = "idle" \/ call.stuck
    /\ call.err = None => call.left = 0 \/ short
    /\ call.err \notin AbortCode => ~(quota > 0)
    /\ call.err \notin AbortCode
           /\ (call.kind = "write" /\ call.err = BusError => call.vme /\ ~cut)
         => call.asked - call.left = moved

IInv == Types /\ WordInv /\ IrqInv /\ ReadInv /\ CountInv /\ WriteInv /\ EndInv

USE DEF Places, ReadRun, WriteRun, Before, Irqs, Results

\* Facts about error codes and about the records a call goes through.
LEMMA Codes ==
    /\ None \in Errors /\ Regs \subseteq Errors /\ AbortCode \subseteq Errors
    /\ Regs \cap AbortCode = {}
    /\ None # BusError /\ None # HardError /\ None # LeSynch
    /\ BusError # HardError /\ BusError # LeSynch
BY DEF None, BusError, HardError, LeSynch, Errors, AbortCode, Regs

LEMMA NoneAborts == None \notin AbortCode
BY DEF None, AbortCode

LEMMA AbortedIs == Aborted \in AbortCode
BY DEF Aborted, AbortCode

Advanced(n, e) == [Advance(n) EXCEPT !.err = e]
Counted(n, m) == [call EXCEPT !.cnt = n, !.more = m, !.err = None]

LEMMA AdvanceIs ==
  ASSUME ConstAssumption, call \in CallType, NEW n \in Int, NEW e \in Errors
  PROVE LET r == Advanced(n, e) IN
        /\ r \in CallType
        /\ r.left = call.left - n /\ r.cnt = n /\ r.err = e
        /\ r.asked = call.asked /\ r.chunk = call.chunk /\ r.kind = call.kind
        /\ r.res = call.res /\ r.stuck = call.stuck /\ r.vme = call.vme
        /\ r.more = call.more
<1> DEFINE r == Advanced(n, e)
           a == IF call.fifo THEN call.addr ELSE (call.addr + n * call.size) % (2 * Boundary)
           l == call.left - n
           c == [call EXCEPT !.left = l, !.addr = a]
<1>1. a \in Int
  <2>1. 2 * Boundary \in Int /\ 2 * Boundary > 0 BY DEF ConstAssumption
  <2>2. n * call.size \in Int BY DEF CallType
  <2>3. call.addr \in Int /\ call.addr + n * call.size \in Int BY <2>2 DEF CallType
  <2> QED BY <2>1, <2>3
<1>2. l \in Int BY DEF CallType
<1>3. r = [c EXCEPT !.cnt = n, !.err = e] BY Zenon DEF Advance, Advanced
<1> HIDE DEF a, l
<1>4. /\ c \in CallType /\ c.left = l
      /\ c.asked = call.asked /\ c.chunk = call.chunk /\ c.kind = call.kind
      /\ c.res = call.res /\ c.stuck = call.stuck /\ c.vme = call.vme
             /\ c.more = call.more
  BY <1>1, <1>2 DEF CallType
<1> HIDE DEF c, r
<1>5. /\ r \in CallType /\ r.cnt = n /\ r.err = e /\ r.left = c.left
      /\ r.asked = c.asked /\ r.chunk = c.chunk /\ r.kind = c.kind
      /\ r.res = c.res /\ r.stuck = c.stuck /\ r.vme = c.vme /\ r.more = c.more
  BY <1>3, <1>4 DEF CallType
<1>6. l = call.left - n BY DEF l
<1>7. /\ r \in CallType /\ r.left = call.left - n /\ r.cnt = n /\ r.err = e
      /\ r.asked = call.asked /\ r.chunk = call.chunk /\ r.kind = call.kind
      /\ r.res = call.res /\ r.stuck = call.stuck /\ r.vme = call.vme
      /\ r.more = call.more
  BY <1>4, <1>5, <1>6
<1> QED BY <1>7, Zenon DEF r

LEMMA ResIs == ASSUME call \in CallType, NEW x \in Results, NEW e \in Errors
  PROVE LET r == [call EXCEPT !.res = x, !.err = e]
        IN /\ r \in CallType /\ r.res = x /\ r.err = e
           /\ r.asked = call.asked /\ r.left = call.left /\ r.chunk = call.chunk
           /\ r.cnt = call.cnt /\ r.kind = call.kind /\ r.stuck = call.stuck
BY DEF CallType

(* Each action keeps the invariant. *)
LEMMA InitInv == Init => IInv
BY Codes
  DEF Init, IInv, Types, CallType, NoCall, WordInv, IrqInv, ReadInv, CountInv,
      WriteInv, EndInv, Regs, Unset

LEMMA RemoteWordInv == ASSUME NothingLate, ConstAssumption, IInv, RemoteWord
  PROVE IInv'
<1> USE DEF RemoteWord, EndOfRequest, intr
<1>1. Types'
  <2>0. Types BY DEF IInv
  <2>1. pc' \in Places BY <2>0 DEF Types
  <2>2. call' \in CallType BY <2>0, Codes DEF Types, CallType
  <2>3. got' \subseteq Irqs /\ isnap' \subseteq Irqs BY <2>0 DEF Types
  <2>4. cr' \subseteq {"sync", "end", "lerr"} /\ sr' \subseteq {"sync", "end", "lerr"}
    BY <2>0 DEF Types
  <2>5. quota' \in Int /\ bc' \in Nat /\ moved' \in Int BY <2>0 DEF Types, CallType
  <2>6. chan' \in {"idle", "busy"} BY <2>0 DEF Types
  <2>7. reg' \in Regs BY <2>0 DEF Types, Regs
  <2> QED BY <2>1, <2>2, <2>3, <2>4, <2>5, <2>6, <2>7 DEF Types
<1>2. WordInv' BY Codes DEF IInv, Types, CallType, Regs, WordInv, CountInv, WriteInv
<1>3. IrqInv'
  BY Codes
    DEF IInv, Types, CallType, Regs, WordInv, IrqInv, ReadInv, WriteInv, CountInv
<1>4. ReadInv' BY Codes DEF IInv, Types, CallType, Regs, WordInv, IrqInv, ReadInv
<1>5. CountInv' BY Codes DEF IInv, Types, CallType, Regs, WordInv, ReadInv, CountInv
<1>6. WriteInv' BY Codes DEF IInv, Types, CallType, Regs, WordInv, IrqInv, WriteInv
<1>7. EndInv'
  BY Codes
    DEF IInv, Types, CallType, Regs, WordInv, ReadInv, CountInv, WriteInv, EndInv
<1> QED BY <1>1, <1>2, <1>3, <1>4, <1>5, <1>6, <1>7 DEF IInv

LEMMA RemoteErrorInv == ASSUME NothingLate, ConstAssumption, IInv, RemoteError
  PROVE IInv'
<1> USE DEF RemoteError, EndOfRequest, intr, history
<1>1. Types'
  <2>0. Types BY DEF IInv
  <2>1. pc' \in Places BY <2>0 DEF Types
  <2>2. call' \in CallType BY <2>0, Codes DEF Types, CallType
  <2>3. got' \subseteq Irqs /\ isnap' \subseteq Irqs BY <2>0 DEF Types
  <2>4. cr' \subseteq {"sync", "end", "lerr"} /\ sr' \subseteq {"sync", "end", "lerr"}
    BY <2>0 DEF Types
  <2>5. quota' \in Int /\ bc' \in Nat /\ moved' \in Int BY <2>0 DEF Types, CallType
  <2>6. chan' \in {"idle", "busy"} BY <2>0 DEF Types
  <2>7. reg' \in Regs BY <2>0 DEF Types, Regs
  <2> QED BY <2>1, <2>2, <2>3, <2>4, <2>5, <2>6, <2>7 DEF Types
<1>2. WordInv' BY Codes DEF IInv, Types, CallType, Regs, WordInv, CountInv, WriteInv
<1>3. IrqInv'
  BY Codes
    DEF IInv, Types, CallType, Regs, WordInv, IrqInv, ReadInv, WriteInv, CountInv
<1>4. ReadInv' BY Codes DEF IInv, Types, CallType, Regs, WordInv, IrqInv, ReadInv
<1>5. CountInv' BY Codes DEF IInv, Types, CallType, Regs, WordInv, ReadInv, CountInv
<1>6. WriteInv' BY Codes DEF IInv, Types, CallType, Regs, WordInv, IrqInv, WriteInv
<1>7. EndInv'
  BY Codes
    DEF IInv, Types, CallType, Regs, WordInv, ReadInv, CountInv, WriteInv, EndInv
<1> QED BY <1>1, <1>2, <1>3, <1>4, <1>5, <1>6, <1>7 DEF IInv

LEMMA RemoteShortInv == ASSUME NothingLate, ConstAssumption, IInv, RemoteShort
  PROVE IInv'
<1> USE DEF RemoteShort, EndOfRequest, intr
<1>1. Types' BY Codes DEF IInv, Types, CallType, Regs
<1>2. WordInv' BY Codes DEF IInv, Types, CallType, Regs, WordInv, CountInv, WriteInv
<1>3. IrqInv'
  BY Codes
    DEF IInv, Types, CallType, Regs, WordInv, IrqInv, ReadInv, WriteInv, CountInv
<1>4. ReadInv' BY Codes DEF IInv, Types, CallType, Regs, WordInv, IrqInv, ReadInv
<1>5. CountInv' BY Codes DEF IInv, Types, CallType, Regs, WordInv, ReadInv, CountInv
<1>6. WriteInv' BY Codes DEF IInv, Types, CallType, Regs, WordInv, IrqInv, WriteInv
<1>7. EndInv'
  BY Codes
    DEF IInv, Types, CallType, Regs, WordInv, ReadInv, CountInv, WriteInv, EndInv
<1> QED BY <1>1, <1>2, <1>3, <1>4, <1>5, <1>6, <1>7 DEF IInv

LEMMA LinkChangeInv == ASSUME NothingLate, ConstAssumption, IInv, LinkChange
  PROVE IInv'
<1> USE DEF LinkChange
<1>1. Types' BY Codes DEF IInv, Types, CallType, Regs
<1>2. WordInv' BY Codes DEF IInv, Types, CallType, Regs, WordInv, CountInv, WriteInv
<1>3. IrqInv'
  BY Codes
    DEF IInv, Types, CallType, Regs, WordInv, IrqInv, ReadInv, WriteInv, CountInv
<1>4. ReadInv' BY Codes DEF IInv, Types, CallType, Regs, WordInv, IrqInv, ReadInv
<1>5. CountInv' BY Codes DEF IInv, Types, CallType, Regs, WordInv, ReadInv, CountInv
<1>6. WriteInv' BY Codes DEF IInv, Types, CallType, Regs, WordInv, IrqInv, WriteInv
<1>7. EndInv'
  BY Codes
    DEF IInv, Types, CallType, Regs, WordInv, ReadInv, CountInv, WriteInv, EndInv
<1> QED BY <1>1, <1>2, <1>3, <1>4, <1>5, <1>6, <1>7 DEF IInv

LEMMA IntrEnterInv == ASSUME NothingLate, ConstAssumption, IInv, IntrEnter
  PROVE IInv'
<1> USE DEF IntrEnter, card, history
<1>1. Types' BY Codes DEF IInv, Types, CallType, Regs
<1>2. WordInv' BY Codes DEF IInv, Types, CallType, Regs, WordInv, CountInv, WriteInv
<1>3. IrqInv'
  <2>1. Types /\ WordInv /\ IrqInv BY DEF IInv
  <2>2. ASSUME pc = "rLaunch", "lerr" \in isnap' PROVE FALSE
    <3>1. "lerr" \in sr /\ sr \cap cr # {} BY <2>2
    <3>2. "end" \notin cr /\ "lerr" \notin cr BY <2>1, <2>2, <3>1 DEF IrqInv
    <3>3. "sync" \in sr BY <2>1, <3>1, <3>2 DEF Types
    <3> QED BY <2>2, <3>1, <3>3 DEF NothingLate
  <2>3. pc = "rLaunch" => "dma0" \notin isnap' BY <2>1 DEF IrqInv, Types
  <2>4. pc = "wGo" => isnap' \cap {"lerr", "end"} = {} BY <2>1 DEF IrqInv, Types
  <2>5. pc' = pc /\ got' = got /\ cr' = cr /\ sr' = sr /\ done' = done OBVIOUS
  <2> QED BY <2>1, <2>2, <2>3, <2>4, <2>5 DEF IrqInv
<1>4. ReadInv' BY Codes DEF IInv, Types, CallType, Regs, WordInv, IrqInv, ReadInv
<1>5. CountInv' BY Codes DEF IInv, Types, CallType, Regs, WordInv, ReadInv, CountInv
<1>6. WriteInv' BY Codes DEF IInv, Types, CallType, Regs, WordInv, IrqInv, WriteInv
<1>7. EndInv'
  BY Codes
    DEF IInv, Types, CallType, Regs, WordInv, ReadInv, CountInv, WriteInv, EndInv
<1> QED BY <1>1, <1>2, <1>3, <1>4, <1>5, <1>6, <1>7 DEF IInv

LEMMA IntrActInv == ASSUME NothingLate, ConstAssumption, IInv, IntrAct PROVE IInv'
<1> USE DEF IntrAct, history
<1>1. Types'
  <2>0. Types BY DEF IInv
  <2>1. pc' \in Places BY <2>0 DEF Types
  <2>2. call' \in CallType BY <2>0, Codes DEF Types, CallType
  <2>3. got' \subseteq Irqs /\ isnap' \subseteq Irqs BY <2>0 DEF Types
  <2>4. cr' \subseteq {"sync", "end", "lerr"} /\ sr' \subseteq {"sync", "end", "lerr"}
    BY <2>0 DEF Types
  <2>5. quota' \in Int /\ bc' \in Nat /\ moved' \in Int BY <2>0 DEF Types, CallType
  <2>6. chan' \in {"idle", "busy"} BY <2>0 DEF Types
  <2>7. reg' \in Regs BY <2>0 DEF Types, Regs
  <2> QED BY <2>1, <2>2, <2>3, <2>4, <2>5, <2>6, <2>7 DEF Types
<1>2. WordInv' BY Codes DEF IInv, Types, CallType, Regs, WordInv, CountInv, WriteInv
<1>3. IrqInv'
  BY Codes
    DEF IInv, Types, CallType, Regs, WordInv, IrqInv, ReadInv, WriteInv, CountInv,
        NothingLate
<1>4. ReadInv' BY Codes DEF IInv, Types, CallType, Regs, WordInv, IrqInv, ReadInv
<1>5. CountInv' BY Codes DEF IInv, Types, CallType, Regs, WordInv, ReadInv, CountInv
<1>6. WriteInv' BY Codes DEF IInv, Types, CallType, Regs, WordInv, IrqInv, WriteInv
<1>7. EndInv'
  BY Codes
    DEF IInv, Types, CallType, Regs, WordInv, ReadInv, CountInv, WriteInv, EndInv
<1> QED BY <1>1, <1>2, <1>3, <1>4, <1>5, <1>6, <1>7 DEF IInv

LEMMA SynchEnableInv == ASSUME NothingLate, ConstAssumption, IInv, SynchEnable
  PROVE IInv'
<1> USE DEF SynchEnable, history
<1>1. Types' BY Codes DEF IInv, Types, CallType, Regs
<1>2. WordInv' BY Codes DEF IInv, Types, CallType, Regs, WordInv, CountInv, WriteInv
<1>3. IrqInv'
  BY Codes
    DEF IInv, Types, CallType, Regs, WordInv, IrqInv, ReadInv, WriteInv, CountInv
<1>4. ReadInv' BY Codes DEF IInv, Types, CallType, Regs, WordInv, IrqInv, ReadInv
<1>5. CountInv' BY Codes DEF IInv, Types, CallType, Regs, WordInv, ReadInv, CountInv
<1>6. WriteInv' BY Codes DEF IInv, Types, CallType, Regs, WordInv, IrqInv, WriteInv
<1>7. EndInv'
  BY Codes
    DEF IInv, Types, CallType, Regs, WordInv, ReadInv, CountInv, WriteInv, EndInv
<1> QED BY <1>1, <1>2, <1>3, <1>4, <1>5, <1>6, <1>7 DEF IInv

LEMMA SynchInitInv == ASSUME NothingLate, ConstAssumption, IInv, SynchInit
  PROVE IInv'
<1> USE DEF SynchInit, card, history
<1>1. Types' BY Codes DEF IInv, Types, CallType, Regs
<1>2. WordInv' BY Codes DEF IInv, Types, CallType, Regs, WordInv, CountInv, WriteInv
<1>3. IrqInv'
  BY Codes
    DEF IInv, Types, CallType, Regs, WordInv, IrqInv, ReadInv, WriteInv, CountInv
<1>4. ReadInv' BY Codes DEF IInv, Types, CallType, Regs, WordInv, IrqInv, ReadInv
<1>5. CountInv' BY Codes DEF IInv, Types, CallType, Regs, WordInv, ReadInv, CountInv
<1>6. WriteInv' BY Codes DEF IInv, Types, CallType, Regs, WordInv, IrqInv, WriteInv
<1>7. EndInv'
  BY Codes
    DEF IInv, Types, CallType, Regs, WordInv, ReadInv, CountInv, WriteInv, EndInv
<1> QED BY <1>1, <1>2, <1>3, <1>4, <1>5, <1>6, <1>7 DEF IInv

LEMMA ReadSetupInv == ASSUME NothingLate, ConstAssumption, IInv, ReadSetup
  PROVE IInv'
<1> USE DEF ReadSetup, Fail, intr, history
<1>1. Types' BY Codes DEF IInv, Types, CallType, Regs, ConstAssumption, Smaller
<1>2. WordInv'
  BY Codes
    DEF IInv, Types, CallType, Regs, WordInv, CountInv, WriteInv, ConstAssumption
<1>3. IrqInv'
  BY Codes
    DEF IInv, Types, CallType, Regs, WordInv, IrqInv, ReadInv, WriteInv, CountInv
<1>4. ReadInv' BY Codes DEF IInv, Types, CallType, Regs, WordInv, IrqInv, ReadInv
<1>5. CountInv' BY Codes DEF IInv, Types, CallType, Regs, WordInv, ReadInv, CountInv
<1>6. WriteInv' BY Codes DEF IInv, Types, CallType, Regs, WordInv, IrqInv, WriteInv
<1>7. EndInv'
  BY Codes
    DEF IInv, Types, CallType, Regs, WordInv, ReadInv, CountInv, WriteInv, EndInv
<1> QED BY <1>1, <1>2, <1>3, <1>4, <1>5, <1>6, <1>7 DEF IInv

LEMMA ReadArmInv == ASSUME NothingLate, ConstAssumption, IInv, ReadArm PROVE IInv'
<1> USE DEF ReadArm, Settled, card, intr, history
<1>1. Types' BY Codes DEF IInv, Types, CallType, Regs
<1>2. WordInv' BY Codes DEF IInv, Types, CallType, Regs, WordInv, CountInv, WriteInv
<1>3. IrqInv'
  BY Codes
    DEF IInv, Types, CallType, Regs, WordInv, IrqInv, ReadInv, WriteInv, CountInv,
        NothingLate
<1>4. ReadInv' BY Codes DEF IInv, Types, CallType, Regs, WordInv, IrqInv, ReadInv
<1>5. CountInv' BY Codes DEF IInv, Types, CallType, Regs, WordInv, ReadInv, CountInv
<1>6. WriteInv' BY Codes DEF IInv, Types, CallType, Regs, WordInv, IrqInv, WriteInv
<1>7. EndInv'
  BY Codes
    DEF IInv, Types, CallType, Regs, WordInv, ReadInv, CountInv, WriteInv, EndInv
<1> QED BY <1>1, <1>2, <1>3, <1>4, <1>5, <1>6, <1>7 DEF IInv

LEMMA ReadLaunchInv == ASSUME NothingLate, ConstAssumption, IInv, ReadLaunch
  PROVE IInv'
<1> USE DEF ReadLaunch, Request, intr, history
<1>1. Types'
  <2>0. Types BY DEF IInv
  <2>1. pc' \in Places BY <2>0 DEF Types
  <2>2. call' \in CallType BY <2>0, Codes DEF Types, CallType
  <2>3. got' \subseteq Irqs /\ isnap' \subseteq Irqs BY <2>0 DEF Types
  <2>4. cr' \subseteq {"sync", "end", "lerr"} /\ sr' \subseteq {"sync", "end", "lerr"}
    BY <2>0 DEF Types
  <2>5. quota' \in Int /\ bc' \in Nat /\ moved' \in Int BY <2>0 DEF Types, CallType
  <2>6. chan' \in {"idle", "busy"} BY <2>0 DEF Types
  <2>7. reg' \in Regs BY <2>0 DEF Types, Regs
  <2> QED BY <2>1, <2>2, <2>3, <2>4, <2>5, <2>6, <2>7 DEF Types
<1>2. WordInv' BY Codes DEF IInv, Types, CallType, Regs, WordInv, CountInv, WriteInv
<1>3. IrqInv'
  BY Codes
    DEF IInv, Types, CallType, Regs, WordInv, IrqInv, ReadInv, WriteInv, CountInv
<1>4. ReadInv' BY Codes DEF IInv, Types, CallType, Regs, WordInv, IrqInv, ReadInv
<1>5. CountInv' BY Codes DEF IInv, Types, CallType, Regs, WordInv, ReadInv, CountInv
<1>6. WriteInv' BY Codes DEF IInv, Types, CallType, Regs, WordInv, IrqInv, WriteInv
<1>7. EndInv'
  BY Codes
    DEF IInv, Types, CallType, Regs, WordInv, ReadInv, CountInv, WriteInv, EndInv
<1> QED BY <1>1, <1>2, <1>3, <1>4, <1>5, <1>6, <1>7 DEF IInv

LEMMA ReadWaitInv == ASSUME NothingLate, ConstAssumption, IInv, ReadWait PROVE IInv'
<1> USE DEF ReadWait, EndReadWait, Woken, intr, history
<1>1. Types' BY Codes DEF IInv, Types, CallType, Regs
<1>2. WordInv' BY Codes DEF IInv, Types, CallType, Regs, WordInv, CountInv, WriteInv
<1>3. IrqInv'
  BY Codes
    DEF IInv, Types, CallType, Regs, WordInv, IrqInv, ReadInv, WriteInv, CountInv
<1>4. ReadInv' BY Codes DEF IInv, Types, CallType, Regs, WordInv, IrqInv, ReadInv
<1>5. CountInv' BY Codes DEF IInv, Types, CallType, Regs, WordInv, ReadInv, CountInv
<1>6. WriteInv' BY Codes DEF IInv, Types, CallType, Regs, WordInv, IrqInv, WriteInv
<1>7. EndInv'
  BY Codes
    DEF IInv, Types, CallType, Regs, WordInv, ReadInv, CountInv, WriteInv, EndInv
<1> QED BY <1>1, <1>2, <1>3, <1>4, <1>5, <1>6, <1>7 DEF IInv

LEMMA ReadKilledInv == ASSUME NothingLate, ConstAssumption, IInv, ReadKilled
  PROVE IInv'
<1> USE DEF ReadKilled, EndReadWait, Woken, intr, history
<1>1. Types' BY Codes DEF IInv, Types, CallType, Regs
<1>2. WordInv' BY Codes DEF IInv, Types, CallType, Regs, WordInv, CountInv, WriteInv
<1>3. IrqInv'
  BY Codes
    DEF IInv, Types, CallType, Regs, WordInv, IrqInv, ReadInv, WriteInv, CountInv
<1>4. ReadInv' BY Codes DEF IInv, Types, CallType, Regs, WordInv, IrqInv, ReadInv
<1>5. CountInv' BY Codes DEF IInv, Types, CallType, Regs, WordInv, ReadInv, CountInv
<1>6. WriteInv' BY Codes DEF IInv, Types, CallType, Regs, WordInv, IrqInv, WriteInv
<1>7. EndInv'
  BY Codes
    DEF IInv, Types, CallType, Regs, WordInv, ReadInv, CountInv, WriteInv, EndInv
<1> QED BY <1>1, <1>2, <1>3, <1>4, <1>5, <1>6, <1>7 DEF IInv

LEMMA CountedIs ==
  ASSUME call \in CallType, NEW n \in Int, NEW m \in BOOLEAN
  PROVE LET r == Counted(n, m) IN
        /\ r \in CallType
        /\ r.cnt = n /\ r.more = m /\ r.asked = call.asked /\ r.left = call.left
        /\ r.chunk = call.chunk /\ r.kind = call.kind /\ r.res = call.res
        /\ r.stuck = call.stuck
<1> DEFINE r == Counted(n, m)
           c == [call EXCEPT !.cnt = n, !.err = None]
<1>1. r = [c EXCEPT !.more = m] BY DEF CallType, Counted
<1>2. /\ c \in CallType /\ c.cnt = n /\ c.asked = call.asked /\ c.left = call.left
      /\ c.chunk = call.chunk /\ c.kind = call.kind /\ c.res = call.res
      /\ c.stuck = call.stuck
  BY Codes DEF CallType
<1> HIDE DEF c, r
<1>3. /\ r \in CallType /\ r.more = m /\ r.cnt = c.cnt /\ r.asked = c.asked
      /\ r.left = c.left /\ r.chunk = c.chunk /\ r.kind = c.kind /\ r.res = c.res
      /\ r.stuck = c.stuck
  BY <1>1, <1>2 DEF CallType
<1>4. /\ r \in CallType
      /\ r.cnt = n /\ r.more = m /\ r.asked = call.asked /\ r.left = call.left
      /\ r.chunk = call.chunk /\ r.kind = call.kind /\ r.res = call.res
      /\ r.stuck = call.stuck
  BY <1>2, <1>3
<1> QED BY <1>4, Zenon DEF r

LEMMA ReadCountInv == ASSUME NothingLate, ConstAssumption, IInv, ReadCount
  PROVE IInv'
<1> DEFINE m == (bc = call.chunk)
<1>1. Types /\ WordInv /\ IrqInv /\ ReadInv BY DEF IInv
<1>2. UNCHANGED <<got, card, intr, history>> /\ pc = "rCount" /\ pc' = "rStop"
  BY DEF ReadCount
<1>3. call' = IF got \cap {"dma0", "lerr"} # {}
               THEN [call EXCEPT !.cnt = bc, !.more = m, !.err = None]
               ELSE [call EXCEPT !.err = Aborted] BY DEF ReadCount
<1>4. m \in BOOLEAN /\ (m <=> bc = call.chunk) OBVIOUS
<1> HIDE DEF m
<1>5. /\ call' \in CallType /\ call'.asked = call.asked /\ call'.left = call.left
      /\ call'.chunk = call.chunk /\ call'.kind = call.kind /\ call'.res = call.res
      /\ call'.stuck = call.stuck
      /\ \/ got \cap {"dma0", "lerr"} # {} /\ call'.cnt = bc /\ call'.more = m
         \/ call'.err \in AbortCode
  <2>1. CASE got \cap {"dma0", "lerr"} # {}
    <3>1. call' = Counted(bc, m) BY <1>3, <2>1, Zenon DEF Counted
    <3>2. bc \in Int /\ call \in CallType BY <1>1 DEF Types
    <3>3. m \in BOOLEAN BY <1>4
    <3> QED BY <2>1, <3>1, <3>2, <3>3, CountedIs
  <2>2. CASE got \cap {"dma0", "lerr"} = {}
    <3>1. call' = [call EXCEPT !.err = Aborted] BY <1>3, <2>2
    <3>2. Aborted \in Errors BY AbortedIs, Codes
    <3> QED BY <1>1, <2>2, <3>1, <3>2, AbortedIs DEF Types, CallType
  <2> QED BY <2>1, <2>2
<1>6. Types' BY <1>1, <1>2, <1>5 DEF Types, card, intr, history
<1>7. WordInv' BY <1>1, <1>2, <1>5 DEF WordInv, card, intr, history
<1>8. IrqInv' BY <1>1, <1>2 DEF IrqInv, card, intr
<1>9. ReadInv' BY <1>1, <1>2, <1>5 DEF ReadInv, card, intr, history
<1>10. CountInv'
  <2>1. CASE call'.err \in AbortCode BY <1>2, <2>1 DEF CountInv
  <2>2. CASE call'.err \notin AbortCode
    <3>1. got \cap {"dma0", "lerr"} # {} /\ call'.cnt = bc /\ call'.more = m
      BY <1>5, <2>2
    <3>2. ~(quota > 0) /\ (m \/ reg # None \/ short)
      BY <1>1, <1>2, <1>4, <3>1 DEF WordInv, ReadInv
    <3> QED BY <1>2, <1>4, <1>5, <3>1, <3>2 DEF CountInv, card, history
  <2> QED BY <2>1, <2>2
<1>11. WriteInv' /\ EndInv' BY <1>2 DEF WriteInv, EndInv
<1> QED BY <1>6, <1>7, <1>8, <1>9, <1>10, <1>11 DEF IInv

LEMMA ReadStopInv == ASSUME NothingLate, ConstAssumption, IInv, ReadStop PROVE IInv'
<1> USE DEF ReadStop, intr, history
<1>1. Types'
  <2>0. Types BY DEF IInv
  <2>1. pc' \in Places BY <2>0 DEF Types
  <2>2. call' \in CallType
    <3>1. call' = call \/ call' = [call EXCEPT !.stuck = TRUE] OBVIOUS
    <3>2. TRUE \in BOOLEAN OBVIOUS
    <3>3. CASE call' = [call EXCEPT !.stuck = TRUE]
      BY <2>0, <3>2, <3>3, Zenon DEF Types, CallType
    <3> QED BY <2>0, <3>1, <3>3 DEF Types
  <2>3. got' \subseteq Irqs /\ isnap' \subseteq Irqs BY <2>0 DEF Types
  <2>4. cr' \subseteq {"sync", "end", "lerr"} /\ sr' \subseteq {"sync", "end", "lerr"}
    BY <2>0 DEF Types
  <2>5. quota' \in Int /\ bc' \in Nat /\ moved' \in Int BY <2>0 DEF Types, CallType
  <2>6. chan' \in {"idle", "busy"} BY <2>0 DEF Types
  <2>7. reg' \in Regs BY <2>0 DEF Types, Regs
  <2> QED BY <2>1, <2>2, <2>3, <2>4, <2>5, <2>6, <2>7 DEF Types
<1>2. WordInv' BY Codes DEF IInv, Types, CallType, Regs, WordInv, CountInv, WriteInv
<1>3. IrqInv'
  BY Codes
    DEF IInv, Types, CallType, Regs, WordInv, IrqInv, ReadInv, WriteInv, CountInv
<1>4. ReadInv' BY Codes DEF IInv, Types, CallType, Regs, WordInv, IrqInv, ReadInv
<1>5. CountInv' BY Codes DEF IInv, Types, CallType, Regs, WordInv, ReadInv, CountInv
<1>6. WriteInv' BY Codes DEF IInv, Types, CallType, Regs, WordInv, IrqInv, WriteInv
<1>7. EndInv'
  BY Codes
    DEF IInv, Types, CallType, Regs, WordInv, ReadInv, CountInv, WriteInv, EndInv
<1> QED BY <1>1, <1>2, <1>3, <1>4, <1>5, <1>6, <1>7 DEF IInv

LEMMA ReadFinishInv == ASSUME NothingLate, ConstAssumption, IInv, ReadFinish
  PROVE IInv'
<1> DEFINE err == IF call.err \in AbortCode THEN call.err ELSE reg
           res == IF err \in {HardError, LeSynch} THEN "EIO" ELSE call.res
<1>1. Types /\ WordInv /\ IrqInv /\ ReadInv /\ CountInv BY DEF IInv
<1>2. /\ pc = "rFinish"
      /\ UNCHANGED <<got, cr, sr, dmaEn, done, chan, bc, reg, intr, history>>
        BY DEF ReadFinish
<1>3. quota' = IF call.err \in AbortCode THEN 0 ELSE quota BY DEF ReadFinish
<1>4. err \in Errors /\ res \in Results
       /\ (err \in AbortCode <=> call.err \in AbortCode)
  BY <1>1, Codes DEF Types, CallType
<1>5. err \notin AbortCode => err = reg BY <1>4
<1> DEFINE Ended(n, code) ==
             IF code # "ok"
             THEN pc' = "end" /\ call' = [call EXCEPT !.res = code, !.err = err]
             ELSE /\ call' = [Advance(n) EXCEPT !.err = err]
                  /\ pc' = IF call.left # n /\ call.more /\ err = None
                           THEN "rSetup" ELSE "end"
           Answers(n) == {res} \cup IF CopyFails(n) THEN {"EFAULT"} ELSE {}
<1>60. \E n \in Used(call.cnt) : \E code \in Answers(n) : Ended(n, code)
  BY Zenon DEF ReadFinish
<1>61. PICK n \in Used(call.cnt) : \E code \in Answers(n) : Ended(n, code) BY <1>60, Zenon
<1>62. PICK code \in Answers(n) : Ended(n, code) BY <1>61, Zenon
<1>6. IF code # "ok"
      THEN pc' = "end" /\ call' = [call EXCEPT !.res = code, !.err = err]
      ELSE /\ call' = [Advance(n) EXCEPT !.err = err]
           /\ pc' = IF call.left # n /\ call.more /\ err = None THEN "rSetup" ELSE "end"
  BY <1>62, Zenon
<1>7. code \in Results /\ (code = "ok" => res = "ok" /\ call.res = "ok")
  BY <1>4, <1>62
<1> HIDE DEF err, res, Answers, Ended
<1>8. CASE code # "ok"
  <2>0. pc' = "end" /\ call' = [call EXCEPT !.res = code, !.err = err] BY <1>6, <1>8
  <2>1. call' \in CallType /\ call'.res # "ok"
    BY <1>1, <1>4, <1>7, <1>8, <2>0, ResIs DEF Types
  <2>2. Types' BY <1>1, <1>2, <1>3, <2>0, <2>1 DEF Types, intr, history
  <2>3. IrqInv' BY <1>1, <1>2, <2>0 DEF IrqInv, intr
  <2> QED
    BY <2>0, <2>1, <2>2, <2>3 DEF IInv, WordInv, ReadInv, CountInv, WriteInv, EndInv
<1>9. CASE code = "ok"
  <2>0. /\ call' = Advanced(n, err) /\ call.res = "ok"
        /\ pc' = IF call.left # n /\ call.more /\ err = None THEN "rSetup" ELSE "end"
    BY <1>6, <1>7, <1>9, Zenon DEF Advanced
  <2>1. n \in Int /\ (call.cnt = bc => n = bc)
    BY <1>1 DEF Types, CallType, Used, ConstAssumption, Unset
  <2>2. /\ call' \in CallType /\ call'.left = call.left - n /\ call'.err = err
        /\ call'.asked = call.asked /\ call'.res = "ok" /\ call'.stuck = call.stuck
    BY <1>1, <1>4, <2>0, <2>1, AdvanceIs DEF Types
  <2>3. Types' BY <1>1, <1>2, <1>3, <2>0, <2>2 DEF Types, intr, history
  <2>4. call.err \notin AbortCode =>
          /\ ~(quota > 0) /\ n = bc /\ quota' = quota /\ err = reg
          /\ IF call.more THEN bc = call.chunk ELSE reg # None \/ short
    BY <1>1, <1>2, <1>3, <1>4, <1>5, <2>1 DEF CountInv
  <2>5. moved = call.asked - call.left + bc BY <1>1, <1>2 DEF WordInv
  <2>6. CASE call.left # n /\ call.more /\ err = None
    <3>0. err \notin AbortCode BY <2>6, NoneAborts
    <3>1. pc' = "rSetup" /\ call.err \notin AbortCode BY <1>4, <2>0, <2>6, <3>0
    <3>2. WordInv'
      BY <1>1, <1>2, <2>2, <2>4, <2>5, <3>1 DEF WordInv, Types, CallType, history
    <3>3. "lerr" \notin sr BY <1>1, <1>2, <2>4, <2>6, <3>1 DEF ReadInv
    <3>4. IrqInv' BY <1>1, <1>2, <3>1, <3>3 DEF IrqInv
    <3> QED BY <2>3, <3>1, <3>2, <3>4 DEF IInv, ReadInv, CountInv, WriteInv, EndInv
  <2>7. CASE ~(call.left # n /\ call.more /\ err = None)
    <3>1. pc' = "end" BY <2>0, <2>7
    <3>2. chan' = "idle" \/ call'.stuck BY <1>1, <1>2, <2>2 DEF CountInv
    <3>3. ASSUME err = None PROVE call'.left = 0 \/ short
      <4>1. call.err \notin AbortCode BY <1>4, <3>3, NoneAborts
      <4>2. call.left = n \/ ~call.more BY <2>7, <3>3
      <4>3. err = reg BY <2>4, <4>1
      <4>4. CASE call.left = n BY <1>1, <2>2, <4>4 DEF Types, CallType
      <4>5. CASE ~call.more BY <2>4, <3>3, <4>1, <4>3, <4>5
      <4> QED BY <4>2, <4>4, <4>5
    <3>4. err \notin AbortCode => ~(quota' > 0) /\ call'.asked - call'.left = moved
      BY <1>1, <1>4, <2>2, <2>4, <2>5 DEF Types, CallType
    <3>5. EndInv' BY <1>2, <2>2, <3>2, <3>3, <3>4 DEF EndInv, history
    <3>6. IrqInv' BY <1>1, <1>2, <3>1 DEF IrqInv
    <3> QED BY <2>3, <3>1, <3>5, <3>6 DEF IInv, WordInv, ReadInv, CountInv, WriteInv
  <2> QED BY <2>6, <2>7
<1> QED BY <1>8, <1>9

LEMMA ChunkIs == ASSUME ConstAssumption, call \in CallType PROVE WriteChunk \in Int
<1> DEFINE n == Smaller(call.left, MaxChunk)
<1>1. n \in Int BY DEF CallType, ConstAssumption, Smaller
<1>2. (Boundary - call.addr) % (2 * Boundary) \in Int
  BY DEF CallType, ConstAssumption
<1>3. WriteChunk = n \/ WriteChunk = (Boundary - call.addr) % (2 * Boundary)
  BY DEF WriteChunk
<1> HIDE DEF n
<1> QED BY <1>1, <1>2, <1>3

LEMMA WriteSetupInv == ASSUME NothingLate, ConstAssumption, IInv, WriteSetup
  PROVE IInv'
<1> DEFINE c == WriteChunk
<1>1. Types /\ WordInv /\ IrqInv BY DEF IInv
<1>2. /\ pc = "wSetup"
      /\ UNCHANGED <<got, cr, sr, dmaEn, quota, reg, intr, history>>
        BY DEF WriteSetup
<1>3. c \in Int BY <1>1, ChunkIs DEF Types
<1>4. \/ /\ pc' = "end" /\ bc' = bc /\ chan' \in {"idle", "busy"}
         /\ \E x \in Results \ {"ok"} : call' = [call EXCEPT !.res = x]
      \/ /\ pc' = "wEnable" /\ chan' = "idle" /\ bc' = 0
         /\ call' = [call EXCEPT !.chunk = c, !.cnt = c]
  BY DEF WriteSetup, Fail
<1> HIDE DEF c
<1>5. CASE /\ pc' = "end" /\ bc' = bc /\ chan' \in {"idle", "busy"}
           /\ \E x \in Results \ {"ok"} : call' = [call EXCEPT !.res = x]
  <2>1. call' \in CallType /\ call'.res # "ok" BY <1>1, <1>5 DEF Types, CallType
  <2>2. Types' BY <1>1, <1>2, <1>5, <2>1 DEF Types, intr, history
  <2>3. IrqInv' BY <1>1, <1>2, <1>5 DEF IrqInv, intr
  <2> QED
    BY <1>5, <2>1, <2>2, <2>3 DEF IInv, WordInv, ReadInv, CountInv, WriteInv, EndInv
<1>6. CASE /\ pc' = "wEnable" /\ chan' = "idle" /\ bc' = 0
           /\ call' = [call EXCEPT !.chunk = c, !.cnt = c]
  <2>1. /\ call' \in CallType /\ call'.chunk = c /\ call'.cnt = c
         /\ call'.asked = call.asked
        /\ call'.left = call.left /\ call'.res = call.res /\ call'.kind = call.kind
    BY <1>1, <1>3, <1>6 DEF Types, CallType
  <2>2. Types' BY <1>1, <1>2, <1>6, <2>1 DEF Types, intr, history
  <2>3. IrqInv' BY <1>1, <1>2, <1>6 DEF IrqInv, intr
  <2>4. WordInv' BY <1>1, <1>2, <1>6, <2>1 DEF WordInv, history
  <2> QED BY <1>6, <2>2, <2>3, <2>4 DEF IInv, ReadInv, CountInv, WriteInv, EndInv
<1> QED BY <1>4, <1>5, <1>6

LEMMA WriteEnableInv == ASSUME NothingLate, ConstAssumption, IInv, WriteEnable
  PROVE IInv'
<1> USE DEF WriteEnable, Settled, intr, history
<1>1. Types' BY Codes DEF IInv, Types, CallType, Regs
<1>2. WordInv' BY Codes DEF IInv, Types, CallType, Regs, WordInv, CountInv, WriteInv
<1>3. IrqInv'
  BY Codes
    DEF IInv, Types, CallType, Regs, WordInv, IrqInv, ReadInv, WriteInv, CountInv,
        NothingLate
<1>4. ReadInv' BY Codes DEF IInv, Types, CallType, Regs, WordInv, IrqInv, ReadInv
<1>5. CountInv' BY Codes DEF IInv, Types, CallType, Regs, WordInv, ReadInv, CountInv
<1>6. WriteInv' BY Codes DEF IInv, Types, CallType, Regs, WordInv, IrqInv, WriteInv
<1>7. EndInv'
  BY Codes
    DEF IInv, Types, CallType, Regs, WordInv, ReadInv, CountInv, WriteInv, EndInv
<1> QED BY <1>1, <1>2, <1>3, <1>4, <1>5, <1>6, <1>7 DEF IInv

LEMMA WriteGoInv == ASSUME NothingLate, ConstAssumption, IInv, WriteGo PROVE IInv'
<1> USE DEF WriteGo, intr, history
<1>1. Types'
  <2>0. Types BY DEF IInv
  <2>1. pc' \in Places BY <2>0 DEF Types
  <2>2. call' \in CallType BY <2>0, Codes DEF Types, CallType
  <2>3. got' \subseteq Irqs /\ isnap' \subseteq Irqs BY <2>0 DEF Types
  <2>4. cr' \subseteq {"sync", "end", "lerr"} /\ sr' \subseteq {"sync", "end", "lerr"}
    BY <2>0 DEF Types
  <2>5. quota' \in Int /\ bc' \in Nat /\ moved' \in Int BY <2>0 DEF Types, CallType
  <2>6. chan' \in {"idle", "busy"} BY <2>0 DEF Types
  <2>7. reg' \in Regs BY <2>0 DEF Types, Regs
  <2> QED BY <2>1, <2>2, <2>3, <2>4, <2>5, <2>6, <2>7 DEF Types
<1>2. WordInv' BY Codes DEF IInv, Types, CallType, Regs, WordInv, CountInv, WriteInv
<1>3. IrqInv'
  BY Codes
    DEF IInv, Types, CallType, Regs, WordInv, IrqInv, ReadInv, WriteInv, CountInv
<1>4. ReadInv' BY Codes DEF IInv, Types, CallType, Regs, WordInv, IrqInv, ReadInv
<1>5. CountInv' BY Codes DEF IInv, Types, CallType, Regs, WordInv, ReadInv, CountInv
<1>6. WriteInv' BY Codes DEF IInv, Types, CallType, Regs, WordInv, IrqInv, WriteInv
<1>7. EndInv'
  BY Codes
    DEF IInv, Types, CallType, Regs, WordInv, ReadInv, CountInv, WriteInv, EndInv
<1> QED BY <1>1, <1>2, <1>3, <1>4, <1>5, <1>6, <1>7 DEF IInv

LEMMA WriteWaitInv == ASSUME NothingLate, ConstAssumption, IInv, WriteWait
  PROVE IInv'
<1> USE DEF WriteWait, EndWriteWait, Woken, intr, history
<1>1. Types' BY Codes DEF IInv, Types, CallType, Regs
<1>2. WordInv' BY Codes DEF IInv, Types, CallType, Regs, WordInv, CountInv, WriteInv
<1>3. IrqInv'
  BY Codes
    DEF IInv, Types, CallType, Regs, WordInv, IrqInv, ReadInv, WriteInv, CountInv
<1>4. ReadInv' BY Codes DEF IInv, Types, CallType, Regs, WordInv, IrqInv, ReadInv
<1>5. CountInv' BY Codes DEF IInv, Types, CallType, Regs, WordInv, ReadInv, CountInv
<1>6. WriteInv' BY Codes DEF IInv, Types, CallType, Regs, WordInv, IrqInv, WriteInv
<1>7. EndInv'
  BY Codes
    DEF IInv, Types, CallType, Regs, WordInv, ReadInv, CountInv, WriteInv, EndInv
<1> QED BY <1>1, <1>2, <1>3, <1>4, <1>5, <1>6, <1>7 DEF IInv

LEMMA WriteKilledInv == ASSUME NothingLate, ConstAssumption, IInv, WriteKilled
  PROVE IInv'
<1> USE DEF WriteKilled, EndWriteWait, Woken, intr, history
<1>1. Types' BY Codes DEF IInv, Types, CallType, Regs
<1>2. WordInv' BY Codes DEF IInv, Types, CallType, Regs, WordInv, CountInv, WriteInv
<1>3. IrqInv'
  BY Codes
    DEF IInv, Types, CallType, Regs, WordInv, IrqInv, ReadInv, WriteInv, CountInv
<1>4. ReadInv' BY Codes DEF IInv, Types, CallType, Regs, WordInv, IrqInv, ReadInv
<1>5. CountInv' BY Codes DEF IInv, Types, CallType, Regs, WordInv, ReadInv, CountInv
<1>6. WriteInv' BY Codes DEF IInv, Types, CallType, Regs, WordInv, IrqInv, WriteInv
<1>7. EndInv'
  BY Codes
    DEF IInv, Types, CallType, Regs, WordInv, ReadInv, CountInv, WriteInv, EndInv
<1> QED BY <1>1, <1>2, <1>3, <1>4, <1>5, <1>6, <1>7 DEF IInv

LEMMA WriteCheckInv == ASSUME NothingLate, ConstAssumption, IInv, WriteCheck
  PROVE IInv'
<1> DEFINE lost == call.res # "ok" \/ "sync" \in got
           err == IF lost THEN Aborted ELSE reg
           res == IF lost \/ err \in {HardError, LeSynch} \/ chan = "busy" THEN "EIO"
                  ELSE "ok"
<1>1. Types /\ WordInv /\ IrqInv /\ WriteInv BY DEF IInv
<1>2. pc = "wCheck" /\ UNCHANGED <<got, card, intr, history>> BY DEF WriteCheck
<1>3. err \in Errors /\ res \in Results BY <1>1, Codes, AbortedIs DEF Types
<1>4. res = "ok" =>
        /\ call.res = "ok" /\ "sync" \notin got /\ err = reg /\ chan = "idle"
        /\ err \in {None, BusError}
  BY <1>1 DEF Types, Regs
<1>5. PICK n \in IF err = BusError THEN WrittenCounts ELSE {call.cnt} :
            IF res # "ok"
            THEN pc' = "end" /\ call' = [call EXCEPT !.res = res, !.err = err]
            ELSE /\ call' = Advanced(n, err)
                 /\ pc' = IF call.left # n /\ err = None THEN "wSetup" ELSE "end"
  BY Zenon DEF WriteCheck, Advanced
<1> HIDE DEF lost, err, res
<1>6. n \in Int /\ (err = None => n = call.chunk)
       /\ (err = BusError /\ call.vme /\ up => n = bc)
  BY <1>1, <1>2, <1>5, Codes
    DEF Types, CallType, WordInv, WrittenCounts, ConstAssumption
<1>7. CASE res # "ok"
  <2>0. pc' = "end" /\ call' = [call EXCEPT !.res = res, !.err = err] BY <1>5, <1>7
  <2>1. call' \in CallType /\ call'.res # "ok"
    BY <1>1, <1>3, <1>7, <2>0, ResIs DEF Types
  <2>2. Types' BY <1>1, <1>2, <2>0, <2>1 DEF Types, card, intr, history
  <2>3. IrqInv' BY <1>1, <1>2, <2>0 DEF IrqInv, card, intr
  <2> QED
    BY <2>0, <2>1, <2>2, <2>3 DEF IInv, WordInv, ReadInv, CountInv, WriteInv, EndInv
<1>8. CASE res = "ok"
  <2>0. /\ call' = Advanced(n, err)
        /\ pc' = IF call.left # n /\ err = None THEN "wSetup" ELSE "end"
          BY <1>5, <1>8
  <2>1. /\ call' \in CallType /\ call'.left = call.left - n /\ call'.err = err
        /\ call'.asked = call.asked /\ call'.res = "ok" /\ call'.kind = call.kind
        /\ call'.vme = call.vme
    BY <1>1, <1>3, <1>4, <1>6, <1>8, <2>0, AdvanceIs DEF Types
  <2>2. Types' BY <1>1, <1>2, <2>0, <2>1 DEF Types, card, intr, history
  <2>3. err = reg /\ (reg # None \/ bc = call.chunk)
    BY <1>1, <1>2, <1>4, <1>8 DEF WriteInv
  <2>4. ~(quota > 0) BY <1>1, <1>2, <2>3, Codes DEF WordInv, Types, CallType
  <2>5. moved = call.asked - call.left + bc BY <1>1, <1>2 DEF WordInv
  <2>6. CASE call.left # n /\ err = None
    <3>1. pc' = "wSetup" /\ n = bc BY <1>6, <2>0, <2>3, <2>6
    <3>2. WordInv'
      BY <1>1, <1>2, <2>1, <2>4, <2>5, <3>1
        DEF WordInv, Types, CallType, card, history
    <3>3. IrqInv' BY <1>1, <1>2, <3>1 DEF IrqInv, card, intr
    <3> QED BY <2>2, <3>1, <3>2, <3>3 DEF IInv, ReadInv, CountInv, WriteInv, EndInv
  <2>7. CASE ~(call.left # n /\ err = None)
    <3>1. pc' = "end" BY <2>0, <2>7
    <3>2. err = None => call'.left = 0 BY <1>1, <1>6, <2>1, <2>7 DEF Types, CallType
    <3>3. (err = BusError => call.vme /\ ~cut) => n = bc
      <4>1. CASE err = None BY <1>6, <2>3, <4>1
      <4>2. CASE err = BusError BY <1>1, <1>2, <1>6, <2>3, <4>2 DEF WriteInv
      <4>3. err \in {None, BusError} BY <1>4, <1>8
      <4> QED BY <4>1, <4>2, <4>3
    <3>4. EndInv'
      BY <1>1, <1>2, <1>4, <1>8, <2>1, <2>4, <2>5, <3>2, <3>3
        DEF EndInv, Types, CallType, WordInv, card, intr, history
    <3>5. IrqInv' BY <1>1, <1>2, <3>1 DEF IrqInv, card, intr
    <3> QED BY <2>2, <3>1, <3>4, <3>5 DEF IInv, WordInv, ReadInv, CountInv, WriteInv
  <2> QED BY <2>6, <2>7
<1> QED BY <1>7, <1>8

LEMMA ReturnInv == ASSUME NothingLate, ConstAssumption, IInv, Return PROVE IInv'
<1> USE DEF Return, intr
<1>1. Types'
  BY Codes DEF IInv, Types, CallType, Regs, ConstAssumption, NoCall, Unset
<1>2. WordInv'
  BY Codes
    DEF IInv, Types, CallType, Regs, WordInv, CountInv, WriteInv, ConstAssumption,
        Unset
<1>3. IrqInv'
  BY Codes
    DEF IInv, Types, CallType, Regs, WordInv, IrqInv, ReadInv, WriteInv, CountInv
<1>4. ReadInv' BY Codes DEF IInv, Types, CallType, Regs, WordInv, IrqInv, ReadInv
<1>5. CountInv' BY Codes DEF IInv, Types, CallType, Regs, WordInv, ReadInv, CountInv
<1>6. WriteInv' BY Codes DEF IInv, Types, CallType, Regs, WordInv, IrqInv, WriteInv
<1>7. EndInv'
  BY Codes
    DEF IInv, Types, CallType, Regs, WordInv, ReadInv, CountInv, WriteInv, EndInv,
        Unset
<1> QED BY <1>1, <1>2, <1>3, <1>4, <1>5, <1>6, <1>7 DEF IInv

LEMMA BeginInv ==
  ASSUME NothingLate, ConstAssumption, IInv, NEW k \in {"read", "write"},
         NEW rq \in Requests, Begin(k, rq)
  PROVE IInv'
<1> DEFINE n == rq.words
           a == rq.addr
           z == rq.size
<1>1. Types /\ WordInv /\ IrqInv BY DEF IInv
<1>2. /\ pc = "idle" /\ quota = 0 /\ sr \cap cr \subseteq {"sync"}
      /\ UNCHANGED <<got, card, intr, history>>
      /\ pc' = IF k = "read" THEN "rSetup" ELSE "wSetup"
  BY DEF Begin, Quiet, NothingLate
<1>3. PICK v \in {TRUE, k = "read"}, f \in {FALSE, k = "write"} :
        call' = [NoCall EXCEPT !.kind = k, !.asked = n, !.left = n, !.addr = a,
                               !.size = z, !.vme = v, !.fifo = f]
  BY Zenon DEF Begin
<1>4. n \in Int /\ a \in Int /\ z \in {1, 2, 4} BY DEF ConstAssumption
<1> HIDE DEF n, a, z
<1>5. call' = [kind |-> k, asked |-> n, left |-> n, addr |-> a, size |-> z, chunk |-> 0,
       cnt |-> Unset,
               more |-> FALSE, res |-> "ok", err |-> None, vme |-> v, fifo |-> f,
               stuck |-> FALSE]
  BY <1>3 DEF NoCall
<1>6. /\ call'.asked = n /\ call'.left = n /\ call'.res = "ok" /\ call'.kind = k
  BY <1>5
<1>7. call' \in CallType
  <2>1. v \in BOOLEAN /\ f \in BOOLEAN /\ FALSE \in BOOLEAN OBVIOUS
  <2>2. "ok" \in Results /\ k \in {"none", "read", "write"} /\ 0 \in Int OBVIOUS
  <2>3. Unset \in Int BY DEF Unset
  <2> QED BY <1>4, <1>5, <2>1, <2>2, <2>3, Codes, Zenon DEF CallType
<1>8. Types' BY <1>1, <1>2, <1>7 DEF Types, card, intr, history
<1>9. WordInv' BY <1>1, <1>2, <1>4, <1>6 DEF WordInv, card, history
<1>10. IrqInv' BY <1>1, <1>2 DEF IrqInv, Types, card, intr
<1> QED BY <1>2, <1>8, <1>9, <1>10 DEF IInv, ReadInv, CountInv, WriteInv, EndInv

LEMMA StutterInv == ASSUME IInv, UNCHANGED vars PROVE IInv'
BY DEF IInv, vars, Types, WordInv, IrqInv, ReadInv, CountInv, WriteInv, EndInv

LEMMA StepInv == ASSUME NothingLate, IInv, [Next]_vars PROVE IInv'
<1>1. CASE Call
  BY <1>1, ConstAssumption, ReadSetupInv, ReadArmInv, ReadLaunchInv, ReadWaitInv,
     ReadCountInv, ReadStopInv, ReadFinishInv, WriteSetupInv, WriteEnableInv,
            WriteGoInv,
     WriteWaitInv, WriteCheckInv, ReturnInv, Zenon DEF Call
<1>2. CASE Remote
  BY <1>2, ConstAssumption, RemoteWordInv, RemoteErrorInv, RemoteShortInv, Zenon
    DEF Remote
<1>3. CASE LinkChange \/ SynchEnable \/ SynchInit
  BY <1>3, ConstAssumption, LinkChangeInv, SynchEnableInv, SynchInitInv, Zenon
<1>4. CASE ReadKilled \/ WriteKilled
  BY <1>4, ConstAssumption, ReadKilledInv, WriteKilledInv, Zenon
<1>5. CASE IntrEnter \/ IntrAct
  BY <1>5, ConstAssumption, IntrEnterInv, IntrActInv, Zenon
<1>6. CASE \E k \in {"read", "write"}, rq \in Requests : Begin(k, rq)
  BY <1>6, ConstAssumption, BeginInv, Zenon
<1>7. CASE UNCHANGED vars BY <1>7, StutterInv
<1> QED BY <1>1, <1>2, <1>3, <1>4, <1>5, <1>6, <1>7, Zenon DEF Next

\* The invariant holds from Init on.
LEMMA Invariant == ASSUME NothingLate PROVE Spec => []IInv
<1>1. Init => IInv BY InitInv
<1>2. IInv /\ [Next]_vars => IInv' BY StepInv
<1> QED BY <1>1, <1>2, PTL DEF Spec

(* The types of everything a transfer reads and writes.                    *)
THEOREM TypeCorrect == ASSUME NothingLate PROVE Spec => []TypeOK
<1>1. IInv => TypeOK BY Codes DEF IInv, Types, CallType, TypeOK
<1> QED BY <1>1, Invariant, PTL

(* What a call of read_dma or write_dma reports as transferred was          *)
(* transferred, for any sizes, addresses and chunks.                        *)
THEOREM ReportCorrect == ASSUME NothingLate PROVE Spec => []ReportedIsMoved
<1>1. IInv => ReportedIsMoved BY DEF IInv, EndInv, ReportedIsMoved, Reported
<1> QED BY <1>1, Invariant, PTL

(* A call that reports neither error nor abort has moved all it was asked   *)
(* for, unless the remote side ended the block.                             *)
THEOREM ReasonCorrect == ASSUME NothingLate PROVE Spec => []ShortHasReason
<1>1. IInv => ShortHasReason
  BY DEF IInv, EndInv, Types, CallType, ShortHasReason, Reported
<1> QED BY <1>1, Invariant, PTL

(* A call that succeeds leaves channel 0 idle for the next one.             *)
THEOREM ChannelCorrect == ASSUME NothingLate PROVE Spec => []IdleAfterSuccess
<1>1. IInv => IdleAfterSuccess BY DEF IInv, EndInv, IdleAfterSuccess
<1> QED BY <1>1, Invariant, PTL

(* The 2 GiB boundary.                                                     *)

WritePlaces == {"wSetup", "wEnable", "wGo", "wWait", "wCheck"}

\* What is left of a write stays below the end of the address space, and below the
\* boundary unless it is all above or its words are bytes.
Fits ==
    LET end == call.addr + call.left * call.size
    IN /\ call.left \in Nat \ {0} /\ call.addr \in Nat /\ end < 2 * Boundary
       /\ call.size = 1 \/ call.addr >= Boundary \/ end < Boundary

\* A block that write_dma's arithmetic, bytes taken for words, may lead astray.
Exposed == pc \in WritePlaces /\ ~Fits

\* A chunk of such a write is part of what is left and on one side.
CrossInv ==
    pc \in WritePlaces \ {"wSetup"} /\ Fits =>
        /\ call.chunk \in 1 .. call.left
        /\ Side(call.addr) = Side(call.addr + call.chunk * call.size - 1)

\* An address that is in the address space is its own remainder.
LEMMA ModIs ==
  ASSUME NEW x \in Nat, NEW m \in Nat, x < m PROVE x % m = x
OBVIOUS

\* Bytes of some of the words.
LEMMA Scale ==
  ASSUME NEW z \in {1, 2, 4}, NEW l \in Nat, NEW n \in 1 .. l
  PROVE  /\ n * z \in Nat /\ n * z >= 1 /\ n * z <= l * z /\ l * z \in Nat
         /\ (l - n) * z = l * z - n * z
<1>1. CASE z = 1 BY <1>1
<1>2. CASE z = 2 BY <1>2
<1>3. CASE z = 4 BY <1>3
<1> QED BY <1>1, <1>2, <1>3

\* Bit 31 of an address.
LEMMA SideIs ==
  ASSUME ConstAssumption, NEW x \in Nat, x < 2 * Boundary
  PROVE  Side(x) = IF x < Boundary THEN 0 ELSE 1
<1>1. Boundary \in Nat \ {0} BY DEF ConstAssumption
<1>2. x % (2 * Boundary) = x BY <1>1, ModIs
<1>3. x \div Boundary = IF x < Boundary THEN 0 ELSE 1 BY <1>1
<1> QED BY <1>2, <1>3 DEF Side

\* A chunk ends at the boundary or before.
LEMMA ChunkFits ==
  ASSUME ConstAssumption, call \in CallType, Fits
  PROVE  /\ WriteChunk \in 1 .. call.left
         /\ Side(call.addr) = Side(call.addr + WriteChunk * call.size - 1)
<1> DEFINE l == call.left
           a == call.addr
           z == call.size
           n == Smaller(l, MaxChunk)
           c == WriteChunk
<1>1. Boundary \in Nat \ {0} /\ MaxChunk \in Nat \ {0} BY DEF ConstAssumption
<1>2. n \in 1 .. l BY <1>1 DEF Smaller, Fits
<1>3. c = IF Side(a) # Side(a + n * z) THEN (Boundary - a) % (2 * Boundary) ELSE n
  BY Zenon DEF WriteChunk
<1>4. /\ a \in Nat /\ l \in Nat /\ z \in {1, 2, 4} /\ a + l * z < 2 * Boundary
      /\ z = 1 \/ a >= Boundary \/ a + l * z < Boundary
  BY DEF Fits, CallType
<1> HIDE DEF l, a, n, c, z
<1>5. n * z \in Nat /\ n * z >= 1 /\ n * z <= l * z /\ l * z \in Nat BY <1>2, <1>4, Scale
<1>6. /\ Side(a) = IF a < Boundary THEN 0 ELSE 1
      /\ Side(a + n * z) = IF a + n * z < Boundary THEN 0 ELSE 1
  <2>1. a + n * z \in Nat /\ a + n * z < 2 * Boundary /\ a < 2 * Boundary
    BY <1>1, <1>4, <1>5
  <2> QED BY <1>4, <2>1, SideIs
<1>7. CASE a < Boundary /\ a + n * z >= Boundary
  <2>1. Boundary - a \in Nat /\ Boundary - a < 2 * Boundary BY <1>1, <1>4, <1>7
  <2>2. (Boundary - a) % (2 * Boundary) = Boundary - a BY <1>1, <2>1, ModIs
  <2>3. c = Boundary - a
    <3>1. Side(a) = 0 BY <1>6, <1>7
    <3>2. ~(a + n * z < Boundary) BY <1>1, <1>4, <1>5, <1>7
    <3>3. Side(a + n * z) = 1 BY <1>6, <3>2
    <3>4. Side(a) # Side(a + n * z) BY <3>1, <3>3
    <3> QED BY <1>3, <2>2, <3>4, Zenon
  <2>4. z = 1 BY <1>1, <1>4, <1>5, <1>7
  <2>5. n * z = n /\ c * z = c BY <1>1, <1>2, <1>4, <2>3, <2>4
  <2>6. c \in 1 .. l BY <1>1, <1>2, <1>4, <1>7, <2>3, <2>5
  <2>7. Side(a + c * z - 1) = 0
    <3>1. a + c * z - 1 = Boundary - 1 BY <1>1, <1>4, <2>3, <2>5
    <3> QED BY <1>1, <3>1, SideIs
  <2>8. Side(a) = 0 BY <1>6, <1>7
  <2> QED BY <2>6, <2>7, <2>8 DEF a, l, c, z
<1>8. CASE ~(a < Boundary /\ a + n * z >= Boundary)
  <2>1. c = n BY <1>1, <1>3, <1>4, <1>5, <1>6, <1>8
  <2>2. Side(a + n * z - 1) = Side(a)
    <3>1. a + n * z - 1 \in Nat /\ a + n * z - 1 < 2 * Boundary BY <1>1, <1>4, <1>5
    <3>2. Side(a + n * z - 1) = IF a + n * z - 1 < Boundary THEN 0 ELSE 1
      BY <3>1, SideIs
    <3>3. (a + n * z - 1 < Boundary) <=> (a < Boundary) BY <1>1, <1>4, <1>5, <1>8
    <3> QED BY <1>6, <3>2, <3>3
  <2> QED BY <1>2, <2>1, <2>2 DEF a, l, c, z
<1> QED BY <1>7, <1>8

\* A step of a write keeps a block within the bounds and its chunk with it.
LEMMA CrossStep ==
  ASSUME IInv, CrossInv, [Next]_vars
  PROVE  CrossInv' /\ (pc # "idle" /\ ~Exposed => ~Exposed')
<1> DEFINE Goal == CrossInv' /\ (pc # "idle" /\ ~Exposed => ~Exposed')
<1> USE ConstAssumption DEF WritePlaces
<1>1. Types /\ WordInv BY DEF IInv
<1>2. CASE pc' \notin WritePlaces
  BY <1>2 DEF CrossInv, Exposed
<1>3. CASE pc \in WritePlaces /\ call' = call /\ (pc' = pc \/ pc # "wSetup")
  <2>1. Fits' <=> Fits BY <1>3 DEF Fits
  <2>2. CrossInv' BY <1>3, <2>1 DEF CrossInv, Side
  <2> QED BY <1>3, <2>1, <2>2 DEF Exposed
<1>4. CASE UNCHANGED <<pc, call>>
  <2>1. Fits' <=> Fits BY <1>4 DEF Fits
  <2>2. CrossInv' BY <1>4, <2>1 DEF CrossInv, Side
  <2> QED BY <1>4, <2>1, <2>2 DEF Exposed
<1>5. CASE WriteEnable \/ WriteGo \/ WriteWait
  <2>1. pc \in {"wEnable", "wGo", "wWait"} /\ call' = call
    BY <1>5 DEF WriteEnable, WriteGo, WriteWait, EndWriteWait
  <2> QED BY <1>3, <2>1
<1>6. CASE WriteKilled
  <2>1. /\ pc = "wWait" /\ call'.left = call.left /\ call'.addr = call.addr
        /\ call'.chunk = call.chunk /\ call'.size = call.size
    BY <1>1, <1>6 DEF WriteKilled, Types, CallType
  <2>2. Fits' <=> Fits BY <2>1 DEF Fits
  <2>3. CrossInv' BY <2>1, <2>2 DEF CrossInv, Side
  <2> QED BY <2>1, <2>2, <2>3 DEF Exposed
<1>7. CASE WriteSetup
  <2>1. pc = "wSetup" BY <1>7 DEF WriteSetup
  <2>2. CASE /\ pc' = "wEnable"
             /\ call' = [call EXCEPT !.chunk = WriteChunk, !.cnt = WriteChunk]
    <3> DEFINE c == WriteChunk
    <3>1. call' = [call EXCEPT !.chunk = c, !.cnt = c] BY <2>2
    <3>2. Fits => /\ c \in 1 .. call.left
                  /\ Side(call.addr) = Side(call.addr + c * call.size - 1)
      BY <1>1, ChunkFits, Zenon DEF Types
    <3> HIDE DEF c
    <3>3. /\ call'.left = call.left /\ call'.addr = call.addr /\ call'.chunk = c
          /\ call'.size = call.size
      BY <1>1, <3>1 DEF Types, CallType
    <3>4. Fits' <=> Fits BY <3>3 DEF Fits
    <3>5. CrossInv' BY <3>2, <3>3, <3>4 DEF CrossInv, Side
    <3> QED BY <2>1, <3>4, <3>5 DEF Exposed
  <2>3. CASE pc' = "end" BY <1>2, <2>3
  <2> QED BY <1>7, <2>2, <2>3 DEF WriteSetup, Fail
<1>8. CASE WriteCheck
  <2>1. pc = "wCheck" BY <1>8 DEF WriteCheck
  <2>2. CASE pc' = "end" BY <1>2, <2>2
  <2>3. CASE pc' # "end"
    <3> DEFINE n == call.cnt
               z == call.size
    <3>1. call' = Advanced(n, None) /\ pc' = "wSetup" /\ call.left # n
      BY <1>8, <2>3, Codes DEF WriteCheck, Advanced
    <3>2. CrossInv' BY <3>1 DEF CrossInv
    <3>3. ASSUME Fits PROVE Fits'
      <4>1. n = call.chunk BY <1>1, <2>1 DEF WordInv
      <4>2. n \in 1 .. call.left BY <2>1, <3>3, <4>1 DEF CrossInv
      <4>3. z \in {1, 2, 4} BY <1>1 DEF Types, CallType
      <4>4. /\ call.left \in Nat \ {0} /\ call.addr \in Nat
            /\ call.addr + call.left * z < 2 * Boundary
            /\ z = 1 \/ call.addr >= Boundary \/ call.addr + call.left * z < Boundary
        BY <3>3 DEF Fits
      <4> DEFINE a == (call.addr + n * z) % (2 * Boundary)
                 d == IF call.fifo THEN call.addr ELSE a
      <4>5. call' = [[call EXCEPT !.left = @ - n, !.cnt = n, !.addr = d]
                        EXCEPT !.err = None]
        BY <3>1, Zenon DEF Advanced, Advance
      <4> HIDE DEF a, d, n, z
      <4>6. call'.left = call.left - n /\ call'.addr = d /\ call'.size = z
        BY <1>1, <4>5 DEF Types, CallType, z
      <4>7. /\ n * z \in Nat /\ n * z >= 1 /\ n * z <= call.left * z
            /\ call.left * z \in Nat /\ (call.left - n) * z = call.left * z - n * z
        BY <4>2, <4>3, <4>4, Scale
      <4>8. Boundary \in Nat OBVIOUS
      <4>9. a = call.addr + n * z
        <5>1. call.addr + n * z \in Nat /\ call.addr + n * z < 2 * Boundary
          BY <4>4, <4>7, <4>8
        <5> QED BY <4>8, <5>1, ModIs DEF a
      <4>10. call.left - n \in Nat \ {0} BY <3>1, <4>2, <4>4
      <4>11. d \in {call.addr, call.addr + n * z} BY <4>9 DEF d
      <4>12. /\ d \in Nat /\ d + (call.left - n) * z < 2 * Boundary
             /\ z = 1 \/ d >= Boundary \/ d + (call.left - n) * z < Boundary
        <5>1. CASE d = call.addr BY <4>4, <4>7, <4>8, <5>1
        <5>2. CASE d = call.addr + n * z BY <4>4, <4>7, <4>8, <5>2
        <5> QED BY <4>11, <5>1, <5>2
      <4> QED BY <4>6, <4>10, <4>12 DEF Fits
    <3> QED BY <2>1, <3>2, <3>3 DEF Exposed
  <2> QED BY <2>2, <2>3
<1>9. ASSUME NEW k \in {"read", "write"}, NEW rq \in Requests, Begin(k, rq) PROVE Goal
  <2>1. pc = "idle" /\ pc' \in {"rSetup", "wSetup"} BY <1>9 DEF Begin
  <2> QED BY <2>1 DEF CrossInv
<1>10. CASE Call
  <2>1. CASE ReadSetup \/ ReadArm \/ ReadLaunch \/ ReadWait \/ ReadCount \/ ReadStop
               \/ ReadFinish \/ Return
    <3>1. pc' \notin WritePlaces
      BY <2>1 DEF ReadSetup, ReadArm, ReadLaunch, ReadWait, EndReadWait, ReadCount,
                  ReadStop, ReadFinish, Return, Fail
    <3> QED BY <1>2, <3>1
  <2> QED BY <1>5, <1>7, <1>8, <1>10, <2>1 DEF Call
<1>11. CASE ReadKilled
  BY <1>2, <1>11 DEF ReadKilled, EndReadWait
<1>12. CASE Remote \/ LinkChange \/ IntrEnter \/ IntrAct \/ SynchEnable \/ SynchInit
  BY <1>4, <1>12 DEF Remote, RemoteWord, RemoteError, RemoteShort, LinkChange, IntrEnter,
                     IntrAct, SynchEnable, SynchInit
<1>13. CASE UNCHANGED vars BY <1>4, <1>13 DEF vars
<1> QED BY <1>6, <1>9, <1>10, <1>11, <1>12, <1>13 DEF Next

(* Of a DMA write that stays below the end of the address space, and below  *)
(* the 2 GiB boundary unless it is all above it or made of bytes, no chunk  *)
(* has words on both sides or is longer than what is left, and the rest     *)
(* after a chunk is such a write again: whatever the size of its words.     *)
THEOREM BoundaryCorrect ==
  ASSUME NothingLate
  PROVE  Spec => /\ [](NeverCrosses \/ Exposed)
                 /\ [][pc # "idle" /\ ~Exposed => ~Exposed']_vars
<1>1. Init => CrossInv BY DEF Init, CrossInv, WritePlaces
<1>2. IInv /\ CrossInv /\ [Next]_vars =>
        /\ CrossInv'
        /\ [pc # "idle" /\ ~Exposed => ~Exposed']_vars
  BY CrossStep
<1>3. IInv /\ CrossInv => NeverCrosses \/ Exposed
  <2>1. ASSUME pc \in {"wEnable", "wGo", "wWait"}, CrossInv, Fits, call \in CallType
        PROVE  NeverCrosses
    BY <2>1 DEF CrossInv, NeverCrosses, WritePlaces, Fits
  <2> QED BY <2>1 DEF NeverCrosses, Exposed, WritePlaces, IInv, Types
<1> QED BY <1>1, <1>2, <1>3, Invariant, PTL DEF Spec

=============================================================================
