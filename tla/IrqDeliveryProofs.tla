------------------------- MODULE IrqDeliveryProofs -------------------------
(***************************************************************************)
(* Proofs about IrqDelivery: its types, that an interrupt has owners of    *)
(* one process, that sleepers are woken, that owned interrupts are enabled *)
(* or on their way, that pending ones are signalled, and that the vector   *)
(* of a single level is kept.                                              *)
(***************************************************************************)
EXTENDS IrqDelivery, TLAPS

LEMMA SomeVectorType == SomeVector \in Vectors
BY IrqAssumption DEF SomeVector

LEMMA SetFile == ASSUME NEW f \in Files, NEW r \in FdType,
    fd \in [Files -> FdType], fd' = [fd EXCEPT ![f] = r]
  PROVE fd' \in [Files -> FdType]
<1> HIDE DEF FdType
<1> QED OBVIOUS

\* Records of files after irq_ctl, with the sets of interrupts kept opaque.
LEMMA RecRelease == ASSUME NEW r \in FdType, NEW o \in SUBSET Srcs
  PROVE [r EXCEPT !.pc = "idle", !.owned = o, !.mask = {}] \in FdType
<1> DEFINE S == SUBSET Srcs
<1>1. {} \in S OBVIOUS
<1>2. FdType = [pc : {"closed", "idle", "ack", "set", "off", "asleep",
                         "get", "acking", "close"},
                   owned : S, sig : {-1, 0, 1}, mask : S, want : {-1, 0, 1}, auto : S]
  BY DEF FdType
<1>3. o \in S OBVIOUS
<1> HIDE DEF S
<1> QED BY <1>1, <1>2, <1>3

LEMMA RecReserve == ASSUME NEW r \in FdType, NEW o \in SUBSET Srcs,
    NEW m \in SUBSET Srcs, NEW a \in SUBSET Srcs, NEW w \in {-1, 0, 1},
    NEW p \in {"ack", "set"}
  PROVE [r EXCEPT !.owned = o, !.mask = m, !.auto = a, !.want = w, !.pc = p] \in FdType
<1> DEFINE S == SUBSET Srcs
<1>2. FdType = [pc : {"closed", "idle", "ack", "set", "off", "asleep",
                         "get", "acking", "close"},
                   owned : S, sig : {-1, 0, 1}, mask : S, want : {-1, 0, 1}, auto : S]
  BY DEF FdType
<1>3. o \in S /\ m \in S /\ a \in S OBVIOUS
<1> HIDE DEF S
<1> QED BY <1>2, <1>3

\* The type invariant in parts, one for each group of variables that change together.
CrateType ==
    line \subseteq Srcs /\ vec \in [Vme -> Vectors] /\ en \subseteq Srcs
WordType ==
    /\ bell \subseteq Remote /\ cmd \subseteq Srcs \cup {BellCmd}
    /\ th \in ThreadType
InfoType ==
    /\ pending \subseteq Srcs /\ autoack \subseteq Srcs
    /\ vects \in [Vme -> [valid : BOOLEAN, vector : Vectors]]
FileType ==
    fd \in [Files -> FdType] /\ told \in [Files -> SUBSET Srcs]
Types ==
    /\ CrateType /\ WordType /\ InfoType /\ FileType
    /\ sent \subseteq line \cap en

LEMMA InitTypes == Init => Types
<1> SUFFICES ASSUME Init PROVE Types OBVIOUS
<1>1. CrateType /\ sent \subseteq line \cap en BY SomeVectorType DEF Init, CrateType
<1>2. WordType BY DEF Init, WordType, Asleep, ThreadType
<1>3. InfoType
  <2>1. FALSE \in BOOLEAN OBVIOUS
  <2>2. vects = [l \in Vme |-> [valid |-> FALSE, vector |-> SomeVector]] BY DEF Init
  <2>3. \A l \in Vme : [valid |-> FALSE, vector |-> SomeVector] \in
         [valid : BOOLEAN, vector : Vectors]
    BY SomeVectorType, Zenon
  <2>4. vects \in [Vme -> [valid : BOOLEAN, vector : Vectors]] BY <2>2, <2>3, Zenon
  <2> QED BY <2>4 DEF Init, InfoType
<1>4. FileType
  <2>1. NoFile \in FdType BY DEF NoFile, FdType
  <2> QED BY <2>1 DEF Init, FileType
<1> QED BY <1>1, <1>2, <1>3, <1>4 DEF Types

LEMMA RaiseTypes == ASSUME Types, NEW s \in Active,
    Raise(s) \/ Doorbell(s) \/ Local(s)
  PROVE Types'
<1>a. s \in Srcs BY IrqAssumption
<1>1. CASE Raise(s)
  <2>1. CrateType' BY <1>1, <1>a DEF Raise, Types, CrateType
  <2>2. (sent \subseteq line \cap en)' BY <1>1 DEF Raise, Types
  <2>3. WordType' /\ InfoType' /\ FileType'
    BY <1>1 DEF Raise, Types, WordType, InfoType, FileType, thread, info
  <2> QED BY <2>1, <2>2, <2>3 DEF Types
<1>2. CASE Doorbell(s)
  BY <1>2, <1>a DEF Doorbell, Types, CrateType, WordType, InfoType, FileType, info
<1>3. CASE Local(s) 
  BY <1>3, <1>a DEF Local, Types, CrateType, WordType, InfoType, FileType, info
<1> QED BY <1>1, <1>2, <1>3

LEMMA ThreadTypes == Types /\ Thread => Types'
<1> SUFFICES ASSUME Types, Thread PROVE Types' OBVIOUS
<1>1. CASE ThreadTake
  BY <1>1
    DEF ThreadTake, Types, CrateType, WordType, InfoType, FileType, info, crate,
        ThreadType
<1>2. CASE ThreadLock
  BY <1>2
    DEF ThreadLock, CardNew, Types, CrateType, WordType, InfoType, FileType, info,
        crate, ThreadType, Srcs
<1>3. CASE ThreadServe
  <2>1. CrateType' BY <1>3 DEF ThreadServe, Types, CrateType
  <2>2. WordType'  BY <1>3 DEF ThreadServe, Types, WordType, ThreadType, Srcs
  <2>3. InfoType'
    <3>1. vects' \in [Vme -> [valid : BOOLEAN, vector : Vectors]]
      <4> DEFINE new == th.bell \ pending
      <4>0. vects' = [l \in Vme |-> IF l \in new
             THEN [valid |-> TRUE, vector |-> vec[l]] ELSE vects[l]]
        BY <1>3 DEF ThreadServe
      <4>1. \A l \in Vme : [valid |-> TRUE, vector |-> vec[l]] \in
             [valid : BOOLEAN, vector : Vectors]
        BY Zenon DEF Types, CrateType
      <4>2. \A l \in Vme : vects[l] \in [valid : BOOLEAN, vector : Vectors]
        BY Zenon DEF Types, InfoType
      <4> HIDE DEF new
      <4> QED BY <4>0, <4>1, <4>2, Zenon
    <3> QED BY <1>3, <3>1 DEF ThreadServe, Types, InfoType
  <2>4. FileType' BY <1>3 DEF ThreadServe, Types, FileType
  <2>5. (sent \subseteq line \cap en)' BY <1>3 DEF ThreadServe, Quiet, Types
  <2> QED BY <2>1, <2>2, <2>3, <2>4, <2>5 DEF Types
<1>4. CASE ThreadStore
  BY <1>4
    DEF ThreadStore, Types, CrateType, WordType, InfoType, FileType, crate,
        ThreadType
<1>5. CASE ThreadSignal
  BY <1>5
    DEF ThreadSignal, Types, CrateType, WordType, InfoType, FileType, crate,
        ThreadType, info
<1>6. CASE ThreadWake
  <2>1. th' \in ThreadType BY <1>6 DEF ThreadWake, Asleep, ThreadType
  <2>2. fd' \in [Files -> FdType] BY <1>6 DEF ThreadWake, Types, FileType, FdType
  <2> QED
    BY <1>6, <2>1, <2>2
      DEF ThreadWake, Types, CrateType, WordType, InfoType, FileType, crate, info
<1> QED BY <1>1, <1>2, <1>3, <1>4, <1>5, <1>6 DEF Thread

LEMMA OpenTypes == ASSUME Types, NEW f \in Files,
    Open(f) \/ Close(f) \/ Interrupted(f) \/ Wait(f)
  PROVE Types'
<1>0. NoFile \in FdType BY DEF NoFile, FdType
<1>1. fd[f] \in FdType BY DEF Types, FileType
<1>2. fd' \in [Files -> FdType]
  <2>1. CASE Open(f) BY <1>0, <2>1 DEF Open, Types, FileType, FdType
  <2>2. CASE Close(f) BY <1>0, <2>2 DEF Close, Types, FileType
  <2>3. CASE Interrupted(f) BY <1>1, <2>3 DEF Interrupted, Types, FileType, FdType
  <2>4. CASE Wait(f)
    <3>1. PICK mask \in Masks[f] \cup {fd[f].owned} :
           fd' = [fd EXCEPT ![f] = [@ EXCEPT !.mask = mask,
                   !.pc = IF pending \cap fd[f].owned \cap mask # {} THEN "get"
                          ELSE "asleep"]]
      BY <2>4 DEF Wait
    <3>2. mask \subseteq Srcs BY <1>1, IrqAssumption DEF FdType
    <3> QED BY <1>1, <3>1, <3>2 DEF Types, FileType, FdType
  <2> QED BY <2>1, <2>2, <2>3, <2>4
<1>3. told' \in [Files -> SUBSET Srcs]
  BY DEF Open, Close, Interrupted, Wait, Types, FileType
<1>4. UNCHANGED <<line, vec, sent, en, bell, cmd, th, pending, vects, autoack>>
  BY DEF Open, Close, Interrupted, Wait, crate, thread, info
<1> QED BY <1>2, <1>3, <1>4 DEF Types, CrateType, WordType, InfoType, FileType

LEMMA ReleaseTypes == ASSUME Types, NEW f \in Files,
    Release(f) \/ CtlOff(f) \/ CtlRelease(f)
           \/ (\E mask \in Masks[f] \cup {Srcs} : AckMask(f, mask))
  PROVE Types'
<1>1. fd[f] \in FdType BY DEF Types, FileType
<1>2. CASE Release(f)
  BY <1>1, <1>2
    DEF Release, Quiet, thread, info, Types, CrateType, WordType, InfoType,
        FileType, FdType
<1>3. CASE CtlOff(f)
  <2>1. PICK mask \in Masks[f] :
         /\ autoack' = autoack \ (fd[f].owned \cap mask)
                /\ en' = en \ (fd[f].owned \cap mask)
         /\ fd' = [fd EXCEPT ![f] = [@ EXCEPT !.pc = "off", !.mask = mask]]
           BY <1>3 DEF CtlOff
  <2>2. mask \subseteq Srcs BY IrqAssumption
  <2>3. UNCHANGED <<line, vec, bell, cmd, th, pending, vects, told>>
         /\ sent' = sent \cap line' \cap en'
    BY <1>3 DEF CtlOff, Quiet, thread
  <2>4. fd' \in [Files -> FdType] BY <1>1, <2>1, <2>2 DEF Types, FileType, FdType
  <2>5. CrateType' /\ WordType' /\ InfoType'
    BY <2>1, <2>3 DEF Types, CrateType, WordType, InfoType
  <2> QED BY <2>3, <2>4, <2>5 DEF Types, FileType
<1>4. CASE CtlRelease(f)
  <2>0. [fd[f] EXCEPT !.pc = "idle", !.owned = fd[f].owned \ fd[f].mask,
         !.mask = {}] \in FdType
    <3>1. fd[f].owned \ fd[f].mask \in SUBSET Srcs /\ {} \in SUBSET Srcs
      BY <1>1 DEF FdType
    <3> HIDE DEF Srcs
    <3> QED BY <1>1, <3>1, RecRelease
  <2>1. fd' \in [Files -> FdType]
    <3>1. fd' = [fd EXCEPT ![f] = [fd[f] EXCEPT !.pc = "idle",
           !.owned = fd[f].owned \ fd[f].mask, !.mask = {}]]
      BY <1>4, Zenon DEF CtlRelease
    <3> DEFINE r == [fd[f] EXCEPT !.pc = "idle", !.owned = fd[f].owned \ fd[f].mask,
           !.mask = {}]
    <3>2. r \in FdType /\ fd' = [fd EXCEPT ![f] = r] BY <2>0, <3>1
    <3> HIDE DEF r
    <3> QED BY <3>2, SetFile DEF Types, FileType
  <2>2. told' \in [Files -> SUBSET Srcs]
    BY <1>1, <1>4 DEF CtlRelease, Types, FileType
  <2>3. UNCHANGED <<line, vec, sent, en, bell, cmd, th, pending, vects, autoack>>
    BY <1>4 DEF CtlRelease, crate, thread, info
  <2> QED BY <2>1, <2>2, <2>3 DEF Types, CrateType, WordType, InfoType, FileType
<1>5. ASSUME NEW mask \in Masks[f] \cup {Srcs}, AckMask(f, mask) PROVE Types'
  <2>1. mask \subseteq Srcs BY IrqAssumption
  <2>2. fd' \in [Files -> FdType]
    BY <1>1, <1>5, <2>1 DEF AckMask, Types, FileType, FdType
  <2>3. UNCHANGED <<line, vec, sent, en, bell, cmd, th, pending, vects, autoack, told>>
    BY <1>5 DEF AckMask, crate, thread, info
  <2> QED BY <2>2, <2>3 DEF Types, CrateType, WordType, InfoType, FileType
<1> QED BY <1>2, <1>3, <1>4, <1>5

LEMMA CtlTypes == ASSUME Types, NEW f \in Files,
    CtlReserve(f) \/ CtlAck(f) \/ CtlSet(f)
  PROVE Types'
<1>1. fd[f] \in FdType BY DEF Types, FileType
<1>2. CASE CtlReserve(f)
  <2>1. PICK mask \in Masks[f], auto \in AutoMasks, sig \in Sigs,
             next \in {"ack", "set"} :
         /\ next = "set" /\ sig > 0 => "noclear" \in Faults
         /\ ~Foreign(f, mask)
         /\ fd' = [fd EXCEPT ![f] = [fd[f] EXCEPT
                    !.owned = fd[f].owned \cup mask, !.mask = mask,
                    !.auto = auto \cap mask, !.want = sig, !.pc = next]]
    <3> HIDE DEF Foreign
    <3> QED BY <1>2, Zenon DEF CtlReserve
  <2>2. mask \subseteq Srcs /\ sig \in {-1, 0, 1} /\ auto \cap mask \subseteq Srcs
    BY IrqAssumption
  <2>d. [fd[f] EXCEPT !.owned = fd[f].owned \cup mask, !.mask = mask,
         !.auto = auto \cap mask,
                    !.want = sig, !.pc = next] \in FdType
    <3>1. fd[f].owned \cup mask \in SUBSET Srcs /\ mask \in SUBSET Srcs
           /\ auto \cap mask \in SUBSET Srcs
       BY <1>1, <2>2 DEF FdType
    <3> QED BY <1>1, <2>2, <3>1, RecReserve
  <2>3. fd' \in [Files -> FdType]
    <3>1. fd' = [fd EXCEPT ![f] = [fd[f] EXCEPT !.owned = fd[f].owned \cup mask,
           !.mask = mask, !.auto = auto \cap mask,
                    !.want = sig, !.pc = next]] BY <2>1
    <3> DEFINE r == [fd[f] EXCEPT !.owned = fd[f].owned \cup mask, !.mask = mask,
           !.auto = auto \cap mask,
                    !.want = sig, !.pc = next]
    <3>2. r \in FdType /\ fd' = [fd EXCEPT ![f] = r] BY <2>d, <3>1
    <3> HIDE DEF r
    <3> QED BY <3>2, SetFile DEF Types, FileType
  <2>4. UNCHANGED <<line, vec, sent, en, bell, cmd, th, pending, vects, autoack, told>>
    BY <1>2 DEF CtlReserve, crate, thread, info
  <2> QED BY <2>3, <2>4 DEF Types, CrateType, WordType, InfoType, FileType
<1>3. CASE CtlAck(f)
  BY <1>1, <1>3
    DEF CtlAck, Acknowledge, thread, crate, Types, CrateType, WordType, InfoType,
        FileType, FdType, Srcs
<1>4. CASE CtlSet(f)
  <2>1. fd' \in [Files -> FdType] BY <1>1, <1>4 DEF CtlSet, Types, FileType, FdType
  <2>2. CrateType' /\ WordType' /\ autoack' \subseteq Srcs
         /\ UNCHANGED <<pending, vects>>
    BY <1>1, <1>4 DEF CtlSet, thread, Types, CrateType, WordType, InfoType, FdType
  <2>3. told' \in [Files -> SUBSET Srcs] /\ sent' \subseteq line' \cap en'
    BY <1>1, <1>4 DEF CtlSet, Quiet, Types, FileType, FdType
  <2> QED BY <2>1, <2>2, <2>3 DEF Types, FileType, InfoType
<1> QED BY <1>2, <1>3, <1>4

LEMMA VectTypes == ASSUME InfoType, NEW x
  PROVE [vects EXCEPT ![x].valid = FALSE] \in
         [Vme -> [valid : BOOLEAN, vector : Vectors]]
<1>1. \A l \in Vme : [vects[l] EXCEPT !.valid = FALSE] \in
       [valid : BOOLEAN, vector : Vectors]
  BY Zenon DEF InfoType
<1>2. \A l \in Vme : vects[l] \in [valid : BOOLEAN, vector : Vectors]
  BY Zenon DEF InfoType
<1>3. [vects EXCEPT ![x].valid = FALSE] = [l \in Vme |-> IF l = x
       THEN [vects[l] EXCEPT !.valid = FALSE] ELSE vects[l]]
  BY Zenon DEF InfoType
<1> QED BY <1>1, <1>2, <1>3, Zenon

LEMMA AckTypes == ASSUME Types, NEW f \in Files, Get(f) \/ Ack(f) PROVE Types'
<1>1. fd[f] \in FdType BY DEF Types, FileType
<1>2. CASE Ack(f)
  BY <1>1, <1>2
    DEF Ack, Acknowledge, thread, crate, Types, CrateType, WordType, InfoType,
        FileType, FdType, Srcs
<1>3. CASE Get(f)
  <2>1. vects' \in [Vme -> [valid : BOOLEAN, vector : Vectors]]
    <3> DEFINE found == Found(pending \cap fd[f].owned \cap fd[f].mask)
    <3>0. vects' = IF found = {} THEN vects
           ELSE [vects EXCEPT ![Max(found)].valid = FALSE]
      BY <1>3 DEF Get
    <3> HIDE DEF found
    <3>a. vects' = vects \/ vects' = [vects EXCEPT ![Max(found)].valid = FALSE]
      BY <3>0
    <3>b. CASE vects' = vects BY <3>b DEF Types, InfoType
    <3>c. CASE vects' = [vects EXCEPT ![Max(found)].valid = FALSE]
      <4>1. InfoType BY DEF Types
      <4> QED BY <3>c, <4>1, VectTypes
    <3> QED BY <3>a, <3>b, <3>c
  <2>2. pending' \subseteq pending /\ en' \subseteq en \cup Remote /\ en \subseteq en'
         /\ UNCHANGED <<line, vec, sent, bell, cmd, th, autoack>>
     BY <1>3 DEF Get, Acknowledge, crate, thread
  <2>3. told' \in [Files -> SUBSET Srcs] 
    BY <1>1, <1>3 DEF Get, Acknowledge, Types, FileType
  <2>4. fd' \in [Files -> FdType] BY <1>1, <1>3 DEF Get, Types, FileType, FdType
  <2> QED
    BY <2>1, <2>2, <2>3, <2>4
      DEF Types, CrateType, WordType, InfoType, FileType, Srcs
<1> QED BY <1>2, <1>3

LEMMA StepTypes == Types /\ [Next]_vars => Types'
<1> SUFFICES ASSUME Types, [Next]_vars PROVE Types' OBVIOUS
<1>1. CASE Crate BY <1>1, RaiseTypes DEF Crate
<1>2. CASE Thread BY <1>2, ThreadTypes
<1>3. ASSUME NEW f \in Files, InCall(f) \/ Process(f) PROVE Types'
  BY <1>3, OpenTypes, ReleaseTypes, CtlTypes, AckTypes DEF InCall, Process
<1>4. CASE UNCHANGED vars
  BY <1>4
    DEF vars, crate, thread, info, Types, CrateType, WordType, InfoType, FileType
<1> QED BY <1>1, <1>2, <1>3, <1>4 DEF Next

LEMMA TypesGiveTypeOK == Types => TypeOK
BY DEF Types, CrateType, WordType, InfoType, FileType, TypeOK

\* What the steps of a call do to the record of their file.
LEMMA ReserveFile == ASSUME Types, NEW f \in Files, CtlReserve(f)
  PROVE \E mask \in SUBSET Srcs, next \in {"ack", "set"}, want \in {-1, 1} :
     /\ ~Foreign(f, mask) /\ fd[f].pc = "idle"
     /\ next = "set" /\ want > 0 => "noclear" \in Faults
     /\ fd'[f].pc = next /\ fd'[f].owned = fd[f].owned \cup mask /\ fd'[f].mask = mask
     /\ fd'[f].sig = fd[f].sig /\ fd'[f].want = want
<1>1. PICK mask \in Masks[f], auto \in AutoMasks, sig \in Sigs,
           next \in {"ack", "set"} :
         /\ next = "set" /\ sig > 0 => "noclear" \in Faults
         /\ ~Foreign(f, mask)
         /\ fd' = [fd EXCEPT ![f] = [fd[f] EXCEPT
                    !.owned = fd[f].owned \cup mask, !.mask = mask,
                    !.auto = auto \cap mask, !.want = sig, !.pc = next]]
   BY Zenon DEF CtlReserve
<1>2. fd[f] \in FdType BY DEF Types, FileType
<1> DEFINE r == [fd[f] EXCEPT !.owned = fd[f].owned \cup mask, !.mask = mask,
                    !.auto = auto \cap mask, !.want = sig, !.pc = next]
<1>3. r.pc = next /\ r.owned = fd[f].owned \cup mask /\ r.mask = mask
       /\ r.sig = fd[f].sig /\ r.want = sig BY <1>2 DEF FdType
<1>4. fd'[f] = r
  <2>1. fd' = [fd EXCEPT ![f] = r] BY <1>1
  <2> HIDE DEF r
  <2> QED BY <2>1 DEF Types, FileType
<1>5. mask \in SUBSET Srcs /\ sig \in {-1, 1} /\ fd[f].pc = "idle"
  BY IrqAssumption DEF CtlReserve
<1> HIDE DEF r
<1> QED BY <1>1, <1>3, <1>4, <1>5

\* A call changes the record of no other file.
LEMMA Others == ASSUME Types, NEW f \in Files, InCall(f) \/ Process(f),
    NEW g \in Files, g # f
  PROVE fd'[g] = fd[g] /\ told'[g] = told[g]
<1>1. fd'[g] = fd[g]
  <2>1. CASE CtlReserve(f) BY <2>1, Zenon DEF CtlReserve, Types, FileType
  <2>2. CASE InCall(f)
    BY <2>2 DEF InCall, Close, CtlAck, CtlSet, CtlRelease, Get, Ack, Types, FileType
  <2>3. CASE Open(f) \/ Release(f) \/ CtlOff(f) \/ Wait(f) \/ Interrupted(f)
         \/ \E mask \in Masks[f] \cup {Srcs} : AckMask(f, mask)
    BY <2>3 DEF Open, Release, CtlOff, Wait, Interrupted, AckMask, Types, FileType
  <2> QED BY <2>1, <2>2, <2>3 DEF Process
<1>2. told'[g] = told[g]
  BY
    DEF InCall, Close, CtlAck, CtlSet, CtlRelease, Get, Ack, Acknowledge, Process,
        Open, Release, CtlOff, CtlReserve, Wait, Interrupted, AckMask, Types, FileType
<1> QED BY <1>1, <1>2

LEMMA SetFileFields == ASSUME Types, NEW f \in Files, CtlSet(f)
  PROVE fd'[f].pc = "idle" /\ fd'[f].owned = fd[f].owned /\ fd'[f].sig = fd[f].want
<1>1. fd[f] \in FdType BY DEF Types, FileType
<1> DEFINE r == [fd[f] EXCEPT !.pc = "idle", !.sig = fd[f].want, !.auto = {},
       !.want = 0, !.mask = {}]
<1>2. r.pc = "idle" /\ r.owned = fd[f].owned /\ r.sig = fd[f].want
  BY <1>1 DEF FdType
<1>3. fd' = [fd EXCEPT ![f] = r] BY Zenon DEF CtlSet
<1> HIDE DEF r
<1> QED BY <1>2, <1>3 DEF Types, FileType

LEMMA ReleaseFields == ASSUME Types, NEW f \in Files, CtlRelease(f)
  PROVE fd'[f].pc = "idle" /\ fd'[f].owned = fd[f].owned \ fd[f].mask
         /\ fd'[f].sig = fd[f].sig
<1>1. fd[f] \in FdType BY DEF Types, FileType
<1> DEFINE r == [fd[f] EXCEPT !.pc = "idle", !.mask = {},
       !.owned = fd[f].owned \ fd[f].mask]
<1>2. r.pc = "idle" /\ r.owned = fd[f].owned \ fd[f].mask /\ r.sig = fd[f].sig
  BY <1>1 DEF FdType
<1>3. fd' = [fd EXCEPT ![f] = r] BY Zenon DEF CtlRelease
<1> HIDE DEF r
<1> QED BY <1>2, <1>3 DEF Types, FileType

\* The other calls keep what a file owns and its signal.
Plain(f, g, pc) ==
    /\ g.owned = fd[f].owned /\ g.sig = fd[f].sig /\ g.want = fd[f].want
    /\ g.pc = pc

LEMMA KeepsOwned == ASSUME Types, NEW f \in Files
  PROVE /\ Release(f) => Plain(f, fd'[f], "close")
        /\ CtlAck(f) => Plain(f, fd'[f], "set") /\ fd'[f].mask = fd[f].mask
        /\ CtlOff(f) => Plain(f, fd'[f], "off")
        /\ Wait(f) => Plain(f, fd'[f], "get") \/ Plain(f, fd'[f], "asleep")
        /\ Interrupted(f) \/ Get(f) \/ Ack(f) => Plain(f, fd'[f], "idle")
        /\ (\E mask \in Masks[f] \cup {Srcs} : AckMask(f, mask))
             => Plain(f, fd'[f], "acking")
<1>1. fd[f] \in FdType BY DEF Types, FileType
<1>2. Release(f) => Plain(f, fd'[f], "close")
  BY <1>1 DEF Release, Types, FileType, FdType, Plain
<1>3. CtlAck(f) => Plain(f, fd'[f], "set") /\ fd'[f].mask = fd[f].mask
  BY <1>1 DEF CtlAck, Types, FileType, FdType, Plain
<1>4. CtlOff(f) => Plain(f, fd'[f], "off")
  <2> SUFFICES ASSUME CtlOff(f) PROVE Plain(f, fd'[f], "off") OBVIOUS
  <2>1. PICK mask : fd' = [fd EXCEPT ![f] = [fd[f] EXCEPT !.pc = "off", !.mask = mask]]
    BY Zenon DEF CtlOff
  <2> QED BY <1>1, <2>1 DEF Types, FileType, FdType, Plain
<1>5. Wait(f) => Plain(f, fd'[f], "get") \/ Plain(f, fd'[f], "asleep")
  <2> SUFFICES ASSUME Wait(f)
    PROVE Plain(f, fd'[f], "get") \/ Plain(f, fd'[f], "asleep") OBVIOUS
  <2>1. PICK mask : fd' = [fd EXCEPT ![f] = [fd[f] EXCEPT !.mask = mask,
         !.pc = IF pending \cap fd[f].owned \cap mask # {} THEN "get" ELSE "asleep"]]
           BY Zenon DEF Wait
  <2> QED BY <1>1, <2>1 DEF Types, FileType, FdType, Plain
<1>6. Interrupted(f) \/ Get(f) \/ Ack(f) => Plain(f, fd'[f], "idle")
  <2> SUFFICES ASSUME Interrupted(f) \/ Get(f) \/ Ack(f)
    PROVE Plain(f, fd'[f], "idle") OBVIOUS
  <2>1. fd' = [fd EXCEPT ![f] = [fd[f] EXCEPT !.pc = "idle", !.mask = {}]]
    BY Zenon DEF Interrupted, Get, Ack
  <2> QED BY <1>1, <2>1 DEF Types, FileType, FdType, Plain
<1>7. (\E mask \in Masks[f] \cup {Srcs} : AckMask(f, mask))
       => Plain(f, fd'[f], "acking")
  <2> SUFFICES ASSUME NEW mask, AckMask(f, mask)
    PROVE Plain(f, fd'[f], "acking") OBVIOUS
  <2>1. fd' = [fd EXCEPT ![f] = [fd[f] EXCEPT !.pc = "acking", !.mask = mask]]
    BY Zenon DEF AckMask
  <2> QED BY <1>1, <2>1 DEF Types, FileType, FdType, Plain
<1> QED BY <1>2, <1>3, <1>4, <1>5, <1>6, <1>7

LEMMA OwnerStep == ASSUME Types, OneOwner, [Next]_vars PROVE OneOwner'
<1>1. ASSUME NEW f \in Files, InCall(f) \/ Process(f) PROVE OneOwner'
  <2>1. CASE CtlReserve(f)
    <3>1. PICK mask \in SUBSET Srcs : ~Foreign(f, mask)
           /\ fd'[f].owned = fd[f].owned \cup mask
      BY <2>1, ReserveFile
    <3>2. \A g \in Files \ {f} : fd'[g].owned = fd[g].owned BY <1>1, Others
    <3> QED BY <3>1, <3>2 DEF OneOwner, Foreign
  <2>2. CASE ~CtlReserve(f)
    <3>1. fd'[f].owned \subseteq fd[f].owned
      <4>1. CASE Close(f) \/ Open(f)
        <5>1. fd'[f].owned = {} BY <4>1 DEF Close, Open, NoFile, Types, FileType
        <5> QED BY <5>1
      <4>2. CASE CtlSet(f) BY <4>2, SetFileFields
      <4>3. CASE CtlRelease(f) BY <4>3, ReleaseFields
      <4> QED BY <1>1, <2>2, <4>1, <4>2, <4>3, KeepsOwned DEF InCall, Process, Plain
    <3>2. \A g \in Files \ {f} : fd'[g].owned = fd[g].owned BY <1>1, Others
    <3> QED BY <3>1, <3>2 DEF OneOwner
  <2> QED BY <2>1, <2>2
<1>2. CASE Thread
  <2>1. \A g \in Files : fd'[g].owned = fd[g].owned
    BY <1>2
      DEF Thread, ThreadTake, ThreadLock, ThreadServe, ThreadStore, ThreadSignal,
          ThreadWake, Types, FileType, FdType
  <2> QED BY <2>1 DEF OneOwner
<1>3. CASE Crate BY <1>3 DEF Crate, Raise, Doorbell, Local, OneOwner
<1>4. CASE UNCHANGED vars BY <1>4 DEF vars, OneOwner
<1> QED BY <1>1, <1>2, <1>3, <1>4 DEF Next

\* The interrupt words, the irq thread and the files keep their types: what
\* sis1100_irq_thread, irq_ctl, irq_get and irq_ack store stays within the mask layout.
THEOREM TypeCorrect == Spec => []TypeOK
<1>1. Spec => []Types BY InitTypes, StepTypes, PTL DEF Spec
<1> QED BY <1>1, TypesGiveTypeOK, PTL

\* reserve_irq: files of two processes never own the same interrupt, for any number of
\* files and processes and any masks.
THEOREM OwnersCorrect == Spec => []OneOwner
<1>1. Spec => []Types BY InitTypes, StepTypes, PTL DEF Spec
<1>2. Init => OneOwner BY DEF Init, OneOwner, NoFile
<1>3. Types /\ OneOwner /\ [Next]_vars => OneOwner' BY OwnerStep
<1> QED BY <1>1, <1>2, <1>3, PTL DEF Spec

LEMMA SleeperStep == ASSUME Types, SleeperWoken, [Next]_vars PROVE SleeperWoken'
<1>1. ASSUME NEW f \in Files, InCall(f) \/ Process(f) PROVE SleeperWoken'
  <2>1. \A g \in Files \ {f} : fd'[g] = fd[g] BY <1>1, Others
  <2>2. pending' \subseteq pending /\ th' = th
     BY <1>1
       DEF InCall, Close, CtlAck, CtlSet, CtlRelease, Get, Ack, Acknowledge,
           Process, Open, Release, CtlOff, CtlReserve, Wait, Interrupted, AckMask,
           thread, info
  <2>3. fd'[f].pc = "asleep" => ~Ready(f)'
    <3>0. fd[f] \in FdType BY DEF Types, FileType
    <3>1. CASE Wait(f)
      <4>1. PICK mask \in Masks[f] \cup {fd[f].owned} :
         fd' = [fd EXCEPT ![f] = [fd[f] EXCEPT !.mask = mask,
                   !.pc = IF pending \cap fd[f].owned \cap mask # {} THEN "get"
                          ELSE "asleep"]]
        BY <3>1, Zenon DEF Wait
      <4>2. fd'[f].owned = fd[f].owned /\ fd'[f].mask = mask
        BY <3>0, <4>1 DEF Types, FileType, FdType
      <4>3. fd'[f].pc = "asleep" => pending \cap fd[f].owned \cap mask = {}
        BY <3>0, <4>1 DEF Types, FileType, FdType
      <4>4. pending' = pending BY <3>1 DEF Wait, info
      <4> QED BY <4>2, <4>3, <4>4 DEF Ready
    <3>2. CASE CtlReserve(f) BY <3>2, ReserveFile
    <3>3. CASE CtlSet(f) BY <3>3, SetFileFields
    <3>4. CASE CtlRelease(f) BY <3>4, ReleaseFields
    <3>5. CASE Close(f) \/ Open(f) BY <3>5 DEF Close, Open, NoFile, Types, FileType
    <3>6. CASE Release(f) \/ CtlAck(f) \/ CtlOff(f) \/ Interrupted(f) \/ Get(f)
           \/ Ack(f)
     \/ \E mask \in Masks[f] \cup {Srcs} : AckMask(f, mask)
      BY <3>6, KeepsOwned DEF Plain
    <3> QED BY <1>1, <3>1, <3>2, <3>3, <3>4, <3>5, <3>6 DEF InCall, Process
  <2> QED BY <2>1, <2>2, <2>3 DEF SleeperWoken, Ready
<1>2. CASE ThreadWake
  <2>1. \A f \in Files : fd'[f] = IF fd[f].pc = "asleep" /\ Ready(f)
         THEN [fd[f] EXCEPT !.pc = "get"] ELSE fd[f]
    BY <1>2, Zenon DEF ThreadWake
  <2>2. \A f \in Files : fd[f] \in FdType BY DEF Types, FileType
  <2>3. \A f \in Files : fd'[f].owned = fd[f].owned /\ fd'[f].mask = fd[f].mask
         /\ (fd'[f].pc = "asleep" => ~Ready(f))
    BY <2>1, <2>2 DEF FdType
  <2>4. pending' = pending BY <1>2 DEF ThreadWake, info
  <2> QED BY <2>3, <2>4 DEF SleeperWoken, Ready
<1>3. CASE ThreadStore
  BY <1>3 DEF ThreadStore, SleeperWoken, Types, WordType, ThreadType
<1>4. CASE ThreadTake \/ ThreadLock \/ ThreadServe \/ ThreadSignal
  BY <1>4
    DEF ThreadTake, ThreadLock, ThreadServe, ThreadSignal, SleeperWoken, Ready,
        info, Types, WordType, ThreadType
<1>5. CASE Crate
  BY <1>5 DEF Crate, Raise, Doorbell, Local, SleeperWoken, Ready, info, thread
<1>6. CASE UNCHANGED vars BY <1>6 DEF vars, info, thread, SleeperWoken, Ready
<1> QED BY <1>1, <1>2, <1>3, <1>4, <1>5, <1>6 DEF Next, Thread

\* Nobody sleeps in sis1100_irq_wait while what it waits for is pending, unless the irq
\* thread is between storing and waking.
THEOREM SleepersCorrect == Spec => []SleeperWoken
<1>1. Spec => []Types BY InitTypes, StepTypes, PTL DEF Spec
<1>2. Init => SleeperWoken BY DEF Init, SleeperWoken, NoFile
<1>3. Types /\ SleeperWoken /\ [Next]_vars => SleeperWoken' BY SleeperStep
<1> QED BY <1>1, <1>2, <1>3, PTL DEF Spec

-----------------------------------------------------------------------------
\* Where an interrupt that is not forgotten can be: enabled in the crate, pending, or
\* in the doorbell word of the handler or of the thread.
Covered == en \cup pending \cup bell \cup th.bell

\* What the steps of irq_ctl and of release have done so far.
CallOK(f) ==
    /\ fd[f].pc \in {"ack", "set"} => fd[f].mask \subseteq fd[f].owned
    /\ fd[f].pc = "off" => fd[f].mask \cap fd[f].owned \cap Vme \cap en = {}
    /\ fd[f].pc = "close" => fd[f].owned \cap Vme \cap en = {}
    /\ fd[f].pc = "closed" => fd[f].owned = {}
CoverOK(f) == fd[f].pc # "close" => Kept(f) \cap Remote \subseteq Covered

\* What the doorbell rang is new or still pending.
ServeInv ==
    /\ th.pc = "served" => th.bell \subseteq th.new \cup pending
    /\ th.pc \notin {"locked", "served"} => th.bell = {}
LevelInv == \A l \in Vme \cap en : \E f \in Files : l \in fd[f].owned
CallInv == \A f \in Files : CallOK(f) /\ CoverOK(f)

EnableInv == ServeInv /\ CallInv /\ LevelInv

\* Each file was opened by a process of its own.
DistinctPids == \A f, g \in Files : Pid[f] = Pid[g] => f = g

LEMMA InitEnable == Init => EnableInv
BY
  DEF Init, EnableInv, ServeInv, LevelInv, CallInv, CallOK, CoverOK, Kept, Asleep,
      NoFile

LEMMA EnableGives == EnableInv => EnabledIffOwned
BY DEF EnableInv, CallInv, CoverOK, Kept, LevelInv, EnabledIffOwned, Covered

\* A step of the thread or of the crate leaves the calls alone, and what it takes from
\* one word of the way to the process it adds to the next.
LEMMA EnableThread == ASSUME Types, EnableInv, Thread PROVE EnableInv'
<1>0. th \in ThreadType BY DEF Types, WordType
<1>1. ServeInv'
  <2>1. CASE ThreadTake
    BY <1>0, <2>1 DEF ThreadTake, EnableInv, ServeInv, ThreadType, info
  <2>2. CASE ThreadLock BY <1>0, <2>2 DEF ThreadLock, ServeInv, ThreadType
  <2>3. CASE ThreadServe BY <1>0, <2>3 DEF ThreadServe, ServeInv, ThreadType
  <2>4. CASE ThreadStore BY <1>0, <2>4 DEF ThreadStore, ServeInv, ThreadType
  <2>5. CASE ThreadSignal
    BY <1>0, <2>5 DEF ThreadSignal, EnableInv, ServeInv, ThreadType
  <2>6. CASE ThreadWake BY <2>6 DEF ThreadWake, Asleep, ServeInv
  <2> QED BY <2>1, <2>2, <2>3, <2>4, <2>5, <2>6 DEF Thread
<1>2. en' \subseteq en
  BY
    DEF Thread, ThreadTake, ThreadLock, ThreadServe, ThreadStore, ThreadSignal,
        ThreadWake
<1>3. Covered \subseteq Covered'
  <2>1. CASE ThreadTake BY <1>0, <2>1 DEF ThreadTake, info, Covered, ThreadType
  <2>2. CASE ThreadLock
    BY <1>0, <2>2 DEF ThreadLock, EnableInv, ServeInv, info, Covered, ThreadType
  <2>3. CASE ThreadServe BY <1>0, <2>3 DEF ThreadServe, Covered, ThreadType
  <2>4. CASE ThreadStore
    BY <1>0, <2>4 DEF ThreadStore, EnableInv, ServeInv, Covered, ThreadType
  <2>5. CASE ThreadSignal BY <1>0, <2>5 DEF ThreadSignal, info, Covered, ThreadType
  <2>6. CASE ThreadWake
    BY <1>0, <2>6
      DEF ThreadWake, EnableInv, ServeInv, Asleep, info, Covered, ThreadType
  <2> QED BY <2>1, <2>2, <2>3, <2>4, <2>5, <2>6 DEF Thread
<1>4. \A f \in Files : /\ fd'[f].owned = fd[f].owned /\ fd'[f].mask = fd[f].mask
                       /\ fd'[f].pc = fd[f].pc
                              \/ (fd[f].pc = "asleep" /\ fd'[f].pc = "get")
  <2>1. CASE ThreadWake
    <3>1. \A f \in Files : fd[f] \in FdType BY DEF Types, FileType
    <3>2. \A f \in Files : fd'[f] = IF fd[f].pc = "asleep" /\ Ready(f)
           THEN [fd[f] EXCEPT !.pc = "get"] ELSE fd[f]
      BY <2>1, Zenon DEF ThreadWake
    <3> QED BY <3>1, <3>2 DEF FdType
  <2>2. CASE ~ThreadWake
    BY <2>2
      DEF Thread, ThreadTake, ThreadLock, ThreadServe, ThreadStore, ThreadSignal
  <2> QED BY <2>1, <2>2
<1>5. LevelInv' BY <1>2, <1>4 DEF EnableInv, LevelInv
<1>6. ASSUME NEW f \in Files PROVE CallOK(f)' /\ CoverOK(f)'
  <2>1. CallOK(f) /\ CoverOK(f) BY DEF EnableInv, CallInv
  <2>2. CallOK(f)' BY <1>2, <1>4, <2>1 DEF CallOK
  <2>3. Kept(f)' = Kept(f) BY <1>4 DEF Kept
  <2>4. CoverOK(f)' BY <1>3, <1>4, <2>1, <2>3 DEF CoverOK
  <2> QED BY <2>2, <2>4
<1> QED BY <1>1, <1>5, <1>6 DEF EnableInv, CallInv

LEMMA EnableCrate == ASSUME Types, EnableInv, Crate \/ UNCHANGED vars
  PROVE EnableInv'
<1>1. UNCHANGED <<en, th, pending, fd>> /\ bell \subseteq bell'
  BY DEF Crate, Raise, Doorbell, Local, thread, info, vars
<1> QED
  BY <1>1 DEF EnableInv, ServeInv, LevelInv, CallInv, CallOK, CoverOK, Kept, Covered

\* What a step of file f has to show: the other files own other interrupts.
LEMMA EnableFrame ==
  ASSUME EnableInv, NEW f \in Files,
         \A g \in Files \ {f} : fd'[g] = fd[g] /\ fd[g].owned \cap fd[f].owned = {},
         th' = th, th.pc = "served" => pending \subseteq pending',
         Covered \cap Remote \subseteq Covered' \cup fd[f].owned,
         en' \subseteq en \cup fd[f].owned,
         fd[f].owned \cap Vme \cap en' \subseteq fd'[f].owned,
         CallOK(f)', CoverOK(f)'
  PROVE EnableInv'
<1>1. ServeInv' BY DEF EnableInv, ServeInv
<1>2. LevelInv'
  <2> SUFFICES ASSUME NEW l \in Vme \cap en'
    PROVE \E g \in Files : l \in fd'[g].owned BY DEF LevelInv
  <2>1. CASE l \in fd[f].owned BY <2>1
  <2>2. CASE l \notin fd[f].owned
    <3>1. PICK g \in Files : l \in fd[g].owned BY <2>2 DEF EnableInv, LevelInv
    <3> QED BY <2>2, <3>1
  <2> QED BY <2>1, <2>2
<1>3. ASSUME NEW g \in Files \ {f} PROVE CallOK(g)' /\ CoverOK(g)'
  <2>1. CallOK(g) /\ CoverOK(g) BY DEF EnableInv, CallInv
  <2>2. fd'[g] = fd[g] /\ fd[g].owned \cap fd[f].owned = {} OBVIOUS
  <2>3. CallOK(g)' BY <2>1, <2>2 DEF CallOK
  <2>4. Kept(g)' = Kept(g) /\ Kept(g) \subseteq fd[g].owned BY <2>2 DEF Kept
  <2>5. CoverOK(g)' BY <2>1, <2>2, <2>4 DEF CoverOK
  <2> QED BY <2>3, <2>5
<1> QED BY <1>1, <1>2, <1>3 DEF EnableInv, CallInv

LEMMA EnableCall == ASSUME Types, EnableInv, OneOwner, DistinctPids,
    NEW f \in Files, InCall(f) \/ Process(f)
  PROVE EnableInv'
<1>0. fd[f] \in FdType /\ th \in ThreadType BY DEF Types, FileType, WordType
<1>1. \A g \in Files \ {f} : fd'[g] = fd[g] /\ fd[g].owned \cap fd[f].owned = {}
  BY Others DEF OneOwner, DistinctPids
<1>2. th' = th /\ bell' = bell
  BY
    DEF InCall, Close, CtlAck, CtlSet, CtlRelease, Get, Ack, Process, Open,
        Release, CtlOff, CtlReserve, Wait, Interrupted, AckMask, thread
<1>3. CallOK(f) /\ CoverOK(f) BY DEF EnableInv, CallInv
<1>4. CASE Open(f) \/ Close(f)
  <2>1. fd'[f].owned = {} /\ fd'[f].pc \in {"idle", "closed"}
    BY <1>4 DEF Open, Close, NoFile, Types, FileType
  <2>2. UNCHANGED <<en, pending>> BY <1>4 DEF Open, Close, info
  <2>3. fd[f].owned \cap Vme \cap en = {} BY <1>3, <1>4 DEF Open, Close, CallOK
  <2>4. CallOK(f)' /\ CoverOK(f)' BY <2>1 DEF CallOK, CoverOK, Kept
  <2>5. Covered' = Covered BY <1>2, <2>2 DEF Covered
  <2> QED BY <1>1, <1>2, <2>2, <2>3, <2>4, <2>5, EnableFrame
<1>5. CASE Release(f)
  <2>1. Plain(f, fd'[f], "close") BY <1>5, KeepsOwned
  <2>2. en' = en \ (fd[f].owned \ Ext) /\ pending' = pending
    BY <1>5 DEF Release, info
  <2>3. CallOK(f)' /\ CoverOK(f)'
    BY <2>1, <2>2, IrqAssumption DEF CallOK, CoverOK, Plain
  <2>4. Covered \subseteq Covered' \cup fd[f].owned BY <1>2, <2>2 DEF Covered
  <2> QED BY <1>1, <1>2, <2>1, <2>2, <2>3, <2>4, EnableFrame DEF Plain
<1>6. CASE CtlReserve(f)
  <2>1. PICK mask \in SUBSET Srcs, next \in {"ack", "set"} :
      fd[f].pc = "idle" /\ fd'[f].pc = next /\ fd'[f].owned = fd[f].owned \cup mask
             /\ fd'[f].mask = mask
    BY <1>6, ReserveFile
  <2>2. UNCHANGED <<en, pending>> BY <1>6 DEF CtlReserve, info
  <2>3. Kept(f)' \subseteq Kept(f) BY <2>1 DEF Kept
  <2>4. Covered' = Covered BY <1>2, <2>2 DEF Covered
  <2>5. CallOK(f)' /\ CoverOK(f)' BY <1>3, <2>1, <2>3, <2>4 DEF CallOK, CoverOK
  <2> QED BY <1>1, <1>2, <2>1, <2>2, <2>4, <2>5, EnableFrame
<1>7. CASE CtlAck(f)
  <2>1. Plain(f, fd'[f], "set") /\ fd'[f].mask = fd[f].mask BY <1>7, KeepsOwned
  <2>2. /\ fd[f].pc = "ack" /\ th.pc # "served" /\ pending' = pending \ fd[f].mask
        /\ en' = en \cup (fd[f].mask \cap Remote)
          BY <1>7 DEF CtlAck, Acknowledge, InfoFree
  <2>3. fd[f].mask \subseteq fd[f].owned BY <1>3, <2>2 DEF CallOK
  <2>4. Kept(f)' = Kept(f) BY <2>1, <2>2 DEF Kept, Plain
  <2>5. Covered \cap Remote \subseteq Covered' BY <1>2, <2>2 DEF Covered
  <2>6. CallOK(f)' /\ CoverOK(f)'
    BY <1>3, <2>1, <2>2, <2>3, <2>4, <2>5 DEF CallOK, CoverOK, Plain
  <2> QED BY <1>1, <1>2, <2>1, <2>2, <2>3, <2>5, <2>6, EnableFrame DEF Plain
<1>8. CASE CtlSet(f)
  <2>1. fd'[f].pc = "idle" /\ fd'[f].owned = fd[f].owned BY <1>8, SetFileFields
  <2>2. fd[f].pc = "set" /\ pending' = pending /\ en' = en \cup fd[f].mask
    BY <1>8 DEF CtlSet
  <2>3. fd[f].mask \subseteq fd[f].owned BY <1>3, <2>2 DEF CallOK
  <2>4. Covered \subseteq Covered' /\ fd[f].mask \subseteq Covered'
    BY <1>2, <2>2 DEF Covered
  <2>5. Kept(f)' \subseteq Kept(f) \cup fd[f].mask BY <2>1, <2>2 DEF Kept
  <2>6. CallOK(f)' /\ CoverOK(f)'
    BY <1>3, <2>1, <2>2, <2>4, <2>5 DEF CallOK, CoverOK
  <2> QED BY <1>1, <1>2, <2>1, <2>2, <2>3, <2>4, <2>6, EnableFrame
<1>9. CASE CtlOff(f)
  <2>1. PICK mask : fd' = [fd EXCEPT ![f] = [fd[f] EXCEPT !.pc = "off",
         !.mask = mask]] /\ en' = en \ (fd[f].owned \cap mask)
    BY <1>9, Zenon DEF CtlOff
  <2>2. fd'[f].pc = "off" /\ fd'[f].mask = mask /\ fd'[f].owned = fd[f].owned
    BY <1>0, <2>1 DEF FdType, Types, FileType
  <2>3. fd[f].pc = "idle" /\ pending' = pending BY <1>9 DEF CtlOff
  <2>4. Covered \subseteq Covered' \cup (fd[f].owned \cap mask)
    BY <1>2, <2>1, <2>3 DEF Covered
  <2>5. Kept(f)' = Kept(f) \ mask BY <2>2, <2>3 DEF Kept
  <2>6. CallOK(f)' BY <2>1, <2>2 DEF CallOK
  <2>7. CoverOK(f)' BY <1>3, <2>2, <2>3, <2>4, <2>5 DEF CoverOK
  <2> QED BY <1>1, <1>2, <2>1, <2>2, <2>3, <2>4, <2>6, <2>7, EnableFrame
<1>10. CASE CtlRelease(f)
  <2>1. fd'[f].pc = "idle" /\ fd'[f].owned = fd[f].owned \ fd[f].mask
    BY <1>10, ReleaseFields
  <2>2. fd[f].pc = "off" /\ UNCHANGED <<en, pending>> BY <1>10 DEF CtlRelease, info
  <2>3. Covered' = Covered /\ Kept(f)' = Kept(f)
    BY <1>2, <2>1, <2>2 DEF Covered, Kept
  <2>4. CallOK(f)' /\ CoverOK(f)' BY <1>3, <2>1, <2>2, <2>3 DEF CallOK, CoverOK
  <2>5. fd[f].owned \cap Vme \cap en' \subseteq fd'[f].owned
    BY <1>3, <2>1, <2>2 DEF CallOK
  <2> QED BY <1>1, <1>2, <2>2, <2>3, <2>4, <2>5, EnableFrame
<1>11. CASE Wait(f) \/ Interrupted(f) 
       \/ \E mask \in Masks[f] \cup {Srcs} : AckMask(f, mask)
  <2>1. fd'[f].owned = fd[f].owned /\ fd'[f].pc \in {"get", "asleep", "idle", "acking"}
    BY <1>11, KeepsOwned DEF Plain
  <2>2. fd[f].pc \in {"idle", "asleep"} /\ UNCHANGED <<en, pending>>
    BY <1>11 DEF Wait, Interrupted, AckMask, info
  <2>3. Covered' = Covered /\ Kept(f)' = Kept(f)
    BY <1>2, <2>1, <2>2 DEF Covered, Kept
  <2>4. CallOK(f)' /\ CoverOK(f)' BY <1>3, <2>1, <2>2, <2>3 DEF CallOK, CoverOK
  <2> QED BY <1>1, <1>2, <2>1, <2>2, <2>3, <2>4, EnableFrame
<1>12. CASE Get(f) \/ Ack(f)
  <2>1. fd'[f].owned = fd[f].owned /\ fd'[f].pc = "idle"
    BY <1>12, KeepsOwned DEF Plain
  <2>2. PICK irqs : irqs \subseteq fd[f].owned /\ pending' = pending \ irqs
         /\ en' = en \cup (irqs \cap Remote)
    <3>1. CASE Get(f)
      <4> DEFINE irqs == autoack \cap (pending \cap fd[f].owned \cap fd[f].mask)
      <4>1. Acknowledge(f, irqs) BY <3>1 DEF Get
      <4>2. irqs \subseteq fd[f].owned OBVIOUS
      <4> QED BY <4>1, <4>2 DEF Acknowledge
    <3>2. CASE Ack(f)
      <4> DEFINE irqs == fd[f].owned \cap fd[f].mask \cap pending
      <4>1. Acknowledge(f, irqs) BY <3>2 DEF Ack
      <4>2. irqs \subseteq fd[f].owned OBVIOUS
      <4> QED BY <4>1, <4>2 DEF Acknowledge
    <3> QED BY <1>12, <3>1, <3>2
  <2>3. fd[f].pc \in {"get", "acking"} /\ th.pc # "served"
    BY <1>12 DEF Get, Ack, InfoFree
  <2>4. Covered \cap Remote \subseteq Covered' /\ Kept(f)' = Kept(f)
    BY <1>2, <2>1, <2>2, <2>3 DEF Covered, Kept
  <2>5. CallOK(f)' /\ CoverOK(f)' BY <1>3, <2>1, <2>3, <2>4 DEF CallOK, CoverOK
  <2> QED BY <1>1, <1>2, <2>1, <2>2, <2>3, <2>4, <2>5, EnableFrame
<1> QED
  BY <1>4, <1>5, <1>6, <1>7, <1>8, <1>9, <1>10, <1>11, <1>12 DEF InCall, Process

\* With one file per process, what a file has ordered is enabled, pending or on its way,
\* and an enabled level has an owner: block, acknowledge, irq_ctl and release agree
\* about the enable bits in every interleaving, preemption included.
THEOREM EnabledCorrect == ASSUME DistinctPids PROVE Spec => []EnabledIffOwned
<1>1. Spec => []Types BY InitTypes, StepTypes, PTL DEF Spec
<1>2. Spec => []OneOwner BY OwnersCorrect
<1>3. Types /\ OneOwner /\ EnableInv /\ [Next]_vars => EnableInv'
  BY EnableThread, EnableCrate, EnableCall DEF Next
<1> QED BY <1>1, <1>2, <1>3, InitEnable, EnableGives, PTL DEF Spec

-----------------------------------------------------------------------------
LEMMA InitSignal == Init => \A f \in Files : SignalInv(f)
BY DEF Init, SignalInv, ToldOK, OrderOK, Kept, NoFile

LEMMA SignalGives == (\A f \in Files : SignalInv(f)) => SignalFollows
BY DEF SignalInv, ToldOK, Kept, NewSig, SignalFollows

LEMMA SignalThread ==
  ASSUME Types, NEW f \in Files, SignalInv(f), Thread PROVE SignalInv(f)'
<1>0. th \in ThreadType BY DEF Types, WordType
<1>1. CASE ThreadWake
  <2>1. fd[f] \in FdType BY DEF Types, FileType
  <2>2. fd'[f] = IF fd[f].pc = "asleep" /\ Ready(f)
         THEN [fd[f] EXCEPT !.pc = "get"] ELSE fd[f]
    BY <1>1, Zenon DEF ThreadWake
  <2>3. /\ fd'[f].owned = fd[f].owned /\ fd'[f].mask = fd[f].mask
        /\ fd'[f].sig = fd[f].sig /\ fd'[f].want = fd[f].want
        /\ fd'[f].pc = fd[f].pc \/ (fd[f].pc = "asleep" /\ fd'[f].pc = "get")
    BY <2>1, <2>2 DEF FdType
  <2>4. UNCHANGED <<pending, told>> /\ NewSig' = NewSig
    BY <1>0, <1>1 DEF ThreadWake, Asleep, info, NewSig
  <2>5. Kept(f)' = Kept(f) BY <2>3 DEF Kept
  <2> QED BY <2>3, <2>4, <2>5 DEF SignalInv, ToldOK, OrderOK
<1>2. CASE ThreadLock
  <2>1. UNCHANGED <<pending, told, fd>> /\ NewSig' = NewSig
    BY <1>0, <1>2 DEF ThreadLock, info, NewSig, ThreadType
  <2> QED BY <2>1 DEF SignalInv, ToldOK, OrderOK, Kept
<1>3. CASE ThreadTake \/ ThreadServe
  <2>1. UNCHANGED <<pending, told, fd>> /\ NewSig' = NewSig
    BY <1>0, <1>3 DEF ThreadTake, ThreadServe, info, NewSig, ThreadType
  <2> QED BY <2>1 DEF SignalInv, ToldOK, OrderOK, Kept
<1>4. CASE ThreadStore
  <2>1. UNCHANGED <<told, fd>> /\ NewSig = {} /\ NewSig' = th.new
         /\ pending' = pending \cup th.new
    BY <1>0, <1>4 DEF ThreadStore, NewSig, ThreadType
  <2> QED BY <2>1 DEF SignalInv, ToldOK, OrderOK, Kept
<1>5. CASE ThreadSignal
  <2>1. UNCHANGED <<pending, fd>> /\ NewSig = th.new /\ NewSig' = {}
    BY <1>0, <1>5 DEF ThreadSignal, NewSig, ThreadType, info
  <2>2. ToldOK(f)'
    <3>1. told'[f] = IF Signalled(f)
           THEN told[f] \cup (th.new \cap pending \cap fd[f].owned) ELSE told[f]
      BY <1>5 DEF ThreadSignal
    <3>2. Kept(f)' = Kept(f) /\ Kept(f) \subseteq fd[f].owned BY <2>1 DEF Kept
    <3>3. ToldOK(f) BY DEF SignalInv
    <3> QED BY <2>1, <3>1, <3>2, <3>3 DEF ToldOK, Signalled
  <2> QED BY <2>1, <2>2 DEF SignalInv, OrderOK
<1> QED BY <1>1, <1>2, <1>3, <1>4, <1>5 DEF Thread

LEMMA SignalCrate ==
  ASSUME NEW f \in Files, SignalInv(f), Crate \/ UNCHANGED vars PROVE SignalInv(f)'
<1>1. UNCHANGED <<th, pending, fd, told>>
  BY DEF Crate, Raise, Doorbell, Local, thread, info, vars
<1> QED BY <1>1 DEF SignalInv, ToldOK, OrderOK, Kept, NewSig

\* A step of file f: nothing becomes pending, and the other files stay in step.
LEMMA SignalFrame ==
  ASSUME NEW f \in Files, NEW h \in Files, SignalInv(h),
         \A g \in Files \ {f} : fd'[g] = fd[g] /\ told'[g] = told[g],
         th' = th, pending' \subseteq pending, h = f => ToldOK(f)' /\ OrderOK(f)'
  PROVE SignalInv(h)'
<1>1. CASE h = f BY <1>1 DEF SignalInv
<1>2. CASE h # f BY <1>2 DEF SignalInv, ToldOK, OrderOK, Kept, NewSig
<1> QED BY <1>1, <1>2

LEMMA SignalCall == ASSUME Types, NEW f \in Files, SignalInv(f),
    InCall(f) \/ Process(f), ~(CtlSet(f) /\ Unsignalled(f))
  PROVE pending' \subseteq pending /\ ToldOK(f)' /\ OrderOK(f)'
<1>0. fd[f] \in FdType /\ told[f] \in SUBSET Srcs BY DEF Types, FileType
<1>1. \A g \in Files \ {f} : fd'[g] = fd[g] /\ told'[g] = told[g] BY Others
<1>2. th' = th
  BY
    DEF InCall, Close, CtlAck, CtlSet, CtlRelease, Get, Ack, Process, Open,
        Release, CtlOff, CtlReserve, Wait, Interrupted, AckMask, thread
<1>3. ToldOK(f) /\ OrderOK(f) BY DEF SignalInv
<1>a. NewSig' = NewSig BY <1>2 DEF NewSig
<1>4. CASE Open(f) \/ Close(f)
  <2>1. fd'[f].owned = {} /\ fd'[f].sig = 0 /\ fd'[f].pc \in {"idle", "closed"}
    BY <1>4 DEF Open, Close, NoFile, Types, FileType
  <2>2. pending' = pending BY <1>4 DEF Open, Close, info
  <2> QED BY <2>1, <2>2 DEF ToldOK, OrderOK
<1>5. CASE CtlReserve(f)
  <2>1. PICK mask \in SUBSET Srcs, next \in {"ack", "set"}, want \in {-1, 1} :
     /\ fd[f].pc = "idle"
     /\ next = "set" /\ want > 0 => "noclear" \in Faults
     /\ fd'[f].pc = next /\ fd'[f].owned = fd[f].owned \cup mask /\ fd'[f].mask = mask
     /\ fd'[f].sig = fd[f].sig /\ fd'[f].want = want
    BY <1>5, ReserveFile
  <2>2. UNCHANGED <<told, pending>> BY <1>5 DEF CtlReserve, info
  <2>3. Kept(f)' \subseteq Kept(f) BY <2>1 DEF Kept
  <2>4. ToldOK(f)' BY <1>3, <1>a, <2>1, <2>2, <2>3 DEF ToldOK
  <2>5. OrderOK(f)' BY <1>3, <2>1 DEF OrderOK
  <2> QED BY <2>2, <2>4, <2>5
<1>6. CASE CtlAck(f)
  <2>1. Plain(f, fd'[f], "set") /\ fd'[f].mask = fd[f].mask BY <1>6, KeepsOwned
  <2>2. fd[f].pc = "ack" /\ pending' = pending \ fd[f].mask
    BY <1>6 DEF CtlAck, Acknowledge
  <2>3. told'[f] = told[f] \ fd[f].mask
    BY <1>6 DEF CtlAck, Acknowledge, Types, FileType
  <2>4. Kept(f)' = Kept(f) BY <2>1, <2>2 DEF Kept, Plain
  <2>5. ToldOK(f)' BY <1>3, <1>a, <2>1, <2>2, <2>3, <2>4 DEF ToldOK, Plain
  <2>6. OrderOK(f)' BY <1>3, <1>a, <2>1, <2>2 DEF OrderOK, Plain
  <2> QED BY <2>2, <2>5, <2>6
<1>7. CASE CtlSet(f)
  <2>1. fd'[f].pc = "idle" /\ fd'[f].owned = fd[f].owned /\ fd'[f].sig = fd[f].want
    BY <1>7, SetFileFields
  <2>2. fd[f].pc = "set" /\ pending' = pending BY <1>7 DEF CtlSet
  <2>3. told'[f] = IF fd[f].want < 0 THEN told[f] \cup (fd[f].mask \cap pending)
         ELSE told[f]
    BY <1>7 DEF CtlSet, Types, FileType
  <2>4. fd[f].want \in {-1, 1} BY <1>0, <1>3, <2>2 DEF OrderOK, FdType
  <2>5. fd[f].mask \cap pending \subseteq told'[f]
        \cup NewSig
    BY <1>7, <2>2, <2>3, <2>4 DEF Unsignalled
  <2>6. (fd[f].owned \ fd[f].mask) \cap pending \subseteq told'[f] \cup NewSig
    BY <1>3, <2>2, <2>3 DEF ToldOK, OrderOK, Kept
  <2>7. ToldOK(f)' BY <1>a, <2>1, <2>2, <2>5, <2>6 DEF ToldOK, Kept
  <2>8. OrderOK(f)' BY <2>1, <2>4 DEF OrderOK
  <2> QED BY <2>2, <2>7, <2>8
<1>8. CASE CtlOff(f)
  <2>1. PICK mask : fd' = [fd EXCEPT ![f] = [fd[f] EXCEPT !.pc = "off", !.mask = mask]]
    BY <1>8, Zenon DEF CtlOff
  <2>2. fd'[f].pc = "off" /\ fd'[f].mask = mask /\ fd'[f].owned = fd[f].owned
         /\ fd'[f].sig = fd[f].sig
    BY <1>0, <2>1 DEF FdType, Types, FileType
  <2>3. fd[f].pc = "idle" /\ UNCHANGED <<pending, told>> BY <1>8 DEF CtlOff
  <2>4. Kept(f)' \subseteq Kept(f) BY <2>2, <2>3 DEF Kept
  <2>5. ToldOK(f)' BY <1>3, <1>a, <2>2, <2>3, <2>4 DEF ToldOK
  <2>6. OrderOK(f)' BY <1>3, <2>2, <2>3 DEF OrderOK
  <2> QED BY <2>3, <2>5, <2>6
<1>9. CASE CtlRelease(f)
  <2>1. fd'[f].pc = "idle" /\ fd'[f].owned = fd[f].owned \ fd[f].mask
         /\ fd'[f].sig = fd[f].sig
    BY <1>9, ReleaseFields
  <2>2. fd[f].pc = "off" /\ pending' = pending BY <1>9 DEF CtlRelease, info
  <2>3. told'[f] = told[f] \ fd[f].mask BY <1>9 DEF CtlRelease, Types, FileType
  <2>4. Kept(f)' = Kept(f) BY <2>1, <2>2 DEF Kept
  <2>5. ToldOK(f)' BY <1>3, <1>a, <2>1, <2>2, <2>3, <2>4 DEF ToldOK, Kept
  <2>6. OrderOK(f)' BY <1>3, <2>1, <2>2 DEF OrderOK
  <2> QED BY <2>2, <2>5, <2>6
<1>10. CASE Release(f) \/ Wait(f) \/ Interrupted(f)
       \/ \E mask \in Masks[f] \cup {Srcs} : AckMask(f, mask)
  <2>1. fd'[f].owned = fd[f].owned /\ fd'[f].sig = fd[f].sig
         /\ fd'[f].pc \in {"close", "get", "asleep", "idle", "acking"}
    BY <1>10, KeepsOwned DEF Plain
  <2>2. fd[f].pc \in {"idle", "asleep"} /\ UNCHANGED <<told, pending>>
    BY <1>10 DEF Release, Wait, Interrupted, AckMask, info
  <2>3. Kept(f)' = Kept(f) BY <2>1, <2>2 DEF Kept
  <2>4. ToldOK(f)' /\ OrderOK(f)'
    BY <1>3, <1>a, <2>1, <2>2, <2>3 DEF ToldOK, OrderOK
  <2> QED BY <2>2, <2>4
<1>11. CASE Get(f) \/ Ack(f)
  <2>1. fd'[f].owned = fd[f].owned /\ fd'[f].sig = fd[f].sig /\ fd'[f].pc = "idle"
    BY <1>11, KeepsOwned DEF Plain
  <2>2. PICK irqs : pending' = pending \ irqs
         /\ told' = [told EXCEPT ![f] = told[f] \ irqs]
    BY <1>11, Zenon DEF Get, Ack, Acknowledge
  <2>3. told'[f] = told[f] \ irqs BY <2>2 DEF Types, FileType
  <2>4. fd[f].pc \in {"get", "acking"} BY <1>11 DEF Get, Ack
  <2>5. Kept(f)' = Kept(f) BY <2>1, <2>4 DEF Kept
  <2>6. ToldOK(f)' /\ OrderOK(f)'
    BY <1>3, <1>a, <2>1, <2>2, <2>3, <2>4, <2>5 DEF ToldOK, OrderOK
  <2> QED BY <2>2, <2>6
<1> QED BY <1>4, <1>5, <1>6, <1>7, <1>8, <1>9, <1>10, <1>11 DEF InCall, Process

\* A pending interrupt of a file with a signal was signalled or is about to be,
\* whatever the crate, the irq thread, the other files and the file's own calls do,
\* until the file's own irq_ctl sets a signal for an interrupt that the thread has
\* gone through with since it was ordered, or that SIS1100_IRQCTL_NOCLEAR has kept.
THEOREM SignalsCorrect ==
    /\ (\A f \in Files : SignalInv(f)) => SignalFollows
    /\ Spec => (\A f \in Files : SignalInv(f)) /\ SignalKept
<1>1. Spec => []Types BY InitTypes, StepTypes, PTL DEF Spec
<1>2. ASSUME Types, NEW f \in Files, SignalInv(f), Next, ~(CtlSet(f) /\ Unsignalled(f))
      PROVE  SignalInv(f)'
  <2>1. CASE Thread BY <1>2, <2>1, SignalThread
  <2>2. CASE Crate BY <1>2, <2>2, SignalCrate
  <2>3. ASSUME NEW g \in Files, InCall(g) \/ Process(g) PROVE SignalInv(f)'
    <3>1. \A h \in Files \ {g} : fd'[h] = fd[h] /\ told'[h] = told[h]
      BY <1>2, <2>3, Others
    <3>2. th' = th /\ pending' \subseteq pending
      BY <2>3
        DEF InCall, Close, CtlAck, CtlSet, CtlRelease, Get, Ack, Process, Open,
            Release, CtlOff, CtlReserve, Wait, Interrupted, AckMask, thread, info,
            Acknowledge
    <3>3. g = f => ToldOK(f)' /\ OrderOK(f)' BY <1>2, <2>3, SignalCall
    <3> QED BY <1>2, <2>3, <3>1, <3>2, <3>3, SignalFrame
  <2> QED BY <1>2, <2>1, <2>2, <2>3 DEF Next
<1>3. Types /\ [Next]_vars
        => [\A f \in Files :
              SignalInv(f) => SignalInv(f)' \/ (CtlSet(f) /\ Unsignalled(f))]_vars
  BY <1>2
<1> QED BY SignalGives, InitSignal, <1>1, <1>3, PTL DEF Spec, SignalKept

-----------------------------------------------------------------------------
LEMMA VectorStep == ASSUME Types, \A l, m \in Vme : l = m, Next PROVE
   (\E f \in Files : Ack(f) \/ CtlAck(f)) \/
       \A l \in Vme : Owed(l) => /\ vects'[l].vector = vects[l].vector
                                 /\ (l \in pending' \/ ~vects'[l].valid)
<1> SUFFICES ASSUME \A f \in Files : ~Ack(f) /\ ~CtlAck(f), NEW l \in Vme, Owed(l)
   PROVE vects'[l].vector = vects[l].vector /\ (l \in pending' \/ ~vects'[l].valid)
   OBVIOUS
<1>1. CASE ThreadServe
  <2>1. vects'[l] = IF l \in th.bell \ pending
         THEN [valid |-> TRUE, vector |-> vec[l]] ELSE vects[l]
    BY <1>1 DEF ThreadServe
  <2>2. pending' = pending BY <1>1 DEF ThreadServe
  <2> QED BY <2>1, <2>2 DEF Owed
<1>2. CASE \E f \in Files : Get(f)
  <2>1. PICK f \in Files : Get(f) BY <1>2
  <2> DEFINE irqs == pending \cap fd[f].owned \cap fd[f].mask
  <2>2. pending' = pending \ (autoack \cap irqs) BY <2>1 DEF Get, Acknowledge
  <2>3. vects' = IF Found(irqs) = {} THEN vects
         ELSE [vects EXCEPT ![Max(Found(irqs))].valid = FALSE]
    BY <2>1 DEF Get
  <2>4. CASE l \notin irqs
    <3>1. Found(irqs) = {} BY <2>4 DEF Found
    <3> QED BY <2>2, <2>3, <2>4, <3>1 DEF Owed
  <2>5. CASE l \in irqs
    <3>1. Found(irqs) = {l} BY <2>5, Zenon DEF Found, Owed
    <3>2. Max({l}) = l BY IrqAssumption DEF Max
    <3>3. vects' = [vects EXCEPT ![l].valid = FALSE] BY <2>3, <3>1, <3>2
    <3>4. vects'[l] = [vects[l] EXCEPT !.valid = FALSE]
      BY <3>3, Zenon DEF Types, InfoType
    <3>5. vects[l] \in [valid : BOOLEAN, vector : Vectors]
      BY Zenon DEF Types, InfoType
    <3>6. vects'[l].vector = vects[l].vector BY <3>4, <3>5, Zenon
    <3>7. ~vects'[l].valid BY <3>4, <3>5, Zenon
    <3> QED BY <3>6, <3>7
  <2> QED BY <2>4, <2>5
<1>3. CASE ~ThreadServe /\ ~\E f \in Files : Get(f)
  <2>1. vects' = vects /\ pending \subseteq pending'
    <3>1. CASE Crate \/ Thread
      BY <1>3, <3>1
        DEF Crate, Raise, Doorbell, Local, Thread, ThreadTake, ThreadLock,
            ThreadStore, ThreadSignal, ThreadWake, info
    <3>2. CASE \E f \in Files : InCall(f) \/ Process(f)
      BY <1>3, <3>2
        DEF InCall, Close, CtlSet, CtlRelease, Process, Open, Release, CtlOff,
            CtlReserve, Wait, Interrupted, AckMask, info
    <3> QED BY <3>1, <3>2 DEF Next
  <2> QED BY <2>1 DEF Owed
<1> QED BY <1>1, <1>2, <1>3

\* With a single level, the vector fetched by sis3100rem_irq_handler stays until
\* irq_get has read it or the process has acknowledged the interrupt.
THEOREM VectorsCorrect == ASSUME \A l, m \in Vme : l = m PROVE Spec => VectorKept
<1>1. Spec => []Types BY InitTypes, StepTypes, PTL DEF Spec
<1>2. Types /\ [Next]_vars => [(\E f \in Files : Ack(f) \/ CtlAck(f)) \/
       \A l \in Vme : Owed(l) => /\ vects'[l].vector = vects[l].vector
                                 /\ (l \in pending' \/ ~vects'[l].valid)]_vars
  BY VectorStep
<1> QED BY <1>1, <1>2, PTL DEF Spec, VectorKept

=============================================================================
