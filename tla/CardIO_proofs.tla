---------------------------- MODULE CardIO_proofs ----------------------------
(***************************************************************************)
(* Theorems about CardIO, for any number of sectors, keys, slots and       *)
(* values, any set of calls and any set of faults.  First the inductive    *)
(* invariant IInv, and with it the types; then, over IInv, the safety of   *)
(* the transfers, the slot cache, a failed authentication, the memory      *)
(* image and tryReadSector's answer, and the choice of a key.              *)
(***************************************************************************)
EXTENDS CardIO, WellFoundedInduction, SequenceTheorems, TLAPS

-----------------------------------------------------------------------------
(* The choice of a key is an index of keys_                                *)

(* A non-empty set of natural numbers has a least element.                 *)
LEMMA LeastNat ==
  ASSUME NEW T \in SUBSET Nat, T # {}
  PROVE  \E x \in T : \A y \in T : x <= y
<1> DEFINE less == {p \in Nat \X Nat : p[1] < p[2]}
<1>1. OpToRel(<, Nat) = less
  BY DEF OpToRel
<1>2. IsWellFoundedOn(less, Nat)
  BY <1>1, NatLessThanWellFounded
<1>3. \E x \in T : \A y \in T : ~(<<y, x>> \in less)
  <2> HIDE DEF less
  <2> QED
    BY <1>2, WFMin
<1>4. \A x, y \in Nat : ~(<<y, x>> \in less) => x <= y
  OBVIOUS
<1> QED
  BY <1>3, <1>4

(* chooseKey returns an entry of keys_: never past its end, also when no   *)
(* key may do what is asked, and of several one that may when there is one.*)
LEMMA ChooseKeyIndex ==
  ASSUME keys \in Seq(KeyInfo), Len(keys) \in Nat, Len(keys) >= 1, NEW s, NEW purpose
  PROVE  /\ ChooseKey(s, purpose) \in 1..Len(keys)
         /\ (IsMultiKey /\ \E i \in DOMAIN keys : CanKeyPerform(keys[i], s, purpose)) =>
              CanKeyPerform(keys[ChooseKey(s, purpose)], s, purpose)
<1> DEFINE usable == {i \in DOMAIN keys : CanKeyPerform(keys[i], s, purpose)}
           best == {i \in usable : \A j \in usable : Score(keys[i], s) >= Score(keys[j], s)}
           first == CHOOSE i \in best : \A j \in best : i <= j
<1>1. DOMAIN keys = 1..Len(keys)
  BY LenProperties
<1>2. CASE Len(keys) = 1 \/ usable = {}
  BY <1>2 DEF ChooseKey, IsMultiKey
<1>3. CASE ~(Len(keys) = 1 \/ usable = {})
  <2>1. \A i \in usable : Score(keys[i], s) \in {1, 2}
    BY DEF Score
  <2>2. best # {}
    <3>1. CASE \E i \in usable : Score(keys[i], s) = 2
      <4>1. PICK i \in usable : Score(keys[i], s) = 2
        BY <3>1
      <4>2. i \in best
        BY <2>1, <4>1
      <4> QED
        BY <4>2
    <3>2. CASE ~\E i \in usable : Score(keys[i], s) = 2
      <4>1. PICK i \in usable : TRUE
        BY <1>3
      <4>2. i \in best
        BY <2>1, <3>2
      <4> QED
        BY <4>2
    <3> QED
      BY <3>1, <3>2
  <2>3. best \in SUBSET Nat
    BY <1>1
  <2>4. \E i \in best : \A j \in best : i <= j
    BY <2>2, <2>3, LeastNat
  <2>5. first \in best
    BY <2>4
  <2>6. ChooseKey(s, purpose) = first
    BY <1>3 DEF ChooseKey
  <2> QED
    BY <1>1, <2>5, <2>6
<1> QED
  BY <1>2, <1>3

(* findKey returns an entry of keys_.                                      *)
LEMMA FindKeyIndex ==
  ASSUME keys \in Seq(KeyInfo), Len(keys) \in Nat, Len(keys) >= 1, NEW kt
  PROVE  FindKey(kt) \in 1..Len(keys)
<1> DEFINE typed == {i \in DOMAIN keys : keys[i].kt = kt}
           first == CHOOSE i \in typed : \A j \in typed : i <= j
<1>1. DOMAIN keys = 1..Len(keys)
  BY LenProperties
<1>2. CASE typed = {}
  BY <1>2 DEF FindKey
<1>3. CASE typed # {}
  <2>1. typed \in SUBSET Nat
    BY <1>1
  <2>2. \E i \in typed : \A j \in typed : i <= j
    BY <1>3, <2>1, LeastNat
  <2>3. first \in typed
    BY <2>2
  <2>4. FindKey(kt) = first
    BY <1>3 DEF FindKey
  <2> QED
    BY <1>1, <2>3, <2>4
<1> QED
  BY <1>2, <1>3

-----------------------------------------------------------------------------
(* Types of the values the actions are built from                          *)

LEMMA SectorTypes ==
  /\ NumSectors \in Nat /\ NumSectors >= 1
  /\ 0 \in Sectors /\ NumSectors - 1 \in Sectors
  /\ \A s \in Sectors : s \in Nat /\ s # -1 /\ (s # NumSectors - 1 => s + 1 \in Sectors)
  /\ 0 \in DataBlocks /\ 0 \in Blocks /\ 3 \in Blocks /\ 3 \notin DataBlocks
  /\ DataBlocks \subseteq Blocks
  /\ \A b \in Blocks : b # 3 => b \in DataBlocks
BY SizeAssumption DEF Sectors, DataBlocks, Blocks

LEMMA NextBlockType ==
  ASSUME NEW b \in Blocks
  PROVE  NextBlock(b) \in Blocks
BY SizeAssumption DEF NextBlock, Blocks, DataBlocks

LEMMA ValueTypes ==
  /\ ZeroConfig \in Configs /\ FactoryConfig \in Configs
  /\ ZeroTrailer \in Trailer /\ FactoryTrailer \in Trailer
  /\ ZeroImage \in SectorImage
  /\ ZeroMemory \in [Sectors -> SectorImage]
  /\ DefaultKeyInfo \in KeyInfo
  /\ NoAuth \in AuthRef
  /\ NoArg \in ArgType
  /\ [sl \in Slots |-> NoKey] \in [Slots -> Keys \cup {NoKey}]
<1>1. ZeroConfig \in Configs /\ FactoryConfig \in Configs
  BY DataAssumption
<1>2. ZeroTrailer \in Trailer /\ FactoryTrailer \in Trailer
  BY <1>1, DataAssumption DEF ZeroTrailer, FactoryTrailer, Trailer
<1>3. ZeroImage \in SectorImage
  BY <1>2, DataAssumption DEF ZeroImage, SectorImage
<1>4. ZeroMemory \in [Sectors -> SectorImage]
  BY <1>3 DEF ZeroMemory
<1>5. DefaultKeyInfo \in KeyInfo
  BY DataAssumption DEF DefaultKeyInfo, KeyInfo, KeyTypes
<1>6. NoArg \in ArgType
  BY <1>1, <1>2, DataAssumption DEF NoArg, ArgType, KeyTypes
<1> QED
  BY <1>1, <1>2, <1>3, <1>4, <1>5, <1>6 DEF AuthRef

LEMMA IdleType == Idle \in CallType /\ Idle.key = 1 /\ Idle.op = "none" /\ Idle.pc = "idle"
BY SectorTypes, SizeAssumption DEF Idle, CallType, CardCalls

(* TrailerRead and what a write leaves on the card are trailers.           *)
LEMMA TrailerReadType ==
  ASSUME DeviceType, NEW s \in Sectors
  PROVE  /\ TrailerRead(s) \in Trailer
         /\ TrailerRead(s).access = card[s].trailer.access
<1>1. card[s].trailer \in Trailer
  BY DEF DeviceType, SectorImage
<1> QED
  BY <1>1, DataAssumption DEF TrailerRead, Trailer

(* Return and Continue keep the types of call, arg and ret.                *)
LEMMA ReturnTypes ==
  ASSUME HostType, UNCHANGED keys, NEW r \in Rets, Return(r)
  PROVE  /\ call' \in CallType /\ call'.key <= Len(keys')
         /\ arg' \in ArgType /\ ret' \in Rets
         /\ call'.op = "none" /\ call'.pc = "idle"
<1>1. Len(keys') \in Nat /\ Len(keys') >= 1
  BY SizeAssumption DEF HostType
<1> QED
  BY <1>1, IdleType, ValueTypes DEF Return

-----------------------------------------------------------------------------
(* The reader and the card keep their types                                *)

LEMMA ReaderLoadsTypes ==
  ASSUME DeviceType, NEW slot \in Slots, NEW key \in Keys, NEW reply, NEW noted,
         ReaderLoads(slot, key, reply, noted)
  PROVE  DeviceType' /\ UNCHANGED <<card, cardAuth>>
BY DEF DeviceType, ReaderLoads, Loaded, reader

LEMMA CardAuthenticatesTypes ==
  ASSUME DeviceType, NEW s \in Sectors, NEW kt \in KeyTypes, NEW slot, NEW reply,
         CardAuthenticates(s, kt, slot, reply)
  PROVE  /\ DeviceType' /\ UNCHANGED <<slotKey, unnoted, card>>
         /\ cardAuth' \in {[sector |-> s, kt |-> kt], NoAuth}
         /\ reply = "ok" => cardAuth' = [sector |-> s, kt |-> kt]
<1>1. /\ cardAuth' \in {[sector |-> s, kt |-> kt], NoAuth}
      /\ reply = "ok" => cardAuth' = [sector |-> s, kt |-> kt]
      /\ UNCHANGED <<slotKey, unnoted, card>>
  BY DEF CardAuthenticates, reader
<1>2. cardAuth' \in AuthRef
  BY <1>1, ValueTypes DEF AuthRef
<1> QED
  BY <1>1, <1>2 DEF DeviceType

LEMMA CardReadsTypes ==
  ASSUME DeviceType, NEW s, NEW b, NEW reply, CardReads(s, b, reply)
  PROVE  /\ DeviceType' /\ UNCHANGED <<slotKey, unnoted, card>>
         /\ cardAuth' \in {cardAuth, NoAuth}
<1>1. cardAuth' \in {cardAuth, NoAuth} /\ UNCHANGED <<slotKey, unnoted, card>>
  BY DEF CardReads, reader, SessionEndsUnless
<1> QED
  BY <1>1, ValueTypes DEF DeviceType

LEMMA CardWritesTypes ==
  ASSUME DeviceType, NEW s \in Sectors, NEW open, NEW image \in SectorImage, NEW reply,
         CardWrites(s, open, image, reply)
  PROVE  /\ DeviceType' /\ UNCHANGED <<slotKey, unnoted>>
         /\ cardAuth' \in {cardAuth, NoAuth}
         /\ card' \in {card, [card EXCEPT ![s] = image]}
         /\ reply = "ok" => card' = [card EXCEPT ![s] = image]
         /\ reply \notin {"ok", "thrown"} => card' = card
<1>1. /\ cardAuth' \in {cardAuth, NoAuth} /\ UNCHANGED <<slotKey, unnoted>>
      /\ card' \in {card, [card EXCEPT ![s] = image]}
      /\ reply = "ok" => card' = [card EXCEPT ![s] = image]
      /\ reply \notin {"ok", "thrown"} => card' = card
  BY DEF CardWrites, reader, SessionEndsUnless
<1>2. [card EXCEPT ![s] = image] \in [Sectors -> SectorImage]
  BY DEF DeviceType
<1>3. card' \in [Sectors -> SectorImage]
  BY <1>1, <1>2 DEF DeviceType
<1> QED
  BY <1>1, <1>3, ValueTypes DEF DeviceType
-----------------------------------------------------------------------------
(* The inductive invariant: types, and what the call in progress says of   *)
(* the rest of the state.                                                  *)

WriteCalls == {"writeBlock", "writeTrailer", "setAccessConfig", "restoreAllTrailers"}
TrailerCalls == {"readTrailer", "writeTrailer", "setAccessConfig",
                 "saveAllTrailers", "restoreAllTrailers"}

(* the block and the purpose fit the operation *)
CallShape ==
  /\ call.pc = "idle" => call = Idle
  /\ call.op = "none" => call.pc = "idle"
  /\ call.op \in Calls \cup {"none"}
  /\ call.pc \in {"loadSlot", "authSlot"} => call.op = "authenticateSlot"
  /\ call.op \in TrailerCalls => call.block = 3
  /\ call.op = "writeBlock" => call.block \in DataBlocks
  /\ call.purpose = "Write" => call.op \in WriteCalls
  /\ call.pc = "write" => call.purpose = "Write"

(* restoreAllTrailers always finds one saved trailer per sector *)
SavedShape ==
  /\ call.op = "saveAllTrailers" => Len(saved) = call.sector
  /\ call.op # "saveAllTrailers" => Len(saved) \in {0, NumSectors}
  /\ call.op = "restoreAllTrailers" => Len(saved) = NumSectors

(* the collecting buffer exists only during readCard *)
BufShape == call.op # "readCard" => buf = ZeroMemory

IInv == TypeOK /\ CallShape /\ SavedShape /\ BufShape

-----------------------------------------------------------------------------
(* Ends of calls and of iterations preserve it                             *)

LEMMA ReturnShape ==
  ASSUME IInv, UNCHANGED keys, NEW r \in Rets, Return(r),
         unsure' \subseteq Sectors \X Blocks
  PROVE  ProgressType' /\ CallShape'
<1>1. /\ call' \in CallType /\ call'.key <= Len(keys')
      /\ arg' \in ArgType /\ ret' \in Rets
  BY ReturnTypes DEF IInv, TypeOK
<1>2. call' = Idle /\ Idle.purpose = "Read" /\ Idle.op = "none" /\ Idle.pc = "idle"
  BY DEF Return, Idle
<1> QED
  BY <1>1, <1>2 DEF ProgressType, CallShape, TrailerCalls

(* A step that only moves on to another pc, with another key.              *)
LEMMA MoveShape ==
  ASSUME IInv, UNCHANGED <<keys, unsure>>, call.pc # "idle",
         NEW p \in {"ensure", "load", "auth", "read", "write"},
         p = "write" => call.purpose = "Write",
         NEW k \in 1..Len(keys), NEW n \in {1, 2},
         Continue([call EXCEPT !.pc = p, !.key = k, !.attempt = n])
  PROVE  ProgressType' /\ CallShape' /\ call'.op = call.op /\ call'.sector = call.sector
<1>1. k \in 1..MaxKeys /\ k <= Len(keys)
  BY SizeAssumption DEF IInv, TypeOK, HostType
<1>2. call \in CallType
  BY DEF IInv, TypeOK, ProgressType
<1>3. /\ call' \in CallType /\ call'.key = k /\ call'.op = call.op /\ call'.pc = p
      /\ call'.sector = call.sector /\ call'.block = call.block
      /\ call'.purpose = call.purpose
  BY <1>1, <1>2 DEF Continue, CallType
<1>4. arg' \in ArgType /\ ret' \in Rets
  BY DEF Continue, IInv, TypeOK, ProgressType
<1>5. ProgressType'
  BY <1>1, <1>3, <1>4 DEF ProgressType, IInv, TypeOK
<1>6. CallShape'
  BY <1>3 DEF CallShape, IInv
<1> QED
  BY <1>3, <1>5, <1>6

LEMMA NextSectorShape ==
  ASSUME IInv, UNCHANGED <<keys>>, unsure' \subseteq Sectors \X Blocks, ~AtLastSector,
         call.op \in {"readCard", "saveAllTrailers", "restoreAllTrailers"},
         Continue(NextSector)
  PROVE  /\ ProgressType' /\ CallShape'
         /\ call'.op = call.op /\ call'.sector = call.sector + 1
<1>1. call \in CallType /\ call.sector \in Sectors /\ call.pc # "idle"
  BY IdleType DEF IInv, TypeOK, ProgressType, CallType, CallShape
<1>2. call.sector + 1 \in Sectors
  BY <1>1, SectorTypes DEF AtLastSector
<1>3. 1 \in 1..MaxKeys
  BY SizeAssumption
<1>4. /\ call' \in CallType /\ call'.key = 1 /\ call'.op = call.op /\ call'.pc = "ensure"
      /\ call'.sector = call.sector + 1 /\ call'.purpose = call.purpose
      /\ call'.block = (IF call.op = "readCard" THEN 0 ELSE 3)
  BY <1>1, <1>2, <1>3, SectorTypes DEF Continue, NextSector, CallType
<1>5. arg' \in ArgType /\ ret' \in Rets /\ 1 <= Len(keys')
  BY SizeAssumption DEF Continue, IInv, TypeOK, ProgressType, HostType
<1>6. ProgressType'
  BY <1>4, <1>5 DEF ProgressType, IInv, TypeOK
<1>7. CallShape'
  BY <1>1, <1>4 DEF CallShape, IInv, TrailerCalls
<1> QED
  BY <1>4, <1>6, <1>7

(* What a step leaves of the memory image, the buffer and the backup.      *)
StepShape == MemoryType' /\ ProgressType' /\ CallShape' /\ SavedShape' /\ BufShape'

LEMMA AdvanceReadCardShape ==
  ASSUME IInv, UNCHANGED keys, call.op = "readCard",
         NEW image \in [Sectors -> SectorImage], AdvanceReadCard(image)
  PROVE  StepShape
<1>1. CASE AtLastSector
  <2>1. Return("ok") /\ mem' = image /\ buf' = ZeroMemory /\ unsure' = {} /\ saved' = saved
    BY <1>1 DEF AdvanceReadCard
  <2>2. ProgressType' /\ CallShape'
    BY <2>1, ReturnShape DEF Rets
  <2>3. call'.op = "none"
    BY <2>1, IdleType DEF Return
  <2> QED
    BY <2>1, <2>2, <2>3, ValueTypes
    DEF StepShape, IInv, TypeOK, MemoryType, SavedShape, BufShape
<1>2. CASE ~AtLastSector
  <2>1. Continue(NextSector) /\ buf' = image /\ UNCHANGED <<mem, unsure, saved>>
    BY <1>2 DEF AdvanceReadCard
  <2>2. ProgressType' /\ CallShape' /\ call'.op = "readCard"
    BY <1>2, <2>1, NextSectorShape DEF IInv, TypeOK, ProgressType
  <2> QED
    BY <2>1, <2>2 DEF StepShape, IInv, TypeOK, MemoryType, SavedShape, BufShape
<1> QED
  BY <1>1, <1>2

LEMMA PushSavedShape ==
  ASSUME IInv, UNCHANGED keys, call.op = "saveAllTrailers",
         mem' \in [Sectors -> SectorImage], unsure' \subseteq Sectors \X Blocks,
         NEW t \in Trailer, PushSaved(t)
  PROVE  StepShape
<1>1. saved \in Seq(Trailer) /\ Len(saved) = call.sector
  BY DEF IInv, TypeOK, MemoryType, SavedShape
<1>2. saved' \in Seq(Trailer) /\ Len(saved') = call.sector + 1 /\ buf' = ZeroMemory
  BY <1>1, AppendProperties DEF PushSaved, IInv, BufShape
<1>3. MemoryType'
  BY <1>2, ValueTypes DEF MemoryType
<1>4. CASE AtLastSector
  <2>1. Return("ok")
    BY <1>4 DEF PushSaved
  <2>2. ProgressType' /\ CallShape' /\ call'.op = "none"
    BY <2>1, ReturnShape, IdleType DEF Rets, Return
  <2>3. Len(saved') = NumSectors
    BY <1>2, <1>4, SectorTypes DEF AtLastSector
  <2> QED
    BY <1>2, <1>3, <2>2, <2>3 DEF StepShape, SavedShape, BufShape
<1>5. CASE ~AtLastSector
  <2>1. Continue(NextSector)
    BY <1>5 DEF PushSaved
  <2>2. /\ ProgressType' /\ CallShape' /\ call'.op = "saveAllTrailers"
        /\ call'.sector = call.sector + 1
    BY <1>5, <2>1, NextSectorShape
  <2> QED
    BY <1>2, <1>3, <2>2 DEF StepShape, SavedShape, BufShape
<1> QED
  BY <1>4, <1>5

LEMMA AdvanceRestoreShape ==
  ASSUME IInv, UNCHANGED keys, call.op = "restoreAllTrailers",
         mem' \in [Sectors -> SectorImage], unsure' \subseteq Sectors \X Blocks,
         AdvanceRestore
  PROVE  StepShape
<1>1. Len(saved) = NumSectors /\ buf' = ZeroMemory /\ saved' = saved /\ saved \in Seq(Trailer)
  BY DEF IInv, SavedShape, BufShape, AdvanceRestore, TypeOK, MemoryType
<1>2. MemoryType'
  BY <1>1, ValueTypes DEF MemoryType
<1>3. AtLastSector <=> call.sector + 1 = Len(saved)
  BY <1>1, SectorTypes DEF AtLastSector, IInv, TypeOK, ProgressType, CallType
<1>4. CASE AtLastSector
  <2>1. Return("ok")
    BY <1>3, <1>4 DEF AdvanceRestore
  <2>2. ProgressType' /\ CallShape' /\ call'.op = "none"
    BY <2>1, ReturnShape, IdleType DEF Rets, Return
  <2> QED
    BY <1>1, <1>2, <2>2 DEF StepShape, SavedShape, BufShape
<1>5. CASE ~AtLastSector
  <2>1. Continue(NextSector)
    BY <1>3, <1>5 DEF AdvanceRestore
  <2>2. ProgressType' /\ CallShape' /\ call'.op = "restoreAllTrailers"
    BY <1>5, <2>1, NextSectorShape
  <2> QED
    BY <1>1, <1>2, <2>2 DEF StepShape, SavedShape, BufShape
<1> QED
  BY <1>4, <1>5

(* Every way of ending a call that keeps mem, buf and saved.               *)
LEMMA ReturnStepShape ==
  ASSUME IInv, UNCHANGED <<keys, buf, saved>>, NEW r \in Rets, Return(r),
         call.op \notin {"readCard", "saveAllTrailers"},
         mem' \in [Sectors -> SectorImage], unsure' \subseteq Sectors \X Blocks
  PROVE  StepShape
<1>1. ProgressType' /\ CallShape' /\ call'.op = "none"
  BY ReturnShape, IdleType DEF Return
<1> QED
  BY <1>1 DEF StepShape, IInv, TypeOK, MemoryType, SavedShape, BufShape

LEMMA AuthGaveUpShape ==
  ASSUME IInv, UNCHANGED keys, NEW r \in Rets, AuthGaveUp(r)
  PROVE  StepShape
<1>1. buf \in [Sectors -> SectorImage] /\ mem \in [Sectors -> SectorImage]
      /\ unsure \subseteq Sectors \X Blocks
  BY DEF IInv, TypeOK, MemoryType, ProgressType
<1>2. CASE call.op = "readCard" /\ AdvanceReadCard(buf)
  BY <1>1, <1>2, AdvanceReadCardShape
<1>3. CASE call.op = "saveAllTrailers" /\ PushSaved(FactoryTrailer) /\ UNCHANGED <<mem, unsure>>
  BY <1>1, <1>3, PushSavedShape, ValueTypes
<1>4. CASE call.op = "restoreAllTrailers" /\ AdvanceRestore /\ UNCHANGED <<mem, unsure>>
  BY <1>1, <1>4, AdvanceRestoreShape
<1>5. CASE /\ call.op \notin {"readCard", "saveAllTrailers", "restoreAllTrailers"}
           /\ Finish(r)
  BY <1>1, <1>5, ReturnStepShape DEF Finish
<1> QED
  BY <1>2, <1>3, <1>4, <1>5 DEF AuthGaveUp

LEMMA AbortShape ==
  ASSUME IInv, Abort, unsure' \subseteq Sectors \X Blocks
  PROVE  StepShape /\ HostType'
<1>1. Return("thrown") /\ UNCHANGED <<keys, lastAuth, slotContents, mem>> /\ buf' = ZeroMemory
  BY DEF Abort
<1>2. ProgressType' /\ CallShape' /\ call'.op = "none"
  BY <1>1, ReturnShape, IdleType DEF Rets, Return
<1>3. saved' \in Seq(Trailer) /\ Len(saved') \in {0, NumSectors}
  <2>1. CASE call.op = "saveAllTrailers"
    BY <2>1, EmptySeq DEF Abort
  <2>2. CASE call.op # "saveAllTrailers"
    BY <2>2 DEF Abort, IInv, SavedShape, TypeOK, MemoryType
  <2> QED
    BY <2>1, <2>2
<1> QED
  BY <1>1, <1>2, <1>3, ValueTypes
  DEF StepShape, IInv, TypeOK, MemoryType, SavedShape, BufShape, HostType
-----------------------------------------------------------------------------
(* Every action preserves it                                               *)

LEMMA InvalidateTypes ==
  ASSUME HostType, NEW cond, InvalidateIf(cond), UNCHANGED keys
  PROVE  HostType'
BY ValueTypes DEF InvalidateIf, InvalidateAuth, KeepAuth, HostType

LEMMA InitInv == ASSUME Init PROVE IInv
<1>1. Idle \in CallType /\ NoArg \in ArgType /\ "none" \in Rets /\ 1 <= Len(keys)
  BY IdleType, ValueTypes DEF Init, Rets
<1>2. <<DefaultKeyInfo>> \in Seq(KeyInfo) /\ Len(<<DefaultKeyInfo>>) \in 1..MaxKeys
  BY ValueTypes, SizeAssumption
<1>3. HostType
  BY <1>2, ValueTypes DEF HostType, Init
<1>4. MemoryType
  BY ValueTypes, EmptySeq DEF MemoryType, Init
<1>5. DeviceType
  <2>1. card \in [Sectors -> SectorImage]
    BY DataAssumption DEF Init, SectorImage
  <2>2. slotKey \in [Slots -> Keys \cup {NoKey}]
    BY DEF Init
  <2> QED
    BY <2>1, <2>2, ValueTypes DEF DeviceType, Init
<1>6. ProgressType
  BY <1>1, IdleType DEF ProgressType, Init
<1>7. CallShape
  BY DEF CallShape, Init, Idle, TrailerCalls
<1>8. SavedShape /\ BufShape
  BY IdleType DEF SavedShape, BufShape, Init
<1> QED
  BY <1>3, <1>4, <1>5, <1>6, <1>7, <1>8 DEF IInv, TypeOK

(* a call's key settings leave everything but keys_ and the caches alone *)
LEMMA KeyCallInv ==
  ASSUME IInv, NEW op, KeyCall(op), HostType'
  PROVE  IInv'
<1>1. UNCHANGED <<mem, buf, saved, call, arg, slotKey, unnoted, card, cardAuth, unsure>>
      /\ ret' = "none" /\ call.pc = "idle"
  BY DEF KeyCall, device, reader
<1>2. call'.key = 1 /\ 1 <= Len(keys')
  BY <1>1, IdleType, SizeAssumption DEF IInv, CallShape, HostType
<1> QED
  BY <1>1, <1>2 DEF IInv, TypeOK, MemoryType, DeviceType, ProgressType, CallShape,
     SavedShape, BufShape, Rets

LEMMA KeySettingsInv == ASSUME IInv, KeySettings PROVE IInv'
<1>0. keys \in Seq(KeyInfo) /\ Len(keys) \in 1..MaxKeys /\ slotContents \in [Slots -> Keys \cup {NoKey}]
  BY DEF IInv, TypeOK, HostType
<1>1. ASSUME NEW ki \in [key : ClientKeys, kt : KeyTypes, slot : Slots],
             SetDefaultKey(ki) \/ AddKeyReplace(ki) \/ AddKeyPush(ki)
      PROVE  IInv'
  <2>1. ki \in KeyInfo
    BY DataAssumption DEF KeyInfo
  <2>2. CASE SetDefaultKey(ki)
    <3>1. <<ki>> \in Seq(KeyInfo) /\ Len(<<ki>>) = 1
      BY <2>1
    <3>2. HostType'
      BY <2>2, <3>1, ValueTypes, SizeAssumption DEF SetDefaultKey, HostType, IInv, TypeOK
    <3> QED
      BY <2>2, <3>2, KeyCallInv DEF SetDefaultKey
  <2>3. CASE AddKeyReplace(ki)
    <3>1. PICK i \in DOMAIN keys : keys' = [keys EXCEPT ![i] = ki]
      BY <2>3 DEF AddKeyReplace
    <3>2. keys' \in Seq(KeyInfo) /\ Len(keys') = Len(keys)
      BY <1>0, <2>1, <3>1, ExceptSeq, LenProperties
    <3>3. slotContents' \in [Slots -> Keys \cup {NoKey}] /\ lastAuth' = lastAuth
      BY <1>0, <2>3 DEF AddKeyReplace
    <3>4. HostType'
      BY <1>0, <3>2, <3>3 DEF HostType, IInv, TypeOK
    <3> QED
      BY <2>3, <3>4, KeyCallInv DEF AddKeyReplace
  <2>4. CASE AddKeyPush(ki)
    <3>1. keys' \in Seq(KeyInfo) /\ Len(keys') = Len(keys) + 1 /\ Len(keys) < MaxKeys
      BY <1>0, <2>1, <2>4, AppendProperties DEF AddKeyPush
    <3>2. HostType'
      BY <1>0, <2>4, <3>1, SizeAssumption DEF AddKeyPush, KeepAuth, HostType, IInv, TypeOK
    <3> QED
      BY <2>4, <3>2, KeyCallInv DEF AddKeyPush
  <2> QED
    BY <1>1, <2>2, <2>3, <2>4
<1>2. ASSUME NEW kA \in ClientKeys, NEW kB \in ClientKeys, NEW slA \in Slots, NEW slB \in Slots,
             SetKeys(kA, slA, kB, slB)
      PROVE  IInv'
  <2> DEFINE pair == << [key |-> kA, kt |-> "A", slot |-> slA], [key |-> kB, kt |-> "B", slot |-> slB] >>
  <2>1. pair \in Seq(KeyInfo) /\ Len(pair) = 2
    BY DataAssumption DEF KeyInfo, KeyTypes
  <2>2. keys' = pair
    BY <1>2 DEF SetKeys
  <2>3. HostType'
    BY <1>2, <2>1, <2>2, ValueTypes, SizeAssumption DEF SetKeys, HostType, IInv, TypeOK
  <2> QED
    BY <1>2, <2>3, KeyCallInv DEF SetKeys
<1>3. CASE ClearKeys
  <2>1. <<DefaultKeyInfo>> \in Seq(KeyInfo) /\ Len(<<DefaultKeyInfo>>) = 1
    BY ValueTypes
  <2>2. HostType'
    BY <1>3, <2>1, ValueTypes, SizeAssumption DEF ClearKeys, InvalidateAuth, HostType
  <2> QED
    BY <1>3, <2>2, KeyCallInv DEF ClearKeys
<1> QED
  BY <1>1, <1>2, <1>3 DEF KeySettings

(* the state after a call has begun *)
LEMMA BeginShape ==
  ASSUME IInv, UNCHANGED <<keys, unsure>>, NEW op \in CardCalls, NEW s \in Sectors,
         NEW b \in Blocks, NEW purpose \in {"Read", "Write"}, NEW a \in ArgType,
         op \in TrailerCalls => b = 3, op = "writeBlock" => b \in DataBlocks,
         purpose = "Write" => op \in WriteCalls,
         Begin(op, s, b, purpose, a)
  PROVE  /\ ProgressType' /\ CallShape' /\ call'.op = op /\ call'.sector = s
         /\ call.op = "none"
<1>1. /\ call' = [Idle EXCEPT !.op = op, !.pc = "ensure", !.sector = s,
                              !.block = b, !.purpose = purpose]
      /\ op \in Calls /\ arg' = a /\ ret' = "none" /\ call.pc = "idle"
  BY DEF Begin
<1>2. /\ call' \in CallType /\ call'.key = 1 /\ call'.op = op /\ call'.pc = "ensure"
      /\ call'.sector = s /\ call'.purpose = purpose /\ call'.block = b
  BY <1>1, IdleType DEF CallType
<1>3. 1 <= Len(keys')
  BY SizeAssumption DEF IInv, TypeOK, HostType
<1>4. ProgressType'
  BY <1>1, <1>2, <1>3 DEF ProgressType, IInv, TypeOK, Rets
<1>5. op # "none" /\ call.op = "none"
  BY <1>1, IdleType DEF CardCalls, IInv, CallShape
<1> QED
  BY <1>1, <1>2, <1>4, <1>5 DEF CallShape, TrailerCalls

(* the calls that begin without touching anything else *)
LEMMA StartOnlyInv ==
  ASSUME IInv, StartOnly, ProgressType', CallShape',
         call.op = "none", call'.op # "saveAllTrailers",
         call'.op = "restoreAllTrailers" => saved # <<>>
  PROVE  IInv'
<1>1. UNCHANGED <<keys, lastAuth, slotContents, mem, buf, saved, slotKey, unnoted, card, cardAuth>>
  BY DEF StartOnly, host, device, reader
<1>2. Len(saved) = 0 => saved = <<>>
  BY EmptySeq DEF IInv, TypeOK, MemoryType
<1> QED
  BY <1>1, <1>2 DEF IInv, TypeOK, HostType, MemoryType, DeviceType, SavedShape, BufShape

LEMMA ArgTypes ==
  /\ \A v \in Vals : [NoArg EXCEPT !.val = v] \in ArgType
  /\ \A t \in Trailer : [NoArg EXCEPT !.trailer = t] \in ArgType
  /\ \A c \in Configs : [NoArg EXCEPT !.config = c] \in ArgType
  /\ \A kt \in KeyTypes, sl \in Slots : [NoArg EXCEPT !.kt = kt, !.slot = sl] \in ArgType
BY ValueTypes DEF ArgType
LEMMA StartInv == ASSUME IInv, Start PROVE IInv'
<1>0. NoArg \in ArgType /\ 0 \in Sectors /\ 0 \in Blocks /\ 3 \in Blocks
      /\ DataBlocks \subseteq Blocks
  BY ValueTypes, SectorTypes
<1>1. CASE BeginReadCard
  <2>1. ProgressType' /\ CallShape' /\ call'.op = "readCard" /\ call.op = "none"
    BY <1>0, <1>1, BeginShape DEF BeginReadCard, StartOnly, host, CardCalls, TrailerCalls
  <2> QED
    BY <1>1, <2>1, StartOnlyInv DEF BeginReadCard
<1>2. CASE BeginSaveAllTrailers
  <2>1. UNCHANGED <<keys, lastAuth, slotContents, mem, buf, slotKey, unnoted, card, cardAuth, unsure>>
        /\ saved' = <<>> /\ <<>> \in Seq(Trailer) /\ Len(<<>>) = 0
    BY <1>2, EmptySeq DEF BeginSaveAllTrailers, device, reader
  <2>2. /\ ProgressType' /\ CallShape' /\ call'.op = "saveAllTrailers" /\ call'.sector = 0
        /\ call.op = "none"
    BY <1>0, <1>2, <2>1, BeginShape DEF BeginSaveAllTrailers, CardCalls, TrailerCalls
  <2> QED
    BY <2>1, <2>2 DEF IInv, TypeOK, HostType, MemoryType, DeviceType, SavedShape, BufShape
<1>3. CASE BeginRestoreAllTrailers
  <2>1. ProgressType' /\ CallShape' /\ call'.op = "restoreAllTrailers" /\ call.op = "none"
    BY <1>0, <1>3, BeginShape
    DEF BeginRestoreAllTrailers, StartOnly, host, CardCalls, TrailerCalls, WriteCalls
  <2> QED
    BY <1>3, <2>1, StartOnlyInv DEF BeginRestoreAllTrailers
<1>4. ASSUME NEW s \in Sectors, BeginReadSector(s) PROVE IInv'
  <2>1. ProgressType' /\ CallShape' /\ call'.op = "readSector" /\ call.op = "none"
    BY <1>0, <1>4, BeginShape DEF BeginReadSector, StartOnly, host, CardCalls, TrailerCalls
  <2> QED
    BY <1>4, <2>1, StartOnlyInv DEF BeginReadSector
<1>5. ASSUME NEW s \in Sectors, BeginAuthenticate(s) PROVE IInv'
  <2>1. UNCHANGED <<keys, mem, buf, saved, slotKey, unnoted, card, cardAuth, unsure>>
        /\ InvalidateAuth
    BY <1>5 DEF BeginAuthenticate, device, reader
  <2>2. ProgressType' /\ CallShape' /\ call'.op = "authenticate" /\ call.op = "none"
    BY <1>0, <1>5, <2>1, BeginShape DEF BeginAuthenticate, CardCalls, TrailerCalls
  <2>3. HostType'
    BY <2>1, ValueTypes DEF InvalidateAuth, HostType, IInv, TypeOK
  <2> QED
    BY <2>1, <2>2, <2>3 DEF IInv, TypeOK, MemoryType, DeviceType, SavedShape, BufShape
<1>6. ASSUME NEW s \in Sectors, BeginReadTrailer(s) PROVE IInv'
  <2>1. ProgressType' /\ CallShape' /\ call'.op = "readTrailer" /\ call.op = "none"
    BY <1>0, <1>6, BeginShape DEF BeginReadTrailer, StartOnly, host, CardCalls, TrailerCalls
  <2> QED
    BY <1>6, <2>1, StartOnlyInv DEF BeginReadTrailer
<1>7. ASSUME NEW s \in Sectors, NEW b \in Blocks, BeginReadBlock(s, b) PROVE IInv'
  <2>1. ProgressType' /\ CallShape' /\ call'.op = "readBlock" /\ call.op = "none"
    BY <1>0, <1>7, BeginShape DEF BeginReadBlock, StartOnly, host, CardCalls, TrailerCalls
  <2> QED
    BY <1>7, <2>1, StartOnlyInv DEF BeginReadBlock
<1>8. ASSUME NEW s \in Sectors, NEW b \in Blocks, RefuseWriteBlock(s, b) PROVE IInv'
  <2>1. UNCHANGED <<keys, lastAuth, slotContents, mem, buf, saved, call, arg,
                    slotKey, unnoted, card, cardAuth, unsure>> /\ ret' = "err"
    BY <1>8 DEF RefuseWriteBlock, host, device, reader
  <2> QED
    BY <2>1 DEF IInv, TypeOK, HostType, MemoryType, DeviceType, ProgressType, CallShape,
       SavedShape, BufShape, Rets
<1>9. ASSUME NEW s \in Sectors, NEW b \in DataBlocks, NEW v \in Vals, BeginWriteBlock(s, b, v)
      PROVE IInv'
  <2>1. ProgressType' /\ CallShape' /\ call'.op = "writeBlock" /\ call.op = "none"
    BY <1>0, <1>9, BeginShape, ArgTypes
    DEF BeginWriteBlock, StartOnly, host, CardCalls, TrailerCalls, WriteCalls
  <2> QED
    BY <1>9, <2>1, StartOnlyInv DEF BeginWriteBlock
<1>10. ASSUME NEW s \in Sectors, NEW t \in TrailerInputs, BeginWriteTrailer(s, t) PROVE IInv'
  <2>1. [NoArg EXCEPT !.trailer = t] \in ArgType
    BY ArgTypes, DataAssumption
  <2>2. ProgressType' /\ CallShape' /\ call'.op = "writeTrailer" /\ call.op = "none"
    BY <1>0, <1>10, <2>1, BeginShape
    DEF BeginWriteTrailer, StartOnly, host, CardCalls, TrailerCalls, WriteCalls
  <2> QED
    BY <1>10, <2>2, StartOnlyInv DEF BeginWriteTrailer
<1>11. ASSUME NEW s \in Sectors, NEW cfg \in Configs, BeginSetAccessConfig(s, cfg) PROVE IInv'
  <2>1. ProgressType' /\ CallShape' /\ call'.op = "setAccessConfig" /\ call.op = "none"
    BY <1>0, <1>11, BeginShape, ArgTypes
    DEF BeginSetAccessConfig, StartOnly, host, CardCalls, TrailerCalls
  <2> QED
    BY <1>11, <2>1, StartOnlyInv DEF BeginSetAccessConfig
<1>12. ASSUME NEW s \in Sectors, NEW kt \in KeyTypes, NEW slot \in Slots,
              BeginAuthenticateSlot(s, kt, slot)
       PROVE IInv'
  <2>1. /\ call' = [Idle EXCEPT !.op = "authenticateSlot", !.pc = "loadSlot",
                                !.sector = s, !.key = FindKey(kt)]
        /\ arg' = [NoArg EXCEPT !.kt = kt, !.slot = slot]
        /\ ret' = "none" /\ call.pc = "idle" /\ "authenticateSlot" \in Calls /\ StartOnly
    BY <1>12 DEF BeginAuthenticateSlot
  <2>2. FindKey(kt) \in 1..MaxKeys /\ FindKey(kt) <= Len(keys) /\ Len(keys) \in Nat
    BY FindKeyIndex, SizeAssumption DEF IInv, TypeOK, HostType
  <2>3. keys' = keys /\ unsure' = unsure
    BY <2>1 DEF StartOnly, host
  <2>4. /\ call' \in CallType /\ call'.key = FindKey(kt) /\ call'.op = "authenticateSlot"
        /\ call'.pc = "loadSlot" /\ call'.purpose = Idle.purpose
    BY <2>1, <2>2, IdleType DEF CallType, CardCalls
  <2>5. ProgressType'
    BY <2>1, <2>2, <2>3, <2>4, ArgTypes DEF ProgressType, IInv, TypeOK, Rets
  <2>6. CallShape'
    BY <2>1, <2>4 DEF CallShape, TrailerCalls, Idle
  <2>7. call.op = "none"
    BY <2>1, IdleType DEF IInv, CallShape
  <2> QED
    BY <2>1, <2>4, <2>5, <2>6, <2>7, StartOnlyInv
<1> QED
  BY <1>1, <1>2, <1>3, <1>4, <1>5, <1>6, <1>7, <1>8, <1>9, <1>10, <1>11, <1>12 DEF Start

(* a step inside a call that leaves mem, buf and saved alone *)
LEMMA StayShape ==
  ASSUME IInv, ProgressType', CallShape', call'.op = call.op, call'.sector = call.sector,
         UNCHANGED <<buf, saved>>, mem' \in [Sectors -> SectorImage]
  PROVE  StepShape
BY DEF StepShape, IInv, TypeOK, MemoryType, SavedShape, BufShape

LEMMA ChosenKeyType ==
  ASSUME IInv
  PROVE  /\ ChosenKey.key \in Keys /\ ChosenKey.kt \in KeyTypes /\ ChosenKey.slot \in Slots
         /\ call.sector \in Sectors /\ call.block \in Blocks /\ call.key \in 1..Len(keys)
<1>1. keys \in Seq(KeyInfo) /\ call.key \in 1..Len(keys)
      /\ call.sector \in Sectors /\ call.block \in Blocks
  BY SizeAssumption DEF IInv, TypeOK, HostType, ProgressType, CallType
<1>2. ChosenKey \in KeyInfo
  BY <1>1, ElementOfSeq DEF ChosenKey
<1> QED
  BY <1>1, <1>2 DEF KeyInfo

LEMMA AttemptFailedShape ==
  ASSUME IInv, call.pc # "idle", UNCHANGED keys, NEW r \in Rets, AttemptFailed(r)
  PROVE  StepShape /\ HostType'
<1>1. CASE /\ IsMultiKey /\ call.attempt = 1
           /\ Continue([call EXCEPT !.key = FirstAlternate, !.attempt = 2,
                                    !.pc = EntryPc(keys[FirstAlternate])])
           /\ KeepAuth
           /\ UNCHANGED <<mem, buf, saved, unsure>>
  <2>1. FirstAlternate \in 1..Len(keys)
    BY <1>1, SizeAssumption DEF FirstAlternate, IsMultiKey, IInv, TypeOK, HostType
  <2>2. EntryPc(keys[FirstAlternate]) \in {"ensure", "load", "auth", "read", "write"}
        /\ EntryPc(keys[FirstAlternate]) # "write"
    BY DEF EntryPc
  <2> DEFINE p == EntryPc(keys[FirstAlternate])
             k == FirstAlternate
  <2>3. Continue([call EXCEPT !.pc = p, !.key = k, !.attempt = 2])
    BY <1>1 DEF Continue
  <2>4. ProgressType' /\ CallShape' /\ call'.op = call.op /\ call'.sector = call.sector
    <3> HIDE DEF p, k
    <3> QED
      BY <1>1, <2>1, <2>2, <2>3, MoveShape DEF p, k
  <2>5. StepShape
    BY <1>1, <2>4, StayShape DEF IInv, TypeOK, MemoryType
  <2>6. HostType'
    BY <1>1 DEF KeepAuth, IInv, TypeOK, HostType
  <2> QED
    BY <2>5, <2>6
<1>2. CASE /\ ~(IsMultiKey /\ call.attempt = 1)
           /\ InvalidateIf(~IsMultiKey \/ CallerInvalidates)
           /\ AuthGaveUp(r)
  <2>1. StepShape
    BY <1>2, AuthGaveUpShape
  <2>2. HostType'
    BY <1>2, InvalidateTypes DEF IInv, TypeOK
  <2> QED
    BY <2>1, <2>2
<1> QED
  BY <1>1, <1>2 DEF AttemptFailed
LEMMA EnsureAuthInv == ASSUME IInv, EnsureAuthHit \/ EnsureAuthChoose PROVE IInv'
<1>1. CASE EnsureAuthHit
  <2>1. UNCHANGED <<keys, slotKey, unnoted, card, cardAuth>> /\ AuthGaveUp("hit")
        /\ InvalidateIf(CallerInvalidates)
    BY <1>1 DEF EnsureAuthHit, device, reader
  <2>2. StepShape
    BY <2>1, AuthGaveUpShape DEF Rets
  <2>3. HostType'
    BY <2>1, InvalidateTypes DEF IInv, TypeOK
  <2> QED
    BY <2>1, <2>2, <2>3 DEF IInv, TypeOK, StepShape, DeviceType
<1>2. CASE EnsureAuthChoose
  <2> DEFINE k == ChooseKey(call.sector, call.purpose)
             p == EntryPc(keys[k])
  <2>1. /\ UNCHANGED <<keys, lastAuth, slotContents, mem, buf, saved,
                       slotKey, unnoted, card, cardAuth, unsure>>
        /\ Continue([call EXCEPT !.key = k, !.attempt = 1, !.pc = p])
        /\ call.pc # "idle"
    BY <1>2 DEF EnsureAuthChoose, host, device, reader
  <2>2. k \in 1..Len(keys)
    BY ChooseKeyIndex, SizeAssumption DEF IInv, TypeOK, HostType
  <2>3. p \in {"ensure", "load", "auth", "read", "write"} /\ p # "write"
    BY DEF EntryPc
  <2>4. ProgressType' /\ CallShape' /\ call'.op = call.op /\ call'.sector = call.sector
    <3> HIDE DEF k, p
    <3>1. Continue([call EXCEPT !.pc = p, !.key = k, !.attempt = 1])
      BY <2>1 DEF Continue
    <3> QED
      BY <2>1, <2>2, <2>3, <3>1, MoveShape
  <2>5. StepShape
    BY <2>1, <2>4, StayShape DEF IInv, TypeOK, MemoryType
  <2> QED
    BY <2>1, <2>5 DEF IInv, TypeOK, StepShape, HostType, DeviceType
<1> QED
  BY <1>1, <1>2

LEMMA CodeType == ASSUME NEW reply PROVE Code(reply) \in Rets
BY DEF Code, Rets

LEMMA LoadKeyInv == ASSUME IInv, LoadKey PROVE IInv'
<1>1. PICK reply \in AllReplies :
        /\ ReaderLoads(ChosenKey.slot, ChosenKey.key, reply, TRUE)
        /\ \/ /\ reply = "ok"
              /\ NoteLoaded
              /\ Continue([call EXCEPT !.pc = "auth"])
              /\ UNCHANGED <<keys, lastAuth, mem, buf, saved, unsure>>
           \/ /\ reply \in {"error", "unlisted"}
              /\ AttemptFailed(Code(reply))
              /\ UNCHANGED keys
           \/ reply = "thrown" /\ Abort /\ UNCHANGED unsure
  BY DEF LoadKey
<1>2. DeviceType' /\ call.pc # "idle"
  BY <1>1, ChosenKeyType, ReaderLoadsTypes DEF LoadKey, IInv, TypeOK
<1>3. StepShape /\ HostType'
  <2>1. CASE /\ NoteLoaded
             /\ Continue([call EXCEPT !.pc = "auth"])
             /\ UNCHANGED <<keys, lastAuth, mem, buf, saved, unsure>>
    <3>1. Continue([call EXCEPT !.pc = "auth", !.key = call.key, !.attempt = call.attempt])
          /\ call.attempt \in {1, 2}
      BY <2>1 DEF Continue, IInv, TypeOK, ProgressType, CallType
    <3>2. ProgressType' /\ CallShape' /\ call'.op = call.op /\ call'.sector = call.sector
      BY <1>2, <2>1, <3>1, ChosenKeyType, MoveShape
    <3>3. StepShape
      BY <2>1, <3>2, StayShape DEF IInv, TypeOK, MemoryType
    <3>4. HostType'
      BY <2>1, ChosenKeyType DEF NoteLoaded, IInv, TypeOK, HostType
    <3> QED
      BY <3>3, <3>4
  <2>2. CASE AttemptFailed(Code(reply)) /\ UNCHANGED keys
    BY <1>2, <2>2, AttemptFailedShape, CodeType
  <2>3. CASE Abort /\ UNCHANGED unsure
    BY <2>3, AbortShape DEF IInv, TypeOK, ProgressType
  <2> QED
    BY <1>1, <2>1, <2>2, <2>3
<1> QED
  BY <1>2, <1>3 DEF IInv, TypeOK, StepShape

LEMMA AuthInv == ASSUME IInv, Auth PROVE IInv'
<1>1. PICK reply \in AllReplies :
        /\ CardAuthenticates(call.sector, ChosenKey.kt, ChosenKey.slot, reply)
        /\ \/ reply = "ok" /\ Authenticated
           \/ /\ reply \in {"error", "unlisted"}
              /\ AttemptFailed(Code(reply))
              /\ UNCHANGED keys
           \/ reply = "thrown" /\ Abort /\ UNCHANGED unsure
  BY DEF Auth
<1>2. DeviceType' /\ call.pc # "idle"
  BY <1>1, ChosenKeyType, CardAuthenticatesTypes DEF Auth, IInv, TypeOK
<1>3. StepShape /\ HostType'
  <2>1. CASE Authenticated
    <3>1. /\ lastAuth' = [sector |-> call.sector, kt |-> ChosenKey.kt]
          /\ UNCHANGED <<keys, slotContents, mem, buf, saved, unsure>>
      BY <2>1 DEF Authenticated, NoteSession
    <3>2. HostType'
      BY <3>1, ChosenKeyType DEF IInv, TypeOK, HostType, AuthRef
    <3>3. mem' \in [Sectors -> SectorImage] /\ unsure' \subseteq Sectors \X Blocks
      BY <3>1 DEF IInv, TypeOK, MemoryType, ProgressType
    <3>4. CASE call.op = "authenticate"
      BY <2>1, <3>1, <3>3, <3>4, ReturnStepShape, <3>2 DEF Authenticated, Rets
    <3>5. CASE call.op # "authenticate"
      <4> DEFINE p == IF call.purpose = "Read" THEN "read" ELSE "write"
      <4>1. p \in {"ensure", "load", "auth", "read", "write"}
            /\ (p = "write" => call.purpose = "Write") /\ call.attempt \in {1, 2}
        BY DEF IInv, TypeOK, ProgressType, CallType
      <4>2. Continue([call EXCEPT !.pc = p, !.key = call.key, !.attempt = call.attempt])
        BY <2>1, <3>5 DEF Authenticated, Continue, IInv, TypeOK, ProgressType, CallType
      <4>3. ProgressType' /\ CallShape' /\ call'.op = call.op /\ call'.sector = call.sector
        <5> HIDE DEF p
        <5> QED
          BY <1>2, <3>1, <4>1, <4>2, ChosenKeyType, MoveShape
      <4> QED
        BY <3>1, <3>2, <3>3, <4>3, StayShape
    <3> QED
      BY <3>4, <3>5
  <2>2. CASE AttemptFailed(Code(reply)) /\ UNCHANGED keys
    BY <1>2, <2>2, AttemptFailedShape, CodeType
  <2>3. CASE Abort /\ UNCHANGED unsure
    BY <2>3, AbortShape DEF IInv, TypeOK, ProgressType
  <2> QED
    BY <1>1, <2>1, <2>2, <2>3
<1> QED
  BY <1>2, <1>3 DEF IInv, TypeOK, StepShape

LEMMA LoadKeySlotInv == ASSUME IInv, LoadKeySlot PROVE IInv'
<1>1. PICK reply \in AllReplies :
        /\ ReaderLoads(arg.slot, ChosenKey.key, reply, FALSE)
        /\ IF reply \in {"ok", "unlisted"}
             THEN Continue([call EXCEPT !.pc = "authSlot"])
             ELSE Return("thrown")
  BY DEF LoadKeySlot
<1>2. /\ UNCHANGED <<keys, lastAuth, slotContents, mem, buf, saved, unsure>>
      /\ call.op = "authenticateSlot" /\ call.pc # "idle"
  BY DEF LoadKeySlot, host, IInv, CallShape
<1>3. arg.slot \in Slots /\ mem' \in [Sectors -> SectorImage]
      /\ unsure' \subseteq Sectors \X Blocks
  BY <1>2 DEF IInv, TypeOK, MemoryType, ProgressType, ArgType
<1>4. DeviceType'
  BY <1>1, <1>3, ChosenKeyType, ReaderLoadsTypes DEF IInv, TypeOK
<1>5. StepShape
  <2>1. CASE Return("thrown")
    BY <1>2, <1>3, <2>1, ReturnStepShape DEF Rets
  <2>2. CASE Continue([call EXCEPT !.pc = "authSlot"])
    <3>1. /\ call' \in CallType /\ call'.op = call.op /\ call'.sector = call.sector
          /\ call'.key = call.key /\ call'.pc = "authSlot" /\ call'.block = call.block
          /\ call'.purpose = call.purpose /\ arg' = arg /\ ret' = ret
      BY <2>2 DEF Continue, IInv, TypeOK, ProgressType, CallType
    <3>2. ProgressType'
      BY <1>2, <1>3, <3>1 DEF ProgressType, IInv, TypeOK
    <3>3. CallShape'
      BY <1>2, <3>1 DEF CallShape, IInv
    <3> QED
      BY <1>2, <1>3, <3>1, <3>2, <3>3, StayShape
  <2> QED
    BY <1>1, <2>1, <2>2
<1> QED
  BY <1>2, <1>4, <1>5 DEF IInv, TypeOK, StepShape, HostType

LEMMA AuthSlotInv == ASSUME IInv, AuthSlot PROVE IInv'
<1>1. PICK reply \in AllReplies :
        /\ CardAuthenticates(call.sector, arg.kt, arg.slot, reply)
        /\ IF reply \in {"ok", "unlisted"}
             THEN /\ Return("ok")
                  /\ lastAuth' = [sector |-> call.sector, kt |-> arg.kt]
                  /\ slotContents' = [sl \in Slots |-> NoKey]
             ELSE Return("thrown") /\ KeepAuth
  BY DEF AuthSlot
<1>2. UNCHANGED <<keys, mem, buf, saved, unsure>> /\ call.op = "authenticateSlot"
  BY DEF AuthSlot, IInv, CallShape
<1>3. arg.kt \in KeyTypes /\ mem' \in [Sectors -> SectorImage]
      /\ unsure' \subseteq Sectors \X Blocks
  BY <1>2 DEF IInv, TypeOK, MemoryType, ProgressType, ArgType
<1>4. DeviceType'
  BY <1>1, <1>3, ChosenKeyType, CardAuthenticatesTypes DEF IInv, TypeOK
<1>5. HostType'
  BY <1>1, <1>2, <1>3, ChosenKeyType, ValueTypes DEF KeepAuth, IInv, TypeOK, HostType, AuthRef
<1>6. StepShape
  BY <1>1, <1>2, <1>3, ReturnStepShape DEF Rets
<1> QED
  BY <1>4, <1>5, <1>6 DEF IInv, TypeOK, StepShape
(* one page read: the card is left alone, what is stored is well typed *)
LEMMA StoreReadType ==
  ASSUME IInv, NEW image \in [Sectors -> SectorImage]
  PROVE  StoreRead(image, call.sector, call.block) \in [Sectors -> SectorImage]
<1> DEFINE s == call.sector
           b == call.block
<1>1. s \in Sectors /\ b \in Blocks /\ DeviceType
  BY ChosenKeyType DEF IInv, TypeOK
<1>2. TrailerRead(s) \in Trailer
  BY <1>1, TrailerReadType
<1>3. b # 3 => b \in DataBlocks /\ card[s].data[b] \in Vals
  BY <1>1, SectorTypes DEF DeviceType, SectorImage
<1> HIDE DEF s, b
<1>4. image[s] \in SectorImage
  BY <1>1
<1>5. StoreRead(image, s, b)[s] \in SectorImage
  BY <1>1, <1>2, <1>3, <1>4 DEF StoreRead, SectorImage
<1>6. StoreRead(image, s, b) \in [Sectors -> SectorImage]
  BY <1>1, <1>2, <1>3, <1>4 DEF StoreRead, SectorImage
<1> QED
  BY <1>6 DEF s, b

LEMMA LoadBlockTypes ==
  ASSUME IInv, NEW reply, LoadBlock(reply)
  PROVE  mem' \in [Sectors -> SectorImage] /\ unsure' \subseteq Sectors \X Blocks
BY StoreReadType DEF LoadBlock, IInv, TypeOK, MemoryType, ProgressType

LEMMA ReadDevice ==
  ASSUME IInv, NEW ops, NEW reply, Read(ops, reply)
  PROVE  /\ DeviceType' /\ HostType' /\ UNCHANGED <<keys, lastAuth, slotContents, slotKey, unnoted, card>>
         /\ call.pc = "read" /\ call.op \in ops
<1>1. DeviceType' /\ UNCHANGED <<slotKey, unnoted, card>>
  BY CardReadsTypes DEF Read, IInv, TypeOK
<1> QED
  BY <1>1 DEF Read, Page, IInv, TypeOK, HostType

(* moving on to another block of the same sector *)
LEMMA NextBlockShape ==
  ASSUME IInv, call.pc = "read", UNCHANGED keys, unsure' \subseteq Sectors \X Blocks,
         call.op \in {"readSector", "readCard"}, NEW ok \in BOOLEAN,
         Continue([call EXCEPT !.block = NextBlock(@), !.allOk = ok])
  PROVE  ProgressType' /\ CallShape' /\ call'.op = call.op /\ call'.sector = call.sector
<1>1. NextBlock(call.block) \in Blocks
  BY ChosenKeyType, NextBlockType
<1>2. /\ call' \in CallType /\ call'.op = call.op /\ call'.sector = call.sector
      /\ call'.key = call.key /\ call'.pc = "read" /\ call'.purpose = call.purpose
      /\ arg' = arg /\ ret' = ret
  BY <1>1 DEF Continue, IInv, TypeOK, ProgressType, CallType
<1>3. ProgressType'
  BY <1>2 DEF ProgressType, IInv, TypeOK
<1>4. CallShape'
  BY <1>2 DEF CallShape, IInv, TrailerCalls
<1> QED
  BY <1>2, <1>3, <1>4

LEMMA ReadBlockPageInv == ASSUME IInv, ReadBlockPage \/ ReadTrailerPage PROVE IInv'
<1>1. PICK reply \in Answers, r \in Rets :
        Read({"readBlock", "readTrailer"}, reply) /\ LoadBlock(reply) /\ Return(r)
        /\ UNCHANGED <<buf, saved>>
  <2>1. CASE ReadBlockPage
    BY <2>1, CodeType DEF ReadBlockPage, Read, Page, Rets
  <2>2. CASE ReadTrailerPage
    BY <2>2, CodeType DEF ReadTrailerPage, Read, Page, Rets
  <2> QED
    BY <2>1, <2>2
<1>2. DeviceType' /\ HostType' /\ keys' = keys /\ call.op \in {"readBlock", "readTrailer"}
  BY <1>1, ReadDevice
<1>3. StepShape
  BY <1>1, <1>2, LoadBlockTypes, ReturnStepShape
<1> QED
  BY <1>2, <1>3 DEF IInv, TypeOK, StepShape

LEMMA ReadSectorPageInv == ASSUME IInv, ReadSectorPage PROVE IInv'
<1>1. PICK reply \in Answers :
        /\ Read({"readSector"}, reply)
        /\ LoadBlock(reply)
        /\ IF call.block = 3
             THEN Return(IF AllOk(reply) THEN "ok" ELSE "partial")
             ELSE Continue([call EXCEPT !.block = NextBlock(@), !.allOk = AllOk(reply)])
        /\ UNCHANGED <<buf, saved>>
  BY DEF ReadSectorPage
<1>2. DeviceType' /\ HostType' /\ keys' = keys /\ call.op = "readSector" /\ call.pc = "read"
  BY <1>1, ReadDevice
<1>3. mem' \in [Sectors -> SectorImage] /\ unsure' \subseteq Sectors \X Blocks
  BY <1>1, LoadBlockTypes
<1>4. CASE call.block = 3
  <2>1. PICK r \in Rets : Return(r)
    BY <1>1, <1>4 DEF Rets
  <2> QED
    BY <1>1, <1>2, <1>3, <2>1, ReturnStepShape DEF IInv, TypeOK, StepShape
<1>5. CASE call.block # 3
  <2>1. AllOk(reply) \in BOOLEAN
    BY DEF AllOk
  <2>2. ProgressType' /\ CallShape' /\ call'.op = call.op /\ call'.sector = call.sector
    BY <1>1, <1>2, <1>3, <1>5, <2>1, NextBlockShape
  <2> QED
    BY <1>1, <1>2, <1>3, <2>2, StayShape DEF IInv, TypeOK, StepShape
<1> QED
  BY <1>4, <1>5

LEMMA ReadCardPageInv == ASSUME IInv, ReadCardPage PROVE IInv'
<1>1. PICK reply \in Answers :
        LET image == IF reply = "ok" THEN StoreRead(buf, call.sector, call.block) ELSE buf
        IN  /\ Read({"readCard"}, reply)
            /\ IF call.block = 3
                 THEN AdvanceReadCard(image)
                 ELSE /\ Continue([call EXCEPT !.block = NextBlock(@)])
                      /\ buf' = image
                      /\ UNCHANGED <<mem, saved, unsure>>
  BY DEF ReadCardPage
<1> DEFINE image == IF reply = "ok" THEN StoreRead(buf, call.sector, call.block) ELSE buf
<1>2. DeviceType' /\ HostType' /\ keys' = keys /\ call.op = "readCard" /\ call.pc = "read"
  BY <1>1, ReadDevice
<1>3. image \in [Sectors -> SectorImage]
  BY StoreReadType DEF IInv, TypeOK, MemoryType
<1>4. CASE call.block = 3
  <2>1. AdvanceReadCard(image)
    BY <1>1, <1>4
  <2>2. StepShape
    <3> HIDE DEF image
    <3> QED
      BY <1>2, <1>3, <2>1, AdvanceReadCardShape
  <2> QED
    BY <1>2, <2>2 DEF IInv, TypeOK, StepShape
<1>5. CASE call.block # 3
  <2>1. /\ Continue([call EXCEPT !.block = NextBlock(@), !.allOk = call.allOk])
        /\ call.allOk \in BOOLEAN /\ buf' = image /\ UNCHANGED <<mem, saved, unsure>>
    BY <1>1, <1>5 DEF Continue, IInv, TypeOK, ProgressType, CallType
  <2>2. unsure' \subseteq Sectors \X Blocks
    BY <2>1 DEF IInv, TypeOK, ProgressType
  <2>3. ProgressType' /\ CallShape' /\ call'.op = call.op /\ call'.sector = call.sector
    BY <1>2, <2>1, <2>2, NextBlockShape
  <2> QED
    BY <1>2, <1>3, <2>1, <2>3
    DEF IInv, TypeOK, MemoryType, SavedShape, BufShape
<1> QED
  BY <1>4, <1>5

LEMMA ReadTrailerForConfigInv == ASSUME IInv, ReadTrailerForConfig PROVE IInv'
<1>1. PICK reply \in Answers :
        /\ Read({"setAccessConfig"}, reply)
        /\ LoadBlock(reply)
        /\ IF reply = "ok"
             THEN /\ call' = [call EXCEPT !.pc = "ensure", !.purpose = "Write",
                                          !.key = 1, !.attempt = 1]
                  /\ arg' = [arg EXCEPT !.trailer =
                               [TrailerRead(call.sector) EXCEPT !.access = arg.config]]
                  /\ UNCHANGED ret
             ELSE Return(Code(reply))
        /\ UNCHANGED <<buf, saved>>
  BY DEF ReadTrailerForConfig
<1>2. DeviceType' /\ HostType' /\ keys' = keys /\ call.op = "setAccessConfig" /\ call.pc = "read"
  BY <1>1, ReadDevice
<1>3. mem' \in [Sectors -> SectorImage] /\ unsure' \subseteq Sectors \X Blocks
  BY <1>1, LoadBlockTypes
<1>4. CASE reply # "ok"
  BY <1>1, <1>2, <1>3, <1>4, ReturnStepShape, CodeType DEF IInv, TypeOK, StepShape
<1>5. CASE reply = "ok"
  <2>1. 1 \in 1..MaxKeys /\ 1 <= Len(keys)
    BY SizeAssumption DEF IInv, TypeOK, HostType
  <2>2. /\ call' \in CallType /\ call'.op = call.op /\ call'.sector = call.sector
        /\ call'.key = 1 /\ call'.pc = "ensure" /\ call'.block = call.block
    <3>1. /\ call \in CallType
          /\ call' = [call EXCEPT !.pc = "ensure", !.purpose = "Write", !.key = 1, !.attempt = 1]
      BY <1>1, <1>5 DEF IInv, TypeOK, ProgressType
    <3> QED
      BY <2>1, <3>1 DEF CallType
  <2>3. [TrailerRead(call.sector) EXCEPT !.access = arg.config] \in Trailer
    BY TrailerReadType, ChosenKeyType DEF Trailer, IInv, TypeOK, ProgressType, ArgType
  <2>4. arg' \in ArgType
    BY <1>1, <1>5, <2>3 DEF IInv, TypeOK, ProgressType, ArgType
  <2>5. ProgressType'
    BY <1>1, <1>2, <1>3, <1>5, <2>1, <2>2, <2>4 DEF ProgressType, IInv, TypeOK
  <2>6. CallShape'
    BY <1>2, <2>2 DEF CallShape, IInv, WriteCalls, TrailerCalls
  <2> QED
    BY <1>1, <1>2, <1>3, <2>2, <2>5, <2>6, StayShape DEF IInv, TypeOK, StepShape
<1> QED
  BY <1>4, <1>5

LEMMA ReadTrailerForBackupInv == ASSUME IInv, ReadTrailerForBackup PROVE IInv'
<1>1. PICK reply \in Answers :
        /\ Read({"saveAllTrailers"}, reply)
        /\ LoadBlock(reply)
        /\ PushSaved(IF reply = "ok" THEN TrailerRead(call.sector) ELSE FactoryTrailer)
  BY DEF ReadTrailerForBackup
<1>2. DeviceType' /\ HostType' /\ keys' = keys /\ call.op = "saveAllTrailers"
  BY <1>1, ReadDevice
<1>3. PICK t \in Trailer : PushSaved(t)
  BY <1>1, ChosenKeyType, TrailerReadType, ValueTypes DEF IInv, TypeOK
<1>4. StepShape
  BY <1>1, <1>2, <1>3, LoadBlockTypes, PushSavedShape
<1> QED
  BY <1>2, <1>4 DEF IInv, TypeOK, StepShape
LEMMA TrailerToWriteType ==
  ASSUME IInv
  PROVE  TrailerToWrite \in Trailer
<1>1. CASE call.op = "restoreAllTrailers"
  <2>1. saved \in Seq(Trailer) /\ Len(saved) = NumSectors
    BY <1>1 DEF IInv, TypeOK, MemoryType, SavedShape
  <2>2. call.sector + 1 \in 1..Len(saved)
    BY <2>1, ChosenKeyType, SizeAssumption DEF Sectors
  <2> QED
    BY <1>1, <2>1, <2>2, ElementOfSeq DEF TrailerToWrite
<1>2. CASE call.op # "restoreAllTrailers"
  BY <1>2 DEF TrailerToWrite, IInv, TypeOK, ProgressType, ArgType
<1> QED
  BY <1>1, <1>2

(* What one write does to the card: at most the target block of the        *)
(* target sector changes, and only with "ok" or an exception.              *)
LEMMA WriteEffect ==
  ASSUME IInv, call.pc = "write", NEW reply, CardWritesTarget(reply)
  PROVE  /\ DeviceType' /\ UNCHANGED <<slotKey, unnoted>>
         /\ cardAuth' \in {cardAuth, NoAuth}
         /\ reply \notin {"ok", "thrown"} => card' = card
         /\ \A x \in Sectors : x # call.sector => card'[x] = card[x]
         /\ call.op = "writeBlock" =>
              /\ card'[call.sector].trailer = card[call.sector].trailer
              /\ \A b \in DataBlocks : b # call.block =>
                   card'[call.sector].data[b] = card[call.sector].data[b]
              /\ reply = "ok" => card'[call.sector].data[call.block] = arg.val
         /\ call.op # "writeBlock" =>
              /\ card'[call.sector].data = card[call.sector].data
              /\ reply = "ok" =>
                   card'[call.sector].trailer.access = TrailerToWrite.access
<1> DEFINE s == call.sector
           b == call.block
<1>1. s \in Sectors /\ DeviceType /\ card[s] \in SectorImage /\ arg.val \in Vals
      /\ TrailerToWrite \in Trailer
      /\ (call.op = "writeBlock" => b \in DataBlocks)
  BY ChosenKeyType, TrailerToWriteType
  DEF IInv, TypeOK, ProgressType, ArgType, DeviceType, CallShape
<1>2. CASE call.op = "writeBlock"
  <2> DEFINE image == [card[s] EXCEPT !.data[b] = arg.val]
  <2>1. /\ image \in SectorImage /\ image.trailer = card[s].trailer
        /\ image.data[b] = arg.val
        /\ \A c \in DataBlocks : c # b => image.data[c] = card[s].data[c]
    BY <1>1, <1>2 DEF SectorImage
  <2>2. PICK open : CardWrites(s, open, image, reply)
    BY <1>2 DEF CardWritesTarget, CardWritesData
  <2>3. /\ DeviceType' /\ UNCHANGED <<slotKey, unnoted>> /\ cardAuth' \in {cardAuth, NoAuth}
        /\ card' \in {card, [card EXCEPT ![s] = image]}
        /\ reply = "ok" => card' = [card EXCEPT ![s] = image]
        /\ reply \notin {"ok", "thrown"} => card' = card
    <3> HIDE DEF image, s
    <3> QED
      BY <1>1, <2>1, <2>2, CardWritesTypes
  <2>4. card \in [Sectors -> SectorImage]
    BY <1>1 DEF DeviceType
  <2> HIDE DEF image
  <2> QED
    BY <1>1, <1>2, <2>1, <2>3, <2>4
<1>3. CASE call.op # "writeBlock"
  <2> DEFINE old == card[s].trailer
             t == TrailerToWrite
             new == [keyA |-> IF cardAuth.kt \in KeyAWrite(old.access[3]) THEN t.keyA ELSE old.keyA,
                     keyB |-> IF cardAuth.kt \in KeyBWrite(old.access[3]) THEN t.keyB ELSE old.keyB,
                     access |-> t.access]
             image == [card[s] EXCEPT !.trailer = new]
  <2>0. old \in Trailer /\ t \in Trailer
    BY <1>1 DEF SectorImage
  <2>1. new \in Trailer /\ new.access = t.access
    <3> HIDE DEF old, t
    <3> QED
      BY <2>0 DEF Trailer
  <2>2. image \in SectorImage /\ image.data = card[s].data /\ image.trailer.access = t.access
    <3> HIDE DEF new, t
    <3> QED
      BY <1>1, <2>1 DEF SectorImage
  <2>3. PICK open : CardWrites(s, open, image, reply)
    BY <1>3 DEF CardWritesTarget, CardWritesTrailer
  <2>4. /\ DeviceType' /\ UNCHANGED <<slotKey, unnoted>> /\ cardAuth' \in {cardAuth, NoAuth}
        /\ card' \in {card, [card EXCEPT ![s] = image]}
        /\ reply = "ok" => card' = [card EXCEPT ![s] = image]
        /\ reply \notin {"ok", "thrown"} => card' = card
    <3> HIDE DEF image, s
    <3> QED
      BY <1>1, <2>2, <2>3, CardWritesTypes
  <2>5. card \in [Sectors -> SectorImage]
    BY <1>1 DEF DeviceType
  <2> HIDE DEF image
  <2> QED
    BY <1>1, <1>3, <2>2, <2>4, <2>5
<1> QED
  BY <1>2, <1>3

(* what every answered write leaves of the host *)
LEMMA WriteTypes ==
  ASSUME IInv, NEW ops, NEW image \in SectorImage, NEW reply, Write(ops, image, reply)
  PROVE  /\ DeviceType' /\ HostType' /\ keys' = keys /\ call.op \in ops /\ call.pc = "write"
         /\ mem' \in [Sectors -> SectorImage] /\ unsure' \subseteq Sectors \X Blocks
<1>1. DeviceType' /\ call.pc = "write"
  BY WriteEffect DEF Write, Page
<1>2. mem' \in [Sectors -> SectorImage] /\ unsure' \subseteq Sectors \X Blocks
  BY ChosenKeyType DEF Write, MemoryFollows, IInv, TypeOK, MemoryType, ProgressType
<1> QED
  BY <1>1, <1>2 DEF Write, Page, IInv, TypeOK, HostType

LEMMA ImageTypes ==
  ASSUME NEW image \in SectorImage
  PROVE  /\ \A b \in DataBlocks, v \in Vals : [image EXCEPT !.data[b] = v] \in SectorImage
         /\ \A t \in Trailer : [image EXCEPT !.trailer = t] \in SectorImage
BY DEF SectorImage

LEMMA TargetImageType == ASSUME IInv PROVE mem[call.sector] \in SectorImage
<1>1. call.sector \in Sectors
  BY ChosenKeyType
<1>2. mem \in [Sectors -> SectorImage]
  BY DEF IInv, TypeOK, MemoryType
<1> QED
  BY <1>1, <1>2

LEMMA TrailerImageType == ASSUME IInv PROVE TrailerImage \in SectorImage
BY TrailerToWriteType, TargetImageType, ImageTypes DEF TrailerImage

LEMMA WriteInv ==
  ASSUME IInv, WriteBlockPage \/ WriteTrailerPage \/ RestoreTrailerPage
  PROVE  IInv'
<1>1. CASE WriteBlockPage
  <2> DEFINE image == [mem[call.sector] EXCEPT !.data[call.block] = arg.val]
  <2>1. PICK reply \in Answers :
          /\ Write({"writeBlock"}, image, reply)
          /\ Return(Code(reply)) /\ UNCHANGED <<buf, saved>>
    BY <1>1 DEF WriteBlockPage
  <2>2. call.block \in DataBlocks
    BY <2>1 DEF Write, Page, IInv, CallShape
  <2>3. image \in SectorImage
    <3>1. arg.val \in Vals
      BY DEF IInv, TypeOK, ProgressType, ArgType
    <3> QED
      BY <2>2, <3>1, TargetImageType, ImageTypes
  <2> HIDE DEF image
  <2>4. /\ DeviceType' /\ HostType' /\ keys' = keys
        /\ mem' \in [Sectors -> SectorImage] /\ unsure' \subseteq Sectors \X Blocks
    BY <2>1, <2>3, WriteTypes
  <2>5. call.op = "writeBlock"
    BY <2>1 DEF Write, Page
  <2> QED
    BY <2>1, <2>4, <2>5, ReturnStepShape, CodeType DEF IInv, TypeOK, StepShape
<1>2. CASE WriteTrailerPage
  <2>1. PICK reply \in Answers :
          /\ Write({"writeTrailer", "setAccessConfig"}, TrailerImage, reply)
          /\ Return(Code(reply)) /\ UNCHANGED <<buf, saved>>
    BY <1>2 DEF WriteTrailerPage
  <2>2. /\ DeviceType' /\ HostType' /\ keys' = keys
        /\ call.op \in {"writeTrailer", "setAccessConfig"}
        /\ mem' \in [Sectors -> SectorImage] /\ unsure' \subseteq Sectors \X Blocks
    BY <2>1, TrailerImageType, WriteTypes
  <2> QED
    BY <2>1, <2>2, ReturnStepShape, CodeType DEF IInv, TypeOK, StepShape
<1>3. CASE RestoreTrailerPage
  <2>1. PICK reply \in Answers :
          Write({"restoreAllTrailers"}, TrailerImage, reply) /\ AdvanceRestore
    BY <1>3 DEF RestoreTrailerPage
  <2>2. /\ DeviceType' /\ HostType' /\ keys' = keys
        /\ mem' \in [Sectors -> SectorImage] /\ unsure' \subseteq Sectors \X Blocks
    BY <2>1, TrailerImageType, WriteTypes
  <2>3. call.op = "restoreAllTrailers"
    BY <2>1 DEF Write, Page
  <2> QED
    BY <2>1, <2>2, <2>3, AdvanceRestoreShape DEF IInv, TypeOK, StepShape
<1> QED
  BY <1>1, <1>2, <1>3

LEMMA AbortedInv == ASSUME IInv, ReadAborted \/ WriteAborted PROVE IInv'
<1>1. CASE ReadAborted
  <2>1. Abort /\ UNCHANGED unsure /\ CardReads(call.sector, call.block, "thrown")
    BY <1>1 DEF ReadAborted
  <2>2. DeviceType'
    BY <2>1, CardReadsTypes DEF IInv, TypeOK
  <2> QED
    BY <2>1, <2>2, AbortShape DEF IInv, TypeOK, StepShape, ProgressType
<1>2. CASE WriteAborted
  <2>1. Abort /\ unsure' = unsure \cup {Target} /\ CardWritesTarget("thrown") /\ call.pc = "write"
    BY <1>2 DEF WriteAborted, Page
  <2>2. DeviceType'
    BY <2>1, WriteEffect
  <2>3. unsure' \subseteq Sectors \X Blocks
    BY <2>1, ChosenKeyType DEF Target, IInv, TypeOK, ProgressType
  <2> QED
    BY <2>1, <2>2, <2>3, AbortShape DEF IInv, TypeOK, StepShape
<1> QED
  BY <1>1, <1>2

LEMMA CardResetInv == ASSUME IInv, CardReset PROVE IInv'
BY ValueTypes DEF CardReset, reader, host, IInv, TypeOK, HostType, MemoryType, DeviceType,
   ProgressType, CallShape, SavedShape, BufShape

LEMMA UnchangedInv == ASSUME IInv, UNCHANGED vars PROVE IInv'
BY DEF vars, host, device, reader, IInv, TypeOK, HostType, MemoryType, DeviceType,
   ProgressType, CallShape, SavedShape, BufShape

LEMMA StepInv == ASSUME IInv, [Next]_vars PROVE IInv'
<1>1. CASE KeySettings
  BY <1>1, KeySettingsInv
<1>2. CASE Start
  BY <1>2, StartInv
<1>3. CASE Progress
  BY <1>3, EnsureAuthInv, LoadKeyInv, AuthInv, LoadKeySlotInv, AuthSlotInv,
     ReadBlockPageInv, ReadSectorPageInv, ReadCardPageInv, ReadTrailerForConfigInv,
     ReadTrailerForBackupInv, WriteInv, AbortedInv
  DEF Progress
<1>4. CASE CardReset
  BY <1>4, CardResetInv
<1>5. CASE UNCHANGED vars
  BY <1>5, UnchangedInv
<1> QED
  BY <1>1, <1>2, <1>3, <1>4, <1>5 DEF Next

THEOREM InductiveInvariant == Spec => []IInv
<1>1. Init => IInv
  BY InitInv
<1>2. IInv /\ [Next]_vars => IInv'
  BY StepInv
<1> QED
  BY <1>1, <1>2, PTL DEF Spec

(* Type correctness: keys_ is never empty, the entry a call works with     *)
(* exists, and restoreAllTrailers finds a saved trailer for each sector.   *)
THEOREM TypeCorrect == Spec => []TypeOK
<1>1. IInv => TypeOK
  BY DEF IInv
<1> QED
  BY <1>1, InductiveInvariant, PTL

-----------------------------------------------------------------------------
(* Where control goes                                                      *)

LEMMA ReturnPc == ASSUME NEW r, Return(r) PROVE call'.pc = "idle" /\ call' = Idle /\ ret' = r
BY DEF Return, Idle

LEMMA NextSectorPc ==
  ASSUME IInv, Continue(NextSector)
  PROVE  call'.pc = "ensure"
BY DEF Continue, NextSector, IInv, TypeOK, ProgressType, CallType

LEMMA AuthGaveUpPc ==
  ASSUME IInv, NEW r, AuthGaveUp(r)
  PROVE  call'.pc \in {"idle", "ensure"}
<1>1. CASE AdvanceReadCard(buf)
  BY <1>1, ReturnPc, NextSectorPc DEF AdvanceReadCard
<1>2. CASE PushSaved(FactoryTrailer)
  BY <1>2, ReturnPc, NextSectorPc DEF PushSaved
<1>3. CASE AdvanceRestore
  BY <1>3, ReturnPc, NextSectorPc DEF AdvanceRestore
<1>4. CASE Finish(r)
  BY <1>4, ReturnPc DEF Finish
<1> QED
  BY <1>1, <1>2, <1>3, <1>4 DEF AuthGaveUp

LEMMA AttemptFailedPc ==
  ASSUME IInv, NEW r, AttemptFailed(r)
  PROVE  call'.pc \notin {"read", "write"}
<1>1. CASE Continue([call EXCEPT !.key = FirstAlternate, !.attempt = 2,
                                 !.pc = EntryPc(keys[FirstAlternate])])
  <2>1. EntryPc(keys[FirstAlternate]) \in {"load", "auth"}
    BY DEF EntryPc
  <2> QED
    BY <1>1, <2>1 DEF Continue, IInv, TypeOK, ProgressType, CallType
<1>2. CASE AuthGaveUp(r)
  BY <1>2, AuthGaveUpPc
<1> QED
  BY <1>1, <1>2 DEF AttemptFailed

LEMMA StartPc == ASSUME IInv, Start PROVE call'.pc \in {"ensure", "idle", "loadSlot"}
<1>1. ASSUME NEW op, NEW s, NEW b, NEW purpose, NEW a, Begin(op, s, b, purpose, a)
      PROVE  call'.pc = "ensure"
  BY <1>1 DEF Begin, Idle
<1>2. ASSUME NEW s, NEW b, RefuseWriteBlock(s, b) PROVE call'.pc = "idle"
  BY <1>2 DEF RefuseWriteBlock
<1>3. ASSUME NEW s, NEW kt, NEW slot, BeginAuthenticateSlot(s, kt, slot)
      PROVE call'.pc = "loadSlot"
  BY <1>3 DEF BeginAuthenticateSlot, Idle
<1> QED
  BY <1>1, <1>2, <1>3
  DEF Start, BeginReadCard, BeginSaveAllTrailers, BeginRestoreAllTrailers, BeginReadSector,
      BeginAuthenticate, BeginReadTrailer, BeginReadBlock, BeginWriteBlock,
      BeginWriteTrailer, BeginSetAccessConfig

-----------------------------------------------------------------------------
(* Sessions                                                                *)

(* the card keeps its session or loses it, the host keeps its record *)
LEMMA SessionKept ==
  ASSUME TransferUnderAuth, UNCHANGED lastAuth, cardAuth' \in {cardAuth, NoAuth},
         call'.pc \in {"read", "write"} =>
           call.pc \in {"read", "write"} /\ call'.sector = call.sector
  PROVE  TransferUnderAuth'
BY DEF TransferUnderAuth

LEMMA TransferStep ==
  ASSUME IInv, TransferUnderAuth, [Next]_vars
  PROVE  TransferUnderAuth'
<1>1. CASE KeySettings
  BY <1>1 DEF KeySettings, SetDefaultKey, AddKeyReplace, AddKeyPush, SetKeys, ClearKeys,
     KeyCall, TransferUnderAuth
<1>2. CASE Start
  BY <1>2, StartPc DEF TransferUnderAuth
<1>3. CASE EnsureAuthHit
  BY <1>3, AuthGaveUpPc DEF EnsureAuthHit, TransferUnderAuth
<1>4. CASE EnsureAuthChoose
  <2>1. PICK k : Continue([call EXCEPT !.key = k, !.attempt = 1, !.pc = EntryPc(keys[k])])
    BY <1>4 DEF EnsureAuthChoose
  <2>2. EntryPc(keys[k]) \in {"load", "auth"}
    BY DEF EntryPc
  <2> QED
    BY <2>1, <2>2 DEF Continue, TransferUnderAuth, IInv, TypeOK, ProgressType, CallType
<1>5. CASE LoadKey
  <2>1. CASE Continue([call EXCEPT !.pc = "auth"])
    BY <2>1 DEF Continue, TransferUnderAuth, IInv, TypeOK, ProgressType, CallType
  <2>2. ASSUME NEW r, AttemptFailed(r) PROVE TransferUnderAuth'
    BY <2>2, AttemptFailedPc DEF TransferUnderAuth
  <2>3. CASE Abort
    BY <2>3, ReturnPc DEF Abort, TransferUnderAuth
  <2> QED
    BY <1>5, <2>1, <2>2, <2>3 DEF LoadKey
<1>6. CASE Auth
  <2>1. ASSUME NEW reply, Authenticated, reply = "ok",
               CardAuthenticates(call.sector, ChosenKey.kt, ChosenKey.slot, reply)
        PROVE TransferUnderAuth'
    <3>1. cardAuth' = [sector |-> call.sector, kt |-> ChosenKey.kt]
      BY <2>1, ChosenKeyType, CardAuthenticatesTypes DEF IInv, TypeOK
    <3>2. lastAuth' = [sector |-> call.sector, kt |-> ChosenKey.kt]
      BY <2>1 DEF Authenticated, NoteSession
    <3>3. CASE call.op = "authenticate"
      BY <2>1, <3>3, ReturnPc DEF Authenticated, TransferUnderAuth
    <3>4. CASE call.op # "authenticate"
      <4>1. call'.sector = call.sector
        BY <2>1, <3>4 DEF Authenticated, Continue, IInv, TypeOK, ProgressType, CallType
      <4> QED
        BY <3>1, <3>2, <4>1 DEF TransferUnderAuth
    <3> QED
      BY <3>3, <3>4
  <2>2. ASSUME NEW r, AttemptFailed(r) PROVE TransferUnderAuth'
    BY <2>2, AttemptFailedPc DEF TransferUnderAuth
  <2>3. CASE Abort
    BY <2>3, ReturnPc DEF Abort, TransferUnderAuth
  <2> QED
    BY <1>6, <2>1, <2>2, <2>3 DEF Auth
<1>7. CASE LoadKeySlot
  <2>1. CASE Continue([call EXCEPT !.pc = "authSlot"])
    BY <2>1 DEF Continue, TransferUnderAuth, IInv, TypeOK, ProgressType, CallType
  <2>2. CASE Return("thrown")
    BY <2>2, ReturnPc DEF TransferUnderAuth
  <2> QED
    BY <1>7, <2>1, <2>2 DEF LoadKeySlot
<1>8. CASE AuthSlot
  BY <1>8, ReturnPc DEF AuthSlot, TransferUnderAuth
<1>9. CASE ReadBlockPage \/ ReadTrailerPage
  BY <1>9, ReturnPc DEF ReadBlockPage, ReadTrailerPage, TransferUnderAuth
<1>10. CASE ReadSectorPage
  <2>1. PICK reply : Read({"readSector"}, reply)
    BY <1>10 DEF ReadSectorPage
  <2>2. UNCHANGED lastAuth /\ call.pc = "read" /\ cardAuth' \in {cardAuth, NoAuth}
    BY <2>1 DEF Read, Page, CardReads, reader, SessionEndsUnless
  <2>3. call'.pc = "read" => call'.sector = call.sector
    BY <1>10, ReturnPc DEF ReadSectorPage, Continue, IInv, TypeOK, ProgressType, CallType
  <2>4. call'.pc \in {"idle", "read"}
    BY <1>10, <2>2, ReturnPc DEF ReadSectorPage, Continue, IInv, TypeOK, ProgressType, CallType
  <2> QED
    BY <2>2, <2>3, <2>4, SessionKept
<1>11. CASE ReadCardPage
  <2>1. PICK reply : Read({"readCard"}, reply)
    BY <1>11 DEF ReadCardPage
  <2>2. UNCHANGED lastAuth /\ call.pc = "read" /\ cardAuth' \in {cardAuth, NoAuth}
    BY <2>1 DEF Read, Page, CardReads, reader, SessionEndsUnless
  <2>3. CASE Continue([call EXCEPT !.block = NextBlock(@)])
    <3>1. call'.sector = call.sector
      BY <2>3 DEF Continue, IInv, TypeOK, ProgressType, CallType
    <3> QED
      BY <2>2, <3>1, SessionKept
  <2>4. ASSUME NEW image, AdvanceReadCard(image) PROVE TransferUnderAuth'
    BY <2>4, ReturnPc, NextSectorPc DEF AdvanceReadCard, TransferUnderAuth
  <2> QED
    BY <1>11, <2>3, <2>4 DEF ReadCardPage
<1>12. CASE ReadTrailerForConfig
  BY <1>12, ReturnPc DEF ReadTrailerForConfig, TransferUnderAuth, IInv, TypeOK,
     ProgressType, CallType
<1>13. CASE ReadTrailerForBackup
  <2>1. PICK t : PushSaved(t)
    BY <1>13 DEF ReadTrailerForBackup
  <2> QED
    BY <2>1, ReturnPc, NextSectorPc DEF PushSaved, TransferUnderAuth
<1>14. CASE WriteBlockPage \/ WriteTrailerPage
  BY <1>14, ReturnPc DEF WriteBlockPage, WriteTrailerPage, TransferUnderAuth
<1>15. CASE RestoreTrailerPage
  BY <1>15, ReturnPc, NextSectorPc DEF RestoreTrailerPage, AdvanceRestore, TransferUnderAuth
<1>16. CASE ReadAborted \/ WriteAborted
  BY <1>16, ReturnPc DEF ReadAborted, WriteAborted, Abort, TransferUnderAuth
<1>17. CASE CardReset
  BY <1>17 DEF CardReset, host, TransferUnderAuth
<1>18. CASE UNCHANGED vars
  BY <1>18 DEF vars, host, device, reader, TransferUnderAuth
<1> QED
  BY <1>1, <1>2, <1>3, <1>4, <1>5, <1>6, <1>7, <1>8, <1>9, <1>10, <1>11, <1>12, <1>13,
     <1>14, <1>15, <1>16, <1>17, <1>18 DEF Next, Progress

(* A page is read or written only in the sector of the session the host    *)
(* remembers, and the card is in that session or in none.                  *)
THEOREM TransfersUnderAuth == Spec => []TransferUnderAuth
<1>1. Init => TransferUnderAuth
  BY IdleType DEF Init, TransferUnderAuth
<1>2. IInv /\ TransferUnderAuth /\ [Next]_vars => TransferUnderAuth'
  BY TransferStep
<1> QED
  BY <1>1, <1>2, InductiveInvariant, PTL DEF Spec

-----------------------------------------------------------------------------
(* The slot cache                                                          *)

(* Forgetting a slot, or all of them, keeps the rest true. *)
LEMMA ForgettingCoheres ==
  ASSUME SlotCacheCoherent, UNCHANGED reader, IInv,
         \A sl \in Slots : slotContents'[sl] \in {slotContents[sl], NoKey}
  PROVE  SlotCacheCoherent'
BY DEF SlotCacheCoherent, reader

LEMMA AttemptFailedSlots ==
  ASSUME NEW r, AttemptFailed(r)
  PROVE  \A sl \in Slots : slotContents'[sl] \in {slotContents[sl], NoKey}
BY DEF AttemptFailed, InvalidateIf, InvalidateAuth, KeepAuth

LEMMA KeySettingsSlots ==
  ASSUME IInv, KeySettings
  PROVE  /\ UNCHANGED reader
         /\ \A sl \in Slots : slotContents'[sl] \in {slotContents[sl], NoKey}
<1>1. slotContents \in [Slots -> Keys \cup {NoKey}]
  BY DEF IInv, TypeOK, HostType
<1> QED
  BY <1>1 DEF KeySettings, SetDefaultKey, AddKeyReplace, AddKeyPush, SetKeys, ClearKeys, KeyCall,
     device, reader, InvalidateAuth, KeepAuth

LEMMA StartSlots ==
  ASSUME Start
  PROVE  /\ UNCHANGED reader
         /\ \A sl \in Slots : slotContents'[sl] \in {slotContents[sl], NoKey}
BY DEF Start, BeginReadCard, BeginSaveAllTrailers, BeginRestoreAllTrailers, BeginReadSector,
   BeginAuthenticate, BeginReadTrailer, BeginReadBlock, BeginWriteBlock, RefuseWriteBlock,
   BeginWriteTrailer, BeginSetAccessConfig, BeginAuthenticateSlot, StartOnly, host, device, reader,
   InvalidateAuth

LEMMA TransferSlots ==
  ASSUME \/ ReadBlockPage \/ ReadSectorPage \/ ReadCardPage \/ ReadTrailerPage
         \/ ReadTrailerForConfig \/ ReadTrailerForBackup \/ WriteBlockPage
         \/ WriteTrailerPage \/ RestoreTrailerPage \/ ReadAborted \/ WriteAborted
  PROVE  UNCHANGED <<reader, slotContents>>
<1>1. ASSUME NEW s, NEW b, NEW reply, CardReads(s, b, reply) PROVE UNCHANGED reader
  BY <1>1 DEF CardReads, reader
<1>2. ASSUME NEW reply, CardWritesTarget(reply) PROVE UNCHANGED reader
  BY <1>2 DEF CardWritesTarget, CardWritesData, CardWritesTrailer, CardWrites, reader
<1>3. ASSUME NEW ops, NEW reply, Read(ops, reply) PROVE UNCHANGED <<reader, slotContents>>
  BY <1>1, <1>3 DEF Read
<1>4. ASSUME NEW ops, NEW image, NEW reply, Write(ops, image, reply)
      PROVE  UNCHANGED <<reader, slotContents>>
  BY <1>2, <1>4 DEF Write
<1>5. CASE \/ ReadBlockPage \/ ReadSectorPage \/ ReadCardPage \/ ReadTrailerPage
           \/ ReadTrailerForConfig \/ ReadTrailerForBackup
  BY <1>3, <1>5 DEF ReadBlockPage, ReadSectorPage, ReadCardPage, ReadTrailerPage,
     ReadTrailerForConfig, ReadTrailerForBackup
<1>6. CASE WriteBlockPage \/ WriteTrailerPage \/ RestoreTrailerPage
  BY <1>4, <1>6 DEF WriteBlockPage, WriteTrailerPage, RestoreTrailerPage
<1>7. CASE ReadAborted \/ WriteAborted
  BY <1>1, <1>2, <1>7 DEF ReadAborted, WriteAborted, Abort
<1> QED
  BY <1>5, <1>6, <1>7

(* A load the host is not told of takes its slot out of the claim. *)
LEMMA LoadCoheres ==
  ASSUME IInv, SlotCacheCoherent, NEW slot \in Slots, NEW key \in Keys,
         Loaded(slot, key, FALSE),
         \A sl \in Slots : slotContents'[sl] \in {slotContents[sl], NoKey}
  PROVE  SlotCacheCoherent'
<1>1. slotKey \in [Slots -> Keys \cup {NoKey}]
  BY DEF IInv, TypeOK, DeviceType
<1>2. /\ slotKey' = [slotKey EXCEPT ![slot] = key]
      /\ unnoted' = unnoted \cup {slot}
  BY DEF Loaded
<1> QED
  BY <1>1, <1>2 DEF SlotCacheCoherent

(* tryDoAuth's own LOAD KEY. *)
LEMMA LoadKeySlotsCohere ==
  ASSUME IInv, SlotCacheCoherent, LoadKey
  PROVE  SlotCacheCoherent'
<1>1. /\ slotContents \in [Slots -> Keys \cup {NoKey}]
      /\ slotKey \in [Slots -> Keys \cup {NoKey}]
      /\ ChosenKey.slot \in Slots /\ ChosenKey.key \in Keys
  BY ChosenKeyType DEF IInv, TypeOK, HostType, DeviceType
<1>2. PICK reply : /\ ReaderLoads(ChosenKey.slot, ChosenKey.key, reply, TRUE)
                   /\ \/ reply = "ok" /\ NoteLoaded
                      \/ reply \in {"error", "unlisted"} /\ \E r : AttemptFailed(r)
                      \/ reply = "thrown" /\ Abort
  BY DEF LoadKey
<1>3. CASE reply = "ok"
  <2>1. /\ slotKey' = [slotKey EXCEPT ![ChosenKey.slot] = ChosenKey.key]
        /\ unnoted' = unnoted \ {ChosenKey.slot}
        /\ slotContents' = [slotContents EXCEPT ![ChosenKey.slot] = ChosenKey.key]
    BY <1>2, <1>3 DEF ReaderLoads, Loaded, NoteLoaded
  <2> QED
    BY <1>1, <2>1 DEF SlotCacheCoherent
<1>4. CASE reply # "ok"
  <2>1. \A sl \in Slots : slotContents'[sl] \in {slotContents[sl], NoKey}
    BY <1>2, <1>4, AttemptFailedSlots DEF Abort
  <2>2. Loaded(ChosenKey.slot, ChosenKey.key, FALSE) \/ UNCHANGED reader
    BY <1>2, <1>4 DEF ReaderLoads
  <2> QED
    BY <1>1, <2>1, <2>2, LoadCoheres, ForgettingCoheres
<1> QED
  BY <1>3, <1>4

(* The two exchanges of authenticate(sector, kt, slot). *)
LEMMA SlotCallCoheres ==
  ASSUME IInv, SlotCacheCoherent, LoadKeySlot \/ AuthSlot
  PROVE  SlotCacheCoherent'
<1>1. CASE LoadKeySlot
  <2>1. PICK reply : ReaderLoads(arg.slot, ChosenKey.key, reply, FALSE)
    BY <1>1 DEF LoadKeySlot
  <2>2. UNCHANGED slotContents
    BY <1>1 DEF LoadKeySlot, host
  <2>3. arg.slot \in Slots /\ ChosenKey.key \in Keys
    BY ChosenKeyType DEF IInv, TypeOK, ProgressType, ArgType
  <2>4. Loaded(arg.slot, ChosenKey.key, FALSE) \/ UNCHANGED reader
    BY <2>1 DEF ReaderLoads
  <2> QED
    BY <2>2, <2>3, <2>4, LoadCoheres, ForgettingCoheres
<1>2. CASE AuthSlot
  <2>1. UNCHANGED reader
    BY <1>2 DEF AuthSlot, CardAuthenticates, reader
  <2>2. \A sl \in Slots : slotContents'[sl] \in {slotContents[sl], NoKey}
    BY <1>2 DEF AuthSlot, KeepAuth
  <2> QED
    BY <2>1, <2>2, ForgettingCoheres
<1> QED
  BY <1>1, <1>2

LEMMA SlotStep ==
  ASSUME IInv, SlotCacheCoherent, [Next]_vars
  PROVE  SlotCacheCoherent'
<1>1. CASE LoadKey
  BY <1>1, LoadKeySlotsCohere
<1>2. CASE LoadKeySlot \/ AuthSlot
  BY <1>2, SlotCallCoheres
<1>3. CASE Auth
  <2>1. PICK reply : /\ CardAuthenticates(call.sector, ChosenKey.kt, ChosenKey.slot, reply)
                     /\ Authenticated \/ (\E r : AttemptFailed(r)) \/ Abort
    BY <1>3 DEF Auth
  <2>2. UNCHANGED reader
    BY <2>1 DEF CardAuthenticates, reader
  <2>3. \A sl \in Slots : slotContents'[sl] \in {slotContents[sl], NoKey}
    BY <2>1, AttemptFailedSlots DEF Authenticated, Abort
  <2> QED
    BY <2>2, <2>3, ForgettingCoheres
<1>4. CASE EnsureAuthHit \/ EnsureAuthChoose
  BY <1>4, ForgettingCoheres
  DEF EnsureAuthHit, EnsureAuthChoose, InvalidateIf, InvalidateAuth, KeepAuth, host, device, reader
<1>5. CASE CardReset \/ UNCHANGED vars
  BY <1>5, ForgettingCoheres DEF CardReset, vars, host, device, reader
<1>6. CASE KeySettings
  BY <1>6, KeySettingsSlots, ForgettingCoheres
<1>7. CASE Start
  BY <1>7, StartSlots, ForgettingCoheres
<1>8. CASE \/ ReadBlockPage \/ ReadSectorPage \/ ReadCardPage \/ ReadTrailerPage
           \/ ReadTrailerForConfig \/ ReadTrailerForBackup \/ WriteBlockPage
           \/ WriteTrailerPage \/ RestoreTrailerPage \/ ReadAborted \/ WriteAborted
  BY <1>8, TransferSlots, ForgettingCoheres
<1> QED
  BY <1>1, <1>2, <1>3, <1>4, <1>5, <1>6, <1>7, <1>8 DEF Next, Progress

(* slotContents_ is what the reader holds, for every slot but those whose  *)
(* last LOAD KEY threw or came from authenticate(sector, kt, slot): the    *)
(* LOAD KEY that tryDoAuth skips for such a slot would have changed        *)
(* nothing, whatever calls, key settings and exceptions came between.      *)
THEOREM SlotCacheCoheres == Spec => []SlotCacheCoherent
<1>1. Init => SlotCacheCoherent
  BY DEF Init, SlotCacheCoherent
<1>2. IInv /\ SlotCacheCoherent /\ [Next]_vars => SlotCacheCoherent'
  BY SlotStep
<1> QED
  BY <1>1, <1>2, InductiveInvariant, PTL DEF Spec

-----------------------------------------------------------------------------
(* What a failed authentication leaves behind                              *)

Forgotten == lastAuth' = NoAuth /\ \A sl \in Slots : slotContents'[sl] = NoKey

LEMMA FailureStep ==
  ASSUME IInv, [Next]_vars, ~IsMultiKey, call.pc \in {"load", "auth"},
         call'.pc \in {"ensure", "idle"}, ret' \in {"err", "quiet", "none"}
  PROVE  Forgotten
<1>1. ASSUME NEW r, AttemptFailed(r) PROVE Forgotten
  BY <1>1 DEF AttemptFailed, InvalidateIf, InvalidateAuth, Forgotten
<1>2. ~Abort
  BY ReturnPc DEF Abort
<1>3. CASE LoadKey
  <2>1. call'.pc # "auth"
    OBVIOUS
  <2>2. ~Continue([call EXCEPT !.pc = "auth"])
    BY <2>1 DEF Continue, IInv, TypeOK, ProgressType, CallType
  <2> QED
    BY <1>1, <1>2, <1>3, <2>2 DEF LoadKey
<1>4. CASE Auth
  <2>1. ~Authenticated
    <3>1. ~Return("ok")
      BY ReturnPc
    <3>2. ~Continue([call EXCEPT !.pc = IF call.purpose = "Read" THEN "read" ELSE "write"])
      BY DEF Continue, IInv, TypeOK, ProgressType, CallType
    <3> QED
      BY <3>1, <3>2 DEF Authenticated
  <2> QED
    BY <1>1, <1>2, <1>4, <2>1 DEF Auth
<1>5. ~KeySettings /\ ~Start
  BY DEF KeySettings, SetDefaultKey, AddKeyReplace, AddKeyPush, SetKeys, ClearKeys, KeyCall,
     Start, BeginReadCard, BeginSaveAllTrailers, BeginRestoreAllTrailers, BeginReadSector,
     BeginAuthenticate, BeginReadTrailer, BeginReadBlock, BeginWriteBlock, RefuseWriteBlock,
     BeginWriteTrailer, BeginSetAccessConfig, BeginAuthenticateSlot, Begin
<1>6. ~CardReset /\ ~UNCHANGED vars
  BY DEF CardReset, vars
<1>7. ~EnsureAuthHit /\ ~EnsureAuthChoose /\ ~LoadKeySlot /\ ~AuthSlot
  BY DEF EnsureAuthHit, EnsureAuthChoose, LoadKeySlot, AuthSlot
<1>8. /\ ~ReadBlockPage /\ ~ReadSectorPage /\ ~ReadCardPage /\ ~ReadTrailerPage
      /\ ~ReadTrailerForConfig /\ ~ReadTrailerForBackup /\ ~WriteBlockPage
      /\ ~WriteTrailerPage /\ ~RestoreTrailerPage /\ ~ReadAborted /\ ~WriteAborted
  BY DEF ReadBlockPage, ReadSectorPage, ReadCardPage, ReadTrailerPage, ReadTrailerForConfig,
     ReadTrailerForBackup, WriteBlockPage, WriteTrailerPage, RestoreTrailerPage, ReadAborted,
     WriteAborted, Read, Write, Page
<1> QED
  BY <1>3, <1>4, <1>5, <1>6, <1>7, <1>8 DEF Next, Progress

(* With a single key, an authentication that fails forgets session and     *)
(* slots, whatever call it was part of and whatever made it fail.          *)
THEOREM FailuresForget == Spec => FailureForgets
<1> DEFINE Forgets ==
             /\ ~IsMultiKey /\ call.pc \in {"load", "auth"}
             /\ call'.pc \in {"ensure", "idle"} /\ ret' \in {"err", "quiet", "none"}
             => lastAuth' = NoAuth /\ \A sl \in Slots : slotContents'[sl] = NoKey
<1>1. IInv /\ [Next]_vars => [Forgets]_vars
  BY FailureStep DEF Forgotten
<1>2. FailureForgets <=> [][Forgets]_vars
  BY DEF FailureForgets
<1> HIDE DEF Forgets
<1> QED
  BY <1>1, <1>2, InductiveInvariant, PTL DEF Spec

-----------------------------------------------------------------------------
(* The memory image and the card                                           *)

(* an image shows only what the card holds, zeros, or a block in doubt *)
Mirrored(m, c, u) ==
  \A s \in Sectors :
    /\ m[s].trailer.access \in {ZeroConfig, c[s].trailer.access} \/ <<s, 3>> \in u
    /\ \A b \in DataBlocks : m[s].data[b] \in {ZeroVal, c[s].data[b]} \/ <<s, b>> \in u

(* The buffer of readCard, which becomes the image at the end of the call, *)
(* shows what the card holds without exception.                            *)
Faithful == Mirrored(mem, card, unsure) /\ Mirrored(buf, card, {})

LEMMA ZeroMirrored == ASSUME NEW c, NEW u PROVE Mirrored(ZeroMemory, c, u)
BY DEF Mirrored, ZeroMemory, ZeroImage, ZeroTrailer

(* At most block b of sector s of the image, the card and the doubts       *)
(* changes, and afterwards the image shows it as it is on the card or it   *)
(* is in doubt.                                                            *)
ChangesAt(s, b, m, c, u, m1, c1, u1) ==
  /\ \A x \in Sectors : x # s => m1[x] = m[x] /\ c1[x] = c[x]
  /\ \A p \in u : p # <<s, b>> => p \in u1
  /\ b # 3 => m1[s].trailer = m[s].trailer /\ c1[s].trailer = c[s].trailer
  /\ \A d \in DataBlocks : d # b =>
       m1[s].data[d] = m[s].data[d] /\ c1[s].data[d] = c[s].data[d]
  /\ b = 3 => m1[s].trailer.access = c1[s].trailer.access \/ <<s, 3>> \in u1
  /\ b # 3 => m1[s].data[b] = c1[s].data[b] \/ <<s, b>> \in u1

LEMMA MirroredAt ==
  ASSUME NEW m, NEW c, NEW u, NEW m1, NEW c1, NEW u1, NEW s \in Sectors, NEW b \in Blocks,
         Mirrored(m, c, u), ChangesAt(s, b, m, c, u, m1, c1, u1)
  PROVE  Mirrored(m1, c1, u1)
<1>1. ASSUME NEW x \in Sectors
      PROVE  m1[x].trailer.access \in {ZeroConfig, c1[x].trailer.access} \/ <<x, 3>> \in u1
  <2>1. m[x].trailer.access \in {ZeroConfig, c[x].trailer.access} \/ <<x, 3>> \in u
    BY DEF Mirrored
  <2>2. CASE x = s /\ b = 3
    BY <2>2 DEF ChangesAt
  <2>3. CASE ~(x = s /\ b = 3)
    <3>1. <<x, 3>> # <<s, b>>
      BY <2>3
    <3>2. m1[x].trailer = m[x].trailer /\ c1[x].trailer = c[x].trailer
      BY <2>3 DEF ChangesAt
    <3> QED
      BY <2>1, <3>1, <3>2 DEF ChangesAt
  <2> QED
    BY <2>2, <2>3
<1>2. ASSUME NEW x \in Sectors, NEW d \in DataBlocks
      PROVE  m1[x].data[d] \in {ZeroVal, c1[x].data[d]} \/ <<x, d>> \in u1
  <2>1. (m[x].data[d] \in {ZeroVal, c[x].data[d]} \/ <<x, d>> \in u) /\ d # 3
    BY SectorTypes DEF Mirrored
  <2>2. CASE x = s /\ d = b
    BY <2>1, <2>2 DEF ChangesAt
  <2>3. CASE ~(x = s /\ d = b)
    <3>1. <<x, d>> # <<s, b>>
      BY <2>3
    <3>2. m1[x].data[d] = m[x].data[d] /\ c1[x].data[d] = c[x].data[d]
      BY <2>3 DEF ChangesAt
    <3> QED
      BY <2>1, <3>1, <3>2 DEF ChangesAt
  <2> QED
    BY <2>2, <2>3
<1> QED
  BY <1>1, <1>2 DEF Mirrored

LEMMA FaithfulNext ==
  ASSUME Mirrored(mem', card', unsure'), Mirrored(buf', card', {})
  PROVE  Faithful'
BY DEF Faithful, Mirrored

(* a block that was read is the card's, and no longer in doubt *)
LEMMA StoreMirrored ==
  ASSUME IInv, NEW m \in [Sectors -> SectorImage], NEW u, Mirrored(m, card, u)
  PROVE  Mirrored(StoreRead(m, call.sector, call.block), card, u \ {Target})
<1> DEFINE s == call.sector
           b == call.block
           n == StoreRead(m, s, b)
           v == u \ {<<s, b>>}
<1>1. s \in Sectors /\ b \in Blocks /\ m[s] \in SectorImage
  BY ChosenKeyType
<1>2. \A x \in Sectors : x # s => n[x] = m[x] /\ card[x] = card[x]
  BY <1>1 DEF StoreRead
<1>3. \A p \in u : p # <<s, b>> => p \in v
  OBVIOUS
<1>4. b = 3 => n[s].data = m[s].data /\ n[s].trailer.access = card[s].trailer.access
  BY <1>1 DEF StoreRead, SectorImage, TrailerRead
<1>5. b # 3 => /\ n[s].trailer = m[s].trailer
              /\ n[s].data[b] = card[s].data[b]
              /\ \A d \in DataBlocks : d # b => n[s].data[d] = m[s].data[d]
  BY <1>1, SectorTypes DEF StoreRead, SectorImage
<1>6. \A d \in DataBlocks : d # b => n[s].data[d] = m[s].data[d] /\ card[s].data[d] = card[s].data[d]
  BY <1>4, <1>5
<1>7. b # 3 => n[s].trailer = m[s].trailer /\ card[s].trailer = card[s].trailer
  BY <1>5
<1> HIDE DEF n, s, b, v
<1>8. ChangesAt(s, b, m, card, u, n, card, v)
  BY <1>2, <1>3, <1>4, <1>5, <1>6, <1>7 DEF ChangesAt
<1>9. Mirrored(n, card, v)
  BY <1>1, <1>8, MirroredAt
<1> QED
  BY <1>9 DEF n, s, b, v, Target

LEMMA QuietKeeps ==
  ASSUME Faithful, UNCHANGED <<mem, card, unsure>>, buf' \in {buf, ZeroMemory}
  PROVE  Faithful'
<1>1. Mirrored(mem', card', unsure')
  BY DEF Faithful
<1>2. Mirrored(buf', card', {})
  BY ZeroMirrored DEF Faithful
<1> QED
  BY <1>1, <1>2, FaithfulNext

LEMMA AdvanceKeeps ==
  ASSUME Faithful, NEW image, Mirrored(image, card, {}), AdvanceReadCard(image), UNCHANGED card
  PROVE  Faithful'
<1>1. CASE AtLastSector
  <2>1. mem' = image /\ buf' = ZeroMemory /\ unsure' = {}
    BY <1>1 DEF AdvanceReadCard
  <2> QED
    BY <2>1, ZeroMirrored, FaithfulNext
<1>2. CASE ~AtLastSector
  <2>1. buf' = image /\ UNCHANGED <<mem, unsure>>
    BY <1>2 DEF AdvanceReadCard
  <2> QED
    BY <2>1, FaithfulNext DEF Faithful
<1> QED
  BY <1>1, <1>2

LEMMA AuthGaveUpKeeps ==
  ASSUME Faithful, NEW r, AuthGaveUp(r), UNCHANGED card
  PROVE  Faithful'
<1>1. CASE AdvanceReadCard(buf)
  BY <1>1, AdvanceKeeps DEF Faithful
<1>2. CASE UNCHANGED <<mem, unsure, buf>>
  BY <1>2, QuietKeeps
<1> QED
  BY <1>1, <1>2 DEF AuthGaveUp, PushSaved, AdvanceRestore, Finish

LEMMA AttemptFailedKeeps ==
  ASSUME Faithful, NEW r, AttemptFailed(r), UNCHANGED card
  PROVE  Faithful'
BY AuthGaveUpKeeps, QuietKeeps DEF AttemptFailed

LEMMA AbortKeeps ==
  ASSUME Faithful, Abort, UNCHANGED <<card, unsure>>
  PROVE  Faithful'
BY QuietKeeps DEF Abort

(* what a read that was answered brings into the image *)
LEMMA LoadBlockKeeps ==
  ASSUME IInv, Faithful, NEW reply, LoadBlock(reply), UNCHANGED <<card, buf>>
  PROVE  Faithful'
<1>1. CASE reply = "ok"
  <2>1. mem' = StoreRead(mem, call.sector, call.block) /\ unsure' = unsure \ {Target}
    BY <1>1 DEF LoadBlock
  <2>2. Mirrored(StoreRead(mem, call.sector, call.block), card, unsure \ {Target})
    BY StoreMirrored DEF Faithful, IInv, TypeOK, MemoryType
  <2>3. Mirrored(mem', card', unsure')
    BY <2>1, <2>2
  <2> QED
    BY <2>3 DEF Faithful, Mirrored
<1>2. CASE reply # "ok"
  BY <1>2, QuietKeeps DEF LoadBlock
<1> QED
  BY <1>1, <1>2

LEMMA ReadKeeps ==
  ASSUME IInv, Faithful,
         \/ ReadBlockPage \/ ReadSectorPage \/ ReadCardPage
         \/ ReadTrailerPage \/ ReadTrailerForConfig \/ ReadTrailerForBackup
  PROVE  Faithful'
<1>1. CASE ReadCardPage
  <2>1. PICK reply \in Answers :
          LET image == IF reply = "ok" THEN StoreRead(buf, call.sector, call.block) ELSE buf
          IN  /\ Read({"readCard"}, reply)
              /\ IF call.block = 3
                   THEN AdvanceReadCard(image)
                   ELSE buf' = image /\ UNCHANGED <<mem, unsure>>
    BY <1>1 DEF ReadCardPage
  <2> DEFINE image == IF reply = "ok" THEN StoreRead(buf, call.sector, call.block) ELSE buf
  <2>2. UNCHANGED card
    BY <2>1, ReadDevice
  <2>3. Mirrored(image, card, {})
    <3>1. Mirrored(StoreRead(buf, call.sector, call.block), card, {} \ {Target})
      BY StoreMirrored DEF Faithful, IInv, TypeOK, MemoryType
    <3>2. {} \ {Target} = {}
      OBVIOUS
    <3> QED
      BY <3>1, <3>2 DEF Faithful
  <2> HIDE DEF image
  <2>4. CASE AdvanceReadCard(image)
    BY <2>2, <2>3, <2>4, AdvanceKeeps
  <2>5. CASE buf' = image /\ UNCHANGED <<mem, unsure>>
    BY <2>2, <2>3, <2>5 DEF Faithful, Mirrored
  <2> QED
    BY <2>1, <2>4, <2>5 DEF image
<1>2. CASE ~ReadCardPage
  <2>1. PICK reply, ops : Read(ops, reply) /\ LoadBlock(reply) /\ UNCHANGED buf
    BY <1>2 DEF ReadBlockPage, ReadSectorPage, ReadTrailerPage, ReadTrailerForConfig,
       ReadTrailerForBackup, PushSaved
  <2>2. UNCHANGED card
    BY <2>1, ReadDevice
  <2> QED
    BY <2>1, <2>2, LoadBlockKeeps
<1> QED
  BY <1>1, <1>2

(* An answered write puts into the image what it has put on the card; one  *)
(* that was refused changes neither.                                       *)
LEMMA AnsweredWrite ==
  ASSUME IInv, Faithful, NEW ops, ops \subseteq WriteCalls, NEW reply \in Answers,
         NEW image \in SectorImage, Write(ops, image, reply), UNCHANGED buf,
         call.op = "writeBlock" =>
           /\ image.trailer = mem[call.sector].trailer
           /\ image.data[call.block] = arg.val
           /\ \A b \in DataBlocks : b # call.block => image.data[b] = mem[call.sector].data[b],
         call.op # "writeBlock" =>
           /\ image.data = mem[call.sector].data
           /\ image.trailer.access = TrailerToWrite.access
  PROVE  Faithful'
<1> DEFINE s == call.sector
<1>1. /\ call.pc = "write" /\ call.op \in ops /\ CardWritesTarget(reply)
      /\ MemoryFollows(image, reply)
  BY DEF Write, Page
<1>2. buf' = ZeroMemory
  BY <1>1 DEF IInv, BufShape, WriteCalls
<1>3. Mirrored(buf', card', {})
  BY <1>2, ZeroMirrored
<1>4. CASE reply # "ok"
  <2>1. UNCHANGED <<card, mem, unsure>>
    BY <1>1, <1>4, WriteEffect DEF MemoryFollows, Answers
  <2> QED
    BY <2>1, QuietKeeps
<1>5. CASE reply = "ok"
  <2>0. call.block \in Blocks /\ \A p \in unsure : p # Target => p \in unsure \ {Target}
    BY ChosenKeyType
  <2>1. s \in Sectors /\ mem \in [Sectors -> SectorImage]
    BY ChosenKeyType DEF IInv, TypeOK, MemoryType
  <2>2. /\ mem'[s] = image
        /\ \A x \in Sectors : x # s => mem'[x] = mem[x] /\ card'[x] = card[x]
        /\ unsure' = unsure \ {Target}
    BY <1>1, <1>5, <2>1, WriteEffect DEF MemoryFollows
  <2>3. ASSUME call.op = "writeBlock" PROVE ChangesAt(s, call.block, mem, card, unsure, mem', card', unsure')
    <3>1. call.block # 3
      BY <2>3, SectorTypes DEF IInv, CallShape
    <3>2. /\ mem'[s].trailer = mem[s].trailer /\ card'[s].trailer = card[s].trailer
          /\ mem'[s].data[call.block] = card'[s].data[call.block]
          /\ \A b \in DataBlocks : b # call.block =>
               mem'[s].data[b] = mem[s].data[b] /\ card'[s].data[b] = card[s].data[b]
      BY <1>1, <1>5, <2>2, <2>3, WriteEffect
    <3> QED
      BY <2>0, <2>2, <3>1, <3>2 DEF ChangesAt, Target
  <2>4. ASSUME call.op # "writeBlock" PROVE ChangesAt(s, call.block, mem, card, unsure, mem', card', unsure')
    <3>1. call.block = 3
      BY <1>1, <2>4 DEF IInv, CallShape, WriteCalls, TrailerCalls
    <3>2. /\ mem'[s].data = mem[s].data /\ card'[s].data = card[s].data
          /\ mem'[s].trailer.access = card'[s].trailer.access
      BY <1>1, <1>5, <2>2, <2>4, WriteEffect
    <3> QED
      BY <2>0, <2>2, <3>1, <3>2 DEF ChangesAt, Target
  <2>5. Mirrored(mem', card', unsure')
    BY <2>0, <2>1, <2>3, <2>4, MirroredAt DEF Faithful
  <2> QED
    BY <1>3, <2>5, FaithfulNext
<1> QED
  BY <1>4, <1>5

LEMMA WriteKeeps ==
  ASSUME IInv, Faithful, WriteBlockPage \/ WriteTrailerPage \/ RestoreTrailerPage
  PROVE  Faithful'
<1>1. CASE WriteBlockPage
  <2> DEFINE image == [mem[call.sector] EXCEPT !.data[call.block] = arg.val]
  <2>1. PICK reply \in Answers : Write({"writeBlock"}, image, reply) /\ UNCHANGED buf
    BY <1>1 DEF WriteBlockPage
  <2>2. call.op = "writeBlock" /\ call.block \in DataBlocks /\ arg.val \in Vals
    BY <2>1 DEF Write, Page, IInv, CallShape, TypeOK, ProgressType, ArgType
  <2>3. /\ image \in SectorImage
        /\ image.trailer = mem[call.sector].trailer
        /\ image.data[call.block] = arg.val
        /\ \A b \in DataBlocks : b # call.block => image.data[b] = mem[call.sector].data[b]
    BY <2>2, TargetImageType DEF SectorImage
  <2> HIDE DEF image
  <2> QED
    BY <2>1, <2>2, <2>3, AnsweredWrite DEF WriteCalls
<1>2. CASE WriteTrailerPage \/ RestoreTrailerPage
  <2>1. PICK reply, ops :
          /\ reply \in Answers
          /\ Write(ops, TrailerImage, reply) /\ UNCHANGED buf
          /\ ops \in {{"writeTrailer", "setAccessConfig"}, {"restoreAllTrailers"}}
    BY <1>2 DEF WriteTrailerPage, RestoreTrailerPage, AdvanceRestore
  <2>2. call.op # "writeBlock" /\ ops \subseteq WriteCalls
    BY <2>1 DEF Write, Page, WriteCalls
  <2>3. /\ TrailerImage.data = mem[call.sector].data
        /\ TrailerImage.trailer = TrailerToWrite
    BY TargetImageType DEF TrailerImage, SectorImage
  <2> QED
    BY <2>1, <2>2, <2>3, TrailerImageType, AnsweredWrite
<1> QED
  BY <1>1, <1>2

(* A write that ended in an exception may have been carried out; its block *)
(* is in doubt from then on.                                               *)
LEMMA WriteAbortedKeeps ==
  ASSUME IInv, Faithful, WriteAborted
  PROVE  Faithful'
<1> DEFINE s == call.sector
<1>1. /\ call.pc = "write" /\ CardWritesTarget("thrown")
      /\ mem' = mem /\ buf' = ZeroMemory /\ unsure' = unsure \cup {Target}
  BY DEF WriteAborted, Page, Abort
<1>2. /\ s \in Sectors /\ call.block \in Blocks
      /\ \A x \in Sectors : x # s => card'[x] = card[x]
  BY <1>1, WriteEffect, ChosenKeyType
<1>3. ASSUME call.op = "writeBlock" PROVE ChangesAt(s, call.block, mem, card, unsure, mem', card', unsure')
  <2>1. /\ card'[s].trailer = card[s].trailer
        /\ \A b \in DataBlocks : b # call.block => card'[s].data[b] = card[s].data[b]
    BY <1>1, <1>3, WriteEffect
  <2>2. call.block # 3
    BY <1>3, SectorTypes DEF IInv, CallShape
  <2> QED
    BY <1>1, <1>2, <2>1, <2>2 DEF ChangesAt, Target
<1>4. ASSUME call.op # "writeBlock" PROVE ChangesAt(s, call.block, mem, card, unsure, mem', card', unsure')
  <2>1. card'[s].data = card[s].data
    BY <1>1, <1>4, WriteEffect
  <2>2. call.block = 3
    BY <1>1, <1>4 DEF IInv, CallShape, WriteCalls, TrailerCalls
  <2> QED
    BY <1>1, <1>2, <2>1, <2>2 DEF ChangesAt, Target
<1>5. Mirrored(mem', card', unsure')
  BY <1>2, <1>3, <1>4, MirroredAt DEF Faithful
<1> QED
  BY <1>1, <1>5, ZeroMirrored, FaithfulNext

LEMMA FaithfulStep == ASSUME IInv, Faithful, [Next]_vars PROVE Faithful'
<1>1. CASE KeySettings
  <2>1. UNCHANGED <<mem, buf, card, unsure>>
    BY <1>1 DEF KeySettings, SetDefaultKey, AddKeyReplace, AddKeyPush, SetKeys, ClearKeys,
       KeyCall, device, reader
  <2> QED
    BY <2>1, QuietKeeps
<1>2. CASE Start
  <2>1. UNCHANGED <<mem, buf, card, unsure>>
    BY <1>2 DEF Start, BeginReadCard, BeginSaveAllTrailers, BeginRestoreAllTrailers,
       BeginReadSector, BeginAuthenticate, BeginReadTrailer, BeginReadBlock, RefuseWriteBlock,
       BeginWriteBlock, BeginWriteTrailer, BeginSetAccessConfig, BeginAuthenticateSlot,
       StartOnly, host, device, reader
  <2> QED
    BY <2>1, QuietKeeps
<1>3. CASE EnsureAuthHit
  BY <1>3, AuthGaveUpKeeps DEF EnsureAuthHit, device, reader
<1>4. CASE EnsureAuthChoose \/ CardReset \/ UNCHANGED vars
  BY <1>4, QuietKeeps DEF EnsureAuthChoose, CardReset, vars, host, device, reader
<1>5. CASE LoadKey
  <2>1. UNCHANGED card
    BY <1>5 DEF LoadKey, ReaderLoads
  <2>2. CASE UNCHANGED <<mem, buf, unsure>>
    BY <2>1, <2>2, QuietKeeps
  <2>3. CASE \E r : AttemptFailed(r)
    BY <2>1, <2>3, AttemptFailedKeeps
  <2>4. CASE Abort /\ UNCHANGED unsure
    BY <2>1, <2>4, AbortKeeps
  <2> QED
    BY <1>5, <2>2, <2>3, <2>4 DEF LoadKey
<1>6. CASE Auth
  <2>1. UNCHANGED card
    BY <1>6 DEF Auth, CardAuthenticates, reader
  <2>2. CASE Authenticated
    BY <2>1, <2>2, QuietKeeps DEF Authenticated
  <2>3. CASE \E r : AttemptFailed(r)
    BY <2>1, <2>3, AttemptFailedKeeps
  <2>4. CASE Abort /\ UNCHANGED unsure
    BY <2>1, <2>4, AbortKeeps
  <2> QED
    BY <1>6, <2>2, <2>3, <2>4 DEF Auth
<1>7. CASE LoadKeySlot \/ AuthSlot
  <2>1. UNCHANGED <<mem, buf, card, unsure>>
    BY <1>7 DEF LoadKeySlot, AuthSlot, ReaderLoads, CardAuthenticates, reader, host
  <2> QED
    BY <2>1, QuietKeeps
<1>8. CASE ReadAborted
  BY <1>8, AbortKeeps DEF ReadAborted, CardReads, reader
<1> QED
  BY <1>1, <1>2, <1>3, <1>4, <1>5, <1>6, <1>7, <1>8, ReadKeeps, WriteKeeps, WriteAbortedKeeps
  DEF Next, Progress

(* The memory image never shows what the card does not hold, whatever is   *)
(* read, written, refused or interrupted, and in which order.              *)
THEOREM ImageMirrorsCard == Spec => []MemoryMirrors
<1>1. Init => Faithful
  BY ZeroMirrored DEF Init, Faithful
<1>2. IInv /\ Faithful /\ [Next]_vars => Faithful'
  BY FaithfulStep
<1>3. Faithful => MemoryMirrors
  BY DEF Faithful, Mirrored, MemoryMirrors, MirrorsData, MirrorsAccess
<1> QED
  BY <1>1, <1>2, <1>3, InductiveInvariant, PTL DEF Spec

-----------------------------------------------------------------------------
(* tryReadSector                                                           *)

(* the loop has passed block d of the sector *)
Passed(d) == call.block = 3 \/ d < call.block

(* As long as every read has succeeded, the blocks passed are the card's.  *)
SoFar ==
  call.op = "readSector" /\ call.allOk =>
    \A d \in DataBlocks :
      Passed(d) => mem[call.sector].data[d] = card[call.sector].data[d]

Unmoved == /\ call.op = "readSector"
           /\ call'.sector = call.sector /\ call'.block = call.block
           /\ call'.allOk = call.allOk
           /\ UNCHANGED <<mem, card>>

LEMMA UnmovedKeeps == ASSUME SoFar, Unmoved PROVE SoFar'
BY DEF SoFar, Passed, Unmoved

(* A failed attempt leaves a readSector where it is, or ends it. *)
LEMMA AttemptUnmoved ==
  ASSUME IInv, NEW r, AttemptFailed(r), UNCHANGED card, call'.op = "readSector"
  PROVE  Unmoved
<1>1. CASE /\ Continue([call EXCEPT !.key = FirstAlternate, !.attempt = 2,
                                    !.pc = EntryPc(keys[FirstAlternate])])
           /\ UNCHANGED mem
  BY <1>1 DEF Continue, Unmoved, IInv, TypeOK, ProgressType, CallType
<1>2. ~AuthGaveUp(r)
  <2>1. Idle.op # "readSector"
    BY IdleType
  <2>2. ~Return("ok") /\ ~Return(r)
    BY <2>1 DEF Return
  <2>3. call.op # "readSector" => ~Continue(NextSector)
    BY DEF Continue, NextSector, IInv, TypeOK, ProgressType, CallType
  <2> QED
    BY <2>2, <2>3 DEF AuthGaveUp, AdvanceReadCard, PushSaved, AdvanceRestore, Finish
<1> QED
  BY <1>1, <1>2 DEF AttemptFailed

LEMMA AuthUnmoved ==
  ASSUME IInv, call'.op = "readSector",
         EnsureAuthHit \/ EnsureAuthChoose \/ LoadKey \/ Auth
  PROVE  Unmoved
<1>1. Idle.op # "readSector"
  BY IdleType
<1>2. \A r : ~Return(r)
  BY <1>1 DEF Return
<1>3. ~EnsureAuthHit
  <2>1. call.op # "readSector" => ~Continue(NextSector)
    BY DEF Continue, NextSector, IInv, TypeOK, ProgressType, CallType
  <2> QED
    BY <1>2, <2>1 DEF EnsureAuthHit, AuthGaveUp, AdvanceReadCard, PushSaved, AdvanceRestore, Finish
<1>4. ~Abort
  BY <1>2 DEF Abort
<1>5. CASE EnsureAuthChoose
  <2>1. PICK k : Continue([call EXCEPT !.key = k, !.attempt = 1, !.pc = EntryPc(keys[k])])
    BY <1>5 DEF EnsureAuthChoose
  <2>2. UNCHANGED <<mem, card>>
    BY <1>5 DEF EnsureAuthChoose, host, device, reader
  <2> QED
    BY <2>1, <2>2 DEF Continue, Unmoved, IInv, TypeOK, ProgressType, CallType
<1>6. CASE LoadKey
  <2>1. UNCHANGED card
    BY <1>6 DEF LoadKey, ReaderLoads
  <2>2. CASE Continue([call EXCEPT !.pc = "auth"]) /\ UNCHANGED mem
    BY <2>1, <2>2 DEF Continue, Unmoved, IInv, TypeOK, ProgressType, CallType
  <2>3. CASE \E r : AttemptFailed(r)
    BY <2>1, <2>3, AttemptUnmoved
  <2> QED
    BY <1>4, <1>6, <2>2, <2>3 DEF LoadKey
<1>7. CASE Auth
  <2>1. UNCHANGED card
    BY <1>7 DEF Auth, CardAuthenticates, reader
  <2>2. CASE Authenticated
    <3>1. /\ Continue([call EXCEPT !.pc = IF call.purpose = "Read" THEN "read" ELSE "write"])
          /\ UNCHANGED mem
      BY <1>2, <2>2 DEF Authenticated
    <3> QED
      BY <2>1, <3>1 DEF Continue, Unmoved, IInv, TypeOK, ProgressType, CallType
  <2>3. CASE \E r : AttemptFailed(r)
    BY <2>1, <2>3, AttemptUnmoved
  <2> QED
    BY <1>4, <1>7, <2>2, <2>3 DEF Auth
<1> QED
  BY <1>3, <1>5, <1>6, <1>7

(* Only the page reads of readSector itself move it on. *)
LEMMA OtherCalls ==
  ASSUME IInv, call'.op = "readSector"
  PROVE  /\ ~LoadKeySlot /\ ~AuthSlot
         /\ ~ReadBlockPage /\ ~ReadCardPage /\ ~ReadTrailerPage
         /\ ~ReadTrailerForConfig /\ ~ReadTrailerForBackup
         /\ ~WriteBlockPage /\ ~WriteTrailerPage /\ ~RestoreTrailerPage
         /\ ~ReadAborted /\ ~WriteAborted
<1>1. \A r : ~Return(r)
  BY IdleType DEF Return
<1>2. call.op # "readSector" => ~Continue(NextSector)
  BY DEF Continue, NextSector, IInv, TypeOK, ProgressType, CallType
<1>3. ~Abort
  BY <1>1 DEF Abort
<1>4. ~LoadKeySlot
  <2>1. call.pc = "loadSlot" => call.op = "authenticateSlot"
    BY DEF IInv, CallShape
  <2>2. call.op = "authenticateSlot" => ~Continue([call EXCEPT !.pc = "authSlot"])
    BY DEF Continue, IInv, TypeOK, ProgressType, CallType
  <2> QED
    BY <1>1, <2>1, <2>2 DEF LoadKeySlot
<1>5. ~AuthSlot
  BY <1>1 DEF AuthSlot
<1>6. ~ReadCardPage
  <2>1. call.op = "readCard" => ~Continue([call EXCEPT !.block = NextBlock(@)])
    BY DEF Continue, IInv, TypeOK, ProgressType, CallType
  <2> QED
    BY <1>1, <1>2, <2>1 DEF ReadCardPage, AdvanceReadCard, Read, Page
<1>7. ~ReadTrailerForConfig
  <2>1. call.op = "setAccessConfig" =>
          call' # [call EXCEPT !.pc = "ensure", !.purpose = "Write", !.key = 1, !.attempt = 1]
    BY DEF IInv, TypeOK, ProgressType, CallType
  <2> QED
    BY <1>1, <2>1 DEF ReadTrailerForConfig, Read, Page
<1>8. ~ReadBlockPage /\ ~ReadTrailerPage /\ ~WriteBlockPage /\ ~WriteTrailerPage
  BY <1>1 DEF ReadBlockPage, ReadTrailerPage, WriteBlockPage, WriteTrailerPage
<1>9. ~ReadTrailerForBackup /\ ~RestoreTrailerPage
  BY <1>1, <1>2 DEF ReadTrailerForBackup, RestoreTrailerPage, PushSaved, AdvanceRestore,
     Read, Write, Page
<1>10. ~ReadAborted /\ ~WriteAborted
  BY <1>3 DEF ReadAborted, WriteAborted
<1> QED
  BY <1>4, <1>5, <1>6, <1>7, <1>8, <1>9, <1>10

(* One page of readSector: what counts as read is the card's. *)
LEMMA SectorPage ==
  ASSUME IInv, SoFar, NEW reply \in Answers,
         Read({"readSector"}, reply), LoadBlock(reply), AllOk(reply)
  PROVE  LET s == call.sector
         IN  /\ card' = card
             /\ \A d \in DataBlocks : Passed(d) \/ d = call.block => mem'[s].data[d] = card[s].data[d]
             /\ call.block = 3 => mem'[s].trailer.access = card[s].trailer.access
<1> DEFINE s == call.sector
           b == call.block
<1>1. card' = card /\ call.op = "readSector"
  BY ReadDevice
<1>2. call.allOk /\ mem' = StoreRead(mem, s, b)
  BY DEF AllOk, LoadBlock
<1>3. \A d \in DataBlocks : Passed(d) => mem[s].data[d] = card[s].data[d]
  BY <1>1, <1>2 DEF SoFar
<1>4. s \in Sectors /\ b \in Blocks /\ mem[s] \in SectorImage /\ mem \in [Sectors -> SectorImage]
  BY ChosenKeyType DEF IInv, TypeOK, MemoryType
<1>5. CASE b = 3
  <2>1. mem'[s].data = mem[s].data /\ mem'[s].trailer = TrailerRead(s)
    BY <1>2, <1>4, <1>5 DEF StoreRead, SectorImage
  <2> QED
    BY <1>1, <1>3, <1>5, <2>1, SectorTypes DEF TrailerRead
<1>6. CASE b # 3
  <2>1. /\ mem'[s].data[b] = card[s].data[b]
        /\ \A d \in DataBlocks : d # b => mem'[s].data[d] = mem[s].data[d]
    BY <1>2, <1>4, <1>6, SectorTypes DEF StoreRead, SectorImage
  <2> QED
    BY <1>1, <1>3, <1>6, <2>1
<1> QED
  BY <1>5, <1>6

LEMMA SectorPageKeeps == ASSUME IInv, SoFar, ReadSectorPage PROVE SoFar'
<1>1. PICK reply \in Answers :
        /\ Read({"readSector"}, reply) /\ LoadBlock(reply)
        /\ IF call.block = 3
             THEN Return(IF AllOk(reply) THEN "ok" ELSE "partial")
             ELSE Continue([call EXCEPT !.block = NextBlock(@), !.allOk = AllOk(reply)])
  BY DEF ReadSectorPage
<1>2. CASE call.block = 3
  BY <1>1, <1>2, ReturnPc, IdleType DEF SoFar
<1>3. CASE call.block # 3
  <2>1. /\ call'.sector = call.sector /\ call'.block = NextBlock(call.block)
        /\ call'.allOk = AllOk(reply)
    BY <1>1, <1>3 DEF Continue, IInv, TypeOK, ProgressType, CallType
  <2>2. call.block \in DataBlocks
    BY <1>3, ChosenKeyType, SectorTypes
  <2>3. \A d \in DataBlocks : Passed(d)' => Passed(d) \/ d = call.block
    BY <2>1, <2>2, SizeAssumption DEF Passed, NextBlock, DataBlocks
  <2>4. CASE AllOk(reply)
    BY <1>1, <2>1, <2>3, <2>4, SectorPage DEF SoFar
  <2>5. CASE ~AllOk(reply)
    BY <2>1, <2>5 DEF SoFar
  <2> QED
    BY <2>4, <2>5
<1> QED
  BY <1>2, <1>3

LEMMA SoFarStep == ASSUME IInv, SoFar, [Next]_vars PROVE SoFar'
<1> SUFFICES ASSUME call'.op = "readSector" PROVE SoFar'
  BY DEF SoFar
<1>1. CASE KeySettings \/ CardReset \/ UNCHANGED vars
  <2>1. UNCHANGED <<call, mem, card>>
    BY <1>1 DEF KeySettings, SetDefaultKey, AddKeyReplace, AddKeyPush, SetKeys, ClearKeys,
       KeyCall, CardReset, vars, host, device, reader
  <2> QED
    BY <2>1 DEF SoFar, Passed
<1>2. CASE Start
  <2>1. ASSUME NEW op, NEW s, NEW b, NEW purpose, NEW a, Begin(op, s, b, purpose, a)
        PROVE  call'.op = op /\ call'.block = b
    BY <2>1 DEF Begin, Idle
  <2>2. \A s, b : ~RefuseWriteBlock(s, b)
    BY DEF RefuseWriteBlock, IInv, CallShape, Idle
  <2>3. \A s, kt, slot : ~BeginAuthenticateSlot(s, kt, slot)
    BY DEF BeginAuthenticateSlot, Idle
  <2>4. /\ ~BeginReadCard /\ ~BeginSaveAllTrailers /\ ~BeginRestoreAllTrailers
        /\ \A s : ~BeginAuthenticate(s) /\ ~BeginReadTrailer(s)
        /\ \A s, b : ~BeginReadBlock(s, b)
    BY <2>1 DEF BeginReadCard, BeginSaveAllTrailers, BeginRestoreAllTrailers,
       BeginAuthenticate, BeginReadTrailer, BeginReadBlock
  <2>5. /\ \A s, b, v : ~BeginWriteBlock(s, b, v)
        /\ \A s, t : ~BeginWriteTrailer(s, t)
        /\ \A s, cfg : ~BeginSetAccessConfig(s, cfg)
    BY <2>1 DEF BeginWriteBlock, BeginWriteTrailer, BeginSetAccessConfig
  <2>6. PICK s \in Sectors : BeginReadSector(s)
    BY <1>2, <2>2, <2>3, <2>4, <2>5 DEF Start
  <2>7. call'.block = 0
    BY <2>1, <2>6 DEF BeginReadSector
  <2>8. \A d \in DataBlocks : ~(d < 0)
    BY SizeAssumption DEF DataBlocks
  <2> QED
    BY <2>7, <2>8 DEF SoFar, Passed
<1>3. CASE EnsureAuthHit \/ EnsureAuthChoose \/ LoadKey \/ Auth
  BY <1>3, AuthUnmoved, UnmovedKeeps
<1>4. CASE ReadSectorPage
  BY <1>4, SectorPageKeeps
<1> QED
  BY <1>1, <1>2, <1>3, <1>4, OtherCalls DEF Next, Progress

(* Only the page read of the trailer ends a readSector with "ok". *)
LEMMA SectorReturns ==
  ASSUME IInv, SoFar, [Next]_vars, Returns("readSector", {"ok"})
  PROVE  SectorMirrored(call.sector)
<1>1. call.op = "readSector" /\ call.pc # "idle" /\ call'.pc = "idle" /\ ret' = "ok"
  BY DEF Returns
<1>2. ASSUME NEW r, AuthGaveUp(r) PROVE r = "ok"
  BY <1>1, <1>2, ReturnPc DEF AuthGaveUp, Finish
<1>3. ~EnsureAuthHit
  BY <1>2 DEF EnsureAuthHit
<1>4. ~EnsureAuthChoose
  <2>1. \A i : EntryPc(keys[i]) # "idle"
    BY DEF EntryPc
  <2>2. ASSUME NEW k,
               Continue([call EXCEPT !.key = k, !.attempt = 1, !.pc = EntryPc(keys[k])])
        PROVE  FALSE
    BY <1>1, <2>1, <2>2 DEF Continue, IInv, TypeOK, ProgressType, CallType
  <2> QED
    BY <2>2 DEF EnsureAuthChoose
<1>5. ASSUME NEW r, AttemptFailed(r) PROVE r = "ok"
  <2>1. EntryPc(keys[FirstAlternate]) # "idle"
    BY DEF EntryPc
  <2>2. ~Continue([call EXCEPT !.key = FirstAlternate, !.attempt = 2,
                               !.pc = EntryPc(keys[FirstAlternate])])
    BY <1>1, <2>1 DEF Continue, IInv, TypeOK, ProgressType, CallType
  <2> QED
    BY <1>2, <1>5, <2>2 DEF AttemptFailed
<1>6. ~Abort
  BY <1>1, ReturnPc DEF Abort
<1>7. \A reply \in {"error", "unlisted"} : ~AttemptFailed(Code(reply))
  BY <1>5 DEF Code
<1>8. ~LoadKey
  <2>1. ~Continue([call EXCEPT !.pc = "auth"])
    BY <1>1 DEF Continue, IInv, TypeOK, ProgressType, CallType
  <2> QED
    BY <1>6, <1>7, <2>1 DEF LoadKey
<1>9. ~Auth
  <2>1. ~Continue([call EXCEPT !.pc = IF call.purpose = "Read" THEN "read" ELSE "write"])
    BY <1>1 DEF Continue, IInv, TypeOK, ProgressType, CallType
  <2>2. ~Authenticated
    BY <1>1, <2>1 DEF Authenticated
  <2> QED
    BY <1>6, <1>7, <2>2 DEF Auth
<1>10. ~LoadKeySlot /\ ~AuthSlot
  BY <1>1 DEF LoadKeySlot, AuthSlot, IInv, CallShape
<1>11. /\ ~ReadBlockPage /\ ~ReadCardPage /\ ~ReadTrailerPage
       /\ ~ReadTrailerForConfig /\ ~ReadTrailerForBackup
       /\ ~WriteBlockPage /\ ~WriteTrailerPage /\ ~RestoreTrailerPage
  BY <1>1 DEF ReadBlockPage, ReadCardPage, ReadTrailerPage, ReadTrailerForConfig,
     ReadTrailerForBackup, WriteBlockPage, WriteTrailerPage, RestoreTrailerPage, Read, Write, Page
<1>12. ~ReadAborted /\ ~WriteAborted
  BY <1>6 DEF ReadAborted, WriteAborted
<1>13. ~KeySettings /\ ~Start
  BY <1>1 DEF KeySettings, SetDefaultKey, AddKeyReplace, AddKeyPush, SetKeys, ClearKeys, KeyCall,
     Start, BeginReadCard, BeginSaveAllTrailers, BeginRestoreAllTrailers, BeginReadSector,
     BeginAuthenticate, BeginReadTrailer, BeginReadBlock, BeginWriteBlock, RefuseWriteBlock,
     BeginWriteTrailer, BeginSetAccessConfig, BeginAuthenticateSlot, Begin
<1>14. ~CardReset /\ ~UNCHANGED vars
  BY <1>1 DEF CardReset, vars
<1>15. ReadSectorPage
  BY <1>3, <1>4, <1>8, <1>9, <1>10, <1>11, <1>12, <1>13, <1>14 DEF Next, Progress
<1>16. PICK reply \in Answers :
         /\ Read({"readSector"}, reply) /\ LoadBlock(reply)
         /\ IF call.block = 3
              THEN Return(IF AllOk(reply) THEN "ok" ELSE "partial")
              ELSE Continue([call EXCEPT !.block = NextBlock(@), !.allOk = AllOk(reply)])
  BY <1>15 DEF ReadSectorPage
<1>17. call.block = 3
  BY <1>1, <1>16 DEF Continue, Read, Page, IInv, TypeOK, ProgressType, CallType
<1>18. AllOk(reply)
  BY <1>1, <1>16, <1>17, ReturnPc
<1> QED
  BY <1>16, <1>17, <1>18, SectorPage DEF SectorMirrored, Passed

(* tryReadSector answers Ok(true) only when the image of the sector is the *)
(* card's, whatever was lost on the way and whatever came before.          *)
THEOREM TryReadSectorsComplete == Spec => TryReadSectorComplete
<1> DEFINE Complete == Returns("readSector", {"ok"}) => SectorMirrored(call.sector)
<1>1. Init => SoFar
  BY IdleType DEF Init, SoFar
<1>2. IInv /\ SoFar /\ [Next]_vars => SoFar'
  BY SoFarStep
<1>3. IInv /\ SoFar /\ [Next]_vars => [Complete]_vars
  BY SectorReturns
<1>4. TryReadSectorComplete <=> [][Complete]_vars
  BY DEF TryReadSectorComplete
<1> HIDE DEF Complete
<1> QED
  BY <1>1, <1>2, <1>3, <1>4, InductiveInvariant, PTL DEF Spec

-----------------------------------------------------------------------------
(* The automatic choice                                                    *)

(* a key of that type may do what the call is about to do to block 0, as   *)
(* far as the image knows *)
MayDo(kt) ==
  kt \in IF call.purpose = "Read" THEN DataRead(mem[call.sector].trailer.access[0])
                                  ELSE DataWrite(mem[call.sector].trailer.access[0])

OneMay == IsMultiKey /\ call.attempt = 1 /\ \E i \in DOMAIN keys : MayDo(keys[i].kt)

(* The choice is made before LOAD KEY and holds until the first page: the  *)
(* key, and then the session opened with it, may do what the call is for.  *)
WellChosen ==
  /\ call.pc \in {"load", "auth"} => (OneMay => MayDo(ChosenKey.kt))
  /\ call.pc \in {"read", "write"} /\ call.block = 0 => (OneMay => MayDo(lastAuth.kt))

LEMMA AttemptFailedAgain ==
  ASSUME IInv, NEW r, AttemptFailed(r)
  PROVE  WellChosen'
<1>1. CASE Continue([call EXCEPT !.key = FirstAlternate, !.attempt = 2,
                                 !.pc = EntryPc(keys[FirstAlternate])])
  <2>1. call'.attempt = 2
    BY <1>1 DEF Continue, IInv, TypeOK, ProgressType, CallType
  <2>2. ~ OneMay'
    BY <2>1 DEF OneMay
  <2> QED
    BY <2>2 DEF WellChosen
<1>2. CASE AuthGaveUp(r)
  BY <1>2, AuthGaveUpPc DEF WellChosen
<1> QED
  BY <1>1, <1>2 DEF AttemptFailed

LEMMA ChooseChoosesWell == ASSUME IInv, EnsureAuthChoose PROVE WellChosen'
<1> DEFINE k == ChooseKey(call.sector, call.purpose)
           p == EntryPc(keys[k])
<1>1. /\ UNCHANGED <<keys, mem>>
      /\ Continue([call EXCEPT !.key = k, !.attempt = 1, !.pc = p])
  BY DEF EnsureAuthChoose, host
<1>2. p \in {"load", "auth"}
  BY DEF EntryPc
<1>3. k \in 1..Len(keys) /\
      ((IsMultiKey /\ \E i \in DOMAIN keys : CanKeyPerform(keys[i], call.sector, call.purpose)) =>
         CanKeyPerform(keys[k], call.sector, call.purpose))
  BY ChooseKeyIndex, SizeAssumption DEF IInv, TypeOK, HostType
<1> HIDE DEF k, p
<1>4. /\ call'.pc = p /\ call'.key = k /\ call'.sector = call.sector
      /\ call'.purpose = call.purpose
  BY <1>1 DEF Continue, IInv, TypeOK, ProgressType, CallType
<1>5. OneMay' => MayDo(ChosenKey.kt)'
  BY <1>1, <1>3, <1>4 DEF OneMay, MayDo, CanKeyPerform, IsMultiKey, ChosenKey
<1> QED
  BY <1>2, <1>4, <1>5 DEF WellChosen

LEMMA LoadKeepsChoice == ASSUME IInv, WellChosen, LoadKey PROVE WellChosen'
<1>1. CASE UNCHANGED <<keys, mem>> /\ Continue([call EXCEPT !.pc = "auth"])
  <2>1. /\ call'.pc = "auth" /\ call'.sector = call.sector /\ call'.purpose = call.purpose
        /\ call'.attempt = call.attempt /\ call'.key = call.key
    BY <1>1 DEF Continue, IInv, TypeOK, ProgressType, CallType
  <2>2. call.pc = "load" /\ ChosenKey' = ChosenKey
    BY <1>1, <2>1 DEF LoadKey, ChosenKey
  <2>3. OneMay' => MayDo(ChosenKey.kt)'
    BY <1>1, <2>1, <2>2 DEF WellChosen, OneMay, MayDo, IsMultiKey
  <2> QED
    BY <2>1, <2>3 DEF WellChosen
<1>2. ASSUME NEW r, AttemptFailed(r) PROVE WellChosen'
  BY <1>2, AttemptFailedAgain
<1>3. CASE Abort
  BY <1>3, ReturnPc DEF Abort, WellChosen
<1> QED
  BY <1>1, <1>2, <1>3 DEF LoadKey

LEMMA SessionOfChoice == ASSUME IInv, WellChosen, Auth PROVE WellChosen'
<1>1. CASE Authenticated
  <2>1. CASE call.op = "authenticate"
    BY <1>1, <2>1, ReturnPc DEF Authenticated, WellChosen
  <2>2. CASE call.op # "authenticate"
    <3>1. /\ UNCHANGED <<keys, mem>> /\ lastAuth'.kt = ChosenKey.kt
          /\ Continue([call EXCEPT !.pc = IF call.purpose = "Read" THEN "read" ELSE "write"])
      BY <1>1, <2>2 DEF Authenticated, NoteSession
    <3>2. /\ call'.pc \in {"read", "write"} /\ call'.sector = call.sector
          /\ call'.purpose = call.purpose /\ call'.attempt = call.attempt
      BY <3>1 DEF Continue, IInv, TypeOK, ProgressType, CallType
    <3>3. call.pc = "auth"
      BY DEF Auth
    <3>4. OneMay' => MayDo(lastAuth.kt)'
      BY <3>1, <3>2, <3>3 DEF WellChosen, OneMay, MayDo, IsMultiKey
    <3> QED
      BY <3>2, <3>4 DEF WellChosen
  <2> QED
    BY <2>1, <2>2
<1>2. ASSUME NEW r, AttemptFailed(r) PROVE WellChosen'
  BY <1>2, AttemptFailedAgain
<1>3. CASE Abort
  BY <1>3, ReturnPc DEF Abort, WellChosen
<1> QED
  BY <1>1, <1>2, <1>3 DEF Auth

LEMMA PageLeavesChoice ==
  ASSUME IInv, ReadSectorPage \/ ReadCardPage
  PROVE  WellChosen'
<1>1. NextBlock(call.block) \in Blocks /\ NextBlock(call.block) # 0
  <2>1. call.block \in Blocks
    BY DEF IInv, TypeOK, ProgressType, CallType
  <2>2. NextBlock(call.block) # 0
    BY <2>1, SizeAssumption DEF NextBlock, Blocks, DataBlocks
  <2> QED
    BY <2>1, <2>2, NextBlockType
<1>2. CASE ReadSectorPage
  <2>1. PICK reply \in Answers :
          /\ Read({"readSector"}, reply)
          /\ IF call.block = 3
               THEN Return(IF AllOk(reply) THEN "ok" ELSE "partial")
               ELSE Continue([call EXCEPT !.block = NextBlock(@), !.allOk = AllOk(reply)])
    BY <1>2 DEF ReadSectorPage
  <2>2. CASE call.block = 3
    BY <2>1, <2>2, ReturnPc DEF WellChosen
  <2>3. CASE call.block # 3
    <3>1. call'.block = NextBlock(call.block) /\ call'.pc = "read"
      BY <2>1, <2>3 DEF Continue, Read, Page, IInv, TypeOK, ProgressType, CallType
    <3> QED
      BY <1>1, <3>1 DEF WellChosen
  <2> QED
    BY <2>2, <2>3
<1>3. CASE ReadCardPage
  <2>1. PICK reply \in Answers : Read({"readCard"}, reply)
    BY <1>3 DEF ReadCardPage
  <2>2. CASE Continue([call EXCEPT !.block = NextBlock(@)])
    <3>1. call'.block = NextBlock(call.block) /\ call'.pc = "read"
      BY <2>1, <2>2 DEF Continue, Read, Page, IInv, TypeOK, ProgressType, CallType
    <3> QED
      BY <1>1, <3>1 DEF WellChosen
  <2>3. ASSUME NEW image, AdvanceReadCard(image) PROVE WellChosen'
    BY <2>3, ReturnPc, NextSectorPc DEF AdvanceReadCard, WellChosen
  <2> QED
    BY <1>3, <2>2, <2>3 DEF ReadCardPage
<1> QED
  BY <1>2, <1>3

LEMMA ChoiceStep == ASSUME IInv, WellChosen, [Next]_vars PROVE WellChosen'
<1>1. CASE KeySettings
  <2>1. call.pc = "idle" /\ call' = call
    BY <1>1 DEF KeySettings, SetDefaultKey, AddKeyReplace, AddKeyPush, SetKeys, ClearKeys, KeyCall
  <2> QED
    BY <2>1 DEF WellChosen
<1>2. CASE Start
  <2>1. call'.pc \in {"ensure", "idle", "loadSlot"}
    BY <1>2, StartPc
  <2> QED
    BY <2>1 DEF WellChosen
<1>3. CASE EnsureAuthHit
  BY <1>3, AuthGaveUpPc DEF EnsureAuthHit, WellChosen
<1>4. CASE EnsureAuthChoose
  BY <1>4, ChooseChoosesWell
<1>5. CASE LoadKey
  BY <1>5, LoadKeepsChoice
<1>6. CASE Auth
  BY <1>6, SessionOfChoice
<1>7. CASE LoadKeySlot
  <2>1. CASE Continue([call EXCEPT !.pc = "authSlot"])
    BY <2>1 DEF Continue, WellChosen, IInv, TypeOK, ProgressType, CallType
  <2>2. CASE Return("thrown")
    BY <2>2, ReturnPc DEF WellChosen
  <2> QED
    BY <1>7, <2>1, <2>2 DEF LoadKeySlot
<1>8. CASE AuthSlot
  BY <1>8, ReturnPc DEF AuthSlot, WellChosen
<1>9. CASE ReadBlockPage \/ ReadTrailerPage
  BY <1>9, ReturnPc DEF ReadBlockPage, ReadTrailerPage, WellChosen
<1>10. CASE ReadSectorPage \/ ReadCardPage
  BY <1>10, PageLeavesChoice
<1>11. CASE ReadTrailerForConfig
  BY <1>11, ReturnPc DEF ReadTrailerForConfig, WellChosen, IInv, TypeOK, ProgressType, CallType
<1>12. CASE ReadTrailerForBackup
  <2>1. PICK t : PushSaved(t)
    BY <1>12 DEF ReadTrailerForBackup
  <2> QED
    BY <2>1, ReturnPc, NextSectorPc DEF PushSaved, WellChosen
<1>13. CASE WriteBlockPage \/ WriteTrailerPage
  BY <1>13, ReturnPc DEF WriteBlockPage, WriteTrailerPage, WellChosen
<1>14. CASE RestoreTrailerPage
  BY <1>14, ReturnPc, NextSectorPc DEF RestoreTrailerPage, AdvanceRestore, WellChosen
<1>15. CASE ReadAborted \/ WriteAborted
  BY <1>15, ReturnPc DEF ReadAborted, WriteAborted, Abort, WellChosen
<1>16. CASE CardReset \/ UNCHANGED vars
  BY <1>16 DEF CardReset, vars, host, device, reader, WellChosen, OneMay, MayDo, IsMultiKey, ChosenKey
<1> QED
  BY <1>1, <1>2, <1>3, <1>4, <1>5, <1>6, <1>7, <1>8, <1>9, <1>10, <1>11, <1>12, <1>13,
     <1>14, <1>15, <1>16 DEF Next, Progress

(* For any keys, card and access bits: when the image's access bits are    *)
(* the card's and one of several keys may do to block 0 what the call is   *)
(* for, the first session is opened with one that may (chooseKey).         *)
THEOREM ChosenKeyServesBlock0 == Spec => []KeyChoiceServesBlock0
<1>1. Init => WellChosen
  BY IdleType DEF Init, WellChosen
<1>2. IInv /\ WellChosen /\ [Next]_vars => WellChosen'
  BY ChoiceStep
<1>3. WellChosen => KeyChoiceServesBlock0
  <2> SUFFICES ASSUME WellChosen, call.block = 0, call.pc \in {"read", "write"},
                      IsMultiKey, call.attempt = 1,
                      mem[call.sector].trailer.access = card[call.sector].trailer.access,
                      \E i \in DOMAIN keys : keys[i].kt \in OpenKeys(call.sector, 0, call.purpose)
               PROVE  lastAuth.kt \in OpenKeys(call.sector, 0, call.purpose)
    BY DEF KeyChoiceServesBlock0, KeyServes
  <2>1. \A kt : kt \in OpenKeys(call.sector, 0, call.purpose) <=> MayDo(kt)
    BY DEF OpenKeys, MayDo
  <2> QED
    BY <2>1 DEF WellChosen, OneMay
<1> QED
  BY <1>1, <1>2, <1>3, InductiveInvariant, PTL DEF Spec
=============================================================================
