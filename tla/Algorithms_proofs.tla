-------------------------- MODULE Algorithms_proofs --------------------------
(***************************************************************************)
(* AccessControl and Algorithms, the parts of the program that are about   *)
(* data, and what they are built from.                                     *)
(*                                                                         *)
(* Of AccessControl: the codec of the access bytes, the sector arithmetic, *)
(* and the edits of an image that may hold any bytes.  Each edit encodes a *)
(* configuration, so what the codec's theorems say of an encoding holds of *)
(* the sector edited last.                                                 *)
(*                                                                         *)
(* Of Algorithms: the byte ciphers, the numbers and settings in a DESFire  *)
(* command, the virtual blocks of a file, the verdicts on a status word    *)
(* and secured exchanges, each for every input, and with them the          *)
(* properties of Algorithms.  A recursive definition is proved about by    *)
(* induction over its argument, first that there is a function it defines. *)
(***************************************************************************)
EXTENDS AccessControl, Algorithms, WellFoundedInduction, SequenceTheorems, TLAPS

-----------------------------------------------------------------------------
(* The codec is a bijection between the 2^12 configurations and the byte   *)
(* triples whose inverted copies agree.                                    *)

(* AccessBitsCodec::encode produces three bytes.                           *)
LEMMA EncodeType ==
  ASSUME NEW cfg \in Config
  PROVE  Encode(cfg) \in AccessBytes
<1>1. \A i \in 0..7 : i < 4 => i \in 0..3
  OBVIOUS
<1>2. \A i \in 0..7 : ~(i < 4) => i - 4 \in 0..3
  OBVIOUS
<1>3. \A i \in 0..3 : cfg[i] \in Condition
  BY DEF Config
<1> QED
  BY <1>1, <1>2, <1>3 DEF Encode, AccessBytes, Byte, Condition

(* TrailerConfig::isValid encodes and verifies: it holds of every           *)
(* configuration, so that the tests of isValid() in CardIO::writeTrailer    *)
(* and restoreAllTrailers never refuse one.                                 *)
THEOREM EncodeVerifies ==
  ASSUME NEW cfg \in Config
  PROVE  Verify(Encode(cfg))
<1> SUFFICES ASSUME NEW i \in 0..3
             PROVE  /\ Encode(cfg).b7[4 + i] # Encode(cfg).b6[i]
                    /\ Encode(cfg).b8[i]     # Encode(cfg).b6[4 + i]
                    /\ Encode(cfg).b8[4 + i] # Encode(cfg).b7[i]
  BY DEF Verify
<1>1. /\ i \in 0..7 /\ 4 + i \in 0..7 /\ i < 4 /\ ~(4 + i < 4) /\ (4 + i) - 4 = i
  OBVIOUS
<1>2. cfg[i].c1 \in BOOLEAN /\ cfg[i].c2 \in BOOLEAN /\ cfg[i].c3 \in BOOLEAN
  BY DEF Config, Condition
<1>3. /\ Encode(cfg).b6[i] = ~cfg[i].c1 /\ Encode(cfg).b6[4 + i] = ~cfg[i].c2
      /\ Encode(cfg).b7[i] = ~cfg[i].c3 /\ Encode(cfg).b7[4 + i] = cfg[i].c1
      /\ Encode(cfg).b8[i] = cfg[i].c2  /\ Encode(cfg).b8[4 + i] = cfg[i].c3
  BY <1>1 DEF Encode
<1> QED
  BY <1>2, <1>3

(* A configuration survives the way to the card and back: what decode      *)
(* finds in the bytes encode wrote is the configuration itself.            *)
THEOREM DecodeEncode ==
  ASSUME NEW cfg \in Config
  PROVE  Decode(Encode(cfg)) = cfg
<1>1. \A i \in 0..3 : cfg[i] = [c1 |-> cfg[i].c1, c2 |-> cfg[i].c2, c3 |-> cfg[i].c3]
  BY DEF Config, Condition
<1>2. \A i \in 0..3 : /\ i \in 0..7 /\ 4 + i \in 0..7 /\ i < 4
                      /\ ~(4 + i < 4) /\ (4 + i) - 4 = i
  OBVIOUS
<1>3. \A i \in 0..3 : /\ Encode(cfg).b7[4 + i] = cfg[i].c1
                      /\ Encode(cfg).b8[i] = cfg[i].c2
                      /\ Encode(cfg).b8[4 + i] = cfg[i].c3
  BY <1>2 DEF Encode
<1>4. Decode(Encode(cfg)) = [i \in 0..3 |-> cfg[i]]
  BY <1>1, <1>3 DEF Decode
<1> QED
  BY <1>4 DEF Config

(* Bytes that verify are the encoding of what they decode to: the three    *)
(* bytes carry no other information, so that reading a sound trailer and   *)
(* writing it back leaves its access bytes as they were.                   *)
THEOREM EncodeDecode ==
  ASSUME NEW ab \in AccessBytes, Verify(ab)
  PROVE  Encode(Decode(ab)) = ab
<1>1. /\ ab = [b6 |-> ab.b6, b7 |-> ab.b7, b8 |-> ab.b8]
      /\ ab.b6 \in Byte /\ ab.b7 \in Byte /\ ab.b8 \in Byte
  BY DEF AccessBytes
<1>2. \A i \in 0..7 : ab.b6[i] \in BOOLEAN /\ ab.b7[i] \in BOOLEAN /\ ab.b8[i] \in BOOLEAN
  BY <1>1 DEF Byte
<1>3. \A i \in 0..3 : /\ Decode(ab)[i].c1 = ab.b7[4 + i]
                      /\ Decode(ab)[i].c2 = ab.b8[i]
                      /\ Decode(ab)[i].c3 = ab.b8[4 + i]
  BY DEF Decode
<1>4. \A i \in 0..3 : /\ (~ab.b7[4 + i]) = ab.b6[i]
                      /\ (~ab.b8[i]) = ab.b6[4 + i]
                      /\ (~ab.b8[4 + i]) = ab.b7[i]
  <2> SUFFICES ASSUME NEW i \in 0..3
               PROVE  /\ (~ab.b7[4 + i]) = ab.b6[i]
                      /\ (~ab.b8[i]) = ab.b6[4 + i]
                      /\ (~ab.b8[4 + i]) = ab.b7[i]
    OBVIOUS
  <2>1. i \in 0..7 /\ 4 + i \in 0..7
    OBVIOUS
  <2>2. /\ ab.b7[4 + i] # ab.b6[i]
        /\ ab.b8[i] # ab.b6[4 + i]
        /\ ab.b8[4 + i] # ab.b7[i]
    BY DEF Verify
  <2> QED
    BY <1>2, <2>1, <2>2
<1>5. \A i \in 0..7 : i < 4 => i \in 0..3
  OBVIOUS
<1>6. \A i \in 0..7 : ~(i < 4) => i - 4 \in 0..3 /\ 4 + (i - 4) = i
  OBVIOUS
<1>7. Encode(Decode(ab)).b6 = ab.b6
  BY <1>1, <1>3, <1>4, <1>5, <1>6 DEF Encode, Byte
<1>8. Encode(Decode(ab)).b7 = ab.b7
  BY <1>1, <1>3, <1>4, <1>5, <1>6 DEF Encode, Byte
<1>9. Encode(Decode(ab)).b8 = ab.b8
  BY <1>1, <1>3, <1>4, <1>5, <1>6 DEF Encode, Byte
<1> QED
  BY <1>1, <1>7, <1>8, <1>9 DEF Encode

-----------------------------------------------------------------------------
(* The sector arithmetic for every block, without the card's size: the     *)
(* formulas hold of each natural number, and SectorBounds adds the sizes.  *)

(* Every block of a Classic card lies between the first and the last block *)
(* of the sector it is assigned to.                                        *)
THEOREM BlockInSectorBounds ==
  ASSUME NEW ct \in Classic, NEW b \in Nat
  PROVE  LET s == SectorFromBlock(ct, b)
         IN  /\ s \in Nat
             /\ FirstBlockOfSector(ct, s) <= b
             /\ b <= LastBlockOfSector(ct, s)
<1>1. CASE ct = "1K"
  BY <1>1 DEF SectorFromBlock, FirstBlockOfSector, LastBlockOfSector, BlocksPerSector
<1>2. CASE ct = "4K" /\ b < 128
  BY <1>2 DEF SectorFromBlock, FirstBlockOfSector, LastBlockOfSector, BlocksPerSector
<1>3. CASE ct = "4K" /\ ~(b < 128)
  BY <1>3 DEF SectorFromBlock, FirstBlockOfSector, LastBlockOfSector, BlocksPerSector
<1> QED
  BY <1>1, <1>2, <1>3 DEF Classic

(* A valid block has a valid sector.                                       *)
THEOREM SectorBounds ==
  ASSUME NEW ct \in Classic, NEW b \in ValidBlocks(ct)
  PROVE  SectorFromBlock(ct, b) \in ValidSectors(ct)
<1>1. CASE ct = "1K"
  BY <1>1 DEF SectorFromBlock, ValidBlocks, ValidSectors, TotalBlocks, SectorCount
<1>2. CASE ct = "4K"
  BY <1>2 DEF SectorFromBlock, ValidBlocks, ValidSectors, TotalBlocks, SectorCount
<1> QED
  BY <1>1, <1>2 DEF Classic

(* The blocks readSector and readCard iterate over, first to first + count *)
(* - 1, all belong to the sector asked for, and its trailer is the last.   *)
THEOREM SectorOfItsBlocks ==
  ASSUME NEW ct \in Classic, NEW s \in Nat,
         NEW i \in 0..(BlocksPerSector(ct, s) - 1)
  PROVE  LET b == FirstBlockOfSector(ct, s) + i
         IN  /\ SectorFromBlock(ct, b) = s
             /\ BlockIndexInSector(ct, b) = i
             /\ IsTrailerBlock(ct, b) <=> i = BlocksPerSector(ct, s) - 1
<1> DEFINE b == FirstBlockOfSector(ct, s) + i
<1>1. BlocksPerSector(ct, s) \in Nat /\ FirstBlockOfSector(ct, s) \in Nat /\ b \in Nat
  BY DEF BlocksPerSector, FirstBlockOfSector, Classic
<1>2. SectorFromBlock(ct, b) = s
  <2>1. CASE ct = "1K"
    BY <2>1 DEF SectorFromBlock, FirstBlockOfSector, BlocksPerSector
  <2>2. CASE ct = "4K" /\ s < 32
    BY <2>2 DEF SectorFromBlock, FirstBlockOfSector, BlocksPerSector
  <2>3. CASE ct = "4K" /\ ~(s < 32)
    BY <2>3 DEF SectorFromBlock, FirstBlockOfSector, BlocksPerSector
  <2> QED
    BY <2>1, <2>2, <2>3 DEF Classic
<1>3. BlockIndexInSector(ct, b) = i
  BY <1>1, <1>2 DEF BlockIndexInSector
<1>4. IsTrailerBlock(ct, b) <=> i = BlocksPerSector(ct, s) - 1
  BY <1>1, <1>2 DEF IsTrailerBlock, TrailerBlockOfSector, LastBlockOfSector
<1> QED
  BY <1>2, <1>3, <1>4

(* AccessControl's private copies of the arithmetic give the topology's    *)
(* answers, so that a permission is looked up in the sector the block is   *)
(* read from.                                                              *)
THEOREM CopiesAgree ==
  ASSUME NEW ct \in Classic, NEW b \in Nat
  PROVE  /\ SectorOf(b, ct = "4K") = SectorFromBlock(ct, b)
         /\ BlockInSector(b, ct = "4K") = BlockIndexInSector(ct, b)
<1>1. CASE ct = "1K"
  BY <1>1 DEF SectorOf, SectorFromBlock, BlockInSector, BlockIndexInSector, FirstBlockOfSector
<1>2. CASE ct = "4K" /\ b < 128
  BY <1>2 DEF SectorOf, SectorFromBlock, BlockInSector, BlockIndexInSector, FirstBlockOfSector
<1>3. CASE ct = "4K" /\ ~(b < 128)
  BY <1>3 DEF SectorOf, SectorFromBlock, BlockInSector, BlockIndexInSector, FirstBlockOfSector
<1> QED
  BY <1>1, <1>2, <1>3 DEF Classic

(* The sector view of the memory union names the same bytes as the block   *)
(* view: a trailer found by sector lies where the topology's block does.   *)
THEOREM ViewsAgree ==
  ASSUME NEW ct \in Classic, NEW s \in Nat
  PROVE  TrailerOffset(ct, s) = 16 * TrailerBlockOfSector(ct, s)
BY DEF Classic, TrailerOffset, TrailerBlockOfSector, LastBlockOfSector,
       FirstBlockOfSector, BlocksPerSector

-----------------------------------------------------------------------------
(* The edits.                                                              *)

LEMMA CondType == \A i \in 0..7 : Cond(i) \in Condition
  BY DEF Cond, Condition

(* A condition is the number of the row it was made from. *)
LEMMA RowOfCond ==
  ASSUME NEW i \in 0..7
  PROVE  ToIndex(Cond(i)) = i
<1>1. /\ Cond(i).c1 <=> i \div 4 = 1
      /\ Cond(i).c2 <=> (i \div 2) % 2 = 1
      /\ Cond(i).c3 <=> i % 2 = 1
  BY DEF Cond
<1>2. /\ (i \div 4 = 1) <=> (i >= 4)
      /\ ((i \div 2) % 2 = 1) <=> (i \in {2, 3, 6, 7})
      /\ (i % 2 = 1) <=> (i \in {1, 3, 5, 7})
  BY SMT
<1> QED
  BY <1>1, <1>2 DEF ToIndex

(* Decoding any three bytes gives a configuration. *)
LEMMA DecodeType ==
  ASSUME NEW ab \in AccessBytes
  PROVE  Decode(ab) \in Config
<1>1. \A i \in 0..3 : i \in 0..7 /\ 4 + i \in 0..7
  OBVIOUS
<1>2. \A i \in 0..7 : ab.b7[i] \in BOOLEAN /\ ab.b8[i] \in BOOLEAN
  BY DEF AccessBytes, Byte
<1> QED
  BY <1>1, <1>2 DEF Decode, Config, Condition

LEMMA ConditionsFor ==
  ASSUME NEW req \in Request
  PROVE  DataConditionFor(req) \in Condition /\ TrailerConditionFor(req) \in Condition
<1>1. req.write \in {{}, {"A"}, {"B"}, KeyTypes}
  BY DEF Request, KeyTypes
<1>2. DataConditionFor(req) \in {Cond(4), Cond(2), Cond(3), Cond(7), Cond(0)}
  BY DEF DataConditionFor
<1>3. TrailerConditionFor(req) \in {Cond(3), Cond(6), Cond(1)}
  BY <1>1 DEF TrailerConditionFor
<1> QED
  BY <1>2, <1>3, CondType

LEMMA ModeConfigs ==
  ASSUME NEW mode \in StandardModes
  PROVE  SectorModeToConfig(SectorModeFor(mode)) \in Config
<1>1. SectorModeFor(mode) \in {"READ_AB_WRITE_B", "READ_ONLY_AB", "TRANSPORT"}
  BY DEF SectorModeFor, StandardModes
<1>2. SectorModeToConfig(SectorModeFor(mode)) \in {Uniform(4, 4), Uniform(2, 2), Uniform(0, 1)}
  BY <1>1 DEF SectorModeToConfig
<1>3. \A d, t \in 0..7 : Uniform(d, t) \in Config
  BY CondType DEF Uniform, Config
<1> QED
  BY <1>2, <1>3

(* What the three edits write. *)
DataConfig(s, req) == [i \in 0..3 |-> IF i < 3 THEN DataConditionFor(req) ELSE SectorConfig(s)[3]]
TrailerConfig(s, req) == [SectorConfig(s) EXCEPT ![3] = TrailerConditionFor(req)]

LEMMA EditedConfigs ==
  ASSUME TypeOK, NEW s \in Sectors, NEW req \in Request
  PROVE  DataConfig(s, req) \in Config /\ TrailerConfig(s, req) \in Config
<1>1. SectorConfig(s) \in Config
  BY DecodeType DEF TypeOK, SectorConfig
<1> QED
  BY <1>1, ConditionsFor DEF DataConfig, TrailerConfig, Config

(* Every step is an edit of one sector, a load, or a stutter. *)
Edit(op, s, req, mode, cfg) ==
  /\ s \in Sectors /\ req \in Request /\ mode \in StandardModes /\ cfg \in Config
  /\ WriteAccessBits(op, s, req, mode, cfg)

LEMMA StepCases ==
  ASSUME TypeOK, [Next]_vars
  PROVE  \/ \E s, req : Edit("data", s, req, "MODE_0", DataConfig(s, req))
         \/ \E s, req : Edit("trailer", s, req, "MODE_0", TrailerConfig(s, req))
         \/ \E s, mode, cfg : Edit("mode", s, NoRequest, mode, cfg)
         \/ \E ab \in [Sectors -> LoadedBytes] : LoadMemory(ab)
         \/ UNCHANGED vars
<1>1. ASSUME NEW s \in Sectors, NEW req \in Request, SetDataBlockPermissions(s, req)
      PROVE  Edit("data", s, req, "MODE_0", DataConfig(s, req))
  BY <1>1, EditedConfigs DEF SetDataBlockPermissions, Edit, DataConfig, StandardModes
<1>2. ASSUME NEW s \in Sectors, NEW req \in Request, SetTrailerPermissions(s, req)
      PROVE  Edit("trailer", s, req, "MODE_0", TrailerConfig(s, req))
  BY <1>2, EditedConfigs DEF SetTrailerPermissions, Edit, TrailerConfig, StandardModes
<1>3. ASSUME NEW s \in Sectors, NEW mode \in StandardModes, ApplySectorMode(s, mode)
      PROVE  Edit("mode", s, NoRequest, mode, SectorModeToConfig(SectorModeFor(mode)))
  BY <1>3, ModeConfigs DEF ApplySectorMode, Edit, NoRequest, Request
<1> QED
  BY <1>1, <1>2, <1>3 DEF Next

LEMMA EditType ==
  ASSUME TypeOK, NEW op \in {"data", "trailer", "mode"}, NEW s, NEW req, NEW mode, NEW cfg,
         Edit(op, s, req, mode, cfg)
  PROVE  /\ TypeOK'
         /\ bits'[s] = Encode(cfg)
         /\ did' = [op |-> op, sector |-> s, request |-> req, mode |-> mode]
         /\ \A x \in Sectors \ {s} : bits'[x] = bits[x]
  BY EncodeType DEF TypeOK, Edit, WriteAccessBits

LEMMA LoadType ==
  ASSUME NEW ab \in [Sectors -> LoadedBytes], LoadMemory(ab)
  PROVE  TypeOK' /\ did'.op = "load"
<1>1. (CHOOSE s \in Sectors : TRUE) \in Sectors
  BY SectorAssumption
<1> QED
  BY <1>1, LoadAssumption DEF LoadMemory, TypeOK, NoRequest, Request, StandardModes

(* The image's access bytes are three bytes a sector and the record of the *)
(* last operation is one, whatever is loaded and edited.                   *)
THEOREM TypeCorrect == Spec => []TypeOK
<1>1. Init => TypeOK
  <2>1. (CHOOSE s \in Sectors : TRUE) \in Sectors
    BY SectorAssumption
  <2> QED
    BY <2>1, LoadAssumption DEF Init, TypeOK, NoRequest, Request, StandardModes
<1>2. TypeOK /\ [Next]_vars => TypeOK'
  <2> SUFFICES ASSUME TypeOK, [Next]_vars PROVE TypeOK'
    OBVIOUS
  <2>1. CASE UNCHANGED vars
    BY <2>1 DEF vars, TypeOK
  <2> QED
    BY <2>1, StepCases, EditType, LoadType
<1> QED
  BY <1>1, <1>2, PTL DEF Spec

(* The conditions that an edit of each kind decodes to. *)
LEMMA EditDecoded ==
  ASSUME TypeOK, NEW op \in {"data", "trailer", "mode"}, NEW s, NEW req, NEW mode, NEW cfg,
         Edit(op, s, req, mode, cfg)
  PROVE  SectorConfig(s)' = cfg /\ Verify(bits'[s])
<1>1. cfg \in Config
  BY DEF Edit
<1> QED
  BY <1>1, EditType, DecodeEncode, EncodeVerifies DEF SectorConfig

(* Whatever bytes an image held, no sequence of edits leaves the sector    *)
(* that was edited with inverted copies that disagree.                     *)
THEOREM EditsRepaired == Spec => []EditsRepair
<1>1. Init => EditsRepair
  BY DEF Init, EditsRepair
<1>2. TypeOK /\ EditsRepair /\ [Next]_vars => EditsRepair'
  <2> SUFFICES ASSUME TypeOK, EditsRepair, [Next]_vars PROVE EditsRepair'
    OBVIOUS
  <2>1. CASE UNCHANGED vars
    BY <2>1 DEF vars, EditsRepair
  <2>2. ASSUME NEW ab \in [Sectors -> LoadedBytes], LoadMemory(ab) PROVE EditsRepair'
    BY <2>2, LoadType DEF EditsRepair
  <2>3. ASSUME NEW op \in {"data", "trailer", "mode"}, NEW s, NEW req, NEW mode, NEW cfg,
               Edit(op, s, req, mode, cfg)
        PROVE  EditsRepair'
    BY <2>3, EditType, EditDecoded DEF EditsRepair
  <2> QED
    BY <2>1, <2>2, <2>3, StepCases
<1> QED
  BY <1>1, <1>2, TypeCorrect, PTL DEF Spec

(* An edit of the data permissions keeps the trailer's condition, one of   *)
(* the trailer's keeps the data conditions, and none reaches another       *)
(* sector: decoding and encoding all three bytes loses nothing.            *)
THEOREM EditsStayLocal == Spec => EditsAreLocal
<1> DEFINE Local == LET old == SectorConfig(did'.sector)
                        new == Decode(bits'[did'.sector])
                    IN  did'.op # "load" =>
                          /\ did'.op = "data" => new[3] = old[3]
                          /\ did'.op = "trailer" => \A i \in 0..2 : new[i] = old[i]
                          /\ \A s \in Sectors \ {did'.sector} : bits'[s] = bits[s]
<1>1. TypeOK /\ [Next]_vars => [Local]_vars
  <2> SUFFICES ASSUME TypeOK, [Next]_vars PROVE [Local]_vars
    OBVIOUS
  <2>1. CASE UNCHANGED vars
    BY <2>1
  <2>2. ASSUME NEW ab \in [Sectors -> LoadedBytes], LoadMemory(ab) PROVE Local
    BY <2>2, LoadType
  <2>3. ASSUME NEW s, NEW req, Edit("data", s, req, "MODE_0", DataConfig(s, req)) PROVE Local
    <3>1. DataConfig(s, req)[3] = SectorConfig(s)[3]
      BY DEF DataConfig
    <3> QED
      BY <2>3, <3>1, EditType, EditDecoded DEF SectorConfig
  <2>4. ASSUME NEW s, NEW req, Edit("trailer", s, req, "MODE_0", TrailerConfig(s, req)) PROVE Local
    <3>1. s \in Sectors
      BY <2>4 DEF Edit
    <3>2. \A i \in 0..2 : TrailerConfig(s, req)[i] = SectorConfig(s)[i]
      BY <3>1, DecodeType DEF TrailerConfig, SectorConfig, TypeOK, Config
    <3> QED
      BY <2>4, <3>2, EditType, EditDecoded DEF SectorConfig
  <2>5. ASSUME NEW s, NEW mode, NEW cfg, Edit("mode", s, NoRequest, mode, cfg) PROVE Local
    BY <2>5, EditType
  <2> QED
    BY <2>1, <2>2, <2>3, <2>4, <2>5, StepCases
<1>2. EditsAreLocal <=> [][Local]_vars
  BY DEF EditsAreLocal
<1> HIDE DEF Local
<1> QED
  BY <1>1, <1>2, TypeCorrect, PTL DEF Spec

(* The row that is chosen for the trailer lets no key write any part of it *)
(* that the request does not name as a writer.                             *)
LEMMA TrailerRow ==
  ASSUME NEW req \in Request
  PROVE  TrailerWriters(TrailerConditionFor(req)) \subseteq req.write
<1>1. /\ ToIndex(Cond(3)) = 3 /\ ToIndex(Cond(6)) = 6 /\ ToIndex(Cond(1)) = 1
  BY RowOfCond
<1>2. /\ TrailerWriters(Cond(3)) \subseteq {"B"}
      /\ TrailerWriters(Cond(6)) = {}
      /\ TrailerWriters(Cond(1)) \subseteq {"A"}
  BY <1>1 DEF TrailerWriters, AccessWrite, KeyAWrite, KeyBWrite, KeyTypes
<1>3. req.write \in {{}, {"A"}, {"B"}, KeyTypes}
  BY DEF Request, KeyTypes
<1>4. CASE req.write = {"B"}
  BY <1>2, <1>4 DEF TrailerConditionFor, KeyTypes
<1>5. CASE req.write = {}
  BY <1>2, <1>5 DEF TrailerConditionFor, KeyTypes
<1>6. CASE req.write \in {{"A"}, KeyTypes}
  <2>1. TrailerConditionFor(req) = Cond(1)
    BY <1>6 DEF TrailerConditionFor, KeyTypes
  <2> QED
    BY <2>1, <1>2, <1>6 DEF KeyTypes
<1> QED
  BY <1>3, <1>4, <1>5, <1>6

(* After setTrailerPermissions no key may write a part of the trailer that *)
(* was not asked for as a writer, in any sector and after any history.     *)
THEOREM TrailerGrantsNothingMore == Spec => []TrailerGrantsNoMore
<1>1. Init => TrailerGrantsNoMore
  BY DEF Init, TrailerGrantsNoMore
<1>2. TypeOK /\ TrailerGrantsNoMore /\ [Next]_vars => TrailerGrantsNoMore'
  <2> SUFFICES ASSUME TypeOK, TrailerGrantsNoMore, [Next]_vars PROVE TrailerGrantsNoMore'
    OBVIOUS
  <2>1. CASE UNCHANGED vars
    BY <2>1 DEF vars, TrailerGrantsNoMore, SectorConfig
  <2>2. ASSUME NEW ab \in [Sectors -> LoadedBytes], LoadMemory(ab) PROVE TrailerGrantsNoMore'
    BY <2>2, LoadType DEF TrailerGrantsNoMore
  <2>3. ASSUME NEW s, NEW req, Edit("trailer", s, req, "MODE_0", TrailerConfig(s, req))
        PROVE  TrailerGrantsNoMore'
    <3>1. s \in Sectors /\ req \in Request
      BY <2>3 DEF Edit
    <3>2. TrailerConfig(s, req)[3] = TrailerConditionFor(req)
      BY <3>1, DecodeType DEF TrailerConfig, SectorConfig, TypeOK, Config
    <3>3. SectorConfig(s)' = TrailerConfig(s, req)
      BY <2>3, EditDecoded
    <3>4. did' = [op |-> "trailer", sector |-> s, request |-> req, mode |-> "MODE_0"]
      BY <2>3, EditType
    <3> QED
      BY <3>1, <3>2, <3>3, <3>4, TrailerRow DEF TrailerGrantsNoMore
  <2>4. ASSUME NEW op \in {"data", "mode"}, NEW s, NEW req, NEW mode, NEW cfg, Edit(op, s, req, mode, cfg)
        PROVE  TrailerGrantsNoMore'
    BY <2>4, EditType DEF TrailerGrantsNoMore
  <2> QED
    BY <2>1, <2>2, <2>3, <2>4, StepCases
<1> QED
  BY <1>1, <1>2, TypeCorrect, PTL DEF Spec

(* The rows of the data block's table that a request can name.             *)
LEMMA DataRow ==
  ASSUME NEW req \in Request, Representable(req)
  PROVE  /\ DataRead(DataConditionFor(req)) = req.read
         /\ DataWrite(DataConditionFor(req)) = req.write
<1>1. /\ ToIndex(Cond(0)) = 0 /\ ToIndex(Cond(2)) = 2 /\ ToIndex(Cond(3)) = 3
      /\ ToIndex(Cond(4)) = 4 /\ ToIndex(Cond(7)) = 7
  BY RowOfCond
<1>2. /\ DataRead(Cond(0)) = KeyTypes /\ DataWrite(Cond(0)) = KeyTypes
      /\ DataRead(Cond(4)) = KeyTypes /\ DataWrite(Cond(4)) = {"B"}
      /\ DataRead(Cond(2)) = KeyTypes /\ DataWrite(Cond(2)) = {}
      /\ DataRead(Cond(3)) = {"B"} /\ DataWrite(Cond(3)) = {"B"}
      /\ DataRead(Cond(7)) = {} /\ DataWrite(Cond(7)) = {}
  BY <1>1 DEF DataRead, DataWrite, KeyTypes
<1>3. KeyTypes # {"B"} /\ KeyTypes # {} /\ {"B"} # {}
  BY DEF KeyTypes
<1>4. CASE req.read = KeyTypes /\ req.write = KeyTypes
  <2>1. DataConditionFor(req) = Cond(0)
    BY <1>3, <1>4 DEF DataConditionFor
  <2> QED
    BY <2>1, <1>2, <1>4
<1>5. CASE req.read = KeyTypes /\ req.write = {"B"}
  <2>1. DataConditionFor(req) = Cond(4)
    BY <1>3, <1>5 DEF DataConditionFor
  <2> QED
    BY <2>1, <1>2, <1>5
<1>6. CASE req.read = KeyTypes /\ req.write = {}
  <2>1. DataConditionFor(req) = Cond(2)
    BY <1>3, <1>6 DEF DataConditionFor
  <2> QED
    BY <2>1, <1>2, <1>6
<1>7. CASE req.read = {"B"} /\ req.write = {"B"}
  <2>1. DataConditionFor(req) = Cond(3)
    BY <1>3, <1>7 DEF DataConditionFor
  <2> QED
    BY <2>1, <1>2, <1>7
<1>8. CASE req.read = {} /\ req.write = {}
  <2>1. DataConditionFor(req) = Cond(7)
    BY <1>3, <1>8 DEF DataConditionFor
  <2> QED
    BY <2>1, <1>2, <1>8
<1> QED
  BY <1>4, <1>5, <1>6, <1>7, <1>8 DEF Representable

(* A request that has a row is answered by the queries as it was asked,    *)
(* through the encoding and back.                                          *)
THEOREM RequestsHonoured == Spec => []RequestHonoured
<1>1. Init => RequestHonoured
  BY DEF Init, RequestHonoured
<1>2. TypeOK /\ RequestHonoured /\ [Next]_vars => RequestHonoured'
  <2> SUFFICES ASSUME TypeOK, RequestHonoured, [Next]_vars PROVE RequestHonoured'
    OBVIOUS
  <2>1. CASE UNCHANGED vars
    BY <2>1 DEF vars, RequestHonoured, Representable, CanReadDataBlock, CanWriteDataBlock, SectorConfig
  <2>2. ASSUME NEW ab \in [Sectors -> LoadedBytes], LoadMemory(ab) PROVE RequestHonoured'
    BY <2>2, LoadType DEF RequestHonoured
  <2>3. ASSUME NEW s, NEW req, Edit("data", s, req, "MODE_0", DataConfig(s, req))
        PROVE  RequestHonoured'
    <3>1. s \in Sectors /\ req \in Request
      BY <2>3 DEF Edit
    <3>2. DataConfig(s, req)[0] = DataConditionFor(req)
      BY DEF DataConfig
    <3>3. SectorConfig(s)' = DataConfig(s, req)
      BY <2>3, EditDecoded
    <3>4. did' = [op |-> "data", sector |-> s, request |-> req, mode |-> "MODE_0"]
      BY <2>3, EditType
    <3>5. Representable(did.request)' <=> Representable(req)
      BY <3>4 DEF Representable
    <3> QED
      BY <3>1, <3>2, <3>3, <3>4, <3>5, DataRow DEF RequestHonoured, CanReadDataBlock, CanWriteDataBlock
  <2>4. ASSUME NEW op \in {"trailer", "mode"}, NEW s, NEW req, NEW mode, NEW cfg, Edit(op, s, req, mode, cfg)
        PROVE  RequestHonoured'
    BY <2>4, EditType DEF RequestHonoured
  <2> QED
    BY <2>1, <2>2, <2>3, <2>4, StepCases
<1> QED
  BY <1>1, <1>2, TypeCorrect, PTL DEF Spec

(* The class's private arithmetic, at the i-th block of a sector, is the   *)
(* topology's: it finds the sector, the index, and whether it is the last. *)
LEMMA PrivateArithmetic ==
  ASSUME NEW s \in Sectors, NEW i \in 0..(BlocksPerSector(CardType, s) - 1)
  PROVE  LET b == FirstBlockOfSector(CardType, s) + i
         IN  /\ SectorOf(b, Is4K) = s
             /\ BlockInSector(b, Is4K) = i
             /\ LastOfItsSector(b) <=> i = BlocksPerSector(CardType, s) - 1
<1> DEFINE b == FirstBlockOfSector(CardType, s) + i
<1>1. s \in Nat
  BY SectorAssumption, CardAssumption DEF ValidSectors, SectorCount, Classic
<1>2. b \in Nat
  BY <1>1, CardAssumption DEF FirstBlockOfSector, BlocksPerSector, Classic
<1>3. SectorOf(b, Is4K) = s /\ BlockInSector(b, Is4K) = i
  <2>1. SectorFromBlock(CardType, b) = s /\ BlockIndexInSector(CardType, b) = i
    BY <1>1, CardAssumption, SectorOfItsBlocks
  <2> QED
    BY <2>1, <1>2, CardAssumption, CopiesAgree DEF Is4K
<1>4. BlocksPerSector(CardType, s) = IF Is4K /\ s >= 32 THEN 16 ELSE 4
  BY <1>1, CardAssumption DEF BlocksPerSector, Is4K, Classic
<1> QED
  BY <1>3, <1>4 DEF LastOfItsSector

(* The answers for a block agree with the sector's, in every state. *)
LEMMA BlockAnswers == BlockAnswersAgree
<1> SUFFICES ASSUME NEW s \in Sectors, NEW kt \in KeyTypes
             PROVE  LET first == FirstBlockOfSector(CardType, s)
                        last == TrailerBlockOfSector(CardType, s)
                    IN  /\ CanRead(first, kt) <=> CanReadDataBlock(s, kt)
                        /\ CanWrite(first, kt) <=> CanWriteDataBlock(s, kt)
                        /\ CanRead(last, kt) <=> CanReadTrailer(s, kt)
                        /\ CanWrite(last, kt) <=> CanWriteTrailer(s, kt)
                        /\ \A b \in first..(last - 1) :
                             \E i \in 0..2 :
                               CanRead(b, kt) <=> kt \in DataRead(SectorConfig(s)[i])
  BY DEF BlockAnswersAgree
<1> DEFINE first == FirstBlockOfSector(CardType, s)
           n == BlocksPerSector(CardType, s)
           last == TrailerBlockOfSector(CardType, s)
<1>1. s \in Nat
  BY SectorAssumption, CardAssumption DEF ValidSectors, SectorCount, Classic
<1>2. first \in Nat /\ n \in {4, 16} /\ last = first + (n - 1)
  BY <1>1, CardAssumption
  DEF FirstBlockOfSector, BlocksPerSector, TrailerBlockOfSector, LastBlockOfSector, Classic
<1>3. CanRead(first, kt) <=> CanReadDataBlock(s, kt)
  <2>1. SectorOf(first, Is4K) = s /\ BlockInSector(first, Is4K) = 0 /\ ~LastOfItsSector(first)
    BY <1>2, PrivateArithmetic, first + 0 = first
  <2> QED
    BY <2>1 DEF CanRead, CanReadDataBlock, DataIndex
<1>4. CanWrite(first, kt) <=> CanWriteDataBlock(s, kt)
  <2>1. SectorOf(first, Is4K) = s /\ BlockInSector(first, Is4K) = 0 /\ ~LastOfItsSector(first)
    BY <1>2, PrivateArithmetic, first + 0 = first
  <2> QED
    BY <2>1 DEF CanWrite, CanWriteDataBlock, DataIndex
<1>5. SectorOf(last, Is4K) = s /\ LastOfItsSector(last)
  BY <1>2, PrivateArithmetic
<1>6. CanRead(last, kt) <=> CanReadTrailer(s, kt)
  BY <1>5 DEF CanRead, CanReadTrailer
<1>7. CanWrite(last, kt) <=> CanWriteTrailer(s, kt)
  BY <1>5 DEF CanWrite, CanWriteTrailer
<1>8. ASSUME NEW b \in first..(last - 1)
      PROVE  \E i \in 0..2 : CanRead(b, kt) <=> kt \in DataRead(SectorConfig(s)[i])
  <2> DEFINE i == b - first
  <2>1. i \in 0..(n - 1) /\ b = first + i /\ i # n - 1
    BY <1>2
  <2>2. SectorOf(b, Is4K) = s /\ BlockInSector(b, Is4K) = i /\ ~LastOfItsSector(b)
    BY <2>1, PrivateArithmetic
  <2>3. DataIndex(b) \in 0..2
    BY <2>1, <2>2, <1>2 DEF DataIndex
  <2> QED
    BY <2>2, <2>3 DEF CanRead
<1> QED
  BY <1>3, <1>4, <1>6, <1>7, <1>8

(* The answers for a block of any card and any of its sectors agree with   *)
(* the sector's, whatever bytes were loaded and whatever was edited.       *)
THEOREM BlockAnswersCorrect == Spec => []BlockAnswersAgree
BY BlockAnswers, PTL

-----------------------------------------------------------------------------
(* Induction and sums                                                      *)

\* A set of numbers that holds 0 and the successor of each it holds is whole.
LEMMA Whole ==
  ASSUME NEW S, 0 \in S, \A n \in Nat : n \in S => n + 1 \in S
  PROVE  \A n \in Nat : n \in S
<1>. DEFINE Others == Nat \ S
<1>1. CASE Others # {}
  <2>1. PICK m \in Others : \A j \in Others : ~ (<<j, m>> \in OpToRel(<, Nat))
    <3>1. Others \subseteq Nat
      OBVIOUS
    <3>. HIDE DEF Others
    <3>. QED  BY <1>1, <3>1, WFMin, NatLessThanWellFounded
  <2>2. \A j \in Others : ~ (j < m)
    BY <2>1 DEF OpToRel
  <2>3. m # 0 /\ m - 1 \in Nat /\ m - 1 < m /\ (m - 1) + 1 = m
    OBVIOUS
  <2>4. m - 1 \in S
    BY <2>2, <2>3
  <2>5. m \in S
    BY <2>3, <2>4
  <2>. QED  BY <2>5
<1>. QED  BY <1>1

\* The sum of natural numbers is one.
LEMMA SumIsNat ==
  ASSUME NEW numbers, NEW N \in Nat, Len(numbers) = N, \A i \in 1 .. N : numbers[i] \in Nat
  PROVE  Sum(numbers) \in Nat
<1>. DEFINE Added(f, n) == IF n = 0 THEN 0 ELSE f[n - 1] + numbers[n]
            Upto(n, g) == g = [i \in 0 .. n |-> Added(g, i)]
            S == {n \in Nat : n <= N => \E g : Upto(n, g) /\ \A i \in 0 .. n : g[i] \in Nat}
<1>1. 0 \in S
  <2>. DEFINE g == [i \in 0 .. 0 |-> 0]
  <2>1. \A i \in 0 .. 0 : i = 0 /\ Added(g, i) = 0
    OBVIOUS
  <2>2. g = [i \in 0 .. 0 |-> Added(g, i)]
    BY <2>1
  <2>. QED  BY <2>2
<1>2. ASSUME NEW n \in Nat, n \in S PROVE n + 1 \in S
  <2>1. CASE n + 1 <= N
    <3>1. PICK g : Upto(n, g) /\ \A i \in 0 .. n : g[i] \in Nat
      BY <1>2, <2>1
    <3>. DEFINE h == [i \in 0 .. n + 1 |-> Added(g, i)]
    <3>2. \A i \in 0 .. n : h[i] = g[i]
      BY <3>1
    <3>3. \A i \in 0 .. n + 1 : i = 0 \/ i - 1 \in 0 .. n
      OBVIOUS
    <3>4. \A i \in 0 .. n + 1 : Added(g, i) = Added(h, i)
      <4>. HIDE DEF h
      <4>. QED  BY <3>2, <3>3
    <3>5. h = [i \in 0 .. n + 1 |-> Added(h, i)]
      BY <3>4, Zenon
    <3>6. \A i \in 0 .. n + 1 : h[i] \in Nat
      BY <2>1, <3>1, <3>3
    <3>7. \E f : Upto(n + 1, f) /\ \A i \in 0 .. n + 1 : f[i] \in Nat
      <4>. HIDE DEF h
      <4>. QED  BY ONLY <3>5, <3>6, Zenon
    <3>8. n + 1 \in Nat
      OBVIOUS
    <3>. QED  BY ONLY <3>7, <3>8, Zenon
  <2>. QED  BY <2>1
<1>3. \A n \in Nat : n \in S
  <2>. HIDE DEF S
  <2>. QED  BY <1>1, <1>2, Whole
<1>4. PICK g : Upto(N, g) /\ \A i \in 0 .. N : g[i] \in Nat
  BY <1>3
<1>. DEFINE sum == CHOOSE f : f = [n \in 0 .. N |-> Added(f, n)]
<1>5. sum = [n \in 0 .. N |-> Added(sum, n)]
  BY ONLY <1>4, Zenon
<1>6. Sum(numbers) = sum[N]
  BY ONLY Len(numbers) = N, Zenon DEF Sum
<1>. HIDE DEF sum
<1>7. \A n \in Nat : n <= N => sum[n] \in Nat
  <2>. DEFINE R == {n \in Nat : n <= N => sum[n] \in Nat}
  <2>1. 0 \in R
    BY <1>5
  <2>2. ASSUME NEW n \in Nat, n \in R PROVE n + 1 \in R
    <3>1. CASE n + 1 <= N
      <4>1. sum[n + 1] = sum[n] + numbers[n + 1]
        BY <1>5, <3>1
      <4>. QED  BY <2>2, <3>1, <4>1
    <3>. QED  BY <3>1
  <2>3. \A n \in Nat : n \in R
    <3>. HIDE DEF R
    <3>. QED  BY <2>1, <2>2, Whole
  <2>. QED  BY <2>3
<1>. QED  BY <1>6, <1>7

-----------------------------------------------------------------------------
(* The byte ciphers                                                        *)

\* The results for b that calls with a smaller b lead to.
Row(f, b) == [a \in 0 .. M |-> IF b = 0 THEN <<a, 1, 0>> ELSE Back(a, b, f[a % b][b])]

LEMMA RowsAlike ==
  ASSUME NEW b \in Nat, NEW f, NEW g, \A c \in 0 .. b - 1 : f[c] = g[c]
  PROVE  Row(f, b) = Row(g, b)
<1>1. ASSUME b # 0, NEW a \in 0 .. M
      PROVE  a % b \in 0 .. b - 1
  BY <1>1 DEF M
<1>2. ASSUME b # 0, NEW a \in 0 .. M
      PROVE  f[a % b] = g[a % b]
  BY <1>1, <1>2
<1>. QED  BY <1>2, Zenon DEF Row

\* The recursion ends: there is a function that egcd defines.
LEMMA EgcdDefined == Egcd = [b \in 0 .. M |-> Row(Egcd, b)]
<1>. DEFINE Upto(n, g) == g = [b \in 0 .. n |-> Row(g, b)]
            S == {n \in Nat : \E g : Upto(n, g)}
<1>1. 0 \in S
  <2>. DEFINE g == [b \in 0 .. 0 |-> Row(<<>>, b)]
  <2>1. \A b \in 0 .. 0 : Row(<<>>, b) = Row(g, b)
    <3>1. \A b \in 0 .. 0 : b \in Nat /\ 0 .. b - 1 = {}
      OBVIOUS
    <3>. HIDE DEF g
    <3>. QED  BY <3>1, RowsAlike
  <2>2. g = [b \in 0 .. 0 |-> Row(g, b)]
    BY <2>1, Zenon
  <2>. HIDE DEF g
  <2>. QED  BY <2>2
<1>2. ASSUME NEW n \in Nat, n \in S PROVE n + 1 \in S
  <2>1. PICK g : Upto(n, g)
    BY <1>2
  <2>. DEFINE h == [b \in 0 .. n + 1 |-> Row(g, b)]
  <2>2. \A c \in 0 .. n : h[c] = g[c]
    BY <2>1
  <2>3. \A b \in 0 .. n + 1 : Row(g, b) = Row(h, b)
    <3>1. \A b \in 0 .. n + 1 : b \in Nat /\ 0 .. b - 1 \subseteq 0 .. n
      OBVIOUS
    <3>. HIDE DEF h
    <3>2. ASSUME NEW b \in 0 .. n + 1 PROVE Row(g, b) = Row(h, b)
      BY <2>2, <3>1, RowsAlike
    <3>. QED  BY <3>2
  <2>4. h = [b \in 0 .. n + 1 |-> Row(h, b)]
    BY <2>3, Zenon
  <2>. HIDE DEF h
  <2>. QED  BY <2>4
<1>3. \A n \in Nat : n \in S
  <2>. HIDE DEF S
  <2>. QED  BY <1>1, <1>2, Whole
<1>4. M \in Nat
  BY DEF M
<1>5. \E g : g = [b \in 0 .. M |-> Row(g, b)]
  BY <1>3, <1>4
<1>. QED  BY ONLY <1>5, Zenon DEF Egcd, Row

\* Bezout's identity for the greatest common divisor of a and b.
IsGcd(a, b, r) ==
  /\ r[1] \in Nat /\ r[2] \in Int /\ r[3] \in Int
  /\ a * r[2] + b * r[3] = r[1]
  /\ \E p, q \in Int : a = r[1] * p /\ b = r[1] * q

LEMMA BackIsGcd ==
  ASSUME NEW a \in Nat, NEW b \in Nat \ {0}, NEW r, IsGcd(b, a % b, r)
  PROVE  IsGcd(a, b, Back(a, b, r))
<1>. DEFINE d == a \div b
            c == a % b
            g == r[1]
            x == r[2]
            y == r[3]
<1>1. d \in Int /\ c \in Int /\ a = b * d + c
  OBVIOUS
<1>2. g \in Nat /\ x \in Int /\ y \in Int /\ b * x + c * y = g
  BY DEF IsGcd
<1>3. PICK p \in Int, q \in Int : b = g * p /\ c = g * q
  BY DEF IsGcd
<1>4. Back(a, b, r)[1] = g /\ Back(a, b, r)[2] = y /\ Back(a, b, r)[3] = x - d * y
  BY DEF Back
<1>. HIDE DEF d, c, g, x, y
<1>5. a * y + b * (x - d * y) = g
  <2>1. a * y = (b * d) * y + c * y
    BY <1>1, <1>2
  <2>2. b * (x - d * y) = b * x - b * (d * y)
    BY <1>1, <1>2
  <2>3. (b * d) * y = b * (d * y)
    BY <1>1, <1>2
  <2>4. a * y \in Int /\ b * x \in Int /\ b * (d * y) \in Int /\ c * y \in Int /\ b * (x - d * y) \in Int
    BY <1>1, <1>2
  <2>. QED  BY ONLY <1>2, <2>1, <2>2, <2>3, <2>4
<1>6. a = g * (p * d + q)
  <2>1. g * (p * d + q) = (g * p) * d + g * q
    BY <1>1, <1>2
  <2>. QED  BY <1>1, <1>3, <2>1
<1>7. p * d + q \in Int /\ x - d * y \in Int
  BY <1>1, <1>2
<1>. QED  BY <1>2, <1>3, <1>4, <1>5, <1>6, <1>7 DEF IsGcd

LEMMA EgcdIsGcd == \A b \in 0 .. M : \A a \in 0 .. M : IsGcd(a, b, Egcd[b][a])
<1>. DEFINE Upto(n) == \A b \in 0 .. n : b <= M => \A a \in 0 .. M : IsGcd(a, b, Egcd[b][a])
            S == {n \in Nat : Upto(n)}
<1>0. M \in Nat
  BY DEF M
<1>1. ASSUME NEW b \in 0 .. M, NEW a \in 0 .. M
      PROVE  Egcd[b][a] = IF b = 0 THEN <<a, 1, 0>> ELSE Back(a, b, Egcd[a % b][b])
  <2>1. Egcd[b] = Row(Egcd, b)
    BY EgcdDefined, Zenon
  <2>. QED  BY <2>1, Zenon DEF Row
<1>2. 0 \in S
  <2>1. ASSUME NEW a \in 0 .. M PROVE IsGcd(a, 0, Egcd[0][a])
    <3>1. Egcd[0][a] = <<a, 1, 0>>
      <4>1. 0 \in 0 .. M
        BY <1>0
      <4>. QED  BY ONLY <1>1, <4>1, a \in 0 .. M, Zenon
    <3>2. a \in Nat /\ a * 1 + 0 * 0 = a /\ a = a * 1 /\ 0 = a * 0
      BY <1>0
    <3>3. IsGcd(a, 0, <<a, 1, 0>>)
      BY <3>2 DEF IsGcd
    <3>. QED  BY <3>1, <3>3
  <2>2. \A b \in 0 .. 0 : b = 0
    OBVIOUS
  <2>. QED  BY <2>1, <2>2
<1>3. ASSUME NEW n \in Nat, n \in S PROVE n + 1 \in S
  <2>1. ASSUME NEW b \in 0 .. n + 1, b <= M, NEW a \in 0 .. M PROVE IsGcd(a, b, Egcd[b][a])
    <3>1. CASE b <= n
      <4>1. b \in 0 .. n
        BY <3>1
      <4>. QED  BY <1>3, <2>1, <4>1
    <3>2. CASE b = n + 1
      <4>1. /\ b \in Nat \ {0} /\ a \in Nat /\ b \in 0 .. M
            /\ a % b \in 0 .. n /\ a % b <= M /\ a % b \in 0 .. M
        BY <1>0, <2>1, <3>2
      <4>2. IsGcd(b, a % b, Egcd[a % b][b])
        BY <1>3, <4>1
      <4>3. Egcd[b][a] = Back(a, b, Egcd[a % b][b])
        BY <1>1, <4>1
      <4>4. IsGcd(a, b, Back(a, b, Egcd[a % b][b]))
        BY <4>1, <4>2, BackIsGcd
      <4>. QED  BY <4>3, <4>4
    <3>. QED  BY <2>1, <3>1, <3>2
  <2>2. n + 1 \in Nat
    OBVIOUS
  <2>. QED  BY <2>1, <2>2
<1>4. \A n \in Nat : n \in S
  <2>. HIDE DEF S
  <2>. QED  BY <1>2, <1>3, Whole
<1>5. Upto(M)
  BY <1>0, <1>4
<1>. QED  BY <1>0, <1>5

\* An odd factor of a product leaves the evenness to the other.
LEMMA OddTimes ==
  ASSUME NEW g \in Nat, NEW k \in Int, NEW m \in Int, g % 2 = 1, g * k = 2 * m
  PROVE  \E j \in Int : k = 2 * j /\ g * j = m
<1>1. CASE k % 2 = 1
  <2>. DEFINE i == g \div 2
              j == k \div 2
  <2>1. i \in Int /\ j \in Int /\ g = 2 * i + 1 /\ k = 2 * j + 1
    BY <1>1
  <2>. HIDE DEF i, j
  <2>2. g * k = 2 * (2 * (i * j) + i + j) + 1
    BY <2>1
  <2>3. 2 * (i * j) + i + j \in Int
    BY <2>1
  <2>. DEFINE z == 2 * (i * j) + i + j
  <2>4. 2 * m = 2 * z + 1 /\ z \in Int
    BY <2>2, <2>3
  <2>. HIDE DEF z
  <2>. QED  BY <2>4
<1>2. CASE k % 2 = 0
  <2>. DEFINE j == k \div 2
  <2>1. j \in Int /\ k = 2 * j
    BY <1>2
  <2>. HIDE DEF j
  <2>2. g * k = 2 * (g * j) /\ g * j \in Int
    BY <2>1
  <2>. DEFINE z == g * j
  <2>3. 2 * z = 2 * m /\ z \in Int
    BY <2>2
  <2>4. z = m
    <3>. HIDE DEF z
    <3>. QED  BY <2>3
  <2>. QED  BY <2>1, <2>4
<1>. QED  BY <1>1, <1>2

\* An odd divisor of 256 is 1.
LEMMA OddDivisor ==
  ASSUME NEW g \in Nat, NEW k \in Int, g % 2 = 1, g * k = 256
  PROVE  g = 1
<1>1. PICK a \in Int : g * a = 128
  <2>1. g * k = 2 * 128
    OBVIOUS
  <2>. QED  BY <2>1, OddTimes
<1>2. PICK b \in Int : g * b = 64
  <2>1. g * a = 2 * 64
    BY <1>1
  <2>. QED  BY <2>1, OddTimes
<1>3. PICK c \in Int : g * c = 32
  <2>1. g * b = 2 * 32
    BY <1>2
  <2>. QED  BY <2>1, OddTimes
<1>4. PICK d \in Int : g * d = 16
  <2>1. g * c = 2 * 16
    BY <1>3
  <2>. QED  BY <2>1, OddTimes
<1>5. PICK e \in Int : g * e = 8
  <2>1. g * d = 2 * 8
    BY <1>4
  <2>. QED  BY <2>1, OddTimes
<1>6. PICK f \in Int : g * f = 4
  <2>1. g * e = 2 * 4
    BY <1>5
  <2>. QED  BY <2>1, OddTimes
<1>7. PICK h \in Int : g * h = 2
  <2>1. g * f = 2 * 2
    BY <1>6
  <2>. QED  BY <2>1, OddTimes
<1>8. PICK j \in Int : g * j = 1
  <2>1. g * h = 2 * 1
    BY <1>7
  <2>. QED  BY <2>1, OddTimes
<1>. QED  BY <1>8

\* Arithmetic modulo 256.
LEMMA SameResidue ==
  ASSUME NEW x \in Int, NEW y \in Int, NEW k \in Int, x = y + 256 * k
  PROVE  x % 256 = y % 256
OBVIOUS

LEMMA ResidueOf ==
  ASSUME NEW x \in Int
  PROVE  x % 256 \in 0 .. 255 /\ \E k \in Int : x = (x % 256) + 256 * k
<1>1. x = (x % 256) + 256 * (x \div 256) /\ x \div 256 \in Int /\ x % 256 \in 0 .. 255
  OBVIOUS
<1>. QED  BY <1>1

\* A multiplier is said to have an inverse exactly when it is odd, and what
\* invMod256 returns is one.
LEMMA InverseFound ==
  ASSUME NEW a \in Bytes
  PROVE  /\ a % 2 = 1 => InvMod(a) # 0
         /\ InvMod(a) # 0 => InvMod(a) \in 1 .. 255 /\ (a * InvMod(a)) % 256 = 1
<1>. DEFINE r == Egcd[M][a % M]
            g == r[1]
            x == r[2]
            y == r[3]
            inv == x % 256
<1>0. M \in 0 .. M /\ a % M \in 0 .. M
  BY DEF Bytes, M
<1>1. a \in 0 .. 255 /\ a % M = a /\ M = 256
  BY DEF Bytes, M
<1>2. IsGcd(a, 256, r)
  <2>1. IsGcd(a % M, M, r)
    BY ONLY <1>0, EgcdIsGcd, Zenon
  <2>. HIDE DEF r
  <2>. QED  BY ONLY <1>1, <2>1
<1>3. InvMod(a) = IF g # 1 THEN 0 ELSE inv
  BY ONLY <1>1 DEF InvMod
<1>. HIDE DEF r
<1>4. g \in Nat /\ x \in Int /\ y \in Int /\ a * x + 256 * y = g
  BY <1>2 DEF IsGcd
<1>5. PICK p \in Int, q \in Int : a = g * p /\ 256 = g * q
  BY <1>2 DEF IsGcd
<1>. HIDE DEF g, x, y
<1>6. ASSUME g = 1 PROVE inv \in 1 .. 255 /\ (a * inv) % 256 = 1
  <2>1. PICK k \in Int : x = inv + 256 * k
    <3>1. x % 256 \in 0 .. 255 /\ \E k \in Int : x = (x % 256) + 256 * k
      BY <1>4, ResidueOf
    <3>. QED  BY <3>1
  <2>2. inv \in 0 .. 255
    BY <1>4
  <2>. HIDE DEF inv
  <2>3. a * inv = 1 + 256 * (-(y + a * k))
    <3>1. a * x = a * inv + 256 * (a * k)
      BY <1>1, <2>1, <2>2
    <3>2. a * inv \in Int /\ a * k \in Int /\ a * x \in Int
      BY <1>1, <1>4, <2>2
    <3>. QED  BY ONLY <1>4, <1>6, <3>1, <3>2
  <2>4. a * inv \in Int /\ -(y + a * k) \in Int
    BY <1>1, <1>4, <2>2
  <2>5. (a * inv) % 256 = 1 % 256
    BY <2>3, <2>4, SameResidue
  <2>6. inv # 0
    <3>1. inv = 0 => a * inv = 0
      BY <1>1
    <3>. QED  BY <2>5, <3>1
  <2>. QED  BY <2>2, <2>5, <2>6
<1>7. ASSUME a % 2 = 1 PROVE g = 1
  <2>1. g % 2 = 1
    <3>1. CASE g % 2 = 0
      <4>. DEFINE h == g \div 2
      <4>1. h \in Int /\ g = 2 * h
        BY <1>4, <3>1
      <4>. HIDE DEF h
      <4>2. a = 2 * (h * p) /\ h * p \in Int
        BY <1>5, <4>1
      <4>. DEFINE z == h * p
      <4>3. a = 2 * z /\ z \in Int
        BY <4>2
      <4>. HIDE DEF z
      <4>. QED  BY <1>7, <4>3
    <3>. QED  BY <1>4, <3>1
  <2>. QED  BY <1>4, <1>5, <2>1, OddDivisor
<1>. HIDE DEF inv
<1>. QED  BY <1>3, <1>6, <1>7

\* A key whose table of decryption undoes the other.
GoodKey(k) == k.a \in Int /\ k.b \in Int /\ k.inv \in Int /\ (k.a * k.inv) % 256 = 1

\* One byte, there and back.
Undone(a, b, inv, d) == (inv * ((((a * d + b) % 256) - b) % 256)) % 256 = d

LEMMA ByteBack ==
  ASSUME NEW a \in Int, NEW b \in Int, NEW inv \in Int, (a * inv) % 256 = 1, NEW d \in 0 .. 255
  PROVE  Undone(a, b, inv, d)
<1>. DEFINE e == (a * d + b) % 256
            f == (e - b) % 256
<1>1. a * d + b \in Int /\ a * d \in Int /\ a * inv \in Int
  OBVIOUS
<1>2. PICK i \in Int : a * inv = 1 + 256 * i
  BY <1>1, ResidueOf
<1>3. e \in Int /\ \E k \in Int : a * d + b = e + 256 * k
  BY <1>1, ResidueOf
<1>4. PICK k \in Int : a * d + b = e + 256 * k
  BY <1>3
<1>. HIDE DEF e
<1>5. f \in Int /\ \E m \in Int : e - b = f + 256 * m
  BY <1>3, ResidueOf
<1>6. PICK m \in Int : e - b = f + 256 * m
  BY <1>5
<1>. HIDE DEF f
<1>7. inv * f = d + 256 * (i * d - inv * (k + m))
  <2>1. f = a * d - 256 * (k + m)
    BY ONLY <1>1, <1>3, <1>4, <1>5, <1>6, b \in Int
  <2>2. inv * f = inv * (a * d) - 256 * (inv * (k + m))
    BY <1>1, <2>1
  <2>3. inv * (a * d) = (a * inv) * d
    BY <1>1
  <2>4. (a * inv) * d = d + 256 * (i * d)
    BY <1>1, <1>2
  <2>5. inv * f \in Int /\ inv * (k + m) \in Int /\ i * d \in Int /\ (a * inv) * d \in Int
    BY <1>1, <1>5
  <2>. QED  BY ONLY <2>2, <2>3, <2>4, <2>5, d \in 0 .. 255
<1>8. inv * f \in Int /\ i * d - inv * (k + m) \in Int
  BY <1>5
<1>9. (inv * f) % 256 = d % 256
  BY <1>7, <1>8, SameResidue
<1>. QED  BY <1>9 DEF Undone, e, f

\* Whatever the data, a key that is good decrypts what it encrypts.
LEMMA GoodKeysInvert ==
  ASSUME NEW k, GoodKey(k), NEW data \in Seq(Bytes)
  PROVE  Decrypt(k, Encrypt(k, data)) = data
<1>. DEFINE sent == Encrypt(k, data)
<1>1. DOMAIN sent = DOMAIN data
  BY Zenon DEF Encrypt
<1>2. ASSUME NEW i \in DOMAIN data
      PROVE  (k.inv * ((sent[i] - k.b) % M)) % M = data[i]
  <2>1. data[i] \in 0 .. 255
    <3>1. data[i] \in Bytes
      OBVIOUS
    <3>. QED  BY <3>1 DEF Bytes, M
  <2>2. sent[i] = (k.a * data[i] + k.b) % 256
    BY DEF Encrypt, M
  <2>. HIDE DEF sent
  <2>3. (k.inv * ((((k.a * data[i] + k.b) % 256) - k.b) % 256)) % 256 = data[i]
    <3>1. k.a \in Int /\ k.b \in Int /\ k.inv \in Int /\ (k.a * k.inv) % 256 = 1
      BY DEF GoodKey
    <3>2. Undone(k.a, k.b, k.inv, data[i])
      BY ONLY <2>1, <3>1, ByteBack, Zenon
    <3>. QED  BY ONLY <3>2, Zenon DEF Undone
  <2>. QED  BY ONLY <2>2, <2>3, SMT DEF M
<1>. HIDE DEF sent
<1>3. Decrypt(k, sent) = [i \in DOMAIN data |-> data[i]]
  BY ONLY <1>1, <1>2, Zenon DEF Decrypt
<1>4. data = [i \in DOMAIN data |-> data[i]]
  OBVIOUS
<1>. QED  BY ONLY <1>3, <1>4, Zenon DEF sent
LEMMA MadeOddIsOdd ==
  ASSUME NEW a \in Bytes
  PROVE  MadeOdd(a) \in Bytes /\ MadeOdd(a) % 2 = 1 /\ (a % 2 = 1 => MadeOdd(a) = a)
BY DEF Bytes, M, MadeOdd

LEMMA ByteRange == \A a : a \in Bytes <=> a \in Int /\ 0 <= a /\ a < 256
  BY DEF Bytes, M

LEMMA ResidueIsByte == ASSUME NEW n \in Nat PROVE n % M \in Bytes /\ (n \div M) % M \in Bytes
BY DEF Bytes, M

\* Every constructor makes a good key.
LEMMA ShiftIsGood == ASSUME NEW b \in Bytes PROVE GoodKey(CaesarShift(b))
BY ByteRange DEF GoodKey, CaesarShift

\* A key whose multiplier has been found an inverse.
LEMMA FoundIsGood ==
  ASSUME NEW a \in Bytes, NEW b \in Bytes, InvMod(a) # 0
  PROVE  GoodKey([a |-> a, b |-> b, inv |-> InvMod(a)])
<1>1. InvMod(a) \in 1 .. 255 /\ (a * InvMod(a)) % 256 = 1 /\ a \in Int /\ b \in Int
  BY InverseFound, ByteRange
<1>. QED  BY ONLY <1>1 DEF GoodKey

LEMMA CaesarIsGood == ASSUME NEW a \in Bytes, NEW b \in Bytes PROVE GoodKey(Caesar(a, b))
<1>. DEFINE ua == IF InvMod(a) = 0 /\ a # 0 THEN MadeOdd(a) ELSE a
<1>1. ua \in Bytes /\ (ua # 0 => InvMod(ua) # 0)
  BY MadeOddIsOdd, InverseFound
<1>2. Caesar(a, b) = IF ua = 0 THEN CaesarShift(b) ELSE [a |-> ua, b |-> b, inv |-> InvMod(ua)]
  BY DEF Caesar
<1>. HIDE DEF ua
<1>. QED  BY <1>1, <1>2, ShiftIsGood, FoundIsGood

LEMMA AffineIsGood == ASSUME NEW a \in Bytes, NEW b \in Bytes PROVE GoodKey(Affine(a, b))
<1>. DEFINE odd == IF InvMod(a) = 0 THEN MadeOdd(a) ELSE a
<1>1. odd \in Bytes /\ InvMod(odd) # 0
  BY MadeOddIsOdd, InverseFound
<1>2. Affine(a, b) = [a |-> odd, b |-> b, inv |-> InvMod(odd)]
  BY DEF Affine
<1>. HIDE DEF odd
<1>. QED  BY <1>1, <1>2, FoundIsGood

LEMMA KeysOfKeysAreGood ==
  ASSUME NEW key \in Seq(Bytes)
  PROVE  GoodKey(CaesarShift(ShiftFromKey(key))) /\ GoodKey(AffineFromKey(key))
<1>1. Sum(key) \in Nat
  <2>1. Len(key) \in Nat /\ \A i \in 1 .. Len(key) : key[i] \in Bytes
    OBVIOUS
  <2>2. \A i \in 1 .. Len(key) : key[i] \in Nat
    BY <2>1, ByteRange
  <2>. QED  BY <2>1, <2>2, SumIsNat
<1>2. 0 \in Bytes /\ 1 \in Bytes
  BY ByteRange
<1>3. Sum(key) % M \in Bytes /\ (Sum(key) \div M) % M \in Bytes
  BY <1>1, ResidueIsByte
<1>4. ShiftFromKey(key) \in Bytes
  BY <1>2, <1>3 DEF ShiftFromKey
<1>5. GoodKey(AffineFromKey(key))
  BY <1>2, <1>3, MadeOddIsOdd, AffineIsGood DEF AffineFromKey
<1>. QED  BY <1>4, <1>5, ShiftIsGood

-----------------------------------------------------------------------------
(* Exclusive or                                                            *)

\* A number made of eight bits.
Made(c) == c[1] + 2 * c[2] + 4 * c[3] + 8 * c[4] + 16 * c[5] + 32 * c[6] + 64 * c[7] + 128 * c[8]
Weights == <<1, 2, 4, 8, 16, 32, 64, 128>>
Bits == [1 .. 8 -> {0, 1}]
BitsOf(x) == [i \in 1 .. 8 |-> (x \div Weights[i]) % 2]

LEMMA MadeOfBits ==
  ASSUME NEW x \in 0 .. 255
  PROVE  BitsOf(x) \in Bits /\ Made(BitsOf(x)) = x
<1>1. /\ Weights[1] = 1 /\ Weights[2] = 2 /\ Weights[3] = 4 /\ Weights[4] = 8
      /\ Weights[5] = 16 /\ Weights[6] = 32 /\ Weights[7] = 64 /\ Weights[8] = 128
  BY DEF Weights
<1>2. \A i \in 1 .. 8 : i = 1 \/ i = 2 \/ i = 3 \/ i = 4 \/ i = 5 \/ i = 6 \/ i = 7 \/ i = 8
  OBVIOUS
<1>3. \A i \in 1 .. 8 : (x \div Weights[i]) % 2 \in {0, 1}
  BY <1>1, <1>2
<1>4. BitsOf(x) \in Bits
  BY <1>3, Zenon DEF Bits, BitsOf
<1>5. Made(BitsOf(x)) = (x % 2) + 2 * ((x \div 2) % 2) + 4 * ((x \div 4) % 2) + 8 * ((x \div 8) % 2)
        + 16 * ((x \div 16) % 2) + 32 * ((x \div 32) % 2) + 64 * ((x \div 64) % 2)
        + 128 * ((x \div 128) % 2)
  <2>1. x \div 1 = x
    OBVIOUS
  <2>. DEFINE c == BitsOf(x)
  <2>2. \A i \in 1 .. 8 : c[i] = (x \div Weights[i]) % 2
    BY Zenon DEF BitsOf
  <2>. HIDE DEF c
  <2>3. /\ c[1] = x % 2 /\ c[2] = (x \div 2) % 2 /\ c[3] = (x \div 4) % 2 /\ c[4] = (x \div 8) % 2
        /\ c[5] = (x \div 16) % 2 /\ c[6] = (x \div 32) % 2 /\ c[7] = (x \div 64) % 2
        /\ c[8] = (x \div 128) % 2
    BY ONLY <1>1, <2>1, <2>2
  <2>. QED  BY ONLY <2>3 DEF Made, c
<1>6. x = (x % 2) + 2 * ((x \div 2) % 2) + 4 * ((x \div 4) % 2) + 8 * ((x \div 8) % 2)
        + 16 * ((x \div 16) % 2) + 32 * ((x \div 32) % 2) + 64 * ((x \div 64) % 2)
        + 128 * ((x \div 128) % 2)
  OBVIOUS
<1>. QED  BY <1>4, <1>5, <1>6

LEMMA BitsOfMade ==
  ASSUME NEW c \in Bits
  PROVE  Made(c) \in 0 .. 255 /\ BitsOf(Made(c)) = c
<1>. DEFINE z == Made(c)
<1>1. /\ c[1] \in 0 .. 1 /\ c[2] \in 0 .. 1 /\ c[3] \in 0 .. 1 /\ c[4] \in 0 .. 1
      /\ c[5] \in 0 .. 1 /\ c[6] \in 0 .. 1 /\ c[7] \in 0 .. 1 /\ c[8] \in 0 .. 1
  BY DEF Bits
<1>2. z = c[1] + 2 * c[2] + 4 * c[3] + 8 * c[4] + 16 * c[5] + 32 * c[6] + 64 * c[7] + 128 * c[8]
  BY DEF Made
<1>. HIDE DEF z
<1>3. z \in 0 .. 255
  BY ONLY <1>1, <1>2
<1>4. /\ (z \div 1) % 2 = c[1] /\ (z \div 2) % 2 = c[2] /\ (z \div 4) % 2 = c[3] /\ (z \div 8) % 2 = c[4]
      /\ (z \div 16) % 2 = c[5] /\ (z \div 32) % 2 = c[6] /\ (z \div 64) % 2 = c[7]
      /\ (z \div 128) % 2 = c[8]
  <2>1. (z \div 1) % 2 = c[1]
    BY ONLY <1>1, <1>2
  <2>2. z \div 2 = c[2] + 2 * c[3] + 4 * c[4] + 8 * c[5] + 16 * c[6] + 32 * c[7] + 64 * c[8]
    BY ONLY <1>1, <1>2, SMTT(30)
  <2>3. z \div 4 = c[3] + 2 * c[4] + 4 * c[5] + 8 * c[6] + 16 * c[7] + 32 * c[8]
    BY ONLY <1>1, <1>2, SMTT(30)
  <2>4. z \div 8 = c[4] + 2 * c[5] + 4 * c[6] + 8 * c[7] + 16 * c[8]
    BY ONLY <1>1, <1>2
  <2>5. z \div 16 = c[5] + 2 * c[6] + 4 * c[7] + 8 * c[8]
    BY ONLY <1>1, <1>2
  <2>6. z \div 32 = c[6] + 2 * c[7] + 4 * c[8]
    BY ONLY <1>1, <1>2
  <2>7. z \div 64 = c[7] + 2 * c[8]
    BY ONLY <1>1, <1>2
  <2>8. z \div 128 = c[8]
    BY ONLY <1>1, <1>2
  <2>12. (z \div 2) % 2 = c[2]
    BY ONLY <1>1, <2>2
  <2>13. (z \div 4) % 2 = c[3]
    BY ONLY <1>1, <2>3
  <2>14. (z \div 8) % 2 = c[4]
    BY ONLY <1>1, <2>4
  <2>15. (z \div 16) % 2 = c[5]
    BY ONLY <1>1, <2>5
  <2>16. (z \div 32) % 2 = c[6]
    BY ONLY <1>1, <2>6
  <2>17. (z \div 64) % 2 = c[7]
    BY ONLY <1>1, <2>7
  <2>18. (z \div 128) % 2 = c[8]
    BY ONLY <1>1, <2>8
  <2>. QED  BY ONLY <2>1, <2>12, <2>13, <2>14, <2>15, <2>16, <2>17, <2>18, Zenon
<1>5. /\ Weights[1] = 1 /\ Weights[2] = 2 /\ Weights[3] = 4 /\ Weights[4] = 8
      /\ Weights[5] = 16 /\ Weights[6] = 32 /\ Weights[7] = 64 /\ Weights[8] = 128
  BY DEF Weights
<1>6. \A i \in 1 .. 8 : (z \div Weights[i]) % 2 = c[i]
  <2>1. \A i \in 1 .. 8 : i = 1 \/ i = 2 \/ i = 3 \/ i = 4 \/ i = 5 \/ i = 6 \/ i = 7 \/ i = 8
    OBVIOUS
  <2>. QED  BY ONLY <1>4, <1>5, <2>1
<1>7. BitsOf(z) = [i \in 1 .. 8 |-> c[i]]
  BY ONLY <1>6, Zenon DEF BitsOf
<1>8. c = [i \in 1 .. 8 |-> c[i]]
  BY DEF Bits
<1>. QED  BY <1>3, <1>7, <1>8 DEF z

\* The bits of an exclusive or, of bytes.
Apart(c, d) == [i \in 1 .. 8 |-> (c[i] + d[i]) % 2]

LEMMA XorOfBits ==
  ASSUME NEW x \in 0 .. 255, NEW y \in 0 .. 255
  PROVE  Apart(BitsOf(x), BitsOf(y)) \in Bits /\ Xor(x, y) = Made(Apart(BitsOf(x), BitsOf(y)))
<1>. DEFINE c == BitsOf(x)
            d == BitsOf(y)
            e == Apart(c, d)
            Bit(w) == w * ((x \div w + y \div w) % 2)
<1>1. c \in Bits /\ d \in Bits
  BY MadeOfBits
<1>2. e \in Bits
  <2>. HIDE DEF c, d
  <2>1. \A i \in 1 .. 8 : (c[i] + d[i]) % 2 \in {0, 1}
    BY <1>1 DEF Bits
  <2>. QED  BY <2>1, Zenon DEF Bits, Apart
<1>3. /\ Weights[1] = 1 /\ Weights[2] = 2 /\ Weights[3] = 4 /\ Weights[4] = 8
      /\ Weights[5] = 16 /\ Weights[6] = 32 /\ Weights[7] = 64 /\ Weights[8] = 128
  BY DEF Weights
<1>4. ASSUME NEW i \in 1 .. 8
      PROVE  e[i] = (((x \div Weights[i]) % 2) + ((y \div Weights[i]) % 2)) % 2
  <2>1. c[i] = (x \div Weights[i]) % 2 /\ d[i] = (y \div Weights[i]) % 2
    BY Zenon DEF BitsOf
  <2>. HIDE DEF c, d
  <2>2. e[i] = (c[i] + d[i]) % 2
    BY Zenon DEF Apart
  <2>. HIDE DEF e
  <2>. QED  BY ONLY <2>1, <2>2
<1>6. ASSUME NEW i \in 1 .. 8
      PROVE  Weights[i] * e[i] = Bit(Weights[i]) 
  <2>1. x \div Weights[i] \in Int /\ y \div Weights[i] \in Int
    <3>1. i = 1 \/ i = 2 \/ i = 3 \/ i = 4 \/ i = 5 \/ i = 6 \/ i = 7 \/ i = 8
      OBVIOUS
    <3>. QED  BY <1>3, <3>1
  <2>. HIDE DEF e
  <2>2. e[i] = (x \div Weights[i] + y \div Weights[i]) % 2
    <3>1. e[i] = (((x \div Weights[i]) % 2) + ((y \div Weights[i]) % 2)) % 2
      BY <1>4
    <3>. DEFINE p == x \div Weights[i]
                q == y \div Weights[i]
    <3>2. e[i] = ((p % 2) + (q % 2)) % 2 /\ p \in Int /\ q \in Int
      BY ONLY <2>1, <3>1, Zenon
    <3>. HIDE DEF p, q
    <3>3. e[i] = (p + q) % 2
      BY ONLY <3>2
    <3>. QED  BY ONLY <3>3, Zenon DEF p, q
  <2>. QED  BY <2>2, Zenon
<1>. HIDE DEF e
<1>7. e[1] \in Int /\ e[2] \in Int /\ e[3] \in Int /\ e[4] \in Int
      /\ e[5] \in Int /\ e[6] \in Int /\ e[7] \in Int /\ e[8] \in Int
  BY <1>2 DEF Bits
<1>8. /\ Bit(1) = e[1] /\ Bit(2) = 2 * e[2] /\ Bit(4) = 4 * e[3] /\ Bit(8) = 8 * e[4]
      /\ Bit(16) = 16 * e[5] /\ Bit(32) = 32 * e[6] /\ Bit(64) = 64 * e[7] /\ Bit(128) = 128 * e[8]
  <2>. HIDE DEF Bit
  <2>. QED  BY <1>3, <1>6, <1>7
<1>9. Xor(x, y) = Made(e)
  <2>1. Xor(x, y) = Bit(1) + Bit(2) + Bit(4) + Bit(8) + Bit(16) + Bit(32) + Bit(64) + Bit(128)
    BY Zenon DEF Xor
  <2>. HIDE DEF Bit
  <2>. QED  BY ONLY <1>8, <2>1, Zenon DEF Made
<1>. QED  BY <1>2, <1>9 DEF e

\* Done twice with the same byte, an exclusive or is undone.
LEMMA XorTwice ==
  ASSUME NEW x \in Bytes, NEW y \in Bytes
  PROVE  Xor(x, y) \in Bytes /\ Xor(Xor(x, y), y) = x
<1>. DEFINE c == BitsOf(x)
            d == BitsOf(y)
            e == Apart(c, d)
<1>1. x \in 0 .. 255 /\ y \in 0 .. 255 /\ Bytes = 0 .. 255
  BY DEF Bytes, M
<1>2. c \in Bits /\ d \in Bits /\ Made(c) = x
  BY <1>1, MadeOfBits
<1>3. e \in Bits /\ Xor(x, y) = Made(e)
  BY <1>1, XorOfBits
<1>4. Made(e) \in 0 .. 255 /\ BitsOf(Made(e)) = e
  BY <1>3, BitsOfMade
<1>5. Xor(Made(e), y) = Made(Apart(e, d))
  BY <1>1, <1>4, XorOfBits
<1>6. Apart(e, d) = c
  <2>1. \A i \in 1 .. 8 : e[i] = (c[i] + d[i]) % 2
    BY Zenon DEF Apart
  <2>. HIDE DEF c, d, e
  <2>2. \A i \in 1 .. 8 : (e[i] + d[i]) % 2 = c[i]
    <3>1. ASSUME NEW i \in 1 .. 8 PROVE (e[i] + d[i]) % 2 = c[i]
      <4>1. c[i] \in {0, 1} /\ d[i] \in {0, 1} /\ e[i] = (c[i] + d[i]) % 2
        BY <1>2, <2>1 DEF Bits
      <4>. QED  BY ONLY <4>1
    <3>. QED  BY <3>1
  <2>3. Apart(e, d) = [i \in 1 .. 8 |-> c[i]]
    BY ONLY <2>2, Zenon DEF Apart
  <2>. QED  BY <1>2, <2>3 DEF Bits
<1>. QED  BY <1>1, <1>2, <1>3, <1>4, <1>5, <1>6

LEMMA XorUndone ==
  ASSUME NEW key \in [1 .. 4 -> Bytes], NEW data \in Seq(Bytes)
  PROVE  XorTransform(key, XorTransform(key, data)) = data
<1>. DEFINE sent == XorTransform(key, data)
            At(i) == key[((i - 1) % 4) + 1]
<1>1. DOMAIN sent = DOMAIN data
  BY Zenon DEF XorTransform
<1>2. ASSUME NEW i \in DOMAIN data PROVE Xor(sent[i], At(i)) = data[i]
  <2>1. data[i] \in Bytes /\ i \in Nat
    OBVIOUS
  <2>2. At(i) \in Bytes
    <3>1. ((i - 1) % 4) + 1 \in 1 .. 4
      BY <2>1
    <3>. QED  BY ONLY <3>1, key \in [1 .. 4 -> Bytes], Zenon
  <2>3. sent[i] = Xor(data[i], At(i))
    BY Zenon DEF XorTransform
  <2>. HIDE DEF sent, At
  <2>. QED  BY <2>1, <2>2, <2>3, XorTwice
<1>3. XorTransform(key, sent) = [i \in DOMAIN data |-> Xor(sent[i], At(i))]
  <2>. HIDE DEF sent
  <2>. QED  BY ONLY <1>1, Zenon DEF XorTransform
<1>. HIDE DEF sent, At
<1>4. XorTransform(key, sent) = [i \in DOMAIN data |-> data[i]]
  BY ONLY <1>2, <1>3, Zenon
<1>5. data = [i \in DOMAIN data |-> data[i]]
  OBVIOUS
<1>. QED  BY ONLY <1>4, <1>5, Zenon DEF sent

-----------------------------------------------------------------------------
(* Numbers                                                                 *)

\* What three bytes are read as.
LEMMA LowBytes ==
  ASSUME NEW v \in Int, NEW p, p[1] = ByteOf(v, 0), p[2] = ByteOf(v, 1), p[3] = ByteOf(v, 2)
  PROVE  ReadLE24(p) = v - 16777216 * (v \div 16777216)
<1>. DEFINE a == v % 256
            b == (v \div 256) % 256
            c == (v \div 65536) % 256
<1>1. p[1] = a /\ p[2] = b /\ p[3] = c
  <2>1. /\ ByteOf(v, 0) = v % 256
        /\ ByteOf(v, 1) = (v \div 256) % 256
        /\ ByteOf(v, 2) = (v \div 65536) % 256
    <3>1. v \div 1 = v /\ 0 + 1 = 1 /\ 1 + 1 = 2 /\ 2 + 1 = 3
      BY SMT
    <3>2. Weight[1] = 1 /\ Weight[2] = 256 /\ Weight[3] = 65536
      BY SMT DEF Weight
    <3>. QED  BY <3>1, <3>2, SMT DEF ByteOf
  <2>2. ByteOf(v, 0) = a /\ ByteOf(v, 1) = b /\ ByteOf(v, 2) = c
    BY <2>1, SMT
  <2>. HIDE DEF a, b, c
  <2>. QED  BY <2>2, SMT
<1>2. a \in Int /\ b \in Int /\ c \in Int
  BY SMT
<1>3. a + 256 * b + 65536 * c = v - 16777216 * (v \div 16777216)
  BY SMT
<1>. HIDE DEF a, b, c
<1>4. ReadLE24(p) = p[1] + 256 * p[2] + 65536 * p[3]
  BY SMT DEF ReadLE24
<1>. QED  BY <1>1, <1>2, <1>3, <1>4, SMT

\* What four bytes are read as, the highest with its sign.
LEMMA AllBytes ==
  ASSUME NEW v \in Int, -128 * 16777216 <= v, v < 128 * 16777216, NEW p,
         p[1] = ByteOf(v, 0), p[2] = ByteOf(v, 1), p[3] = ByteOf(v, 2), p[4] = ByteOf(v, 3)
  PROVE  ReadLE32(p) = v
<1>. DEFINE top == v \div 16777216
<1>1. ReadLE24(p) = v - 16777216 * top /\ p[4] = top % 256 /\ top \in Int
  <2>1. ReadLE24(p) = v - 16777216 * (v \div 16777216)
    BY LowBytes, SMT
  <2>2. p[4] = (v \div 16777216) % 256
    <3>1. 3 + 1 = 4 /\ Weight[4] = 16777216
      BY SMT DEF Weight
    <3>. QED  BY <3>1, SMT DEF ByteOf
  <2>. QED  BY <2>1, <2>2, SMT
<1>2. top \in -128 .. 127
  BY SMT
<1>. HIDE DEF top
<1>3. (IF p[4] < 128 THEN p[4] ELSE p[4] - 256) = top
  BY <1>1, <1>2, SMT
<1>. QED  BY <1>1, <1>3, SMT DEF ReadLE32

\* A number of three bytes, and a signed one of four, is read back from the
\* bytes it is written to, whatever its value and its sign, and so are four
\* key numbers from two bytes (readLE24, writeLE24, pushLE32 and the
\* rights of a file in DesfireCommands).
THEOREM NumbersSurvive ==
  /\ \A v \in Int : 0 <= v /\ v < 256 * 65536 => ReadLE24(WriteLE24(v)) = v
  /\ \A v \in Int : -128 * 16777216 <= v /\ v < 128 * 16777216 =>
       ReadLE32(WriteLE32(v)) = v
  /\ \A r \in [readKey : 0 .. 15, writeKey : 0 .. 15, readWriteKey : 0 .. 15, changeKey : 0 .. 15] :
       LET decoded == DecodeRights(EncodeRights(r)[1], EncodeRights(r)[2]) IN
       \A right \in {"readKey", "writeKey", "readWriteKey", "changeKey"} : decoded[right] = r[right]
<1>1. ASSUME NEW v \in Int, 0 <= v, v < 256 * 65536
      PROVE  ReadLE24(WriteLE24(v)) = v
  <2>. DEFINE p == WriteLE24(v)
  <2>1. p[1] = ByteOf(v, 0) /\ p[2] = ByteOf(v, 1) /\ p[3] = ByteOf(v, 2)
    BY SMT DEF WriteLE24
  <2>2. v \div 16777216 = 0
    BY <1>1, SMT
  <2>. HIDE DEF p
  <2>3. ReadLE24(p) = v - 16777216 * (v \div 16777216)
    BY <2>1, LowBytes, SMT
  <2>4. ReadLE24(p) = v
    BY <2>2, <2>3, SMT
  <2>. QED  BY <2>4, SMT DEF p
<1>2. ASSUME NEW v \in Int, -128 * 16777216 <= v, v < 128 * 16777216
      PROVE  ReadLE32(WriteLE32(v)) = v
  <2>. DEFINE p == WriteLE32(v)
  <2>1. /\ p[1] = ByteOf(v, 0) /\ p[2] = ByteOf(v, 1) /\ p[3] = ByteOf(v, 2)
        /\ p[4] = ByteOf(v, 3)
    BY SMT DEF WriteLE24, WriteLE32
  <2>. HIDE DEF p
  <2>2. ReadLE32(p) = v
    BY <1>2, <2>1, AllBytes, SMT
  <2>. QED  BY <2>2, SMT DEF p
<1>3. ASSUME NEW r \in [readKey : 0 .. 15, writeKey : 0 .. 15, readWriteKey : 0 .. 15, changeKey : 0 .. 15]
      PROVE  LET decoded == DecodeRights(EncodeRights(r)[1], EncodeRights(r)[2]) IN
             /\ decoded.readKey = r.readKey /\ decoded.writeKey = r.writeKey
             /\ decoded.readWriteKey = r.readWriteKey /\ decoded.changeKey = r.changeKey
  <2>1. ASSUME NEW a \in 0 .. 15, NEW b \in 0 .. 15
        PROVE  ((a * 16 + b) % 256) \div 16 = a /\ ((a * 16 + b) % 256) % 16 = b
    BY SMT
  <2>. DEFINE b0 == (r.readKey * 16 + r.writeKey) % 256
              b1 == (r.readWriteKey * 16 + r.changeKey) % 256
  <2>2. EncodeRights(r)[1] = b0 /\ EncodeRights(r)[2] = b1
    BY SMT DEF EncodeRights
  <2>3. b0 \div 16 = r.readKey /\ b0 % 16 = r.writeKey /\ b1 \div 16 = r.readWriteKey /\ b1 % 16 = r.changeKey
    BY <2>1, SMT
  <2>. HIDE DEF b0, b1
  <2>. QED  BY <2>2, <2>3, SMT DEF DecodeRights
<1>. QED  BY <1>1, <1>2, <1>3, SMT

-----------------------------------------------------------------------------
(* The settings of a file                                                  *)

\* Lists of numbers, joined and cut.
IsList(s, n) == n \in Nat /\ s \in Seq(Int) /\ Len(s) = n
Starts(s, t, m) == \A i \in 1 .. m : s[i] = t[i]
Follows(s, t, m, n) == \A i \in 1 .. n : s[m + i] = t[i]

CutFrom(cut, s, a, b) ==
  IsList(cut, b - a + 1) /\ \A i \in 1 .. b - a + 1 : cut[i] = s[a + i - 1]

LEMMA Joined ==
  ASSUME NEW s, NEW t, NEW m, NEW n, IsList(s, m), IsList(t, n)
  PROVE  IsList(s \o t, m + n) /\ Starts(s \o t, s, m) /\ Follows(s \o t, t, m, n)
<1>. DEFINE both == s \o t
<1>1. /\ m \in Nat /\ s \in Seq(Int) /\ Len(s) = m
      /\ n \in Nat /\ t \in Seq(Int) /\ Len(t) = n
  BY DEF IsList
<1>2. /\ both \in Seq(Int) /\ Len(both) = Len(s) + Len(t)
      /\ \A i \in 1 .. Len(s) + Len(t) : both[i] = IF i <= Len(s) THEN s[i] ELSE t[i - Len(s)]
  BY ONLY <1>1, ConcatProperties
<1>. HIDE DEF both
<1>3. /\ Len(both) = m + n
      /\ \A i \in 1 .. m + n : both[i] = IF i <= m THEN s[i] ELSE t[i - m]
  BY ONLY <1>1, <1>2
<1>. m \in Nat /\ n \in Nat
  BY ONLY <1>1
<1>4. ASSUME NEW i \in 1 .. n PROVE both[m + i] = t[i]
  <2>1. m + i \in 1 .. m + n /\ ~ (m + i <= m) /\ (m + i) - m = i
    BY ONLY m \in Nat, n \in Nat, i \in 1 .. n, SMT
  <2>. QED  BY ONLY <1>3, <2>1
<1>5. ASSUME NEW i \in 1 .. m PROVE both[i] = s[i]
  <2>1. i \in 1 .. m + n /\ i <= m
    BY ONLY m \in Nat, n \in Nat, i \in 1 .. m, SMT
  <2>. QED  BY ONLY <1>3, <2>1
<1>6. IsList(both, m + n) /\ Starts(both, s, m) /\ Follows(both, t, m, n)
  BY ONLY <1>1, <1>2, <1>3, <1>4, <1>5 DEF IsList, Starts, Follows
<1>. QED  BY ONLY <1>6 DEF both

LEMMA Part ==
  ASSUME NEW s, NEW m, IsList(s, m), NEW a, a \in 1 .. m, NEW b, b \in a .. m
  PROVE  CutFrom(SubSeq(s, a, b), s, a, b)
<1>. DEFINE cut == SubSeq(s, a, b)
<1>1. m \in Nat /\ s \in Seq(Int) /\ Len(s) = m
  BY DEF IsList
<1>2. \A i \in 1 .. m : s[i] \in Int
  BY ONLY <1>1
<1>3. a \in Int /\ b \in Int /\ a <= b /\ \A i \in a .. b : s[i] \in Int
  BY <1>1, <1>2
<1>4. /\ cut \in Seq(Int) /\ Len(cut) = (IF a <= b THEN b - a + 1 ELSE 0)
      /\ \A i \in 1 .. b - a + 1 : cut[i] = s[a + i - 1]
  BY ONLY <1>3, SubSeqProperties
<1>. HIDE DEF cut
<1>5. CutFrom(cut, s, a, b)
  BY ONLY <1>3, <1>4 DEF IsList, CutFrom
<1>. QED  BY ONLY <1>5 DEF cut

\* A command carries its data behind five bytes and before a zero.
Carries(apdu, ins, d, n) ==
  /\ IsList(apdu, n + 6) /\ apdu[2] = ins /\ apdu[5] = n
  /\ \A i \in 1 .. n : apdu[i + 5] = d[i]

LEMMA SentData ==
  ASSUME NEW ins, ins \in Int, NEW d, NEW n, n \in 1 .. 255, IsList(d, n)
  PROVE  Carries(WrapCommand(ins, d), ins, d, n)
<1>1. Len(d) = n /\ n % 256 = n /\ d # <<>>
  BY DEF IsList
<1>. DEFINE front == <<144, ins, 0, 0>>
            count == <<n>>
            body == count \o d
            middle == front \o body
            apdu == middle \o <<0>>
<1>2. WrapCommand(ins, d) = apdu
  BY <1>1, Zenon DEF WrapCommand
<1>3. IsList(front, 4) /\ IsList(count, 1) /\ IsList(<<0>>, 1) /\ front[2] = ins /\ count[1] = n
  BY DEF IsList
<1>. HIDE DEF front, count
<1>4. IsList(body, 1 + n) /\ Starts(body, count, 1) /\ Follows(body, d, 1, n)
  BY ONLY <1>3, IsList(d, n), Joined
<1>. HIDE DEF body
<1>5. IsList(middle, 4 + (1 + n)) /\ Starts(middle, front, 4) /\ Follows(middle, body, 4, 1 + n)
  BY ONLY <1>3, <1>4, Joined
<1>. HIDE DEF middle
<1>6. IsList(apdu, (4 + (1 + n)) + 1) /\ Starts(apdu, middle, 4 + (1 + n))
  BY ONLY <1>3, <1>5, Joined
<1>. HIDE DEF apdu
<1>7. apdu[2] = ins /\ apdu[5] = n
  <2>1. apdu[2] = middle[2] /\ apdu[5] = middle[5]
    BY ONLY <1>6, n \in 1 .. 255 DEF Starts
  <2>2. middle[2] = front[2] /\ middle[5] = body[1]
    BY ONLY <1>5, n \in 1 .. 255 DEF Starts, Follows
  <2>3. body[1] = count[1]
    BY ONLY <1>4 DEF Starts
  <2>. QED  BY ONLY <1>3, <2>1, <2>2, <2>3
<1>8. ASSUME NEW i \in 1 .. n PROVE apdu[i + 5] = d[i]
  <2>1. i + 5 \in 1 .. 4 + (1 + n) /\ i + 1 \in 1 .. 1 + n /\ i + 5 = 4 + (i + 1) /\ i + 1 = 1 + i
    BY ONLY n \in 1 .. 255, i \in 1 .. n
  <2>2. apdu[i + 5] = middle[i + 5]
    BY ONLY <1>6, <2>1 DEF Starts
  <2>3. middle[i + 5] = body[i + 1]
    BY ONLY <1>5, <2>1 DEF Follows
  <2>4. body[i + 1] = d[i]
    BY ONLY <1>4, <2>1, i \in 1 .. n DEF Follows
  <2>. QED  BY ONLY <2>2, <2>3, <2>4
<1>9. IsList(apdu, n + 6)
  <2>1. (4 + (1 + n)) + 1 = n + 6
    BY ONLY n \in 1 .. 255
  <2>. QED  BY ONLY <1>6, <2>1
<1>10. Carries(apdu, ins, d, n)
  BY ONLY <1>7, <1>8, <1>9 DEF Carries
<1>. QED  BY ONLY <1>2, <1>10

\* The card names the type by the command, and repeats the data from their
\* second byte on.
Repeats(answer, type, d, n) ==
  /\ \E m \in Nat : m >= n /\ IsList(answer, m)
  /\ answer[1] = type
  /\ \A i \in 2 .. n : answer[i] = d[i]

LEMMA DescribedAsSent ==
  ASSUME NEW type, type \in 0 .. 4, NEW d, NEW n, n \in 5 .. 255, IsList(d, n)
  PROVE  Repeats(Described(WrapCommand(InsOf[type], d)), type, d, n)
<1>1. /\ DOMAIN InsOf = 0 .. 4 /\ InsOf[type] \in Int
      /\ \A t \in 0 .. 4 : InsOf[t] = InsOf[type] => t = type
  <2>1. /\ InsOf[0] = 205 /\ InsOf[1] = 203 /\ InsOf[2] = 204
        /\ InsOf[3] = 193 /\ InsOf[4] = 192
    BY SMT DEF InsOf
  <2>2. DOMAIN InsOf = 0 .. 4
    BY DEF InsOf
  <2>3. \A t \in 0 .. 4 : t = 0 \/ t = 1 \/ t = 2 \/ t = 3 \/ t = 4
    BY SMT
  <2>. QED  BY <2>1, <2>2, <2>3, SMT
<1>. DEFINE apdu == WrapCommand(InsOf[type], d)
            header == SubSeq(apdu, 7, 9)
            numbers == SubSeq(apdu, 10, n + 5)
            rest == IF type \in RecordTypes THEN <<0, 0, 0>> ELSE <<>>
            named == <<type>>
            one == named \o header
            two == one \o numbers
            answer == two \o rest
<1>2. /\ IsList(apdu, n + 6) /\ apdu[2] = InsOf[type]
      /\ \A i \in 1 .. n : apdu[i + 5] = d[i]
  <2>1. n \in 1 .. 255
    OBVIOUS
  <2>2. Carries(apdu, InsOf[type], d, n)
    BY ONLY <1>1, <2>1, IsList(d, n), SentData, Zenon
  <2>. HIDE DEF apdu
  <2>. QED  BY ONLY <2>2 DEF Carries
<1>3. Described(apdu) = answer
  <2>. HIDE DEF apdu
  <2>1. (CHOOSE t \in DOMAIN InsOf : InsOf[t] = apdu[2]) = type
    BY ONLY <1>1, <1>2, type \in 0 .. 4
  <2>2. Len(apdu) - 1 = n + 5
    <3>1. Len(apdu) = n + 6
      BY ONLY <1>2 DEF IsList
    <3>. QED  BY ONLY <3>1, n \in 5 .. 255
  <2>. QED  BY ONLY <2>1, <2>2, Zenon DEF Described, answer, two, one, named, header, numbers, rest
<1>4. IsList(named, 1) /\ named[1] = type /\ \E r \in Nat : IsList(rest, r)
  <2>1. IsList(named, 1) /\ named[1] = type
    BY DEF IsList
  <2>2. IsList(<<0, 0, 0>>, 3) /\ IsList(<<>>, 0)
    BY DEF IsList
  <2>. QED  BY ONLY <2>1, <2>2, 3 \in Nat, 0 \in Nat DEF rest
<1>. HIDE DEF named, rest, apdu
<1>5. PICK r \in Nat : IsList(rest, r)
  BY ONLY <1>4
<1>6. CutFrom(header, apdu, 7, 9)
  <2>1. 7 \in 1 .. n + 6 /\ 9 \in 7 .. n + 6
    OBVIOUS
  <2>2. IsList(apdu, n + 6)
    BY ONLY <1>2
  <2>. QED  BY ONLY <2>1, <2>2, Part, Zenon
<1>7. CutFrom(numbers, apdu, 10, n + 5)
  <2>1. 10 \in 1 .. n + 6 /\ n + 5 \in 10 .. n + 6
    OBVIOUS
  <2>2. IsList(apdu, n + 6)
    BY ONLY <1>2
  <2>. QED  BY ONLY <2>1, <2>2, Part, Zenon
<1>. HIDE DEF header, numbers
<1>8. IsList(header, 3) /\ \A i \in 1 .. 3 : header[i] = d[i + 1]
  <2>1. 9 - 7 + 1 = 3 /\ \A i \in 1 .. 3 : 7 + i - 1 = (i + 1) + 5 /\ i + 1 \in 1 .. n
    OBVIOUS
  <2>. QED  BY ONLY <1>2, <1>6, <2>1 DEF CutFrom
<1>9. IsList(numbers, n - 4) /\ \A i \in 1 .. n - 4 : numbers[i] = d[i + 4]
  <2>1. (n + 5) - 10 + 1 = n - 4 /\ \A i \in 1 .. n - 4 : 10 + i - 1 = (i + 4) + 5 /\ i + 4 \in 1 .. n
    OBVIOUS
  <2>. QED  BY ONLY <1>2, <1>7, <2>1 DEF CutFrom
<1>10. IsList(one, 1 + 3) /\ Starts(one, named, 1) /\ Follows(one, header, 1, 3)
  BY ONLY <1>4, <1>8, Joined
<1>. HIDE DEF one
<1>11. IsList(two, (1 + 3) + (n - 4)) /\ Starts(two, one, 1 + 3) /\ Follows(two, numbers, 1 + 3, n - 4)
  BY ONLY <1>9, <1>10, Joined
<1>. HIDE DEF two
<1>12. Starts(answer, two, (1 + 3) + (n - 4)) /\ IsList(answer, ((1 + 3) + (n - 4)) + r)
  BY ONLY <1>5, <1>11, Joined
<1>. HIDE DEF answer
<1>13. answer[1] = type
  <2>1. 1 \in 1 .. (1 + 3) + (n - 4) /\ 1 \in 1 .. 1 + 3 /\ 1 \in 1 .. 1
    OBVIOUS
  <2>2. answer[1] = two[1] /\ two[1] = one[1] /\ one[1] = named[1]
    BY ONLY <1>10, <1>11, <1>12, <2>1 DEF Starts
  <2>. QED  BY ONLY <1>4, <2>2
<1>14. ASSUME NEW i \in 2 .. n PROVE answer[i] = d[i]
  <2>1. i \in 1 .. (1 + 3) + (n - 4)
    OBVIOUS
  <2>2. answer[i] = two[i]
    BY ONLY <1>12, <2>1 DEF Starts
  <2>3. CASE i <= 4
    <3>1. i \in 1 .. 1 + 3 /\ i - 1 \in 1 .. 3 /\ 1 + (i - 1) = i /\ (i - 1) + 1 = i
      BY <2>3
    <3>2. two[i] = one[i] /\ one[i] = header[i - 1]
      BY ONLY <1>10, <1>11, <3>1 DEF Starts, Follows
    <3>3. header[i - 1] = d[i]
      BY ONLY <1>8, <3>1
    <3>. QED  BY ONLY <2>2, <3>2, <3>3
  <2>4. CASE ~ i <= 4
    <3>1. i - 4 \in 1 .. n - 4 /\ (1 + 3) + (i - 4) = i /\ (i - 4) + 4 = i
      BY <2>4
    <3>2. two[i] = numbers[i - 4]
      BY ONLY <1>11, <3>1 DEF Follows
    <3>3. numbers[i - 4] = d[i]
      BY ONLY <1>9, <3>1
    <3>. QED  BY ONLY <2>2, <3>2, <3>3
  <2>. QED  BY <2>3, <2>4
<1>15. \E m \in Nat : m >= n /\ IsList(answer, m)
  <2>1. ((1 + 3) + (n - 4)) + r \in Nat /\ ((1 + 3) + (n - 4)) + r >= n
    OBVIOUS
  <2>. QED  BY ONLY <1>12, <2>1
<1>16. Repeats(answer, type, d, n)
  BY ONLY <1>13, <1>14, <1>15 DEF Repeats
<1>. QED  BY ONLY <1>3, <1>16 DEF apdu

\* A number read at a position is the one whose bytes are there.

Holds24(list, i, v) ==
  list[i] = ByteOf(v, 0) /\ list[i + 1] = ByteOf(v, 1) /\ list[i + 2] = ByteOf(v, 2)
Holds32(list, i, v) == Holds24(list, i, v) /\ list[i + 3] = ByteOf(v, 3)

LEMMA NumberAt ==
  ASSUME NEW list, NEW m, IsList(list, m), NEW i, i \in 1 .. m - 2, NEW v, v \in Int24,
         Holds24(list, i, v)
  PROVE  ReadLE24(SubSeq(list, i, i + 2)) = v
<1>. DEFINE p == SubSeq(list, i, i + 2)
<1>1. i \in 1 .. m /\ i + 2 \in i .. m /\ m \in Nat
  BY DEF IsList
<1>2. CutFrom(p, list, i, i + 2)
  BY ONLY <1>1, IsList(list, m), Part, Zenon
<1>. HIDE DEF p
<1>3. p[1] = list[i] /\ p[2] = list[i + 1] /\ p[3] = list[i + 2]
  <2>1. /\ i + 1 - 1 = i /\ i + 2 - 1 = i + 1 /\ i + 3 - 1 = i + 2
        /\ 1 \in 1 .. (i + 2) - i + 1 /\ 2 \in 1 .. (i + 2) - i + 1 /\ 3 \in 1 .. (i + 2) - i + 1
    BY ONLY <1>1, SMT
  <2>. QED  BY ONLY <1>2, <2>1, SMT DEF CutFrom
<1>4. p[1] = ByteOf(v, 0) /\ p[2] = ByteOf(v, 1) /\ p[3] = ByteOf(v, 2)
  BY <1>3, SMT DEF Holds24
<1>5. v \in Int /\ v \div 16777216 = 0
  <2>1. v \in Int /\ 0 <= v /\ v < 256 * 65536
    BY ONLY v \in Int24, SMT DEF Int24
  <2>. QED  BY ONLY <2>1, SMT
<1>6. ReadLE24(p) = v - 16777216 * (v \div 16777216)
  BY ONLY <1>4, <1>5, LowBytes, SMT
<1>7. ReadLE24(p) = v
  BY ONLY <1>5, <1>6, SMT
<1>. QED  BY ONLY <1>7 DEF p

LEMMA SignedAt ==
  ASSUME NEW list, NEW m, IsList(list, m), NEW i, i \in 1 .. m - 3, NEW v, v \in Int32,
         Holds32(list, i, v)
  PROVE  ReadLE32(SubSeq(list, i, i + 3)) = v
<1>. DEFINE p == SubSeq(list, i, i + 3)
<1>1. i \in 1 .. m /\ i + 3 \in i .. m /\ m \in Nat
  BY DEF IsList
<1>2. CutFrom(p, list, i, i + 3)
  BY ONLY <1>1, IsList(list, m), Part, Zenon
<1>. HIDE DEF p
<1>3. p[1] = list[i] /\ p[2] = list[i + 1] /\ p[3] = list[i + 2] /\ p[4] = list[i + 3]
  <2>1. /\ i + 1 - 1 = i /\ i + 2 - 1 = i + 1 /\ i + 3 - 1 = i + 2 /\ i + 4 - 1 = i + 3
        /\ 1 \in 1 .. (i + 3) - i + 1 /\ 2 \in 1 .. (i + 3) - i + 1
        /\ 3 \in 1 .. (i + 3) - i + 1 /\ 4 \in 1 .. (i + 3) - i + 1
    BY ONLY <1>1, SMT
  <2>. QED  BY ONLY <1>2, <2>1, SMT DEF CutFrom
<1>4. /\ p[1] = ByteOf(v, 0) /\ p[2] = ByteOf(v, 1)
      /\ p[3] = ByteOf(v, 2) /\ p[4] = ByteOf(v, 3)
  BY <1>3, SMT DEF Holds24, Holds32
<1>5. v \in Int /\ -128 * 16777216 <= v /\ v < 128 * 16777216
  BY ONLY v \in Int32, SMT DEF Int32
<1>6. ReadLE32(p) = v
  BY ONLY <1>4, <1>5, AllBytes, SMT
<1>. QED  BY ONLY <1>6 DEF p

\* The bytes a number is written to, as a list.
LEMMA ByteInt ==
  ASSUME NEW v, v \in Int
  PROVE  /\ ByteOf(v, 0) \in Int /\ ByteOf(v, 1) \in Int
         /\ ByteOf(v, 2) \in Int /\ ByteOf(v, 3) \in Int
<1>1. /\ 0 + 1 = 1 /\ 1 + 1 = 2 /\ 2 + 1 = 3 /\ 3 + 1 = 4
      /\ v \div 1 \in Int /\ v \div 256 \in Int /\ v \div 65536 \in Int /\ v \div 16777216 \in Int
  BY SMT
<1>2. /\ Weight[1] = 1 /\ Weight[2] = 256
      /\ Weight[3] = 65536 /\ Weight[4] = 16777216
  BY SMT DEF Weight
<1>. QED  BY <1>1, <1>2, SMT DEF ByteOf

LEMMA Written24 ==
  ASSUME NEW v, v \in Int
  PROVE  IsList(WriteLE24(v), 3) /\ Holds24(WriteLE24(v), 1, v)
<1>1. /\ ByteOf(v, 0) \in Int /\ ByteOf(v, 1) \in Int /\ ByteOf(v, 2) \in Int
  BY ByteInt
<1>. QED  BY <1>1, SMT DEF WriteLE24, IsList, Holds24

LEMMA Written32 ==
  ASSUME NEW v, v \in Int
  PROVE  IsList(WriteLE32(v), 4) /\ Holds32(WriteLE32(v), 1, v)
<1>. DEFINE low == WriteLE24(v)
            high == <<ByteOf(v, 3)>>
            p == low \o high
<1>1. IsList(low, 3) /\ Holds24(low, 1, v)
  BY Written24
<1>2. IsList(high, 1) /\ high[1] = ByteOf(v, 3)
  BY ByteInt, SMT DEF IsList
<1>. HIDE DEF low, high
<1>3. IsList(p, 3 + 1) /\ Starts(p, low, 3) /\ Follows(p, high, 3, 1)
  BY ONLY <1>1, <1>2, Joined
<1>. HIDE DEF p
<1>4. IsList(p, 4) /\ Holds32(p, 1, v)
  <2>1. p[1] = low[1] /\ p[2] = low[2] /\ p[3] = low[3] /\ p[4] = high[1]
    BY ONLY <1>3, SMT DEF Starts, Follows
  <2>2. IsList(p, 4)
    BY ONLY <1>3, SMT
  <2>. QED  BY ONLY <1>1, <1>2, <2>1, <2>2, SMT DEF Holds24, Holds32
<1>5. WriteLE32(v) = p
  BY Zenon DEF WriteLE32, p, low, high
<1>. QED  BY ONLY <1>4, <1>5

\* What the header and the numbers of a file are in the card's answer.
DescribedAs(apdu, answer, fileNo, s, numbers, k) ==
  /\ apdu[5] = Len(apdu) - 6 /\ apdu[6] = fileNo
  /\ \E m \in Nat : m >= k + 4 /\ IsList(answer, m)
  /\ answer[1] = s.fileType /\ answer[2] = s.commMode
  /\ DecodeRights(answer[3], answer[4]) = s.access
  /\ \A i \in 1 .. k : answer[i + 4] = numbers[i]

LEMMA RightsReadBack ==
  ASSUME NEW r, r \in AccessRights
  PROVE  /\ EncodeRights(r)[1] \in Int /\ EncodeRights(r)[2] \in Int
         /\ DecodeRights(EncodeRights(r)[1], EncodeRights(r)[2]) = r
<1>. DEFINE b0 == EncodeRights(r)[1]
            b1 == EncodeRights(r)[2]
<1>1. b0 \in Int /\ b1 \in Int
  BY SMT DEF EncodeRights, AccessRights
<1>. DEFINE decoded == DecodeRights(b0, b1)
<1>2. /\ decoded.readKey = r.readKey /\ decoded.writeKey = r.writeKey
      /\ decoded.readWriteKey = r.readWriteKey /\ decoded.changeKey = r.changeKey
  BY NumbersSurvive, SMT DEF AccessRights
<1>. HIDE DEF b0, b1
<1>3. r.readKey = b0 \div 16 /\ r.writeKey = b0 % 16 /\ r.readWriteKey = b1 \div 16 /\ r.changeKey = b1 % 16
  BY <1>2, SMT DEF DecodeRights
<1>4. r = [readKey |-> r.readKey, writeKey |-> r.writeKey,
           readWriteKey |-> r.readWriteKey, changeKey |-> r.changeKey]
  BY SMT DEF AccessRights
<1>5. DecodeRights(b0, b1) = r
  BY ONLY <1>3, <1>4, Zenon DEF DecodeRights
<1>. QED  BY ONLY <1>1, <1>5 DEF b0, b1

\* The command that creates a file with these numbers.
Creation(fileNo, s, numbers) ==
  WrapCommand(InsOf[s.fileType], BuildFileHeader(fileNo, s) \o numbers)

LEMMA HeaderAndNumbers ==
  ASSUME NEW fileNo, fileNo \in Int,
         NEW s, s.fileType \in 0 .. 4, s.commMode \in Int, s.access \in AccessRights,
         NEW numbers, NEW k, k \in 1 .. 20, IsList(numbers, k)
  PROVE  DescribedAs(Creation(fileNo, s, numbers), Described(Creation(fileNo, s, numbers)),
                   fileNo, s, numbers, k)
<1>. DEFINE mode == <<fileNo, s.commMode>>
            rights == EncodeRights(s.access)
            header == mode \o rights
            d == header \o numbers
            ins == InsOf[s.fileType]
            apdu == WrapCommand(ins, d)
            answer == Described(apdu)
<1>1. IsList(mode, 2) /\ mode[1] = fileNo /\ mode[2] = s.commMode
  BY SMT DEF IsList
<1>2. rights[1] \in Int /\ rights[2] \in Int /\ DecodeRights(rights[1], rights[2]) = s.access
  BY RightsReadBack
<1>3. IsList(rights, 2)
  BY <1>2, SMT DEF IsList, EncodeRights
<1>. HIDE DEF mode, rights
<1>4. IsList(header, 2 + 2) /\ Starts(header, mode, 2) /\ Follows(header, rights, 2, 2)
  BY ONLY <1>1, <1>3, Joined
<1>. HIDE DEF header
<1>5. IsList(header, 4) /\ header[1] = fileNo /\ header[2] = s.commMode
      /\ header[3] = rights[1] /\ header[4] = rights[2]
  BY ONLY <1>1, <1>4, SMT DEF Starts, Follows
<1>6. IsList(d, 4 + k) /\ Starts(d, header, 4) /\ Follows(d, numbers, 4, k)
  BY ONLY <1>5, IsList(numbers, k), Joined
<1>. HIDE DEF d
<1>7. /\ d[1] = fileNo /\ d[2] = s.commMode /\ d[3] = rights[1] /\ d[4] = rights[2]
      /\ \A i \in 1 .. k : d[4 + i] = numbers[i]
  BY ONLY <1>5, <1>6, SMT DEF Starts, Follows
<1>8. 4 + k \in 5 .. 255 /\ 4 + k \in 1 .. 255
  OBVIOUS
<1>9. ins \in Int
  <2>1. /\ InsOf[0] = 205 /\ InsOf[1] = 203 /\ InsOf[2] = 204
        /\ InsOf[3] = 193 /\ InsOf[4] = 192
    BY SMT DEF InsOf
  <2>. QED  BY ONLY <2>1, s.fileType \in 0 .. 4, SMT
<1>10. Carries(apdu, ins, d, 4 + k)
  <2>. HIDE DEF ins
  <2>. QED  BY ONLY <1>6, <1>8, <1>9, SentData, Zenon
<1>11. Repeats(answer, s.fileType, d, 4 + k)
  BY ONLY <1>6, <1>8, s.fileType \in 0 .. 4, DescribedAsSent, Zenon
<1>. HIDE DEF apdu, answer
<1>12. apdu[5] = Len(apdu) - 6 /\ apdu[6] = fileNo
  <2>1. apdu[5] = 4 + k /\ Len(apdu) = (4 + k) + 6
    BY ONLY <1>10 DEF Carries, IsList
  <2>2. apdu[1 + 5] = d[1]
    BY ONLY <1>8, <1>10, SMT DEF Carries
  <2>3. 4 + k = ((4 + k) + 6) - 6 /\ 1 + 5 = 6
    BY ONLY k \in 1 .. 20, SMT
  <2>4. apdu[6] = fileNo
    BY ONLY <1>7, <2>2, <2>3
  <2>5. apdu[5] = Len(apdu) - 6
    BY ONLY <2>1, <2>3, Zenon
  <2>. QED  BY ONLY <2>4, <2>5
<1>13. /\ \E m \in Nat : m >= k + 4 /\ IsList(answer, m)
       /\ answer[1] = s.fileType
       /\ answer[2] = d[2] /\ answer[3] = d[3] /\ answer[4] = d[4]
       /\ \A i \in 1 .. k : answer[i + 4] = d[4 + i]
  BY ONLY <1>11, k \in 1 .. 20, SMT DEF Repeats
<1>14. DescribedAs(apdu, answer, fileNo, s, numbers, k)
  BY ONLY <1>2, <1>7, <1>12, <1>13 DEF DescribedAs
<1>. QED  BY ONLY <1>14, Zenon DEF apdu, answer, d, header, mode, rights, ins, Creation, BuildFileHeader

\* What parsing yields of each kind.
LEMMA DataSettingsSurvive ==
  ASSUME NEW fileNo, fileNo \in Int, NEW s, s \in DataSettings
  PROVE  SettingsSurviveOf(fileNo, s)
<1>. DEFINE size == s.fileSize
            numbers == WriteLE24(size)
            apdu == Creation(fileNo, s, numbers)
            answer == Described(apdu)
            parsed == ParseFileSettings(answer)
<1>1. /\ s.fileType \in 0 .. 4 /\ s.fileType \in DataTypes
      /\ s.commMode \in Int /\ s.access \in AccessRights /\ size \in Int24
  BY SMT DEF DataSettings, DataTypes
<1>0. s.fileType # ValueType /\ s.fileType \notin RecordTypes
  BY <1>1, SMT DEF DataTypes, ValueType, RecordTypes
<1>2. CreateFile(fileNo, s) = apdu
  BY <1>1, <1>0, Zenon DEF CreateFile, Creation
<1>3. IsList(numbers, 3) /\ Holds24(numbers, 1, size)
  <2>1. size \in Int
    BY <1>1 DEF Int24
  <2>. QED  BY ONLY <2>1, Written24, Zenon
<1>. HIDE DEF numbers
<1>4. DescribedAs(apdu, answer, fileNo, s, numbers, 3)
  <2>1. 3 \in 1 .. 20
    BY SMT
  <2>. QED  BY ONLY <1>1, <1>3, <2>1, fileNo \in Int, HeaderAndNumbers, Zenon
<1>. HIDE DEF apdu, answer, size
<1>5. PICK m \in Nat : m >= 3 + 4 /\ IsList(answer, m)
  BY ONLY <1>4 DEF DescribedAs
<1>6. ReadLE24(SubSeq(answer, 5, 5 + 2)) = size
  <2>1. 5 \in 1 .. m - 2
    BY ONLY <1>5, SMT
  <2>2. Holds24(answer, 5, size)
    BY ONLY <1>3, <1>4, SMT DEF Holds24, DescribedAs
  <2>. QED  BY ONLY <1>1, <1>5, <2>1, <2>2, NumberAt, Zenon
<1>7. /\ parsed.fileType = s.fileType /\ parsed.commMode = s.commMode
      /\ parsed.access = s.access /\ parsed.fileSize = s.fileSize
  <2>1. /\ answer[1] = s.fileType /\ answer[2] = s.commMode
        /\ DecodeRights(answer[3], answer[4]) = s.access
    BY ONLY <1>4 DEF DescribedAs
  <2>2. parsed = [fileType |-> answer[1], commMode |-> answer[2],
                  access |-> DecodeRights(answer[3], answer[4]),
                  fileSize |-> ReadLE24(SubSeq(answer, 5, 5 + 2))]
    BY ONLY <1>1, <1>0, <2>1, Zenon DEF ParseFileSettings, FileSettings
  <2>. HIDE DEF parsed
  <2>. QED  BY ONLY <1>6, <2>1, <2>2 DEF size
<1>8. DOMAIN s = {"fileType", "commMode", "access", "fileSize"}
  BY DEF DataSettings
<1>9. \A field \in DOMAIN s : parsed[field] = s[field]
  BY ONLY <1>7, <1>8
<1>. HIDE DEF parsed
<1>10. apdu[5] = Len(apdu) - 6 /\ apdu[6] = fileNo
  BY ONLY <1>4 DEF DescribedAs
<1>. QED  BY ONLY <1>2, <1>9, <1>10, Zenon DEF SettingsSurviveOf, parsed, answer

LEMMA RecordSettingsSurvive ==
  ASSUME NEW fileNo, fileNo \in Int, NEW s, s \in RecordSettings
  PROVE  SettingsSurviveOf(fileNo, s)
<1>. DEFINE size == s.recordSize
            max == s.maxRecords
            sizeBytes == WriteLE24(size)
            maxBytes == WriteLE24(max)
            numbers == sizeBytes \o maxBytes
            apdu == Creation(fileNo, s, numbers)
            answer == Described(apdu)
            parsed == ParseFileSettings(answer)
<1>1. /\ s.fileType \in 0 .. 4 /\ s.fileType \in RecordTypes
      /\ s.commMode \in Int /\ s.access \in AccessRights /\ size \in Int24 /\ max \in Int24
  BY SMT DEF RecordSettings, RecordTypes
<1>2. s.fileType # ValueType /\ s.fileType \notin DataTypes
  BY <1>1, SMT DEF DataTypes, ValueType, RecordTypes
<1>3. CreateFile(fileNo, s) = apdu
  BY <1>1, <1>2, Zenon DEF CreateFile, Creation
<1>4. /\ IsList(sizeBytes, 3) /\ Holds24(sizeBytes, 1, size)
      /\ IsList(maxBytes, 3) /\ Holds24(maxBytes, 1, max)
  <2>1. size \in Int /\ max \in Int
    BY <1>1 DEF Int24
  <2>. QED  BY ONLY <2>1, Written24, Zenon
<1>. HIDE DEF sizeBytes, maxBytes
<1>5. IsList(numbers, 3 + 3) /\ Starts(numbers, sizeBytes, 3) /\ Follows(numbers, maxBytes, 3, 3)
  BY ONLY <1>4, Joined
<1>. HIDE DEF numbers
<1>6. IsList(numbers, 6) /\ Holds24(numbers, 1, size) /\ Holds24(numbers, 4, max)
  BY ONLY <1>4, <1>5, SMT DEF Starts, Follows, Holds24
<1>7. DescribedAs(apdu, answer, fileNo, s, numbers, 6)
  <2>1. 6 \in 1 .. 20
    BY SMT
  <2>. QED  BY ONLY <1>1, <1>6, <2>1, fileNo \in Int, HeaderAndNumbers, Zenon
<1>. HIDE DEF apdu, answer, size, max
<1>8. PICK m \in Nat : m >= 6 + 4 /\ IsList(answer, m)
  BY ONLY <1>7 DEF DescribedAs
<1>9. /\ ReadLE24(SubSeq(answer, 5, 5 + 2)) = size
      /\ ReadLE24(SubSeq(answer, 8, 8 + 2)) = max
  <2>1. 5 \in 1 .. m - 2 /\ 8 \in 1 .. m - 2
    BY ONLY <1>8, SMT
  <2>2. Holds24(answer, 5, size) /\ Holds24(answer, 8, max)
    BY ONLY <1>6, <1>7, SMT DEF Holds24, DescribedAs
  <2>. QED  BY ONLY <1>1, <1>8, <2>1, <2>2, NumberAt, Zenon
<1>10. /\ parsed.fileType = s.fileType /\ parsed.commMode = s.commMode
       /\ parsed.access = s.access
       /\ parsed.recordSize = s.recordSize /\ parsed.maxRecords = s.maxRecords
  <2>1. /\ answer[1] = s.fileType /\ answer[2] = s.commMode
        /\ DecodeRights(answer[3], answer[4]) = s.access
    BY ONLY <1>7 DEF DescribedAs
  <2>2. parsed = [fileType |-> answer[1], commMode |-> answer[2],
                  access |-> DecodeRights(answer[3], answer[4]),
                  recordSize |-> ReadLE24(SubSeq(answer, 5, 5 + 2)),
                  maxRecords |-> ReadLE24(SubSeq(answer, 8, 8 + 2)),
                  currentRecords |-> ReadLE24(SubSeq(answer, 11, 11 + 2))]
    BY ONLY <1>1, <1>2, <2>1, Zenon DEF ParseFileSettings, FileSettings
  <2>. HIDE DEF parsed
  <2>. QED  BY ONLY <1>9, <2>1, <2>2 DEF size, max
<1>11. DOMAIN s = {"fileType", "commMode", "access", "recordSize", "maxRecords"}
  BY DEF RecordSettings
<1>12. \A field \in DOMAIN s : parsed[field] = s[field]
  BY ONLY <1>10, <1>11
<1>. HIDE DEF parsed
<1>13. apdu[5] = Len(apdu) - 6 /\ apdu[6] = fileNo
  BY ONLY <1>7 DEF DescribedAs
<1>. QED  BY ONLY <1>3, <1>12, <1>13, Zenon DEF SettingsSurviveOf, parsed, answer

LEMMA ValueSettingsSurvive ==
  ASSUME NEW fileNo, fileNo \in Int, NEW s, s \in ValueSettings
  PROVE  SettingsSurviveOf(fileNo, s)
<1>. DEFINE low == s.lowerLimit
            high == s.upperLimit
            value == s.value
            lowBytes == WriteLE32(low)
            highBytes == WriteLE32(high)
            valueBytes == WriteLE32(value)
            flag == <<IF s.limitedCredit THEN 1 ELSE 0>>
            two == lowBytes \o highBytes
            three == two \o valueBytes
            numbers == three \o flag
            apdu == Creation(fileNo, s, numbers)
            answer == Described(apdu)
            parsed == ParseFileSettings(answer)
<1>1. /\ s.fileType \in 0 .. 4 /\ s.fileType = ValueType
      /\ s.commMode \in Int /\ s.access \in AccessRights
      /\ low \in Int32 /\ high \in Int32 /\ value \in Int32 /\ s.limitedCredit \in BOOLEAN
  BY SMT DEF ValueSettings, ValueType
<1>2. s.fileType \notin RecordTypes /\ s.fileType \notin DataTypes
  BY <1>1, SMT DEF DataTypes, ValueType, RecordTypes
<1>3. CreateFile(fileNo, s) = apdu
  BY <1>1, <1>2, Zenon DEF CreateFile, Creation
<1>4. /\ IsList(lowBytes, 4) /\ Holds32(lowBytes, 1, low)
      /\ IsList(highBytes, 4) /\ Holds32(highBytes, 1, high)
      /\ IsList(valueBytes, 4) /\ Holds32(valueBytes, 1, value)
  <2>1. low \in Int /\ high \in Int /\ value \in Int
    BY <1>1 DEF Int32
  <2>. QED  BY ONLY <2>1, Written32, Zenon
<1>5. IsList(flag, 1) /\ (flag[1] # 0 <=> s.limitedCredit)
  BY <1>1, SMT DEF IsList
<1>. HIDE DEF lowBytes, highBytes, valueBytes, flag
<1>6. IsList(two, 4 + 4) /\ Starts(two, lowBytes, 4) /\ Follows(two, highBytes, 4, 4)
  BY ONLY <1>4, Joined
<1>. HIDE DEF two
<1>7. IsList(three, (4 + 4) + 4) /\ Starts(three, two, 4 + 4) /\ Follows(three, valueBytes, 4 + 4, 4)
  BY ONLY <1>4, <1>6, Joined
<1>. HIDE DEF three
<1>8. /\ IsList(numbers, ((4 + 4) + 4) + 1) /\ Starts(numbers, three, (4 + 4) + 4)
      /\ Follows(numbers, flag, (4 + 4) + 4, 1)
  BY ONLY <1>5, <1>7, Joined
<1>. HIDE DEF numbers
<1>9. /\ IsList(numbers, 13) /\ numbers[13] = flag[1]
      /\ Holds32(numbers, 1, low) /\ Holds32(numbers, 5, high) /\ Holds32(numbers, 9, value)
  <2>1. IsList(numbers, 13) /\ numbers[13] = flag[1]
    BY ONLY <1>8, SMT DEF Follows
  <2>2. \A i \in 1 .. 4 : numbers[i] = lowBytes[i] /\ numbers[4 + i] = highBytes[i]
    BY ONLY <1>6, <1>7, <1>8, SMT DEF Starts, Follows
  <2>3. \A i \in 1 .. 4 : numbers[8 + i] = valueBytes[i]
    BY ONLY <1>7, <1>8, SMT DEF Starts, Follows
  <2>4. Holds32(numbers, 1, low)
    BY ONLY <1>4, <2>2, SMT DEF Holds24, Holds32
  <2>5. Holds32(numbers, 5, high)
    BY ONLY <1>4, <2>2, SMT DEF Holds24, Holds32
  <2>6. Holds32(numbers, 9, value)
    BY ONLY <1>4, <2>3, SMT DEF Holds24, Holds32
  <2>. QED  BY ONLY <2>1, <2>4, <2>5, <2>6
<1>10. DescribedAs(apdu, answer, fileNo, s, numbers, 13)
  <2>1. 13 \in 1 .. 20
    BY SMT
  <2>. QED  BY ONLY <1>1, <1>9, <2>1, fileNo \in Int, HeaderAndNumbers, Zenon
<1>. HIDE DEF apdu, answer, low, high, value
<1>11. PICK m \in Nat : m >= 13 + 4 /\ IsList(answer, m)
  BY ONLY <1>10 DEF DescribedAs
<1>12. \A i \in 1 .. 13 : answer[i + 4] = numbers[i]
  BY ONLY <1>10 DEF DescribedAs
<1>13. /\ ReadLE32(SubSeq(answer, 5, 5 + 3)) = low
       /\ ReadLE32(SubSeq(answer, 9, 9 + 3)) = high
       /\ ReadLE32(SubSeq(answer, 13, 13 + 3)) = value
  <2>1. 5 \in 1 .. m - 3 /\ 9 \in 1 .. m - 3 /\ 13 \in 1 .. m - 3
    BY ONLY <1>11, SMT
  <2>2. Holds32(answer, 5, low)
    BY ONLY <1>9, <1>12, SMT DEF Holds24, Holds32
  <2>3. Holds32(answer, 9, high)
    BY ONLY <1>9, <1>12, SMT DEF Holds24, Holds32
  <2>4. Holds32(answer, 13, value)
    BY ONLY <1>9, <1>12, SMT DEF Holds24, Holds32
  <2>. QED  BY ONLY <1>1, <1>11, <2>1, <2>2, <2>3, <2>4, SignedAt, Zenon
<1>14. /\ parsed.fileType = s.fileType /\ parsed.commMode = s.commMode
       /\ parsed.access = s.access
       /\ parsed.lowerLimit = s.lowerLimit /\ parsed.upperLimit = s.upperLimit
       /\ parsed.value = s.value /\ parsed.limitedCredit = s.limitedCredit
  <2>1. /\ answer[1] = s.fileType /\ answer[2] = s.commMode
        /\ DecodeRights(answer[3], answer[4]) = s.access
    BY ONLY <1>10 DEF DescribedAs
  <2>2. parsed = [fileType |-> answer[1], commMode |-> answer[2],
                  access |-> DecodeRights(answer[3], answer[4]),
                  lowerLimit |-> ReadLE32(SubSeq(answer, 5, 5 + 3)),
                  upperLimit |-> ReadLE32(SubSeq(answer, 9, 9 + 3)),
                  value |-> ReadLE32(SubSeq(answer, 13, 13 + 3)),
                  limitedCredit |-> answer[17] # 0]
    BY ONLY <1>1, <1>2, <2>1, Zenon DEF ParseFileSettings, FileSettings
  <2>3. (answer[17] # 0) = s.limitedCredit
    <3>1. answer[17] = flag[1]
      BY ONLY <1>9, <1>12, SMT
    <3>. QED  BY ONLY <1>1, <1>5, <3>1, Zenon
  <2>. HIDE DEF parsed
  <2>4. /\ parsed.lowerLimit = low /\ parsed.upperLimit = high /\ parsed.value = value
        /\ parsed.fileType = s.fileType /\ parsed.commMode = s.commMode /\ parsed.access = s.access
    BY ONLY <1>13, <2>1, <2>2
  <2>5. parsed.limitedCredit = s.limitedCredit
    BY ONLY <2>2, <2>3, Zenon
  <2>. QED  BY ONLY <2>4, <2>5 DEF low, high, value
<1>15. DOMAIN s = {"fileType", "commMode", "access", "lowerLimit", "upperLimit", "value", "limitedCredit"}
  BY DEF ValueSettings
<1>. HIDE DEF parsed
<1>16. \A field \in DOMAIN s : parsed[field] = s[field]
  BY ONLY <1>14, <1>15
<1>17. apdu[5] = Len(apdu) - 6 /\ apdu[6] = fileNo
  BY ONLY <1>10 DEF DescribedAs
<1>. QED  BY ONLY <1>3, <1>16, <1>17, Zenon DEF SettingsSurviveOf, parsed, answer

\* A file of any kind is described as it was created, whatever its number,
\* sizes, limits, signs and rights, and the length byte of the command is
\* right (createStdDataFile and its kin, getFileSettings, parseFileSettings).
THEOREM FileSettingsSurvive ==
  \A fileNo \in Int, s \in DataSettings \cup ValueSettings \cup RecordSettings :
    SettingsSurviveOf(fileNo, s)
BY DataSettingsSurvive, ValueSettingsSurvive, RecordSettingsSurvive

-----------------------------------------------------------------------------
(* Virtual blocks                                                          *)

\* The image with other data in a file.
WithData(image, a, f, bytes) == [image EXCEPT !.apps[a].files[f].data = bytes]

\* Of a set of indices that has one there is a first.
LEMMA FirstOfSome ==
  ASSUME NEW n \in Nat, NEW S, S \subseteq 1 .. n, S # {}
  PROVE  \E i \in S : \A j \in 1 .. i - 1 : j \notin S
<1>1. S \subseteq Nat
  OBVIOUS
<1>2. PICK i \in S : \A j \in S : ~ (<<j, i>> \in OpToRel(<, Nat))
  BY <1>1, WFMin, NatLessThanWellFounded
<1>3. \A j \in S : ~ (j < i)
  BY <1>1, <1>2 DEF OpToRel
<1>. QED  BY <1>1, <1>3

\* A search returns an index of the list, or 0.
LEMMA AppFound ==
  ASSUME NEW image, NEW n \in Nat, DOMAIN image.apps = 1 .. n, NEW k
  PROVE  FindApp(image, k) \in 0 .. n
<1>. DEFINE list == image.apps
            S == {i \in 1 .. n : list[i].aid = k}
<1>1. ASSUME \E i \in DOMAIN list : list[i].aid = k
      PROVE  \E i \in DOMAIN list : list[i].aid = k /\ \A j \in 1 .. i - 1 : ~ list[j].aid = k
  <2>1. S \subseteq 1 .. n /\ S # {}
    BY <1>1
  <2>2. PICK i \in S : \A j \in 1 .. i - 1 : j \notin S
    <3>. HIDE DEF S
    <3>. QED  BY <2>1, FirstOfSome
  <2>. QED  BY <2>2
<1>. QED  BY <1>1 DEF FindApp, First

LEMMA FileFound ==
  ASSUME NEW app, NEW n \in Nat, DOMAIN app.files = 1 .. n, NEW k
  PROVE  FindFile(app, k) \in 0 .. n
<1>. DEFINE list == app.files
            S == {i \in 1 .. n : list[i].fileNo = k}
<1>1. ASSUME \E i \in DOMAIN list : list[i].fileNo = k
      PROVE  \E i \in DOMAIN list : list[i].fileNo = k /\ \A j \in 1 .. i - 1 : ~ list[j].fileNo = k
  <2>1. S \subseteq 1 .. n /\ S # {}
    BY <1>1
  <2>2. PICK i \in S : \A j \in 1 .. i - 1 : j \notin S
    <3>. HIDE DEF S
    <3>. QED  BY <2>1, FirstOfSome
  <2>. QED  BY <2>2
<1>. QED  BY <1>1 DEF FindFile, First

\* Two lists that show a search the same are searched with the same result.
LEMMA AppsAlike ==
  ASSUME NEW one, NEW two, NEW n \in Nat, NEW k,
         DOMAIN one.apps = 1 .. n, DOMAIN two.apps = 1 .. n,
         \A i \in 1 .. n : one.apps[i].aid = two.apps[i].aid
  PROVE  FindApp(one, k) = FindApp(two, k)
<1>. DEFINE First1 == CHOOSE i \in DOMAIN one.apps :
                        one.apps[i].aid = k /\ \A j \in 1 .. i - 1 : ~ one.apps[j].aid = k
            First2 == CHOOSE i \in DOMAIN two.apps :
                        two.apps[i].aid = k /\ \A j \in 1 .. i - 1 : ~ two.apps[j].aid = k
            Some1 == \E i \in DOMAIN one.apps : one.apps[i].aid = k
            Some2 == \E i \in DOMAIN two.apps : two.apps[i].aid = k
<1>1. First1 = First2
  <2>. DEFINE l1 == one.apps
              l2 == two.apps
  <2>1. DOMAIN l1 = 1 .. n /\ DOMAIN l2 = 1 .. n /\ \A i \in 1 .. n : l1[i].aid = l2[i].aid
    OBVIOUS
  <2>. HIDE DEF l1, l2
  <2>2. (CHOOSE i \in DOMAIN l1 : l1[i].aid = k /\ \A j \in 1 .. i - 1 : ~ l1[j].aid = k)
          = CHOOSE i \in DOMAIN l2 : l2[i].aid = k /\ \A j \in 1 .. i - 1 : ~ l2[j].aid = k
    BY ONLY <2>1, n \in Nat
  <2>. QED  BY ONLY <2>2, Zenon DEF l1, l2
<1>2. Some1 <=> Some2
  OBVIOUS
<1>3. /\ FindApp(one, k) = IF Some1 THEN First1 ELSE 0
      /\ FindApp(two, k) = IF Some2 THEN First2 ELSE 0
  BY DEF FindApp, First
<1>. HIDE DEF First1, First2, Some1, Some2
<1>. QED  BY <1>1, <1>2, <1>3

LEMMA FilesAlike ==
  ASSUME NEW one, NEW two, NEW n \in Nat, NEW k,
         DOMAIN one.files = 1 .. n, DOMAIN two.files = 1 .. n,
         \A i \in 1 .. n : one.files[i].fileNo = two.files[i].fileNo
  PROVE  FindFile(one, k) = FindFile(two, k)
<1>. DEFINE First1 == CHOOSE i \in DOMAIN one.files :
                        one.files[i].fileNo = k /\ \A j \in 1 .. i - 1 : ~ one.files[j].fileNo = k
            First2 == CHOOSE i \in DOMAIN two.files :
                        two.files[i].fileNo = k /\ \A j \in 1 .. i - 1 : ~ two.files[j].fileNo = k
            Some1 == \E i \in DOMAIN one.files : one.files[i].fileNo = k
            Some2 == \E i \in DOMAIN two.files : two.files[i].fileNo = k
<1>1. First1 = First2
  <2>. DEFINE l1 == one.files
              l2 == two.files
  <2>1. DOMAIN l1 = 1 .. n /\ DOMAIN l2 = 1 .. n /\ \A i \in 1 .. n : l1[i].fileNo = l2[i].fileNo
    OBVIOUS
  <2>. HIDE DEF l1, l2
  <2>2. (CHOOSE i \in DOMAIN l1 : l1[i].fileNo = k /\ \A j \in 1 .. i - 1 : ~ l1[j].fileNo = k)
          = CHOOSE i \in DOMAIN l2 : l2[i].fileNo = k /\ \A j \in 1 .. i - 1 : ~ l2[j].fileNo = k
    BY ONLY <2>1, n \in Nat, SMTT(30)
  <2>. QED  BY ONLY <2>2, Zenon DEF l1, l2
<1>2. Some1 <=> Some2
  OBVIOUS
<1>3. /\ FindFile(one, k) = IF Some1 THEN First1 ELSE 0
      /\ FindFile(two, k) = IF Some2 THEN First2 ELSE 0
  BY DEF FindFile, First
<1>. HIDE DEF First1, First2, Some1, Some2
<1>. QED  BY <1>1, <1>2, <1>3

\* The active file is one of the image's.
LEMMA ActiveIsThere ==
  ASSUME NEW Setting, NEW Datum, NEW image \in LayoutIn(Setting, Datum),
         ActiveFile(image) # <<>>
  PROVE  \E a \in 1 .. Len(image.apps) : \E f \in 1 .. Len(image.apps[a].files) :
           ActiveFile(image) = <<a, f>>
<1>. DEFINE a == FindApp(image, image.currentAID)
            f == FindFile(image.apps[a], image.currentFile)
<1>1. a # 0 /\ f # 0 /\ ActiveFile(image) = <<a, f>>
  BY DEF ActiveFile
<1>2. a \in 1 .. Len(image.apps)
  <2>1. Len(image.apps) \in Nat /\ DOMAIN image.apps = 1 .. Len(image.apps)
    BY DEF LayoutIn
  <2>2. a \in 0 .. Len(image.apps)
    BY <2>1, AppFound
  <2>. HIDE DEF a
  <2>. QED  BY <1>1, <2>1, <2>2
<1>3. f \in 1 .. Len(image.apps[a].files)
  <2>1. image.apps[a] \in AppIn(Setting, Datum)
    <3>. HIDE DEF a
    <3>. QED  BY <1>2 DEF LayoutIn
  <2>2. Len(image.apps[a].files) \in Nat /\ DOMAIN image.apps[a].files = 1 .. Len(image.apps[a].files)
    <3>. HIDE DEF a
    <3>. QED  BY <2>1 DEF AppIn
  <2>3. f \in 0 .. Len(image.apps[a].files)
    BY <2>2, FileFound
  <2>. HIDE DEF a, f
  <2>. QED  BY <1>1, <2>2, <2>3
<1>. HIDE DEF a, f
<1>. QED  BY <1>1, <1>2, <1>3

\* What two images share that differ in the data of a file.
SameButData(one, two) ==
  /\ one.currentAID = two.currentAID /\ one.currentFile = two.currentFile
  /\ Len(one.apps) = Len(two.apps)
  /\ \A i \in 1 .. Len(two.apps) :
       /\ one.apps[i].aid = two.apps[i].aid
       /\ Len(one.apps[i].files) = Len(two.apps[i].files)
       /\ \A j \in 1 .. Len(two.apps[i].files) :
            one.apps[i].files[j].fileNo = two.apps[i].files[j].fileNo

\* new is the image with other data in a file it has.
Rewritten(Setting, Datum, image, a, f, bytes, new) ==
  /\ image \in LayoutIn(Setting, Datum)
  /\ a \in 1 .. Len(image.apps) /\ f \in 1 .. Len(image.apps[a].files)
  /\ bytes \in Seq(Datum) /\ new = WithData(image, a, f, bytes)

\* Of an image one file of which has other data, nothing else is other.
LEMMA OnlyData ==
  ASSUME NEW Setting, NEW Datum, NEW image, NEW a, NEW f, NEW bytes, NEW new,
         Rewritten(Setting, Datum, image, a, f, bytes, new)
  PROVE  /\ new \in LayoutIn(Setting, Datum)
         /\ SameButData(new, image)
         /\ DataAt(new, <<a, f>>) = bytes
         /\ \A other : WithData(new, a, f, other) = WithData(image, a, f, other)
<1>0. /\ image \in LayoutIn(Setting, Datum) /\ a \in 1 .. Len(image.apps)
      /\ f \in 1 .. Len(image.apps[a].files)
      /\ bytes \in Seq(Datum) /\ new = WithData(image, a, f, bytes)
  BY DEF Rewritten
<1>. USE <1>0
<1>. DEFINE app == image.apps[a]
            file == app.files[f]
            newFile == [file EXCEPT !.data = bytes]
            newFiles == [app.files EXCEPT ![f] = newFile]
            newApp == [app EXCEPT !.files = newFiles]
            newApps == [image.apps EXCEPT ![a] = newApp]
            built == [image EXCEPT !.apps = newApps]
<1>1. WithData(image, a, f, bytes) = built
  BY DEF WithData
<1>2. app \in AppIn(Setting, Datum) /\ image.apps \in Seq(AppIn(Setting, Datum))
  BY DEF LayoutIn
<1>3. file \in FileIn(Setting, Datum) /\ app.files \in Seq(FileIn(Setting, Datum))
  BY <1>2 DEF AppIn
<1>4. newFile \in FileIn(Setting, Datum) /\ newFile.fileNo = file.fileNo /\ newFile.data = bytes
  BY <1>3 DEF FileIn
<1>5. /\ newFiles \in Seq(FileIn(Setting, Datum)) /\ Len(newFiles) = Len(app.files)
      /\ newFiles[f] = newFile
      /\ \A j \in 1 .. Len(app.files) : newFiles[j].fileNo = app.files[j].fileNo
  <2>1. f \in 1 .. Len(app.files)
    OBVIOUS
  <2>. HIDE DEF newFile, app
  <2>2. \A j \in 1 .. Len(app.files) : newFiles[j] = IF j = f THEN newFile ELSE app.files[j]
    BY <1>3
  <2>. QED  BY <1>3, <1>4, <2>1, <2>2, ExceptSeq
<1>6. newApp \in AppIn(Setting, Datum) /\ newApp.aid = app.aid /\ newApp.files = newFiles
  <2>. HIDE DEF newFiles
  <2>. QED  BY <1>2, <1>5 DEF AppIn
<1>7. /\ newApps \in Seq(AppIn(Setting, Datum)) /\ Len(newApps) = Len(image.apps)
      /\ newApps[a] = newApp
      /\ \A i \in 1 .. Len(image.apps) : i # a => newApps[i] = image.apps[i]
  <2>. HIDE DEF newApp
  <2>. QED  BY <1>2, <1>6
<1>8. /\ built \in LayoutIn(Setting, Datum) /\ built.apps = newApps
      /\ built.currentAID = image.currentAID /\ built.currentFile = image.currentFile
  <2>. HIDE DEF newApps
  <2>. QED  BY <1>7 DEF LayoutIn
<1>9. DataAt(built, <<a, f>>) = bytes
  <2>1. DataAt(built, <<a, f>>) = built.apps[a].files[f].data
    <3>. HIDE DEF built
    <3>. QED  BY DEF DataAt
  <2>. HIDE DEF built, newApps, newApp, newFiles, newFile
  <2>. QED  BY <1>4, <1>5, <1>6, <1>7, <1>8, <2>1
<1>10. ASSUME NEW i \in 1 .. Len(image.apps)
       PROVE  /\ built.apps[i].aid = image.apps[i].aid
              /\ Len(built.apps[i].files) = Len(image.apps[i].files)
              /\ \A j \in 1 .. Len(image.apps[i].files) :
                   built.apps[i].files[j].fileNo = image.apps[i].files[j].fileNo
  <2>1. CASE i = a
    <3>. HIDE DEF built, newApps, newApp, newFiles
    <3>. QED  BY <1>5, <1>6, <1>7, <1>8, <2>1
  <2>2. CASE i # a
    <3>. HIDE DEF built, newApps, newApp, newFiles
    <3>. QED  BY <1>7, <1>8, <2>2
  <2>. QED  BY <2>1, <2>2
<1>11. ASSUME NEW other PROVE WithData(built, a, f, other) = WithData(image, a, f, other)
  <2>. DEFINE file2 == [file EXCEPT !.data = other]
              files2 == [app.files EXCEPT ![f] = file2]
              app2 == [app EXCEPT !.files = files2]
              apps2 == [image.apps EXCEPT ![a] = app2]
  <2>1. /\ [newFile EXCEPT !.data = other] = file2
        /\ [newFiles EXCEPT ![f] = file2] = files2
        /\ [newApp EXCEPT !.files = files2] = app2
        /\ [newApps EXCEPT ![a] = app2] = apps2
        /\ [built EXCEPT !.apps = apps2] = [image EXCEPT !.apps = apps2]
    OBVIOUS
  <2>2. WithData(image, a, f, other) = [image EXCEPT !.apps = apps2]
    BY DEF WithData
  <2>. HIDE DEF file2, files2, app2, apps2, newFile, newFiles, newApp, newApps, built
  <2>3. built.apps[a] = newApp /\ newApp.files = newFiles /\ newFiles[f] = newFile
    BY <1>5, <1>6, <1>7, <1>8
  <2>4. WithData(built, a, f, other) =
          [built EXCEPT !.apps = [built.apps EXCEPT ![a] = [built.apps[a] EXCEPT !.files =
             [built.apps[a].files EXCEPT ![f] = [built.apps[a].files[f] EXCEPT !.data = other]]]]]
    BY DEF WithData
  <2>. QED  BY <1>8, <2>1, <2>2, <2>3, <2>4
<1>12. new = built
  BY <1>1
<1>. HIDE DEF built, newApps
<1>13. SameButData(built, image)
  BY <1>7, <1>8, <1>10 DEF SameButData
<1>. QED  BY <1>12, <1>8, <1>9, <1>11, <1>13

\* The same file stays the active one.
LEMMA StillActive ==
  ASSUME NEW Setting, NEW Datum, NEW image, NEW a, NEW f, NEW bytes, NEW new,
         Rewritten(Setting, Datum, image, a, f, bytes, new), ActiveFile(image) = <<a, f>>
  PROVE  ActiveFile(new) = <<a, f>>
<1>0. /\ image \in LayoutIn(Setting, Datum) /\ a \in 1 .. Len(image.apps)
      /\ f \in 1 .. Len(image.apps[a].files)
  BY DEF Rewritten
<1>. USE <1>0
<1>1. new \in LayoutIn(Setting, Datum) /\ SameButData(new, image)
  BY OnlyData
<1>2. /\ FindApp(image, image.currentAID) = a
      /\ FindFile(image.apps[a], image.currentFile) = f /\ a # 0 /\ f # 0
  BY DEF ActiveFile
<1>3. FindApp(new, new.currentAID) = a
  <2>1. /\ Len(image.apps) \in Nat /\ DOMAIN image.apps = 1 .. Len(image.apps)
        /\ DOMAIN new.apps = 1 .. Len(image.apps)
    BY <1>1 DEF LayoutIn, SameButData
  <2>2. FindApp(new, image.currentAID) = FindApp(image, image.currentAID)
    <3>. DEFINE n == Len(image.apps)
    <3>1. /\ n \in Nat /\ DOMAIN new.apps = 1 .. n /\ DOMAIN image.apps = 1 .. n
          /\ \A i \in 1 .. n : new.apps[i].aid = image.apps[i].aid
      BY <1>1, <2>1 DEF SameButData
    <3>. HIDE DEF n
    <3>. QED  BY ONLY <3>1, AppsAlike, ZenonT(40)
  <2>. QED  BY <1>1, <1>2, <2>2 DEF SameButData
<1>4. FindFile(new.apps[a], new.currentFile) = f
  <2>1. image.apps[a] \in AppIn(Setting, Datum) /\ new.apps[a] \in AppIn(Setting, Datum)
    BY <1>1 DEF LayoutIn, SameButData
  <2>2. /\ Len(image.apps[a].files) \in Nat
        /\ DOMAIN image.apps[a].files = 1 .. Len(image.apps[a].files)
        /\ DOMAIN new.apps[a].files = 1 .. Len(image.apps[a].files)
    BY <1>1, <2>1 DEF AppIn, SameButData
  <2>3. FindFile(new.apps[a], image.currentFile) = FindFile(image.apps[a], image.currentFile)
    <3>. DEFINE n == Len(image.apps[a].files)
                one == new.apps[a]
                two == image.apps[a]
    <3>1. /\ n \in Nat /\ DOMAIN one.files = 1 .. n /\ DOMAIN two.files = 1 .. n
          /\ \A j \in 1 .. n : one.files[j].fileNo = two.files[j].fileNo
      BY <1>1, <2>2 DEF SameButData
    <3>. HIDE DEF n, one, two
    <3>2. FindFile(one, image.currentFile) = FindFile(two, image.currentFile)
      BY ONLY <3>1, FilesAlike, ZenonT(40)
    <3>. QED  BY <3>2 DEF one, two
  <2>. QED  BY <1>1, <1>2, <2>3 DEF SameButData
<1>5. ActiveFile(new) = <<a, f>>
  BY <1>2, <1>3, <1>4 DEF ActiveFile
<1>. QED  BY <1>5

\* Where a block begins, and which blocks begin in the data: the offset of a
\* block below 0 wraps to one beyond them.
LEMMA BlocksBegin ==
  ASSUME SizeT \in Nat \ {0}, NEW n \in Nat, n <= SizeT, NEW block \in Int,
         n - SizeT <= 16 * block, 16 * block < SizeT
  PROVE  /\ Offset(block) < n <=> block \in 0 .. ((n + 15) \div 16) - 1
         /\ block \in 0 .. ((n + 15) \div 16) - 1 => Offset(block) = 16 * block
<1>. DEFINE x == 16 * block
<1>1. Offset(block) = x % SizeT
  BY DEF Offset, BlockBytes
<1>2. CASE block >= 0
  <2>1. x \in 0 .. SizeT - 1
    BY <1>2
  <2>2. x % SizeT = x
    <3>. HIDE DEF x
    <3>. QED  BY <2>1
  <2>3. 16 * block < n <=> block < (n + 15) \div 16
    OBVIOUS
  <2>. QED  BY <1>1, <1>2, <2>2, <2>3
<1>3. CASE block < 0
  <2>1. x \in -SizeT .. -1
    BY <1>3
  <2>2. x % SizeT = x + SizeT
    <3>. HIDE DEF x
    <3>. QED  BY <2>1
  <2>3. ~ (Offset(block) < n)
    BY <1>1, <2>2
  <2>. QED  BY <1>3, <2>3
<1>. QED  BY <1>2, <1>3

\* A block of the data, filled up with zeros.
FilledUp(bytes, n, block) ==
  [i \in 1 .. 16 |-> IF 16 * block + i <= n THEN bytes[16 * block + i] ELSE 0]

\* Neither n bytes of data nor a block reach round the end of size_t.
InReach(n, block) ==
  n \in Nat /\ n <= SizeT /\ block \in Int /\ n - SizeT <= 16 * block /\ 16 * block < SizeT

\* The blocks that n bytes begin.
Blocks(n) == 0 .. ((n + 15) \div 16) - 1

\* What is read of a file: the data of a block, filled up with zeros.
LEMMA BlockRead ==
  ASSUME SizeT \in Nat \ {0}, NEW image, NEW a, NEW f, ActiveFile(image) = <<a, f>>,
         NEW bytes, bytes = DataAt(image, <<a, f>>), NEW n, n = Len(bytes),
         NEW block, InReach(n, block)
  PROVE  /\ 0 .. VirtualBlockCount(image) - 1 = Blocks(n)
         /\ HasBlock(image, block) <=> block \in Blocks(n)
         /\ block \in Blocks(n) => Offset(block) = 16 * block
         /\ ~ HasBlock(image, block) => ReadVirtualBlock(image, block) = <<>>
         /\ HasBlock(image, block) =>
              /\ ReadVirtualBlock(image, block) # <<>>
              /\ ReadVirtualBlock(image, block) = FilledUp(bytes, n, block)
<1>0. /\ n \in Nat /\ n <= SizeT /\ block \in Int /\ n - SizeT <= 16 * block /\ 16 * block < SizeT
  BY DEF InReach
<1>1. <<a, f>> # <<>>
  OBVIOUS
<1>2. VirtualBlockCount(image) = (n + 15) \div 16
  BY <1>1 DEF VirtualBlockCount, BlockBytes
<1>3. HasBlock(image, block) <=> Offset(block) < n
  BY <1>1 DEF HasBlock
<1>4. /\ HasBlock(image, block) <=> block \in Blocks(n)
      /\ block \in Blocks(n) => Offset(block) = 16 * block
  BY <1>0, <1>3, BlocksBegin DEF Blocks
<1>5. ~ HasBlock(image, block) => ReadVirtualBlock(image, block) = <<>>
  BY DEF ReadVirtualBlock, Nothing
<1>6. ASSUME HasBlock(image, block)
      PROVE  /\ ReadVirtualBlock(image, block) # <<>>
             /\ ReadVirtualBlock(image, block) = FilledUp(bytes, n, block)
  <2>1. Offset(block) = 16 * block
    BY <1>4, <1>6
  <2>2. ReadVirtualBlock(image, block) =
          [i \in 1 .. 16 |-> IF Offset(block) + i <= Len(bytes) THEN bytes[Offset(block) + i] ELSE 0]
    BY <1>6 DEF ReadVirtualBlock, BlockBytes
  <2>3. DOMAIN ReadVirtualBlock(image, block) = 1 .. 16 /\ DOMAIN <<>> = {}
    BY <2>2
  <2>. QED  BY <2>1, <2>2, <2>3 DEF FilledUp
<1>7. 0 .. VirtualBlockCount(image) - 1 = Blocks(n)
  BY <1>2 DEF Blocks
<1>. QED  BY <1>4, <1>5, <1>6, <1>7

\* The same of an active file that holds given bytes, in two words.
HoldsBytes(image, a, f, bytes, n) ==
  ActiveFile(image) = <<a, f>> /\ bytes = DataAt(image, <<a, f>>) /\ n = Len(bytes)
ReadsAs(image, bytes, n, block) ==
  /\ HasBlock(image, block) <=> block \in Blocks(n)
  /\ HasBlock(image, block) => ReadVirtualBlock(image, block) = FilledUp(bytes, n, block)

LEMMA BlockReads ==
  ASSUME SizeT \in Nat \ {0}, NEW image, NEW a, NEW f, NEW bytes, NEW n,
         HoldsBytes(image, a, f, bytes, n), NEW block, InReach(n, block)
  PROVE  ReadsAs(image, bytes, n, block)
<1>1. ActiveFile(image) = <<a, f>> /\ bytes = DataAt(image, <<a, f>>) /\ n = Len(bytes)
  BY DEF HoldsBytes
<1>2. /\ HasBlock(image, block) <=> block \in Blocks(n)
      /\ HasBlock(image, block) => ReadVirtualBlock(image, block) = FilledUp(bytes, n, block)
  BY ONLY SizeT \in Nat \ {0}, <1>1, InReach(n, block), BlockRead
<1>. QED  BY <1>2 DEF ReadsAs

\* What has been written of a block, and the data with it.
OfBlock(in, n, block) == [i \in 1 .. 16 |-> IF block * 16 + i <= n THEN in[i] ELSE 0]

Spliced(bytes, n, block, in) ==
  [i \in 1 .. n |-> IF i - 16 * block \in 1 .. 16 THEN in[i - 16 * block] ELSE bytes[i]]

IsSplice(Datum, n, bytes, block, in, new) ==
  /\ n \in Nat /\ bytes \in Seq(Datum) /\ n = Len(bytes) /\ block \in Nat
  /\ in \in [1 .. 16 -> Datum] /\ new = Spliced(bytes, n, block, in)

\* What is spliced into the data shows in its own block and no other.
LEMMA BlockSpliced ==
  ASSUME NEW Datum, NEW n, NEW bytes, NEW block, NEW in, NEW new,
         IsSplice(Datum, n, bytes, block, in, new)
  PROVE  /\ new \in Seq(Datum) /\ Len(new) = n
         /\ FilledUp(new, n, block) = OfBlock(in, n, block)
         /\ \A other \in Nat : other # block => FilledUp(new, n, other) = FilledUp(bytes, n, other)
<1>. USE DEF IsSplice
<1>1. DOMAIN new = 1 .. n
  BY DEF Spliced
<1>2. ASSUME NEW i \in 1 .. n
      PROVE  /\ new[i] \in Datum
             /\ i - 16 * block \in 1 .. 16 => new[i] = in[i - 16 * block]
             /\ i - 16 * block \notin 1 .. 16 => new[i] = bytes[i]
  <2>1. bytes[i] \in Datum
    OBVIOUS
  <2>2. new[i] = IF i - 16 * block \in 1 .. 16 THEN in[i - 16 * block] ELSE bytes[i]
    BY DEF Spliced
  <2>. QED  BY <2>1, <2>2
<1>3. new \in Seq(Datum) /\ Len(new) = n
  <2>1. new = [i \in 1 .. n |-> new[i]]
    BY DEF Spliced
  <2>. QED  BY <1>1, <1>2, <2>1
<1>4. ASSUME NEW i \in 1 .. 16, 16 * block + i <= n
      PROVE  new[16 * block + i] = in[i]
  <2>1. 16 * block + i \in 1 .. n /\ (16 * block + i) - 16 * block = i
    BY <1>4
  <2>. QED  BY <1>2, <2>1
<1>5. ASSUME NEW other \in Nat, other # block, NEW i \in 1 .. 16, 16 * other + i <= n
      PROVE  new[16 * other + i] = bytes[16 * other + i]
  <2>1. 16 * other + i \in 1 .. n /\ (16 * other + i) - 16 * block \notin 1 .. 16
    BY <1>5
  <2>. QED  BY <1>2, <2>1
<1>6. FilledUp(new, n, block) = OfBlock(in, n, block)
  <2>1. 16 * block = block * 16
    OBVIOUS
  <2>. QED  BY <1>4, <2>1 DEF FilledUp, OfBlock
<1>7. ASSUME NEW other \in Nat, other # block
      PROVE  FilledUp(new, n, other) = FilledUp(bytes, n, other)
  BY <1>5, <1>7 DEF FilledUp
<1>. QED  BY <1>3, <1>6, <1>7

\* The virtual blocks cover the active file and nothing else, for every image,
\* every size and every block number, those below 0 included, as long as
\* neither the file nor the block reaches round the end of size_t
\* (DesfireMemoryLayout's readVirtualBlock and writeVirtualBlock).
THEOREM VirtualBlocksCoverFile ==
  ASSUME SizeT \in Nat \ {0}, NEW Setting, NEW Datum, NEW image \in LayoutIn(Setting, Datum),
         NEW size \in 0 .. SizeT,
         \A a \in 1 .. Len(image.apps) : \A f \in 1 .. Len(image.apps[a].files) :
           Len(image.apps[a].files[f].data) <= size,
         NEW block \in Int, size - SizeT <= 16 * block, 16 * block < SizeT,
         NEW in \in [1 .. 16 -> Datum]
  PROVE  BlocksCoverFile(image, block, in)
<1>1. CASE ActiveFile(image) = <<>>
  <2>1. ~ HasBlock(image, block) /\ VirtualBlockCount(image) = 0
    BY <1>1 DEF HasBlock, VirtualBlockCount
  <2>2. /\ ReadVirtualBlock(image, block) = <<>>
        /\ WriteVirtualBlock(image, block, in) = image
    BY <2>1 DEF ReadVirtualBlock, WriteVirtualBlock, Nothing
  <2>. QED  BY <1>1, <2>1, <2>2 DEF BlocksCoverFile, Nothing
<1>2. CASE ActiveFile(image) # <<>>
  <2>1. PICK a \in 1 .. Len(image.apps) : \E f \in 1 .. Len(image.apps[a].files) :
               ActiveFile(image) = <<a, f>>
    BY <1>2, ActiveIsThere
  <2>2. PICK f \in 1 .. Len(image.apps[a].files) : ActiveFile(image) = <<a, f>>
    BY <2>1
  <2>. DEFINE bytes == DataAt(image, <<a, f>>)
              n == Len(bytes)
              written == WriteVirtualBlock(image, block, in)
              at == <<a, f>>
  <2>3. bytes \in Seq(Datum) /\ n \in Nat /\ n <= size
    <3>1. bytes = image.apps[a].files[f].data
      BY DEF DataAt
    <3>2. image.apps[a] \in AppIn(Setting, Datum)
      BY DEF LayoutIn
    <3>3. image.apps[a].files[f] \in FileIn(Setting, Datum)
      <4>. DEFINE app == image.apps[a]
      <4>1. app.files \in Seq(FileIn(Setting, Datum)) /\ f \in 1 .. Len(app.files)
        BY <3>2 DEF AppIn
      <4>2. app.files[f] \in FileIn(Setting, Datum)
        <5>. HIDE DEF app
        <5>. QED  BY ONLY <4>1
      <4>. QED  BY ONLY <4>2, Zenon DEF app
    <3>4. bytes \in Seq(Datum)
      BY <3>1, <3>3 DEF FileIn
    <3>5. n <= size
      BY <3>1
    <3>. QED  BY <3>4, <3>5
  <2>. HIDE DEF bytes, n
  <2>4. InReach(n, block)
    BY <2>3, SMTT(30) DEF InReach
  <2>5. bytes = DataAt(image, <<a, f>>) /\ n = Len(bytes)
    BY DEF bytes, n
  <2>6. /\ 0 .. VirtualBlockCount(image) - 1 = Blocks(n)
        /\ HasBlock(image, block) <=> block \in Blocks(n)
        /\ block \in Blocks(n) => Offset(block) = 16 * block
        /\ ~ HasBlock(image, block) => ReadVirtualBlock(image, block) = <<>>
        /\ HasBlock(image, block) => ReadVirtualBlock(image, block) # <<>>
    BY ONLY SizeT \in Nat \ {0}, <2>2, <2>4, <2>5, BlockRead
  <2>7. ActiveFile(image) = at /\ at # <<>> /\ n = Len(DataAt(image, at))
    BY <2>2, <2>5
  <2>. HIDE DEF written, at
  <2>8. ~ HasBlock(image, block) => written = image
    BY DEF written, WriteVirtualBlock
  <2>9. ASSUME HasBlock(image, block)
        PROVE  /\ Len(DataAt(written, at)) = n
               /\ ReadVirtualBlock(written, block) = OfBlock(in, n, block)
               /\ \A other \in Blocks(n) : other # block =>
                    ReadVirtualBlock(written, other) = ReadVirtualBlock(image, other)
               /\ [written EXCEPT !.apps[at[1]].files[at[2]].data = <<>>]
                    = [image EXCEPT !.apps[at[1]].files[at[2]].data = <<>>]
    <3>. DEFINE new == Spliced(bytes, n, block, in)
    <3>1. block \in Blocks(n) /\ block \in Nat /\ Offset(block) = 16 * block
      BY <2>3, <2>6, <2>9 DEF Blocks
    <3>2. /\ new \in Seq(Datum) /\ Len(new) = n
          /\ FilledUp(new, n, block) = OfBlock(in, n, block)
          /\ \A other \in Nat : other # block => FilledUp(new, n, other) = FilledUp(bytes, n, other)
      <4>1. IsSplice(Datum, n, bytes, block, in, new)
        BY <2>3, <2>5, <3>1 DEF IsSplice
      <4>. HIDE DEF new
      <4>. QED  BY ONLY <4>1, BlockSpliced
    <3>3. written = WithData(image, a, f, new)
      <4>1. written = [image EXCEPT !.apps[a].files[f].data =
              [i \in DOMAIN @ |-> IF i - 16 * block \in 1 .. 16 THEN in[i - 16 * block] ELSE @[i]]]
        <5>1. <<a, f>>[1] = a /\ <<a, f>>[2] = f
          OBVIOUS
        <5>. QED  BY <2>2, <2>9, <3>1, <5>1 DEF written, WriteVirtualBlock, BlockBytes
      <4>2. image.apps[a].files[f].data = bytes /\ DOMAIN bytes = 1 .. n
        <5>1. image.apps[a].files[f].data = bytes
          BY <2>5 DEF DataAt
        <5>. QED  BY ONLY <5>1, <2>3, <2>5
      <4>. QED  BY <4>1, <4>2 DEF WithData, Spliced
    <3>. HIDE DEF new
    <3>4. Rewritten(Setting, Datum, image, a, f, new, written)
      BY ONLY image \in LayoutIn(Setting, Datum), a \in 1 .. Len(image.apps),
              f \in 1 .. Len(image.apps[a].files), <3>2, <3>3 DEF Rewritten
    <3>5. /\ written \in LayoutIn(Setting, Datum)
          /\ DataAt(written, <<a, f>>) = new
          /\ \A other : WithData(written, a, f, other) = WithData(image, a, f, other)
      BY ONLY <3>4, OnlyData, SMTT(30)
    <3>6. ActiveFile(written) = <<a, f>>
      BY ONLY <2>2, <3>4, StillActive
    <3>7. ASSUME NEW other \in Blocks(n)
          PROVE  /\ other \in Nat
                 /\ ReadVirtualBlock(written, other) = FilledUp(new, n, other)
                 /\ ReadVirtualBlock(image, other) = FilledUp(bytes, n, other)
      <4>1. InReach(n, other) /\ other \in Nat
        BY <2>3, <2>4, SMTT(30) DEF InReach, Blocks
      <4>2. ReadVirtualBlock(image, other) = FilledUp(bytes, n, other)
        <5>1. HoldsBytes(image, a, f, bytes, n)
          BY ONLY <2>5, <2>2 DEF HoldsBytes
        <5>2. ReadsAs(image, bytes, n, other)
          BY ONLY SizeT \in Nat \ {0}, <4>1, <5>1, BlockReads
        <5>. QED  BY ONLY <5>2, other \in Blocks(n) DEF ReadsAs
      <4>3. ReadVirtualBlock(written, other) = FilledUp(new, n, other)
        <5>1. HoldsBytes(written, a, f, new, n)
          BY ONLY <3>2, <3>5, <3>6 DEF HoldsBytes
        <5>2. ReadsAs(written, new, n, other)
          BY ONLY SizeT \in Nat \ {0}, <4>1, <5>1, BlockReads
        <5>. QED  BY ONLY <5>2, other \in Blocks(n) DEF ReadsAs
      <4>. QED  BY <4>1, <4>2, <4>3
    <3>8. [written EXCEPT !.apps[at[1]].files[at[2]].data = <<>>]
             = [image EXCEPT !.apps[at[1]].files[at[2]].data = <<>>]
      BY ONLY <3>5 DEF WithData, at
    <3>9. Len(DataAt(written, at)) = n
      BY <3>2, <3>5 DEF at
    <3>. QED  BY ONLY <3>1, <3>2, <3>7, <3>8, <3>9
  <2>10. BlocksCoverFile(image, block, in)
    BY <2>6, <2>7, <2>8, <2>9 DEF OfBlock, BlocksCoverFile, Nothing, BlockBytes, written
  <2>. QED  BY <2>10
<1>. QED  BY <1>1, <1>2

-----------------------------------------------------------------------------
(* Status words                                                            *)

\* The condition of a status that is named is found by its bytes.
LEMMA NamedCategory ==
  ASSUME NEW n \in Named, NEW sw, sw = <<n[2], n[3]>>
  PROVE  Category(sw) = n[1] /\ n[1] \notin {"Success", "AuthSentinel", "WrongLE", "Unknown"}
<1>1. /\ n[1] \notin {"Success", "AuthSentinel", "WrongLE", "Unknown"}
      /\ \A m \in Named : m[2] = n[2] /\ m[3] = n[3] => m = n
  BY DEF Named
<1>2. ~ IsSuccess(sw) /\ ~ IsAuthSentinel(sw) /\ ~ IsWrongLE(sw)
  BY DEF Named, IsSuccess, IsAuthSentinel, IsWrongLE
<1>. DEFINE m == CHOOSE m \in Named : sw = <<m[2], m[3]>>
<1>3. m \in Named /\ sw = <<m[2], m[3]>>
  OBVIOUS
<1>4. m = n
  BY <1>1, <1>3
<1>. HIDE DEF m
<1>5. Category(sw) = m[1]
  BY <1>2, <1>3 DEF Category, m
<1>. QED  BY <1>1, <1>4, <1>5

\* A status of no condition is unknown to both lists.
LEMMA UnnamedCategory ==
  ASSUME NEW sw, ~ IsSuccess(sw), ~ IsAuthSentinel(sw), ~ IsWrongLE(sw),
         \A n \in Named : sw # <<n[2], n[3]>>
  PROVE  Category(sw) = "Unknown" /\ Kind(sw) = "none"
<1>1. Category(sw) = "Unknown"
  BY DEF Category
<1>2. /\ sw # <<103, 0>> /\ sw # <<105, 130>> /\ sw # <<105, 131>> /\ sw # <<106, 130>>
      /\ sw # <<106, 134>> /\ sw # <<109, 0>> /\ sw # <<110, 0>>
  <2>1. /\ <<"WrongLength", 103, 0>> \in Named
        /\ <<"SecurityError", 105, 130>> \in Named
        /\ <<"AuthBlocked", 105, 131>> \in Named
        /\ <<"FileNotFound", 106, 130>> \in Named
        /\ <<"IncorrectP1P2", 106, 134>> \in Named
        /\ <<"INSNotSupported", 109, 0>> \in Named
        /\ <<"CLANotSupported", 110, 0>> \in Named
    BY DEF Named
  <2>. QED  BY <2>1
<1>3. Kind(sw) = "none"
  BY <1>2 DEF Kind
<1>. QED  BY <1>1, <1>3

NamedStatus(sw) == \E n \in Named : sw = <<n[2], n[3]>>

OneOfSeven(sw) ==
  \/ sw = <<103, 0>> \/ sw = <<105, 130>> \/ sw = <<105, 131>> \/ sw = <<106, 130>>
  \/ sw = <<106, 134>> \/ sw = <<109, 0>> \/ sw = <<110, 0>>

\* No status meets two conditions.
LEMMA ConditionsApart ==
  ASSUME NEW sw
  PROVE  /\ NamedStatus(sw) => OneOfSeven(sw)
         /\ IsSuccess(sw) => ~ IsAuthSentinel(sw) /\ ~ IsWrongLE(sw) /\ ~ OneOfSeven(sw)
         /\ IsAuthSentinel(sw) => ~ IsWrongLE(sw) /\ ~ OneOfSeven(sw)
         /\ IsWrongLE(sw) => ~ OneOfSeven(sw)
<1>1. NamedStatus(sw) => OneOfSeven(sw)
  BY DEF Named, NamedStatus, OneOfSeven
<1>2. IsSuccess(sw) => ~ IsAuthSentinel(sw) /\ ~ IsWrongLE(sw) /\ ~ OneOfSeven(sw)
  BY DEF OneOfSeven, IsSuccess, IsAuthSentinel, IsWrongLE
<1>3. IsAuthSentinel(sw) => ~ IsWrongLE(sw) /\ ~ OneOfSeven(sw)
  BY DEF OneOfSeven, IsAuthSentinel, IsWrongLE
<1>4. IsWrongLE(sw) => ~ OneOfSeven(sw)
  BY DEF OneOfSeven, IsWrongLE
<1>. QED  BY <1>1, <1>2, <1>3, <1>4

\* The kind of a status is that of its condition.
LEMMA KindFollows ==
  ASSUME NEW sw \in StatusWord
  PROVE  /\ Kind(sw) = KindOfCategory[Category(sw)]
         /\ Category(sw) = "Success" <=> IsSuccess(sw)
         /\ Kind(sw) = "none" <=> Category(sw) \in {"WrongLE", "Unknown"}
<1>1. CASE IsSuccess(sw)
  <2>1. ~ IsAuthSentinel(sw) /\ ~ IsWrongLE(sw) /\ ~ OneOfSeven(sw) /\ ~ NamedStatus(sw)
    BY <1>1, ConditionsApart
  <2>2. Category(sw) = "Success"
    BY <1>1, <2>1 DEF Category, NamedStatus
  <2>3. Kind(sw) = "Success"
    BY <1>1, <2>1 DEF Kind, OneOfSeven
  <2>. QED  BY <1>1, <2>2, <2>3 DEF KindOfCategory, IsSuccess
<1>2. CASE IsAuthSentinel(sw)
  <2>1. ~ IsSuccess(sw) /\ ~ IsWrongLE(sw) /\ ~ OneOfSeven(sw) /\ ~ NamedStatus(sw)
    BY <1>2, ConditionsApart
  <2>2. Category(sw) = "AuthSentinel"
    BY <1>2, <2>1 DEF Category, NamedStatus
  <2>3. Kind(sw) = "AuthRequired"
    BY <1>2, <2>1 DEF Kind, OneOfSeven
  <2>. QED  BY <2>1, <2>2, <2>3 DEF KindOfCategory, IsSuccess
<1>3. CASE IsWrongLE(sw)
  <2>1. ~ IsSuccess(sw) /\ ~ IsAuthSentinel(sw) /\ ~ OneOfSeven(sw) /\ ~ NamedStatus(sw)
    BY <1>3, ConditionsApart
  <2>2. Category(sw) = "WrongLE"
    BY <1>3, <2>1 DEF Category, NamedStatus
  <2>3. Kind(sw) = "none"
    BY <2>1 DEF Kind, OneOfSeven
  <2>. QED  BY <2>1, <2>2, <2>3 DEF KindOfCategory, IsSuccess
<1>4. CASE \E n \in Named : sw = <<n[2], n[3]>>
  <2>1. PICK n \in Named : sw = <<n[2], n[3]>>
    BY <1>4
  <2>2. Category(sw) = n[1] /\ n[1] \notin {"Success", "AuthSentinel", "WrongLE", "Unknown"}
    BY <2>1, NamedCategory
  <2>3. ~ IsSuccess(sw) /\ ~ IsAuthSentinel(sw)
    BY <2>1 DEF Named, IsSuccess, IsAuthSentinel
  <2>4. Kind(sw) = KindOfCategory[n[1]] /\ Kind(sw) # "none"
    BY <2>1, <2>3 DEF Named, Kind, KindOfCategory
  <2>. QED  BY <2>2, <2>3, <2>4
<1>5. CASE /\ ~ IsSuccess(sw) /\ ~ IsAuthSentinel(sw) /\ ~ IsWrongLE(sw)
           /\ \A n \in Named : sw # <<n[2], n[3]>>
  BY <1>5, UnnamedCategory DEF KindOfCategory
<1>. QED  BY <1>1, <1>2, <1>3, <1>4, <1>5

\* The status is the end of the answer, and the data are what is before it.
LEMMA StatusAtTheEnd ==
  ASSUME NEW sw \in StatusWord, NEW bytes \in Seq(StatusByte)
  PROVE  /\ Len(bytes \o sw) >= 2
         /\ StatusOf(bytes \o sw) = sw
         /\ ExtractData(bytes \o sw) = bytes
<1>. DEFINE n == Len(bytes)
            response == bytes \o sw
<1>1. sw \in Seq(StatusByte) /\ Len(sw) = 2 /\ n \in Nat
  <2>1. PICK a \in StatusByte, b \in StatusByte : sw = <<a, b>>
    BY DEF StatusWord
  <2>2. <<a, b>> \in Seq(StatusByte) /\ Len(<<a, b>>) = 2
    OBVIOUS
  <2>3. n \in Nat
    BY LenProperties
  <2>. QED  BY <2>1, <2>2, <2>3
<1>2. Len(response) = n + 2
  <2>1. Len(bytes \o sw) = Len(bytes) + Len(sw)
    BY ONLY <1>1, bytes \in Seq(StatusByte), ConcatProperties, Zenon
  <2>. QED  BY <1>1, <2>1
<1>3. SubSeq(response, n + 1, n + 2) = sw
  <2>1. n + 1 \in n + 1 .. n + Len(sw) /\ n + 2 \in n + 1 .. n + Len(sw)
    BY <1>1
  <2>2. SubSeq(response, n + 1, n + 2) = SubSeq(sw, (n + 1) - n, (n + 2) - n)
    BY ONLY <1>1, <2>1, bytes \in Seq(StatusByte), SubSeqOfConcat2, Zenon
  <2>3. (n + 1) - n = 1 /\ (n + 2) - n = Len(sw)
    BY <1>1
  <2>. QED  BY <1>1, <2>2, <2>3, SubSeqFull
<1>4. SubSeq(response, 1, n) = bytes
  <2>1. CASE n = 0
    <3>1. bytes = <<>>
      BY <2>1, EmptySeq
    <3>. QED  BY <2>1, <3>1, SubSeqEmpty
  <2>2. CASE n > 0
    <3>1. 1 \in 1 .. n /\ n \in 1 .. n
      BY <1>1, <2>2
    <3>2. SubSeq(response, 1, n) = SubSeq(bytes, 1, n)
      BY <1>1, <3>1, SubSeqOfConcat1
    <3>. QED  BY <3>2, SubSeqFull
  <2>. QED  BY <1>1, <2>1, <2>2
<1>. HIDE DEF n, response
<1>5. Len(response) - 1 = n + 1 /\ Len(response) - 2 = n /\ ~ (Len(response) < 2)
  BY <1>1, <1>2
<1>6. StatusOf(response) = sw /\ ExtractData(response) = bytes
  BY <1>2, <1>3, <1>4, <1>5 DEF StatusOf, ExtractData
<1>. QED  BY <1>1, <1>5, <1>6 DEF response

\* A DESFire answer is ok when it is whole or announces more, and the reader's
\* commands give its status the same verdict but for the contested two.
LEMMA AnswersDiffer ==
  ASSUME NEW sw \in StatusWord, NEW response, Len(response) >= 2, StatusOf(response) = sw
  PROVE  /\ EvaluateResponse(response).ok <=>
              IsOK(response) \/ HasMore(response)
         /\ EvaluateResponse(response).ok # Evaluate(sw).ok <=> sw \in Contested
<1>1. IsOK(response) <=> sw = <<145, 0>>
  BY DEF IsOK
<1>2. HasMore(response) <=> sw = <<145, 175>>
  BY DEF HasMore
<1>3. /\ sw \in {<<145, 0>>, <<145, 175>>} => EvaluateResponse(response).ok = TRUE
      /\ sw \notin {<<145, 0>>, <<145, 175>>} => EvaluateResponse(response).ok = FALSE
  <2>1. CASE sw \in {<<145, 0>>, <<145, 175>>}
    <3>1. EvaluateResponse(response) = Ok
      BY <2>1 DEF EvaluateResponse
    <3>. QED  BY <2>1, <3>1 DEF Ok
  <2>2. CASE sw \notin {<<145, 0>>, <<145, 175>>}
    <3>1. PICK kind : EvaluateResponse(response) = Err(kind)
      BY <2>2 DEF EvaluateResponse
    <3>. QED  BY <2>2, <3>1 DEF Err
  <2>. QED  BY <2>1, <2>2
<1>4. /\ sw \in {<<144, 0>>, <<145, 0>>} => Evaluate(sw).ok = TRUE
      /\ sw \notin {<<144, 0>>, <<145, 0>>} => Evaluate(sw).ok = FALSE
  <2>1. CASE sw \in {<<144, 0>>, <<145, 0>>}
    BY <2>1 DEF Evaluate, Ok, IsSuccess
  <2>2. CASE sw \notin {<<144, 0>>, <<145, 0>>}
    BY <2>2 DEF Evaluate, Err, IsSuccess
  <2>. QED  BY <2>1, <2>2
<1>5. <<145, 0>> # <<145, 175>> /\ <<145, 0>> # <<144, 0>> /\ <<145, 175>> # <<144, 0>>
  OBVIOUS
<1>6. CASE sw = <<145, 0>>
  <2>1. sw \notin Contested /\ IsOK(response)
    BY <1>1, <1>5, <1>6 DEF Contested
  <2>2. EvaluateResponse(response).ok = TRUE /\ Evaluate(sw).ok = TRUE
    BY <1>3, <1>4, <1>6
  <2>. QED  BY <2>1, <2>2
<1>7. CASE sw = <<145, 175>>
  BY <1>1, <1>2, <1>3, <1>4, <1>5, <1>7 DEF Contested
<1>8. CASE sw = <<144, 0>>
  BY <1>1, <1>2, <1>3, <1>4, <1>5, <1>8 DEF Contested
<1>9. CASE sw \notin {<<145, 0>>, <<145, 175>>, <<144, 0>>}
  BY <1>1, <1>2, <1>3, <1>4, <1>9 DEF Contested
<1>. QED  BY <1>6, <1>7, <1>8, <1>9

\* For every status word, and not only for the first bytes some layer knows: its
\* category determines its error kind, a DESFire answer is ok exactly when it is
\* whole or announces more, and the verdicts on a reader's command and on a
\* DESFire answer differ for 90 00 and 91 AF and for nothing else
\* (StatusWordHandler, PcscError, PcscCommands and DesfireCommands).
THEOREM StatusLayersFitted == \A sw \in StatusWord : StatusLayersFitOn(sw)
<1>. SUFFICES ASSUME NEW sw \in StatusWord PROVE StatusLayersFitOn(sw)
  OBVIOUS
<1>1. Kind(sw) = KindOfCategory[Category(sw)]
  BY KindFollows
<1>2. ASSUME NEW bytes \in {<<>>, <<sw[2]>>}
      PROVE  LET response == bytes \o sw IN
             /\ EvaluateResponse(response).ok <=>
                  IsOK(response) \/ HasMore(response)
             /\ ExtractData(response) = bytes
             /\ EvaluateResponse(response).ok # Evaluate(sw).ok <=> sw \in Contested
  <2>1. bytes \in Seq(StatusByte)
    <3>1. <<>> \in Seq(StatusByte)
      OBVIOUS
    <3>2. PICK b \in StatusByte : b = sw[2]
      BY DEF StatusWord
    <3>3. <<b>> \in Seq(StatusByte)
      OBVIOUS
    <3>. QED  BY <3>1, <3>2, <3>3
  <2>2. /\ Len(bytes \o sw) >= 2 /\ StatusOf(bytes \o sw) = sw
        /\ ExtractData(bytes \o sw) = bytes
    BY <2>1, StatusAtTheEnd
  <2>3. /\ EvaluateResponse(bytes \o sw).ok <=>
             IsOK(bytes \o sw) \/ HasMore(bytes \o sw)
        /\ EvaluateResponse(bytes \o sw).ok # Evaluate(sw).ok <=> sw \in Contested
    BY <2>2, AnswersDiffer
  <2>. QED  BY <2>2, <2>3
<1>. QED  BY <1>1, <1>2 DEF StatusLayersFitOn

-----------------------------------------------------------------------------
(* Secure messaging                                                        *)

\* The host's verdict on an answer with a CMAC and on one without.
LEMMA Verdicts ==
  ASSUME NEW key, NEW iv, NEW bytes, NEW mac, NEW status, NEW mode
  PROVE  LET r == UnwrapResponse(key, iv, bytes, mac, status, mode)
             own == Cmac(key, Append(bytes, status))
             verified == mode = "MAC" /\ mac # <<>> IN
         /\ verified /\ mac = Truncate(own) => r.iv = own /\ r.how = "ok" /\ r.data = bytes
         /\ verified /\ mac # Truncate(own) => r.how = "threw" /\ r.data = <<>>
         /\ ~ verified => r.iv = (IF bytes # <<>> THEN own ELSE iv) /\ r.how = "ok" /\ r.data = bytes
  BY DEF UnwrapResponse

\* What an exchange whose answer keeps its CMAC comes down to.
LEMMA AnswerKept ==
  ASSUME NEW key, NEW iv, NEW ins, NEW bytes, NEW answer, NEW status, NEW mode,
         NEW link \in {"arrives", "garbled"}
  PROVE  LET x == Exchange(key, iv, ins, bytes, answer, status, mode, link)
             heard == Cmac(key, <<ins>> \o bytes)
             new == Cmac(key, Append(answer, status))
             r == UnwrapResponse(key, heard,
                    IF link = "garbled" THEN Garbled ELSE answer,
                    IF mode = "MAC" THEN Truncate(new) ELSE <<>>, status, mode) IN
         /\ x.how = r.how /\ x.data = r.data /\ x.host = r.iv
         /\ x.card = IF mode = "MAC" \/ answer # <<>> THEN new ELSE heard
  BY DEF Exchange, WrapSecured, CardAnswers

\* A CMAC that travels is not empty.
LEMMA NoEmptyMac == ASSUME NEW mac PROVE Truncate(mac) # <<>>
  BY DEF Truncate

\* An answer that arrives is returned, and both ends have the same IV.
LEMMA AnswerReturned ==
  ASSUME NEW key, NEW iv, NEW ins, NEW bytes, NEW answer, NEW status, NEW mode
  PROVE  LET x == Exchange(key, iv, ins, bytes, answer, status, mode, "arrives") IN
         x.how = "ok" /\ x.data = answer /\ x.host = x.card
<1>. DEFINE x == Exchange(key, iv, ins, bytes, answer, status, mode, "arrives")
            heard == Cmac(key, <<ins>> \o bytes)
            new == Cmac(key, Append(answer, status))
            mac == IF mode = "MAC" THEN Truncate(new) ELSE <<>>
            r == UnwrapResponse(key, heard, answer, mac, status, mode)
<1>1. /\ x.how = r.how /\ x.data = r.data /\ x.host = r.iv
      /\ x.card = IF mode = "MAC" \/ answer # <<>> THEN new ELSE heard
  BY AnswerKept
<1>2. Truncate(new) # <<>>
  BY NoEmptyMac
<1>3. /\ mode = "MAC" /\ mac # <<>> /\ mac = Truncate(new)
           => r.iv = new /\ r.how = "ok" /\ r.data = answer
      /\ mode # "MAC" => /\ r.iv = (IF answer # <<>> THEN new ELSE heard)
                         /\ r.how = "ok" /\ r.data = answer
  BY Verdicts
<1>4. mode = "MAC" => mac # <<>> /\ mac = Truncate(new)
  BY <1>2
<1>. HIDE DEF x, heard, new, mac, r
<1>5. x.how = "ok" /\ x.data = answer /\ x.host = x.card
  BY <1>1, <1>3, <1>4
<1>. QED  BY <1>5 DEF x

\* In MAC mode an answer the card has not sent is refused.
LEMMA GarbledRefused ==
  ASSUME NEW B, NEW key, NEW iv, NEW ins, NEW bytes, NEW answer \in Seq(B), NEW status,
         Garbled \in Seq(B), Garbled # answer
  PROVE  LET x == Exchange(key, iv, ins, bytes, answer, status, "MAC", "garbled") IN
         x.how = "threw" /\ x.data = <<>>
<1>. DEFINE x == Exchange(key, iv, ins, bytes, answer, status, "MAC", "garbled")
            heard == Cmac(key, <<ins>> \o bytes)
            new == Cmac(key, Append(answer, status))
            own == Cmac(key, Append(Garbled, status))
            r == UnwrapResponse(key, heard, Garbled, Truncate(new), status, "MAC")
<1>1. Append(Garbled, status) # Append(answer, status)
  <2>1. ASSUME Append(Garbled, status) = Append(answer, status) PROVE FALSE
    <3>. DEFINE S == B \cup {status}
    <3>1. Garbled \in Seq(S) /\ answer \in Seq(S) /\ status \in S
      BY SeqMonotonic
    <3>. HIDE DEF S
    <3>2. Garbled = answer
      BY <2>1, <3>1, AppendInjective
    <3>. QED  BY <3>2
  <2>. QED  BY <2>1
<1>2. Truncate(new) # Truncate(own)
  BY <1>1 DEF Truncate, Cmac
<1>3. x.how = r.how /\ x.data = r.data
  BY AnswerKept
<1>4. Truncate(new) # <<>>
  BY NoEmptyMac
<1>5. Truncate(new) # <<>> /\ Truncate(new) # Truncate(own)
        => r.how = "threw" /\ r.data = <<>>
  BY Verdicts
<1>. QED  BY <1>2, <1>3, <1>4, <1>5

\* Whatever the first exchange left behind, an answer that arrives is returned
\* and leaves equal IVs, and a garbled one is refused in MAC mode: for every
\* key, every pair of exchanges and every mode (DesfireSecureMessaging).
THEOREM ExchangesRecover ==
  ASSUME NEW B, NEW key, NEW first, NEW second, second.answer \in Seq(B),
         Garbled \in Seq(B), Garbled # second.answer
  PROVE  RecoversAfter(key, first, second)
<1>. DEFINE one == Exchange(key, NoIV, first.ins, first.data, first.answer,
                                     first.status, first.mode, first.link)
            two == Exchange(key, one.host, second.ins, second.data, second.answer,
                                     second.status, second.mode, second.link)
<1>1. /\ second.link = "arrives" => two.how = "ok" /\ two.data = second.answer /\ two.host = two.card
      /\ second.link = "garbled" /\ second.mode = "MAC" => two.how = "threw" /\ two.data = <<>>
  <2>. HIDE DEF one
  <2>1. CASE second.link = "arrives"
    BY <2>1, AnswerReturned
  <2>2. CASE second.link = "garbled" /\ second.mode = "MAC"
    BY <2>2, GarbledRefused
  <2>. QED  BY <2>1, <2>2
<1>. QED  BY <1>1 DEF RecoversAfter

-----------------------------------------------------------------------------
(* Ciphers                                                                 *)

\* Whatever bytes a program gives as a key or as a multiplier and an offset,
\* and whatever it encrypts, decryption returns it (CaesarCipher, AffineCipher
\* and XorCipher with every constructor).
THEOREM CiphersUndo ==
  \A text \in Seq(Bytes) :
    /\ \A a, b \in Bytes : \A k \in {CaesarShift(b), Caesar(a, b), Affine(a, b)} :
         Decrypt(k, Encrypt(k, text)) = text
    /\ \A key \in Seq(Bytes) : \A k \in {CaesarShift(ShiftFromKey(key)), AffineFromKey(key)} :
         Decrypt(k, Encrypt(k, text)) = text
    /\ \A key \in [1 .. 4 -> Bytes] : XorTransform(key, XorTransform(key, text)) = text
BY GoodKeysInvert, ShiftIsGood, CaesarIsGood, AffineIsGood, KeysOfKeysAreGood, XorUndone

LEMMA KeysOfTheRun ==
  ASSUME NEW a \in Bytes, NEW b \in Bytes
  PROVE  CiphersInvertOn(a, b)
<1>1. EveryByte \in Seq(Bytes)
  <2>1. M \in Nat /\ \A i \in 1 .. M : i - 1 \in Bytes
    BY DEF Bytes, M
  <2>. QED  BY ONLY <2>1 DEF EveryByte
<1>2. <<a, b>> \in Seq(Bytes)
  OBVIOUS
<1>3. <<a, b, b, a>> \in [1 .. 4 -> Bytes]
  OBVIOUS
<1>4. /\ Inverts(Caesar(a, b)) /\ Inverts(Affine(a, b))
      /\ Inverts(CaesarShift(ShiftFromKey(<<a, b>>))) /\ Inverts(AffineFromKey(<<a, b>>))
  BY <1>1, <1>2, CiphersUndo, Zenon DEF Inverts
<1>5. XorTransform(<<a, b, b, a>>, XorTransform(<<a, b, b, a>>, EveryByte)) = EveryByte
  BY <1>1, <1>3, CiphersUndo, Zenon
<1>. QED  BY <1>4, <1>5, Zenon DEF CiphersInvertOn

-----------------------------------------------------------------------------
(* Blocks of every card                                                    *)

\* The arithmetic of the two Classics and of the Ultralight.
LEMMA ClassicLayers ==
  ASSUME NEW ct \in Classic, NEW b \in ValidBlocks(ct)
  PROVE  LayersAgreeOn(ct, b)
<1>. DEFINE s == SectorFromBlock(ct, b)
            i == BlockIndexInSector(ct, b)
<1>1. b \in Nat
  BY DEF ValidBlocks
<1>2. s \in ValidSectors(ct)
  BY SectorBounds
<1>3. s \in Nat /\ FirstBlockOfSector(ct, s) <= b /\ b <= LastBlockOfSector(ct, s)
  BY <1>1, BlockInSectorBounds
<1>4. FirstBlockOfSector(ct, s) \in Nat /\ BlocksPerSector(ct, s) \in Nat
  BY <1>3 DEF FirstBlockOfSector, BlocksPerSector, Classic
<1>5. i = b - FirstBlockOfSector(ct, s)
      /\ LastBlockOfSector(ct, s) = FirstBlockOfSector(ct, s) + BlocksPerSector(ct, s) - 1
  BY DEF BlockIndexInSector, LastBlockOfSector
<1>6. IsTrailerBlock(ct, b) <=> b = LastBlockOfSector(ct, s)
  BY DEF IsTrailerBlock, TrailerBlockOfSector
<1>7. SectorOf(b, ct = "4K") = s /\ BlockInSector(b, ct = "4K") = i
  BY <1>1, CopiesAgree
<1>8. TrailerOffset(ct, s) = 16 * TrailerBlockOfSector(ct, s)
  BY <1>3, ViewsAgree
<1>9. LastBlockOfSector(ct, s) + 1 =
        IF s + 1 \in ValidSectors(ct) THEN FirstBlockOfSector(ct, s + 1) ELSE TotalBlocks(ct)
  <2>. HIDE DEF s
  <2>1. CASE ct = "1K"
    BY <1>2, <2>1 DEF ValidSectors, SectorCount, LastBlockOfSector, FirstBlockOfSector, BlocksPerSector, TotalBlocks
  <2>2. CASE ct = "4K"
    BY <1>2, <2>2 DEF ValidSectors, SectorCount, LastBlockOfSector, FirstBlockOfSector, BlocksPerSector, TotalBlocks
  <2>. QED  BY <2>1, <2>2 DEF Classic
<1>10. 16 * TotalBlocks(ct) = TotalMemoryBytes(ct)
  BY DEF Classic, TotalBlocks, TotalMemoryBytes
<1>. HIDE DEF s, i
<1>11. /\ b \in FirstBlockOfSector(ct, s) .. LastBlockOfSector(ct, s)
       /\ i \in 0 .. (BlocksPerSector(ct, s) - 1)
       /\ IsTrailerBlock(ct, b) <=> i = BlocksPerSector(ct, s) - 1
  BY ONLY <1>1, <1>3, <1>4, <1>5, <1>6
<1>. QED  BY <1>2, <1>7, <1>8, <1>9, <1>10, <1>11 DEF LayersAgreeOn, s, i

LEMMA UltralightLayers ==
  ASSUME NEW b \in ValidBlocks("Ultralight")
  PROVE  LayersAgreeOn("Ultralight", b)
<1>1. b \in 0 .. 3
  BY DEF ValidBlocks, TotalBlocks
<1>2. /\ SectorFromBlock("Ultralight", b) = 0 /\ ValidSectors("Ultralight") = 0 .. 0
      /\ FirstBlockOfSector("Ultralight", 0) = 0 /\ LastBlockOfSector("Ultralight", 0) = 3
      /\ BlocksPerSector("Ultralight", 0) = 4 /\ BlockIndexInSector("Ultralight", b) = b
      /\ "Ultralight" \notin Classic
      /\ TotalBlocks("Ultralight") = 4 /\ TotalMemoryBytes("Ultralight") = 64
  BY <1>1 DEF SectorFromBlock, ValidSectors, SectorCount, FirstBlockOfSector, LastBlockOfSector,
              BlocksPerSector, BlockIndexInSector, Classic, TotalBlocks, TotalMemoryBytes
<1>3. ~ IsTrailerBlock("Ultralight", b)
  BY <1>2 DEF IsTrailerBlock
<1>4. /\ 0 \in 0 .. 0 /\ b \in 0 .. 3 /\ 0 + 1 \notin 0 .. 0 /\ 3 + 1 = 4 /\ 16 * 4 = 64 /\ 4 - 1 = 3
  BY <1>1
<1>. QED  BY ONLY <1>2, <1>3, <1>4 DEF LayersAgreeOn

\* Every block of every card, those of a DESFire card being none.
LEMMA BlocksOfTheRun ==
  ASSUME NEW ct \in CardTypes, NEW b \in ValidBlocks(ct)
  PROVE  LayersAgreeOn(ct, b)
<1>1. CASE ct = "DESFire"
  BY <1>1 DEF ValidBlocks, TotalBlocks
<1>2. CASE ct = "Ultralight"
  BY <1>2, UltralightLayers
<1>. QED  BY <1>1, <1>2, ClassicLayers DEF CardTypes, Classic

-----------------------------------------------------------------------------
(* Lists and totals                                                        *)

LEMMA ListReadBack ==
  ASSUME NEW n \in Nat, NEW ids \in [1 .. n -> {<<v[1], v[2], v[3]>> : v \in [1 .. 3 -> Int]}]
  PROVE  ParseApplicationIDs(Listed(ids)) = ids
<1>. DEFINE bytes == Listed(ids)
            At(i) == ids[((i - 1) \div 3) + 1][((i - 1) % 3) + 1]
<1>1. Len(ids) = n /\ ids \in Seq({<<v[1], v[2], v[3]>> : v \in [1 .. 3 -> Int]})
  OBVIOUS
<1>2. bytes = [i \in 1 .. 3 * n |-> At(i)]
  BY <1>1, Zenon DEF Listed
<1>3. ASSUME NEW a \in 1 .. n
      PROVE  SubSeq(bytes, 3 * a - 2, 3 * a) = ids[a]
  <2>1. PICK v \in [1 .. 3 -> Int] : ids[a] = <<v[1], v[2], v[3]>>
    OBVIOUS
  <2>2. /\ 3 * a - 2 \in 1 .. 3 * n /\ 3 * a - 1 \in 1 .. 3 * n /\ 3 * a \in 1 .. 3 * n
        /\ ((3 * a - 2) - 1) \div 3 + 1 = a /\ (((3 * a - 2) - 1) % 3) + 1 = 1
        /\ ((3 * a - 1) - 1) \div 3 + 1 = a /\ (((3 * a - 1) - 1) % 3) + 1 = 2
        /\ (3 * a - 1) \div 3 + 1 = a /\ ((3 * a - 1) % 3) + 1 = 3
    OBVIOUS
  <2>3. bytes[3 * a - 2] = ids[a][1] /\ bytes[3 * a - 1] = ids[a][2] /\ bytes[3 * a] = ids[a][3]
    <3>. HIDE DEF bytes
    <3>. QED  BY ONLY <1>2, <2>2
  <2>. HIDE DEF bytes
  <2>4. SubSeq(bytes, 3 * a - 2, 3 * a) = [j \in 1 .. 3 |-> bytes[(3 * a - 2) + j - 1]]
    <3>1. \A m \in Int : \A k \in Int :
            SubSeq(bytes, m, k) = [j \in 1 .. (1 + k - m) |-> bytes[m + j - 1]]
      OBVIOUS
    <3>. QED  BY <3>1
  <2>5. [j \in 1 .. 3 |-> bytes[(3 * a - 2) + j - 1]] = <<bytes[3 * a - 2], bytes[3 * a - 1], bytes[3 * a]>>
    <3>. DEFINE At3(j) == bytes[(3 * a - 2) + j - 1]
    <3>0. At3(1) = bytes[3 * a - 2] /\ At3(2) = bytes[3 * a - 1] /\ At3(3) = bytes[3 * a]
      <4>1. (3 * a - 2) + 1 - 1 = 3 * a - 2 /\ (3 * a - 2) + 2 - 1 = 3 * a - 1 /\ (3 * a - 2) + 3 - 1 = 3 * a
        OBVIOUS
      <4>. QED  BY <4>1, Zenon
    <3>. DEFINE w == <<bytes[3 * a - 2], bytes[3 * a - 1], bytes[3 * a]>>
    <3>2. w = [j \in 1 .. 3 |-> w[j]]
      OBVIOUS
    <3>. HIDE DEF w
    <3>3. \A j \in 1 .. 3 : At3(j) = w[j]
      <4>1. w[1] = bytes[3 * a - 2] /\ w[2] = bytes[3 * a - 1] /\ w[3] = bytes[3 * a]
        BY DEF w
      <4>. HIDE DEF At3
      <4>2. \A j \in 1 .. 3 : j = 1 \/ j = 2 \/ j = 3
        OBVIOUS
      <4>. QED  BY ONLY <3>0, <4>1, <4>2, Zenon
    <3>4. [j \in 1 .. 3 |-> bytes[(3 * a - 2) + j - 1]] = w
      BY ONLY <3>2, <3>3
    <3>. QED  BY ONLY <3>4 DEF w
  <2>6. <<v[1], v[2], v[3]>>[1] = v[1] /\ <<v[1], v[2], v[3]>>[2] = v[2] /\ <<v[1], v[2], v[3]>>[3] = v[3]
    OBVIOUS
  <2>7. SubSeq(bytes, 3 * a - 2, 3 * a) = <<v[1], v[2], v[3]>>
    <3>1. ids[a][1] = v[1] /\ ids[a][2] = v[2] /\ ids[a][3] = v[3]
      BY <2>1, <2>6
    <3>. QED  BY ONLY <2>3, <2>4, <2>5, <3>1, Zenon
  <2>. QED  BY ONLY <2>1, <2>7, Zenon
<1>4. Len(bytes) \div 3 = n
  <2>1. Len(bytes) = 3 * n
    BY <1>2
  <2>. HIDE DEF bytes
  <2>. QED  BY <2>1
<1>. HIDE DEF bytes
<1>5. ParseApplicationIDs(bytes) = [a \in 1 .. n |-> ids[a]]
  BY ONLY <1>3, <1>4, Zenon DEF ParseApplicationIDs
<1>. QED  BY ONLY <1>1, <1>5, ids \in [1 .. n -> {<<v[1], v[2], v[3]>> : v \in [1 .. 3 -> Int]}] DEF bytes


\* The applications' numbers and totals on any card whose files are allocated.
LEMMA ListsOfTheRun ==
  ASSUME NEW layout \in LayoutIn(AllSettings, Bytes), Allocated(layout)
  PROVE  ListsAndTotals(layout)
<1>. DEFINE apps == layout.apps
            n == Len(apps)
            ids == [a \in DOMAIN apps |-> WriteLE24(apps[a].aid)]
<1>1. /\ n \in Nat /\ DOMAIN apps = 1 .. n
      /\ \A a \in 1 .. n : apps[a] \in AppIn(AllSettings, Bytes)
  <2>1. apps \in Seq(AppIn(AllSettings, Bytes))
    BY DEF LayoutIn
  <2>. HIDE DEF apps
  <2>. QED  BY <2>1
<1>. HIDE DEF apps, n
<1>2. ParseApplicationIDs(Listed(ids)) = ids
  <2>. DEFINE Triples == {<<v[1], v[2], v[3]>> : v \in [1 .. 3 -> Int]}
  <2>1. ASSUME NEW a \in 1 .. n PROVE WriteLE24(apps[a].aid) \in Triples
    <3>. DEFINE id == apps[a].aid
                v == [j \in 1 .. 3 |-> ByteOf(id, j - 1)]
    <3>1. id \in Int
      BY <1>1 DEF AppIn
    <3>. HIDE DEF id
    <3>2. ByteOf(id, 0) \in Int /\ ByteOf(id, 1) \in Int /\ ByteOf(id, 2) \in Int
      BY <3>1, ByteInt
    <3>3. v[1] = ByteOf(id, 0) /\ v[2] = ByteOf(id, 1) /\ v[3] = ByteOf(id, 2)
      BY 1 - 1 = 0, 2 - 1 = 1, 3 - 1 = 2
    <3>4. v \in [1 .. 3 -> Int]
      <4>1. \A j \in 1 .. 3 : j = 1 \/ j = 2 \/ j = 3
        OBVIOUS
      <4>. HIDE DEF v
      <4>2. \A j \in 1 .. 3 : v[j] \in Int
        BY ONLY <3>2, <3>3, <4>1, Zenon
      <4>. USE DEF v
      <4>3. \A j \in 1 .. 3 : ByteOf(id, j - 1) \in Int
        BY ONLY <4>2, Zenon
      <4>. QED  BY ONLY <4>3, Zenon
    <3>. HIDE DEF v
    <3>5. WriteLE24(id) = <<v[1], v[2], v[3]>>
      BY <3>3, Zenon DEF WriteLE24
    <3>6. <<v[1], v[2], v[3]>> \in Triples
      BY <3>4, Zenon
    <3>. QED  BY <3>5, <3>6, Zenon DEF id
  <2>2. ids \in [1 .. n -> Triples]
    BY <1>1, <2>1, Zenon
  <2>. HIDE DEF ids
  <2>. QED  BY <1>1, <2>2, ListReadBack, Zenon
<1>3. ASSUME NEW a \in DOMAIN apps
      PROVE  LET files == apps[a].files
             IN  TotalDataSize(apps[a]) = Sum([f \in DOMAIN files |-> Len(files[f].data)])
  <2>. DEFINE files == apps[a].files
              asked == [f \in DOMAIN files |-> DataCapacity(files[f].settings)]
              held == [f \in DOMAIN files |-> Len(files[f].data)]
  <2>1. /\ \A f \in DOMAIN files : Len(files[f].data) = DataCapacity(files[f].settings)
        /\ Sum(held) < Word
    BY Zenon DEF Allocated, apps
  <2>2. files \in Seq(FileIn(AllSettings, Bytes))
    BY <1>1 DEF AppIn
  <2>. DEFINE N == Len(files)
  <2>3. asked = held
    BY <2>1, Zenon
  <2>. HIDE DEF files
  <2>4. /\ N \in Nat /\ DOMAIN files = 1 .. N /\ \A f \in 1 .. N : files[f] \in FileIn(AllSettings, Bytes)
    BY <2>2
  <2>5. \A f \in 1 .. N : Len(files[f].data) \in Nat
    <3>. SUFFICES ASSUME NEW f \in 1 .. N PROVE Len(files[f].data) \in Nat
      OBVIOUS
    <3>1. files[f].data \in Seq(Bytes)
      BY <2>4 DEF FileIn
    <3>. QED  BY <3>1, LenProperties
  <2>. HIDE DEF N
  <2>6. Len(held) = N
    BY <2>4
  <2>7. \A f \in 1 .. N : held[f] \in Nat
    BY <2>4, <2>5
  <2>. HIDE DEF held
  <2>8. Sum(held) \in Nat
    BY <2>4, <2>6, <2>7, SumIsNat
  <2>9. Sum(held) % Word = Sum(held)
    <3>. DEFINE x == Sum(held)
    <3>1. x \in Nat /\ x < Word
      BY <2>1, <2>8
    <3>. HIDE DEF x
    <3>2. x % Word = x
      BY <3>1, WidthAssumption
    <3>. QED  BY <3>2 DEF x
  <2>10. TotalDataSize(apps[a]) = Sum(asked) % Word
    BY Zenon DEF TotalDataSize, files
  <2>11. TotalDataSize(apps[a]) = Sum(held)
    BY ONLY <2>3, <2>9, <2>10, Zenon
  <2>. QED  BY ONLY <2>11, Zenon DEF held, files
<1>. QED  BY ONLY <1>2, <1>3, Zenon DEF ListsAndTotals, ids, apps

-----------------------------------------------------------------------------
(* Files and blocks                                                        *)

LEMMA BlockDataIsBytes == BlockData \in [1 .. 16 -> Bytes]
<1>1. \A i \in 1 .. 16 : 100 + i \in Bytes
  BY DEF Bytes, M
<1>. QED  BY <1>1 DEF BlockData, BlockBytes

\* The blocks of the active file, when neither a file nor the block asked for
\* reaches round the end of size_t.
LEMMA FilesOfTheRun ==
  ASSUME NEW layout \in LayoutIn(AllSettings, Bytes), NEW block \in Int, WithinSizeT(layout, block)
  PROVE  BlocksCoverFile(layout, block, BlockData)
<1>. DEFINE Held(a, f) == Len(layout.apps[a].files[f].data)
            size == IF 16 * block < 0 THEN SizeT + 16 * block ELSE SizeT
<1>1. SizeT \in Nat \ {0} /\ 16 * block < SizeT
  BY WidthAssumption DEF WithinSizeT, BlockBytes
<1>2. CASE ActiveFile(layout) = <<>>
  <2>1. ~ HasBlock(layout, block) /\ VirtualBlockCount(layout) = 0
    BY <1>2 DEF HasBlock, VirtualBlockCount
  <2>2. /\ ReadVirtualBlock(layout, block) = <<>>
        /\ WriteVirtualBlock(layout, block, BlockData) = layout
    BY <2>1 DEF ReadVirtualBlock, WriteVirtualBlock, Nothing
  <2>. QED  BY <1>2, <2>1, <2>2 DEF BlocksCoverFile, Nothing
<1>3. CASE ActiveFile(layout) # <<>>
  <2>1. /\ DOMAIN layout.apps = 1 .. Len(layout.apps)
        /\ \A a \in 1 .. Len(layout.apps) : layout.apps[a] \in AppIn(AllSettings, Bytes)
    <3>. DEFINE apps == layout.apps
    <3>1. apps \in Seq(AppIn(AllSettings, Bytes))
      BY DEF LayoutIn
    <3>. HIDE DEF apps
    <3>2. DOMAIN apps = 1 .. Len(apps) /\ \A a \in 1 .. Len(apps) : apps[a] \in AppIn(AllSettings, Bytes)
      BY <3>1
    <3>. QED  BY <3>2 DEF apps
  <2>2. ASSUME NEW a \in 1 .. Len(layout.apps), NEW f \in 1 .. Len(layout.apps[a].files)
        PROVE  Held(a, f) \in Nat /\ Held(a, f) <= SizeT /\ Held(a, f) - SizeT <= 16 * block
    <3>. DEFINE files == layout.apps[a].files
    <3>1. files \in Seq(FileIn(AllSettings, Bytes))
      BY <2>1 DEF AppIn
    <3>. HIDE DEF files
    <3>2. f \in 1 .. Len(files)
      BY DEF files
    <3>3. DOMAIN files = 1 .. Len(files) /\ files[f] \in FileIn(AllSettings, Bytes)
      BY <3>1, <3>2
    <3>4. files[f].data \in Seq(Bytes)
      BY <3>3 DEF FileIn
    <3>5. Len(files[f].data) \in Nat
      BY <3>4, LenProperties
    <3>6. Len(files[f].data) <= SizeT /\ Len(files[f].data) - SizeT <= 16 * block
      <4>1. a \in DOMAIN layout.apps /\ f \in DOMAIN layout.apps[a].files
        BY <2>1, <3>2, <3>3 DEF files
      <4>. QED  BY ONLY <4>1, WithinSizeT(layout, block), Zenon DEF WithinSizeT, BlockBytes, files
    <3>. QED  BY <3>5, <3>6 DEF files
  <2>3. PICK a \in 1 .. Len(layout.apps) : \E f \in 1 .. Len(layout.apps[a].files) :
               ActiveFile(layout) = <<a, f>>
    BY <1>3, ActiveIsThere
  <2>4. PICK f \in 1 .. Len(layout.apps[a].files) : ActiveFile(layout) = <<a, f>>
    BY <2>3
  <2>5. Held(a, f) \in Nat /\ Held(a, f) - SizeT <= 16 * block
    BY <2>2
  <2>6. size \in 0 .. SizeT /\ size - SizeT <= 16 * block
    <3>. DEFINE x == 16 * block
                h == Held(a, f)
    <3>1. x \in Int /\ x < SizeT /\ h \in Nat /\ h - SizeT <= x
      BY <1>1, <2>5
    <3>. HIDE DEF x, h
    <3>2. (IF x < 0 THEN SizeT + x ELSE SizeT) \in 0 .. SizeT
          /\ (IF x < 0 THEN SizeT + x ELSE SizeT) - SizeT <= x
      BY ONLY <1>1, <3>1
    <3>. QED  BY ONLY <3>2, Zenon DEF x
  <2>7. \A a1 \in 1 .. Len(layout.apps) : \A f1 \in 1 .. Len(layout.apps[a1].files) :
          Len(layout.apps[a1].files[f1].data) <= size
    <3>. SUFFICES ASSUME NEW a1 \in 1 .. Len(layout.apps), NEW f1 \in 1 .. Len(layout.apps[a1].files)
                  PROVE  Held(a1, f1) <= size
      BY Zenon
    <3>1. Held(a1, f1) \in Nat /\ Held(a1, f1) <= SizeT /\ Held(a1, f1) - SizeT <= 16 * block
      BY <2>2
    <3>. DEFINE x == 16 * block
                h == Held(a1, f1)
    <3>2. h \in Nat /\ h <= SizeT /\ h - SizeT <= x /\ x \in Int
      BY <3>1
    <3>. HIDE DEF x, h
    <3>3. h <= IF x < 0 THEN SizeT + x ELSE SizeT
      BY ONLY <1>1, <3>2
    <3>. QED  BY ONLY <3>3, Zenon DEF x, h
  <2>. HIDE DEF size
  <2>. QED  BY <1>1, <2>6, <2>7, BlockDataIsBytes, VirtualBlocksCoverFile, Zenon
<1>. QED  BY <1>2, <1>3

-----------------------------------------------------------------------------
(* The properties of the inputs.  A property is about one kind of input;   *)
(* the action that takes one of that kind establishes it.                  *)

\* What an input of each kind is made of.
LEMMA InputsOfEachKind ==
  ASSUME InputNext
  PROVE  /\ input'.kind = "block" => input'.ct \in CardTypes /\ input'.block \in ValidBlocks(input'.ct)
         /\ input'.kind = "status" => input'.sw \in Statuses
         /\ input'.kind = "key" => input'.a \in Bytes /\ input'.b \in Offsets
         /\ input'.kind = "settings" => input'.s \in Settings /\ input'.fileNo \in FileNumbers
         /\ input'.kind = "layout" => input'.layout \in Layouts /\ input'.block \in BlockNumbers
         /\ input'.kind = "message" => input'.first \in Exchanges /\ input'.second \in Exchanges
<1>1. CASE ABlock
  BY <1>1 DEF ABlock
<1>2. CASE AStatus
  BY <1>2 DEF AStatus
<1>3. CASE AKey
  BY <1>3 DEF AKey
<1>4. CASE ASettings
  BY <1>4 DEF ASettings
<1>5. CASE ALayout
  BY <1>5 DEF ALayout
<1>6. CASE AMessage
  BY <1>6 DEF AMessage
<1>. QED  BY <1>1, <1>2, <1>3, <1>4, <1>5, <1>6 DEF InputNext

\* The topology, the copy of its arithmetic in AccessControl and the union's
\* views agree on every block of every card (CardTopology, AccessControl,
\* CardMemoryLayout).
THEOREM LayersCorrect == InputSpec => []LayersAgree
<1>1. InputInit => LayersAgree
  BY DEF InputInit, Start, LayersAgree
<1>2. LayersAgree /\ [InputNext]_input => LayersAgree'
  <2>1. CASE UNCHANGED input
    BY <2>1 DEF LayersAgree
  <2>2. CASE InputNext
    BY <2>2, InputsOfEachKind, BlocksOfTheRun DEF LayersAgree
  <2>. QED  BY <2>1, <2>2
<1>. QED  BY <1>1, <1>2, PTL DEF InputSpec

\* Whatever status word a card answers, its category determines its error kind,
\* and the two layers' verdicts differ for 90 00 and 91 AF alone.
THEOREM StatusLayersCorrect == InputSpec => []StatusLayersFit
<1>1. InputInit => StatusLayersFit
  BY DEF InputInit, Start, StatusLayersFit
<1>2. StatusLayersFit /\ [InputNext]_input => StatusLayersFit'
  <2>1. CASE UNCHANGED input
    BY <2>1 DEF StatusLayersFit
  <2>2. CASE InputNext
    BY <2>2, InputsOfEachKind, StatusAssumption, StatusLayersFitted DEF StatusLayersFit
  <2>. QED  BY <2>1, <2>2
<1>. QED  BY <1>1, <1>2, PTL DEF InputSpec

\* Every byte comes back from every byte cipher, whatever the multiplier, the
\* offset and the constructor.
THEOREM CiphersCorrect == InputSpec => []CiphersInvert
<1>1. InputInit => CiphersInvert
  BY DEF InputInit, Start, CiphersInvert
<1>2. CiphersInvert /\ [InputNext]_input => CiphersInvert'
  <2>1. CASE UNCHANGED input
    BY <2>1 DEF CiphersInvert
  <2>2. CASE InputNext
    BY <2>2, InputsOfEachKind, OffsetAssumption, KeysOfTheRun DEF CiphersInvert
  <2>. QED  BY <2>1, <2>2
<1>. QED  BY <1>1, <1>2, PTL DEF InputSpec

\* Every file is described as it was created, every list of applications read
\* back, and every file covered by its virtual blocks (DesfireCommands,
\* DesfireMemoryLayout).
THEOREM FilesCorrect == InputSpec => []FilesFaithful
<1>1. InputInit => FilesFaithful
  BY DEF InputInit, Start, FilesFaithful
<1>2. FilesFaithful /\ [InputNext]_input => FilesFaithful'
  <2>1. CASE UNCHANGED input
    BY <2>1 DEF FilesFaithful
  <2>2. CASE InputNext
    <3>1. input'.kind = "settings" => SettingsSurviveOf(input'.fileNo, input'.s)
      BY <2>2, InputsOfEachKind, SettingsAssumption, FileSettingsSurvive DEF AllSettings
    <3>2. ASSUME input'.kind = "layout"
          PROVE  ListsAndTotals(input'.layout) /\ BlocksCoverFile(input'.layout, input'.block, BlockData)
      <4>1. input'.layout \in Layouts /\ input'.block \in BlockNumbers
        BY <2>2, <3>2, InputsOfEachKind
      <4>2. /\ input'.layout \in LayoutIn(AllSettings, Bytes) /\ Allocated(input'.layout)
            /\ input'.block \in Int /\ WithinSizeT(input'.layout, input'.block)
        BY <4>1, LayoutAssumption
      <4>. QED  BY <4>2, ListsOfTheRun, FilesOfTheRun
    <3>. QED  BY <3>1, <3>2 DEF FilesFaithful
  <2>. QED  BY <2>1, <2>2
<1>. QED  BY <1>1, <1>2, PTL DEF InputSpec

\* After any exchange, one whose answer arrives leaves host and card with the
\* same IV, and none that fails its CMAC is returned (DesfireSecureMessaging).
THEOREM MessagingCorrect == InputSpec => []MessagingRecovers
<1>1. InputInit => MessagingRecovers
  BY DEF InputInit, Start, MessagingRecovers
<1>2. MessagingRecovers /\ [InputNext]_input => MessagingRecovers'
  <2>1. CASE UNCHANGED input
    BY <2>1 DEF MessagingRecovers
  <2>2. CASE InputNext
    <3>1. ASSUME input'.kind = "message"
          PROVE  RecoversAfter("key", input'.first, input'.second)
      <4>1. input'.second \in Exchanges
        BY <2>2, <3>1, InputsOfEachKind
      <4>2. input'.second.answer \in Seq(Bytes) /\ Garbled \in Seq(Bytes) /\ Garbled # input'.second.answer
        BY <4>1, ExchangeAssumption
      <4>. QED  BY <4>2, ExchangesRecover
    <3>. QED  BY <3>1 DEF MessagingRecovers
  <2>. QED  BY <2>1, <2>2
<1>. QED  BY <1>1, <1>2, PTL DEF InputSpec
=============================================================================
