----------------------------- MODULE Algorithms -----------------------------
(***************************************************************************)
(* The parts of the program without a state of their own, over inputs: one *)
(* action per kind of input takes the machine from the start to each of    *)
(* them.  The inputs are constants, any that the code can be given.        *)
(***************************************************************************)
EXTENDS MifareTopology, StatusWords, ClassicalCiphers, DesfireFiles, SecureMessaging

CONSTANTS
  Statuses,      \* status words
  Offsets,       \* offsets of the byte ciphers
  FileNumbers,   \* numbers of files to create
  Settings,      \* settings of files to create
  Layouts,       \* images of a DESFire card
  BlockNumbers,  \* virtual blocks asked for
  Exchanges      \* commands under a session key, each with its answer

ASSUME StatusAssumption == Statuses \subseteq StatusWord
ASSUME OffsetAssumption == Offsets \subseteq Bytes
ASSUME SettingsAssumption == FileNumbers \subseteq Int /\ Settings \subseteq AllSettings

\* size_t has 64 bits, a block number 32 and a file fewer than 2^48 bytes, and
\* no card holds as many bytes as uint32_t counts.
ASSUME LayoutAssumption ==
  /\ BlockNumbers \subseteq Int
  /\ \A layout \in Layouts :
       /\ layout \in LayoutIn(AllSettings, Bytes) /\ Allocated(layout)
       /\ \A block \in BlockNumbers : WithinSizeT(layout, block)

\* Garbled bytes are not the ones that were sent.
ASSUME ExchangeAssumption ==
  Garbled \in Seq(Bytes) /\ \A x \in Exchanges : x.answer \in Seq(Bytes) /\ Garbled # x.answer

VARIABLE input

Start == [kind |-> "start"]

\* Sixteen bytes to write to a block.
BlockData == [i \in 1 .. BlockBytes |-> 100 + i]

InputInit == input = Start

ABlock ==
  /\ input = Start
  /\ \E ct \in CardTypes : \E block \in ValidBlocks(ct) :
       input' = [kind |-> "block", ct |-> ct, block |-> block]

AStatus ==
  /\ input = Start
  /\ \E sw \in Statuses : input' = [kind |-> "status", sw |-> sw]

AKey ==
  /\ input = Start
  /\ \E a \in Bytes, b \in Offsets : input' = [kind |-> "key", a |-> a, b |-> b]

ASettings ==
  /\ input = Start
  /\ \E s \in Settings, fileNo \in FileNumbers :
       input' = [kind |-> "settings", s |-> s, fileNo |-> fileNo]

ALayout ==
  /\ input = Start
  /\ \E layout \in Layouts, block \in BlockNumbers :
       input' = [kind |-> "layout", layout |-> layout, block |-> block]

\* A first exchange in any mode, and a second one.
AMessage ==
  /\ input = Start
  /\ \E x, y \in Exchanges : input' = [kind |-> "message", first |-> x, second |-> y]

InputNext == ABlock \/ AStatus \/ AKey \/ ASettings \/ ALayout \/ AMessage

InputSpec == InputInit /\ [][InputNext]_input

-----------------------------------------------------------------------------
(* Properties                                                              *)

(* The layers' ideas of where a block lies agree.  The topology has it in  *)
(* a valid sector, between that sector's first and last block, and calls   *)
(* it the trailer exactly when it is the last of a Classic's sector.  The  *)
(* arithmetic that AccessControl keeps to itself gives the same sector and *)
(* index, the union's sector view has the trailer where the block view has *)
(* that block, and the sectors tile the card's memory.                     *)
LayersAgreeOn(ct, block) ==
  LET s == SectorFromBlock(ct, block)
  IN  /\ s \in ValidSectors(ct)
      /\ block \in FirstBlockOfSector(ct, s)..LastBlockOfSector(ct, s)
      /\ BlockIndexInSector(ct, block) \in 0..(BlocksPerSector(ct, s) - 1)
      /\ IsTrailerBlock(ct, block) <=>
           ct \in Classic /\ BlockIndexInSector(ct, block) = BlocksPerSector(ct, s) - 1
      /\ ct \in Classic =>
           /\ SectorOf(block, ct = "4K") = s
           /\ BlockInSector(block, ct = "4K") = BlockIndexInSector(ct, block)
           /\ TrailerOffset(ct, s) = 16 * TrailerBlockOfSector(ct, s)
      /\ LastBlockOfSector(ct, s) + 1 =
           IF s + 1 \in ValidSectors(ct) THEN FirstBlockOfSector(ct, s + 1) ELSE TotalBlocks(ct)
      /\ 16 * TotalBlocks(ct) = TotalMemoryBytes(ct)

LayersAgree == input.kind = "block" => LayersAgreeOn(input.ct, input.block)

(* StatusWordHandler and PcscError classify a status word alike, and       *)
(* DesfireCommands and PcscCommands give it one verdict but for the two    *)
(* statuses that mean something else to a DESFire card.                    *)
StatusLayersFit == input.kind = "status" => StatusLayersFitOn(input.sw)

(* The byte ciphers undo themselves for every multiplier asked for, also   *)
(* those without an inverse.                                               *)
CiphersInvert == input.kind = "key" => CiphersInvertOn(input.a, input.b)

(* A file's settings survive the command that creates it and the answer    *)
(* that describes it, negative limits and large sizes included, and the    *)
(* virtual blocks of 16 bytes cover the active file and nothing else,      *)
(* whatever its size and whatever block is asked for.                      *)
FilesFaithful ==
  /\ input.kind = "settings" => SettingsSurviveOf(input.fileNo, input.s)
  /\ input.kind = "layout" =>
       ListsAndTotals(input.layout) /\ BlocksCoverFile(input.layout, input.block, BlockData)

(* Host and card agree on the IV again after any lost, cut or garbled      *)
(* answer, and an answer that fails its CMAC is not returned.              *)
MessagingRecovers == input.kind = "message" => RecoversAfter("key", input.first, input.second)
=============================================================================
