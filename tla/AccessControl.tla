--------------------------- MODULE AccessControl ---------------------------
(***************************************************************************)
(* AccessControl (Card/Card/CardProtocol/AccessControl.cpp): the           *)
(* permission matrix of a Classic card's memory image.  The state is the   *)
(* access bytes of the image's trailers; an image loaded from a card or a  *)
(* file may hold any bytes there, also ones whose inverted copies do not   *)
(* agree, and the class edits them through a decode and an encode.         *)
(***************************************************************************)
EXTENDS AccessBits, MifareTopology

CONSTANTS
  CardType,      \* the type CardInterface was constructed with
  Sectors,       \* sectors in play
  LoadedBytes    \* access bytes an image may be loaded with

ASSUME CardAssumption == CardType \in Classic
ASSUME SectorAssumption == Sectors \subseteq ValidSectors(CardType) /\ Sectors # {}
ASSUME LoadAssumption == LoadedBytes \subseteq AccessBytes

VARIABLES
  bits,    \* the access bytes of each sector's trailer
  did      \* the last operation, its sector and its argument

vars == <<bits, did>>

StandardModes == {"MODE_0", "MODE_1", "MODE_2", "MODE_3"}

(* what the caller asks for: the keys that may read and those that may write *)
Request == [read : SUBSET KeyTypes, write : SUBSET KeyTypes]

NoRequest == [read |-> {}, write |-> {}]

Is4K == CardType = "4K"

-----------------------------------------------------------------------------
(* Queries                                                                 *)

SectorConfig(s) == Decode(bits[s])

CanReadDataBlock(s, kt) == kt \in DataRead(SectorConfig(s)[0])
CanWriteDataBlock(s, kt) == kt \in DataWrite(SectorConfig(s)[0])
CanReadTrailer(s, kt) == kt \in AccessRead(SectorConfig(s)[3])
CanWriteTrailer(s, kt) == kt \in AccessWrite(SectorConfig(s)[3])

(* faulty variant: a trailer is taken to be the fourth block everywhere *)
FourthBlock(b) == BlockInSector(b, Is4K) = 3

LastOfItsSector(b) ==
  BlockInSector(b, Is4K) =
    (IF Is4K /\ SectorOf(b, Is4K) >= 32 THEN 16 ELSE 4) - 1

DataIndex(b) == IF BlockInSector(b, Is4K) < 3 THEN BlockInSector(b, Is4K) ELSE 2

CanRead(b, kt) ==
  LET cfg == SectorConfig(SectorOf(b, Is4K))
  IN  kt \in IF LastOfItsSector(b) THEN AccessRead(cfg[3])
                                   ELSE DataRead(cfg[DataIndex(b)])

CanWrite(b, kt) ==
  LET cfg == SectorConfig(SectorOf(b, Is4K))
  IN  kt \in IF LastOfItsSector(b) THEN AccessWrite(cfg[3])
                                   ELSE DataWrite(cfg[DataIndex(b)])

-----------------------------------------------------------------------------
(* Updates                                                                 *)

(* faulty variant: rows 100 and 010 exchanged *)
DataConditionSwapped(req) ==
  CASE req.read = KeyTypes /\ req.write = {"B"} -> Cond(2)
    [] req.read = KeyTypes /\ req.write = {} -> Cond(4)
    [] req.read = {"B"} /\ req.write = {"B"} -> Cond(3)
    [] req.read = {} /\ req.write = {} -> Cond(7)
    [] OTHER -> Cond(0)

(* the rows setDataBlockPermissions knows; any other request opens the block *)
DataConditionFor(req) ==
  CASE req.read = KeyTypes /\ req.write = {"B"} -> Cond(4)
    [] req.read = KeyTypes /\ req.write = {} -> Cond(2)
    [] req.read = {"B"} /\ req.write = {"B"} -> Cond(3)
    [] req.read = {} /\ req.write = {} -> Cond(7)
    [] OTHER -> Cond(0)

(* faulty variant: "nobody writes" falls through to the default *)
TrailerConditionOpen(req) == IF req.write = {"B"} THEN Cond(3) ELSE Cond(1)

(* the read flags are not consulted *)
TrailerConditionFor(req) ==
  CASE req.write = {"B"} -> Cond(3)
    [] req.write = {} -> Cond(6)
    [] req.write \in {{"A"}, KeyTypes} -> Cond(1)

SectorModeFor(mode) ==
  CASE mode \in {"MODE_0", "MODE_3"} -> "READ_AB_WRITE_B"
    [] mode = "MODE_1" -> "READ_ONLY_AB"
    [] mode = "MODE_2" -> "TRANSPORT"

WriteAccessBits(op, s, req, mode, cfg) ==
  /\ bits' = [bits EXCEPT ![s] = Encode(cfg)]
  /\ did' = [op |-> op, sector |-> s, request |-> req, mode |-> mode]

SetDataBlockPermissions(s, req) ==
  WriteAccessBits("data", s, req, "MODE_0",
    [i \in 0..3 |-> IF i < 3 THEN DataConditionFor(req) ELSE SectorConfig(s)[3]])

(* faulty variant: the data conditions are reset on the way *)
SetTrailerFresh(s, req) ==
  WriteAccessBits("trailer", s, req, "MODE_0",
    [FactoryConfig EXCEPT ![3] = TrailerConditionFor(req)])

SetTrailerPermissions(s, req) ==
  WriteAccessBits("trailer", s, req, "MODE_0",
    [SectorConfig(s) EXCEPT ![3] = TrailerConditionFor(req)])

ApplySectorMode(s, mode) ==
  WriteAccessBits("mode", s, NoRequest, mode, SectorModeToConfig(SectorModeFor(mode)))

(* the image is replaced under the class, by CardInterface::loadMemory *)
LoadMemory(ab) ==
  /\ bits' = ab
  /\ did' = [op |-> "load", sector |-> CHOOSE s \in Sectors : TRUE,
             request |-> NoRequest, mode |-> "MODE_0"]

Init ==
  /\ bits \in [Sectors -> LoadedBytes]
  /\ did = [op |-> "load", sector |-> CHOOSE s \in Sectors : TRUE,
            request |-> NoRequest, mode |-> "MODE_0"]

Next ==
  \/ \E s \in Sectors, req \in Request :
       SetDataBlockPermissions(s, req) \/ SetTrailerPermissions(s, req)
  \/ \E s \in Sectors, mode \in StandardModes : ApplySectorMode(s, mode)
  \/ \E ab \in [Sectors -> LoadedBytes] : LoadMemory(ab)

Spec == Init /\ [][Next]_vars

-----------------------------------------------------------------------------
(* Properties                                                              *)

TypeOK ==
  /\ bits \in [Sectors -> AccessBytes]
  /\ did \in [op : {"load", "data", "trailer", "mode"}, sector : Sectors,
              request : Request, mode : StandardModes]

(* Whatever bytes were loaded, a sector the class has written has inverted *)
(* copies that agree: an edit repairs the bytes and cannot brick a sector. *)
EditsRepair == did.op # "load" => Verify(bits[did.sector])

(* An edit of the data permissions leaves the trailer's condition, an edit *)
(* of the trailer's leaves the data conditions, and no edit reaches        *)
(* another sector, though each rewrites all three bytes.                   *)
EditsAreLocal ==
  [][LET old == SectorConfig(did'.sector)
         new == Decode(bits'[did'.sector])
     IN  did'.op # "load" =>
           /\ did'.op = "data" => new[3] = old[3]
           /\ did'.op = "trailer" => \A i \in 0..2 : new[i] = old[i]
           /\ \A s \in Sectors \ {did'.sector} : bits'[s] = bits[s]]_vars

(* The five requests setDataBlockPermissions has a row for are answered by *)
(* the queries exactly as they were asked.                                 *)
Representable(req) ==
  <<req.read, req.write>> \in
    {<<KeyTypes, KeyTypes>>, <<KeyTypes, {"B"}>>, <<KeyTypes, {}>>,
     <<{"B"}, {"B"}>>, <<{}, {}>>}
RequestHonoured ==
  did.op = "data" /\ Representable(did.request) =>
    \A kt \in KeyTypes :
      /\ CanReadDataBlock(did.sector, kt) <=> kt \in did.request.read
      /\ CanWriteDataBlock(did.sector, kt) <=> kt \in did.request.write

(* setTrailerPermissions lets no key write any part of the trailer, access *)
(* bits, KeyA or KeyB, that was not asked for as a writer. (Reading is     *)
(* another matter: the read half of the request is not consulted.)         *)
TrailerWriters(ac) == AccessWrite(ac) \cup KeyAWrite(ac) \cup KeyBWrite(ac)
TrailerGrantsNoMore ==
  did.op = "trailer" =>
    TrailerWriters(SectorConfig(did.sector)[3]) \subseteq did.request.write

(* The answers for a block agree with the sector's: at the first block     *)
(* with the data queries, at the topology's trailer block with the trailer *)
(* queries, and the data blocks between are never judged as a trailer.     *)
BlockAnswersAgree ==
  \A s \in Sectors, kt \in KeyTypes :
    LET first == FirstBlockOfSector(CardType, s)
        last == TrailerBlockOfSector(CardType, s)
    IN  /\ CanRead(first, kt) <=> CanReadDataBlock(s, kt)
        /\ CanWrite(first, kt) <=> CanWriteDataBlock(s, kt)
        /\ CanRead(last, kt) <=> CanReadTrailer(s, kt)
        /\ CanWrite(last, kt) <=> CanWriteTrailer(s, kt)
        /\ \A b \in first..(last - 1) :
             \E i \in 0..2 : CanRead(b, kt) <=> kt \in DataRead(SectorConfig(s)[i])
=============================================================================
