------------------------- MODULE LegacyReader_proofs -------------------------
(***************************************************************************)
(* The Qt reader, for any cards, any number of sectors and pages and any   *)
(* sizes of a write, with a card that may leave before every call.         *)
(*                                                                         *)
(* What is held and the authentication are inductive with the types.  The  *)
(* other three need to know what the operation has done when it comes to a *)
(* call: that the trailer has not been written yet (TrailerOnce), which    *)
(* texts belong together (TextsSoFar), and whose UID is shown (UidSoFar).  *)
(***************************************************************************)
EXTENDS LegacyReader, SequenceTheorems, TLAPS

(* Where Next may lead: to a step of the operation under way, or to what    *)
(* the user, the timer and the card do.                                    *)
LEMMA NextCases ==
  ASSUME Next
  PROVE  \/ OpenReader
         \/ op \in {"readDesfire"} /\ DesfireUid
         \/ op = "readClassic" /\ (ClassicUid \/ ClassicLoad \/ ClassicAuth \/ ClassicRead)
         \/ op \in {"writeClassic", "writeTrailer"} /\ (ClassicPrepare \/ ClassicRefused)
         \/ op = "writeClassic" /\ WriteBlocks
         \/ op = "writeTrailer" /\ WriteTrailer
         \/ op = "writeUltralight" /\ WritePages
         \/ op = "readUltralight" /\ (UltralightUid \/ UltralightPages \/ CryptStep)
         \/ ReadCard \/ OnPollTimer \/ PlaceCard \/ RemoveCard
         \/ \E t \in Types : SetCardType(t)
         \/ \E o \in Writes, k \in WriteSizes \cup {0} : BeginWrite(o, k)
  BY DEF Next, Step, ReadDesfireCard, ReadMifareClassicCard, WriteMifareClassicCard,
         WriteMifareClassicSectorTrailer, ReadUltralightCard, WriteUltralightCard, Writes

-----------------------------------------------------------------------------
(* What is held                                                            *)

Points == {"idle"} \cup ReaderSteps \cup CardSteps \cup CryptSteps

(* At each call a failure gives back all that is open, and nothing else.    *)
LEMMA ReleasesAll ==
  ASSUME NEW p \in Points
  PROVE  /\ OpenAt(p) \subseteq Resources
         /\ p \in ReaderSteps \cup CardSteps => OpenAt(p) \ Releases(p) = {}
         /\ p \in CryptSteps => OpenAt(p) \ (CryptReleases(p) \cup Releases(p)) = {}
  BY DEF Points, ReaderSteps, CardSteps, CryptSteps, OpenAt, Releases, CryptReleases, Resources

(* What is open at each call that is reached by a call that succeeds.      *)
LEMMA OpenTable ==
  /\ OpenAt("idle") = {} /\ OpenAt("establish") = {}
  /\ OpenAt("size") = OpenAt("establish") \cup {"context"}
  /\ OpenAt("alloc") = OpenAt("size")
  /\ OpenAt("list") = OpenAt("alloc") \cup {"names"}
  /\ OpenAt("connect") = OpenAt("list")
  /\ \A p \in CardSteps \cup {"provider"} : OpenAt(p) = OpenAt("connect") \cup {"card"}
  /\ OpenAt("chain") = OpenAt("provider") \cup {"provider"}
  /\ OpenAt("key") = OpenAt("chain")
  /\ OpenAt("blocks") = OpenAt("key") \cup {"key"}
  /\ OpenAt("blocks") \ CryptReleases("blocks") = OpenAt("provider")
  BY DEF CardSteps, OpenAt, CryptReleases

LEMMA SectorFacts ==
  /\ 0 \in Sectors /\ 1 \in Sectors /\ 2 \in Sectors /\ None \in 0 .. None
  /\ Sectors \subseteq 0 .. None
  /\ \A s \in Sectors : s # LastSector => s + 1 \in Sectors
  BY SectorAssumption DEF Sectors, None

LEMMA HoldsInit == Init => HoldsWhatItOpened
<1> SUFFICES ASSUME Init PROVE HoldsWhatItOpened
  OBVIOUS
<1>1. type \in Types /\ polling \in BOOLEAN /\ busy \in BOOLEAN
  BY DEF Init, Types
<1>2. op \in Reads \cup Writes \cup {"none"} /\ pc \in Points
  BY DEF Init, Points
<1>3. n \in Nat /\ total \in Nat /\ sector \in Sectors /\ held \subseteq Resources
  BY SectorFacts DEF Init
<1>4. {uid, seen, card, link} \subseteq Cards \cup {NoCard}
  BY DEF Init
<1>5. keys \in [Cards -> [Sectors -> {Factory, User}]]
  BY DEF Init
<1>6. slot \in {Unset, Factory, User} /\ authed \in 0 .. None /\ accepted \subseteq Nat
  BY SectorFacts DEF Init
<1> QED
  BY <1>1, <1>2, <1>3, <1>4, <1>5, <1>6, OpenTable DEF Init, HoldsWhatItOpened, TypeOK, Points

(* What the card, the texts and the UID have to do with what is held:      *)
(* nothing.  The part of the invariant that an operation's step moves.     *)
Held(p, h, b) == p \in Points /\ h = OpenAt(p) /\ b = (p # "idle")

LEMMA HoldsParts ==
  HoldsWhatItOpened <=> TypeOK /\ Held(pc, held, busy)
  BY DEF HoldsWhatItOpened, TypeOK, Held, Points

(* A return gives all back and frees the reader. *)
LEMMA ReturnHolds ==
  ASSUME pc \in ReaderSteps \cup CardSteps, Held(pc, held, busy), TypeOK, Return(pc)
  PROVE  /\ Held(pc', held', busy') /\ busy' \in BOOLEAN /\ held' \subseteq Resources
         /\ link' \in Cards \cup {NoCard} /\ authed' \in 0 .. None /\ pc' \in Points
<1>1. held' = {}
  BY ReleasesAll DEF Held, Return
<1> QED
  BY <1>1, OpenTable, SectorFacts DEF Return, Held, Points, TypeOK

(* A step that leaves what is open alone may only move among these calls.  *)
LEMMA MovesHold ==
  ASSUME Held(pc, held, busy), TypeOK, UNCHANGED <<busy, held>>,
         \/ pc' = pc
         \/ pc \in CardSteps \cup {"provider"} /\ pc' \in CardSteps \cup {"provider"}
  PROVE  Held(pc', held', busy')
  BY OpenTable DEF Held, Points, CardSteps, CryptSteps

(* A call that succeeds opens what the next call needs. *)
LEMMA OpenedHolds ==
  ASSUME NEW gained, NEW next \in Points \ {"idle"}, Held(pc, held, busy), pc # "idle",
         Opened(gained, next), OpenAt(next) = OpenAt(pc) \cup gained
  PROVE  Held(pc', held', busy') /\ held' \subseteq Resources
<1>1. held' = OpenAt(next) /\ pc' = next /\ busy' = TRUE
  BY DEF Opened, Held
<1> QED
  BY <1>1, ReleasesAll DEF Held

LEMMA OpenReaderHolds ==
  ASSUME HoldsWhatItOpened, OpenReader
  PROVE  HoldsWhatItOpened'
<1> USE DEF view, texts
<1>1. TypeOK /\ Held(pc, held, busy)
  BY HoldsParts
<1>2. CASE OpenFails
  BY <1>1, <1>2, ReturnHolds DEF OpenReader, OpenFails, TypeOK, HoldsWhatItOpened, Held, Points
<1>3. CASE pc = "connect" /\ card # NoCard /\ Opened({"card"}, FirstCardStep(op)) /\ link' = card
  <2>1. FirstCardStep(op) \in CardSteps
    BY DEF FirstCardStep, CardSteps
  <2>2. Held(pc', held', busy') /\ held' \subseteq Resources
    BY <1>1, <1>3, <2>1, OpenTable, OpenedHolds DEF Points
  <2> QED
    BY <1>1, <1>3, <2>2 DEF OpenReader, Opened, TypeOK, HoldsWhatItOpened, Held, Points
<1>4. CASE /\ UNCHANGED link
           /\ \/ pc = "establish" /\ Opened({"context"}, "size")
              \/ pc = "size" /\ Opened({}, "alloc")
              \/ pc = "alloc" /\ Opened({"names"}, "list")
              \/ pc = "list" /\ Opened({}, "connect")
  <2>1. {"size", "alloc", "list", "connect"} \subseteq Points \ {"idle"}
    BY DEF Points, ReaderSteps
  <2>2. \A p : OpenAt(p) \cup {} = OpenAt(p)
    OBVIOUS
  <2>3. Held(pc', held', busy') /\ held' \subseteq Resources
    BY <1>1, <1>4, <2>1, <2>2, OpenTable, OpenedHolds
  <2> QED
    BY <1>1, <1>4, <2>3 DEF OpenReader, Opened, TypeOK, HoldsWhatItOpened, Held, Points
<1> QED
  BY <1>2, <1>3, <1>4 DEF OpenReader

(* The next sector, or the end after the last one. *)
LEMMA NextSectorHolds ==
  ASSUME HoldsWhatItOpened, pc \in CardSteps, NextSector
  PROVE  /\ Held(pc', held', busy') /\ busy' \in BOOLEAN /\ held' \subseteq Resources
         /\ link' \in Cards \cup {NoCard} /\ authed' \in 0 .. None
         /\ pc' \in Points /\ sector' \in Sectors /\ n' \in Nat
<1>1. TypeOK /\ Held(pc, held, busy)
  BY HoldsParts
<1>2. CASE sector = LastSector
  BY <1>1, <1>2, ReturnHolds DEF NextSector, TypeOK
<1>3. CASE sector # LastSector
  <2>0. pc' \in CardSteps /\ pc' \in Points
    BY <1>3 DEF NextSector, CardSteps, Points
  <2>1. Held(pc', held', busy')
    BY <1>1, <1>3, <2>0, MovesHold DEF NextSector
  <2>2. sector' \in Sectors /\ n' \in Nat
    <3>1. sector \in Sectors /\ sector' = sector + 1 /\ n' = 0
      BY <1>1, <1>3 DEF NextSector, TypeOK
    <3> QED
      BY <1>3, <3>1, SectorFacts
  <2>3. /\ busy' \in BOOLEAN /\ held' \subseteq Resources
        /\ link' \in Cards \cup {NoCard} /\ authed' \in 0 .. None
    BY <1>1, <1>3 DEF NextSector, TypeOK
  <2> QED
    BY <2>0, <2>1, <2>2, <2>3
<1> QED
  BY <1>2, <1>3

LEMMA UidStepsHold ==
  ASSUME HoldsWhatItOpened, DesfireUid \/ ClassicUid \/ UltralightUid
  PROVE  HoldsWhatItOpened'
<1> USE DEF view, texts, air
<1>1. TypeOK /\ Held(pc, held, busy) /\ pc = "uid" /\ pc \in CardSteps
  BY HoldsParts DEF DesfireUid, ClassicUid, UltralightUid, CardSteps
<1>2. CASE DesfireUid
  BY <1>1, <1>2, ReturnHolds DEF DesfireUid, Answers, TypeOK, HoldsWhatItOpened, Held, Points
<1>3. CASE ClassicUid
  <2>1. Held(pc', held', busy')
    BY <1>1, <1>3, MovesHold DEF ClassicUid, CardSteps
  <2> QED
    BY <1>1, <1>3, <2>1 DEF ClassicUid, Answers, TypeOK, HoldsWhatItOpened, Held, Points
<1>4. CASE UltralightUid
  <2>1. CASE UNCHANGED <<busy, held, link, authed>> /\ pc' = "pages" /\ Answers /\ uid' = link /\ seen' = link
    <3>1. Held(pc', held', busy')
      BY <1>1, <2>1, MovesHold DEF CardSteps
    <3> QED
      BY <1>1, <1>4, <2>1, <3>1 DEF UltralightUid, Answers, TypeOK, HoldsWhatItOpened, Held, Points
  <2>2. CASE uid' = NoCard /\ UNCHANGED seen /\ Return(pc)
    BY <1>1, <1>4, <2>2, ReturnHolds DEF UltralightUid, TypeOK, HoldsWhatItOpened, Held, Points
  <2> QED
    BY <1>4, <2>1, <2>2 DEF UltralightUid
<1> QED
  BY <1>2, <1>3, <1>4

LEMMA ClassicReadsHold ==
  ASSUME HoldsWhatItOpened, ClassicLoad \/ ClassicAuth \/ ClassicRead
  PROVE  HoldsWhatItOpened'
<1> USE DEF view, texts, air
<1>1. TypeOK /\ Held(pc, held, busy) /\ pc \in CardSteps
  BY HoldsParts DEF ClassicLoad, ClassicAuth, ClassicRead, CardSteps
<1>2. /\ \/ NextSector
         \/ /\ UNCHANGED <<busy, held, link>> /\ pc' \in CardSteps /\ sector' = sector
            /\ n' \in Nat /\ authed' \in 0 .. None
      /\ UNCHANGED <<type, polling, op, total, view, texts, card, keys, accepted>>
      /\ slot' \in {Unset, Factory, User}
  <2>1. CASE ClassicLoad
    BY <1>1, <2>1 DEF ClassicLoad, CardSteps, TypeOK
  <2>2. CASE ClassicAuth
    <3>1. sector \in 0 .. None /\ 0 \in Nat
      BY <1>1, SectorFacts DEF TypeOK
    <3> QED
      BY <1>1, <2>2, <3>1 DEF ClassicAuth, CardSteps, TypeOK
  <2>3. CASE ClassicRead
    <3>0. n \in Nat /\ authed \in 0 .. None /\ slot \in {Unset, Factory, User}
      BY <1>1 DEF TypeOK
    <3>1. n + 1 \in Nat
      BY <3>0
    <3>2. \/ NextSector
          \/ n' = n + 1 /\ UNCHANGED <<busy, held, link, authed, pc, sector>>
      BY <2>3 DEF ClassicRead
    <3> QED
      BY <1>1, <2>3, <3>0, <3>1, <3>2 DEF ClassicRead
  <2> QED
    BY <2>1, <2>2, <2>3
<1>3. /\ Held(pc', held', busy') /\ busy' \in BOOLEAN /\ held' \subseteq Resources
      /\ link' \in Cards \cup {NoCard} /\ authed' \in 0 .. None
      /\ pc' \in Points /\ sector' \in Sectors /\ n' \in Nat
  <2>1. CASE NextSector
    BY <1>1, <2>1, NextSectorHolds
  <2>2. CASE UNCHANGED <<busy, held, link>> /\ pc' \in CardSteps /\ sector' = sector
             /\ n' \in Nat /\ authed' \in 0 .. None
    <3>1. Held(pc', held', busy')
      BY <1>1, <2>2, MovesHold
    <3> QED
      BY <1>1, <2>2, <3>1 DEF TypeOK, Held
  <2> QED
    BY <1>2, <2>1, <2>2
<1> QED
  BY <1>1, <1>2, <1>3 DEF TypeOK, HoldsWhatItOpened, Held, Points

LEMMA ClassicPrepareHolds ==
  ASSUME HoldsWhatItOpened, ClassicPrepare \/ ClassicRefused
  PROVE  HoldsWhatItOpened'
<1> USE DEF view, texts, air
<1>1. TypeOK /\ Held(pc, held, busy) /\ pc \in CardSteps
  BY HoldsParts DEF ClassicPrepare, ClassicRefused, CardSteps
<1>2. CASE ClassicPrepare
  <2>1. pc' \in CardSteps /\ authed' \in 0 .. None /\ slot' \in {Unset, Factory, User}
    BY <1>1, <1>2, SectorFacts DEF ClassicPrepare, CardSteps, TypeOK, TargetSector
  <2>2. Held(pc', held', busy')
    BY <1>1, <1>2, <2>1, MovesHold DEF ClassicPrepare
  <2> QED
    BY <1>1, <1>2, <2>1, <2>2 DEF ClassicPrepare, TypeOK, HoldsWhatItOpened, Held, Points
<1>3. CASE ClassicRefused
  BY <1>1, <1>3, ReturnHolds DEF ClassicRefused, TypeOK, HoldsWhatItOpened, Held, Points
<1> QED
  BY <1>2, <1>3

LEMMA WriteLoopHolds ==
  ASSUME HoldsWhatItOpened, NEW first \in Nat, NEW stop \in Nat, WriteLoop(first, stop)
  PROVE  HoldsWhatItOpened'
<1> USE DEF view, texts, air
<1>1. TypeOK /\ Held(pc, held, busy) /\ pc = "write" /\ pc \in CardSteps
  BY HoldsParts DEF WriteLoop, CardSteps
<1>2. n \in Nat /\ first + n \in Nat /\ n + 1 \in Nat
  BY <1>1 DEF TypeOK
<1>3. accepted' \subseteq Nat /\ n' \in Nat
  BY <1>1, <1>2 DEF WriteLoop, FinishWrite, TypeOK
<1>4. CASE FinishWrite
  BY <1>1, <1>3, <1>4, ReturnHolds
     DEF WriteLoop, FinishWrite, TypeOK, HoldsWhatItOpened, Held, Points
<1>5. CASE UNCHANGED <<pc, busy, held, link, authed, keys>>
  <2>1. Held(pc', held', busy')
    BY <1>1, <1>5, MovesHold
  <2> QED
    BY <1>1, <1>3, <1>5, <2>1 DEF WriteLoop, TypeOK, HoldsWhatItOpened, Held, Points
<1> QED
  BY <1>4, <1>5 DEF WriteLoop

LEMMA WriteTrailerHolds ==
  ASSUME HoldsWhatItOpened, WriteTrailer
  PROVE  HoldsWhatItOpened'
<1> USE DEF view, texts, air
<1>1. TypeOK /\ Held(pc, held, busy) /\ pc \in CardSteps
  BY HoldsParts DEF WriteTrailer, CardSteps
<1>2. PICK obeyed \in BOOLEAN, answered \in BOOLEAN :
       /\ obeyed => Answers
       /\ accepted' = IF obeyed THEN {11} ELSE accepted
       /\ keys' = IF obeyed THEN [keys EXCEPT ![link][2] = User] ELSE keys
       /\ n' = IF answered THEN 1 ELSE 0
  BY DEF WriteTrailer
<1>3. keys' \in [Cards -> [Sectors -> {Factory, User}]]
  BY <1>1, <1>2, SectorFacts DEF Answers, TypeOK
<1>4. accepted' \subseteq Nat /\ n' \in Nat
  BY <1>1, <1>2 DEF TypeOK
<1> QED
  BY <1>1, <1>3, <1>4, ReturnHolds DEF WriteTrailer, TypeOK, HoldsWhatItOpened, Held, Points

LEMMA PagesHold ==
  ASSUME HoldsWhatItOpened, UltralightPages
  PROVE  HoldsWhatItOpened'
<1> USE DEF view, texts, air
<1>1. TypeOK /\ Held(pc, held, busy) /\ pc = "pages" /\ pc \in CardSteps
  BY HoldsParts DEF UltralightPages, CardSteps
<1>2. n' \in Nat
  BY <1>1 DEF UltralightPages, PagesRead, TypeOK
<1>3. CASE Return(pc)
  BY <1>1, <1>2, <1>3, ReturnHolds
     DEF UltralightPages, TypeOK, HoldsWhatItOpened, Held, Points
<1>4. CASE pc' \in {pc, "provider"} /\ UNCHANGED <<busy, held, link, authed>>
  <2>1. Held(pc', held', busy')
    BY <1>1, <1>4, MovesHold
  <2> QED
    BY <1>1, <1>2, <1>4, <2>1
       DEF UltralightPages, TypeOK, HoldsWhatItOpened, Held, Points
<1> QED
  BY <1>1, <1>3, <1>4 DEF UltralightPages, PagesRead

LEMMA CryptHolds ==
  ASSUME HoldsWhatItOpened, CryptStep
  PROVE  HoldsWhatItOpened'
<1> USE DEF view, texts, air
<1>1. TypeOK /\ Held(pc, held, busy) /\ pc \in CryptSteps
  BY HoldsParts DEF CryptStep
<1>2. ASSUME held' = held \ (CryptReleases(pc) \cup Releases(pc)),
             busy' = FALSE, pc' = "idle", link' = NoCard, authed' = None, UNCHANGED sector
      PROVE  HoldsWhatItOpened'
  <2>1. held' = {} /\ pc' \in Points
    BY <1>1, <1>2, ReleasesAll DEF Held, Points
  <2>2. Held(pc', held', busy')
    BY <1>2, <2>1, OpenTable DEF Held
  <2> QED
    BY <1>1, <1>2, <2>1, <2>2, SectorFacts
       DEF CryptStep, TypeOK, HoldsWhatItOpened, Held, Points
<1>3. ASSUME NEW gained, NEW next \in {"chain", "key", "blocks"}, CryptAdvances(gained, next),
             OpenAt(next) = OpenAt(pc) \cup gained
      PROVE  HoldsWhatItOpened'
  <2>1. /\ next \in Points \ {"idle"} /\ pc # "idle"
        /\ held' = OpenAt(next) /\ busy' = TRUE /\ pc' = next
    BY <1>1, <1>3 DEF CryptAdvances, Held, Points, CryptSteps
  <2>2. Held(pc', held', busy') /\ held' \subseteq Resources
    BY <2>1, ReleasesAll DEF Held
  <2> QED
    BY <1>1, <1>3, <2>1, <2>2
       DEF CryptStep, CryptAdvances, TypeOK, HoldsWhatItOpened, Held, Points
<1>4. CASE pc = "blocks" /\ Encrypting /\ Encrypted
  <2>1. /\ pc' \in Points \ {"idle"} /\ sector' \in Sectors /\ busy' = TRUE
        /\ held' = OpenAt(pc')
    BY <1>1, <1>4, OpenTable, SectorFacts DEF Encrypted, Held, Points, CryptSteps
  <2>2. Held(pc', held', busy') /\ held' \subseteq Resources
    BY <2>1, ReleasesAll DEF Held
  <2> QED
    BY <1>1, <1>4, <2>1, <2>2
       DEF CryptStep, Encrypted, TypeOK, HoldsWhatItOpened, Held, Points
<1>5. \A p : OpenAt(p) \cup {} = OpenAt(p)
  OBVIOUS
<1>6. CASE CryptFails \/ (pc = "blocks" /\ ~Encrypting /\ Decrypted)
  BY <1>2, <1>6 DEF CryptFails, Decrypted
<1>7. CASE \/ pc = "provider" /\ CryptAdvances({"provider"}, "chain")
           \/ pc = "chain" /\ CryptAdvances({}, "key")
           \/ pc = "key" /\ CryptAdvances({"key"}, "blocks")
  BY <1>3, <1>5, <1>7, OpenTable
<1> QED
  BY <1>4, <1>6, <1>7 DEF CryptStep

(* An operation begins with nothing open. *)
LEMMA BeginHolds ==
  ASSUME HoldsWhatItOpened, pc = "idle",
         ReadCard \/ OnPollTimer \/ (\E o \in Writes, k \in WriteSizes \cup {0} : BeginWrite(o, k))
  PROVE  HoldsWhatItOpened'
<1> USE DEF view, texts, air
<1>1. TypeOK /\ Held(pc, held, busy)
  BY HoldsParts
<1>2. PICK o \in Reads \cup Writes : \E k \in Nat : Begin(o, k)
  BY BlocksAssumption DEF ReadCard, OnPollTimer, BeginRead, BeginWrite, ReadOf, Reads
<1>3. UNCHANGED <<type, polling>>
  BY DEF ReadCard, OnPollTimer, BeginWrite
<1>4. pc' \in Points /\ Held(pc', held', busy')
  BY <1>1, <1>2, OpenTable DEF Begin, Held, Points, ReaderSteps
<1>5. n' \in Nat /\ total' \in Nat /\ sector' \in Sectors /\ accepted' \subseteq Nat
  BY <1>2, SectorFacts DEF Begin
<1> QED
  BY <1>1, <1>2, <1>3, <1>4, <1>5 DEF Begin, TypeOK, HoldsWhatItOpened, Held, Points

LEMMA SetCardTypeHolds ==
  ASSUME HoldsWhatItOpened, NEW t \in Types, SetCardType(t)
  PROVE  HoldsWhatItOpened'
<1> USE DEF view, texts
<1>1. TypeOK /\ Held(pc, held, busy)
  BY HoldsParts
<1>2. CASE UNCHANGED <<busy, op, pc, n, total, sector, seen, accepted>>
  BY <1>1, <1>2 DEF SetCardType, TypeOK, HoldsWhatItOpened, Held, Points
<1>3. CASE /\ busy' = TRUE /\ op' = "readDesfire" /\ pc' = "establish"
           /\ n' = 0 /\ total' = 0 /\ sector' = 0 /\ seen' = NoCard /\ accepted' = {}
  <2>1. pc' \in Points /\ Held(pc', held', busy')
    BY <1>1, <1>3, OpenTable DEF SetCardType, Idle, Held, Points, ReaderSteps
  <2> QED
    BY <1>1, <1>3, <2>1, SectorFacts DEF SetCardType, TypeOK, HoldsWhatItOpened, Held, Points, Reads
<1> QED
  BY <1>2, <1>3 DEF SetCardType

LEMMA CardMovesHold ==
  ASSUME HoldsWhatItOpened, PlaceCard \/ RemoveCard
  PROVE  HoldsWhatItOpened'
<1>1. authed' \in 0 .. None
  BY SectorFacts DEF PlaceCard, RemoveCard, HoldsWhatItOpened, TypeOK
<1> QED
  BY <1>1 DEF PlaceCard, RemoveCard, TypeOK, HoldsWhatItOpened, view, texts

LEMMA HoldsNext ==
  ASSUME HoldsWhatItOpened, [Next]_vars
  PROVE  HoldsWhatItOpened'
<1>1. CASE Next
  <2>1. (ReadCard \/ OnPollTimer \/ \E o \in Writes, k \in WriteSizes \cup {0} : BeginWrite(o, k))
          => pc = "idle"
    BY DEF ReadCard, OnPollTimer, BeginWrite, Idle
  <2> QED
    BY <1>1, <2>1, NextCases, OpenReaderHolds, UidStepsHold, ClassicReadsHold, ClassicPrepareHolds,
       WriteLoopHolds, WriteTrailerHolds, PagesHold, CryptHolds, BeginHolds, SetCardTypeHolds,
       CardMovesHold DEF WriteBlocks, WritePages
<1>2. CASE UNCHANGED vars
  BY <1>2 DEF vars, view, texts, air, TypeOK, HoldsWhatItOpened
<1> QED
  BY <1>1, <1>2

(* Whatever call fails and whenever the card leaves, an operation holds at  *)
(* each call exactly what it has opened, and nothing when it has returned: *)
(* the early returns of Documents/cardreader.cpp leak nothing, and m_busy  *)
(* is true while one runs.                                                 *)
THEOREM ResourcesHeld == Spec => []HoldsWhatItOpened
<1>1. HoldsWhatItOpened /\ [Next]_vars => HoldsWhatItOpened'
  BY HoldsNext
<1> QED
  BY HoldsInit, <1>1, PTL DEF Spec

-----------------------------------------------------------------------------
(* The authentication                                                      *)

LEMMA UnderNext ==
  ASSUME UnderItsAuthentication, [Next]_vars
  PROVE  UnderItsAuthentication'
<1> USE DEF view, texts, air, Answers
<1>1. CASE UNCHANGED vars
  BY <1>1 DEF vars, UnderItsAuthentication, TargetSector
<1>2. CASE OpenReader
  <2>1. op' = op /\ (pc' \in ReaderSteps \cup {"idle"} \/ pc' = FirstCardStep(op))
    BY <1>2 DEF OpenReader, OpenFails, Opened, Return, ReaderSteps
  <2> QED
    BY <2>1 DEF UnderItsAuthentication, FirstCardStep, ReaderSteps, Reads
<1>3. CASE op = "readClassic" /\ (ClassicUid \/ ClassicLoad \/ ClassicAuth \/ ClassicRead)
  <2>1. CASE pc' \notin {"read", "write"}
    BY <2>1 DEF UnderItsAuthentication
  <2>2. CASE ClassicAuth /\ authed' = sector /\ pc' = "read" /\ UNCHANGED sector
    BY <1>3, <2>2 DEF ClassicAuth, UnderItsAuthentication
  <2>3. CASE ClassicRead /\ UNCHANGED <<busy, held, link, authed, pc, sector>>
    BY <1>3, <2>3 DEF ClassicRead, UnderItsAuthentication
  <2>4. NextSector => pc' \in {"idle", "load"}
    BY DEF NextSector, Return
  <2> QED
    BY <1>3, <2>1, <2>2, <2>3, <2>4 DEF ClassicUid, ClassicLoad, ClassicAuth, ClassicRead
<1>4. CASE op \in {"writeClassic", "writeTrailer"} /\ (ClassicPrepare \/ ClassicRefused)
  BY <1>4 DEF ClassicPrepare, ClassicRefused, Return, UnderItsAuthentication
<1>5. CASE op \in {"writeClassic", "writeUltralight"} /\ \E first, stop \in Nat : WriteLoop(first, stop)
  <2>1. op' = op /\ (pc' = "idle" \/ UNCHANGED <<pc, link, authed>>)
    BY <1>5 DEF WriteLoop, FinishWrite, Return
  <2> QED
    BY <1>5, <2>1 DEF UnderItsAuthentication
<1>6. CASE WriteTrailer
  BY <1>6 DEF WriteTrailer, Return, UnderItsAuthentication
<1>7. CASE op = "readDesfire" /\ DesfireUid
  BY <1>7 DEF DesfireUid, UnderItsAuthentication
<1>8. CASE op = "readUltralight" /\ (UltralightUid \/ UltralightPages \/ CryptStep)
  BY <1>8 DEF UltralightUid, UltralightPages, CryptStep, UnderItsAuthentication
<1>9. CASE ReadCard \/ OnPollTimer \/ \E o \in Writes, k \in WriteSizes \cup {0} : BeginWrite(o, k)
  BY <1>9 DEF ReadCard, OnPollTimer, BeginRead, BeginWrite, Begin, UnderItsAuthentication
<1>10. CASE \E t \in Types : SetCardType(t)
  BY <1>10 DEF SetCardType, Idle, UnderItsAuthentication
<1>11. CASE PlaceCard \/ RemoveCard
  BY <1>11 DEF PlaceCard, RemoveCard, UnderItsAuthentication, TargetSector
<1> QED
  BY <1>1, <1>2, <1>3, <1>4, <1>5, <1>6, <1>7, <1>8, <1>9, <1>10, <1>11, NextCases
     DEF WriteBlocks, WritePages

(* Between AUTHENTICATE and the end of a sector nothing that the card may   *)
(* do lets readMifareClassicCard or a write reach a block under another    *)
(* sector's authentication.                                                *)
THEOREM BlocksUnderAuthentication == Spec => []UnderItsAuthentication
<1>1. Init => UnderItsAuthentication
  BY DEF Init, UnderItsAuthentication
<1>2. UnderItsAuthentication /\ [Next]_vars => UnderItsAuthentication'
  BY UnderNext
<1> QED
  BY <1>1, <1>2, PTL DEF Spec

-----------------------------------------------------------------------------
(* Where a write goes                                                      *)

(* The trailer is written by one exchange: none has been made before it.   *)
TrailerOnce == op = "writeTrailer" /\ pc # "idle" => n = 0

WritesInv == WritesInPlace /\ TrailerOnce

(* The run of places taken, and one more. *)
LEMMA RunGrows ==
  ASSUME NEW a \in Nat, NEW k \in Nat
  PROVE  /\ (a .. a + k - 1) \cup {a + k} = a .. a + k
         /\ a + (k + 1) - 1 = a + k
         /\ \A stop \in Nat : a + k < stop => a .. a + k \subseteq a .. stop - 1
         /\ a .. a + 0 - 1 = {}
  OBVIOUS

LEMMA WriteLoopInPlace ==
  ASSUME TypeOK, WritesInv, NEW first \in Nat, NEW stop \in Nat \ {0}, op \in Writes \ {"writeTrailer"},
         first = First(op), stop = Stop(op) + 1, WriteLoop(first, stop)
  PROVE  WritesInv'
<1> USE DEF view, texts
<1>1. /\ n \in Nat /\ pc = "write" /\ op' = op /\ First(op) \in Nat /\ Stop(op) \in Nat
      /\ accepted = first .. first + n - 1 /\ accepted \subseteq first .. stop - 1
  BY DEF WriteLoop, WritesInv, WritesInPlace, TypeOK, First, Stop
<1>2. CASE n' = n /\ accepted' = accepted
  BY <1>1, <1>2 DEF WritesInv, WritesInPlace, TrailerOnce
<1>3. CASE /\ n < total /\ first + n < stop /\ accepted' = accepted \cup {first + n}
           /\ n' = n + 1 \/ (n' = n /\ pc' = "idle")
  <2>1. accepted' = first .. first + n /\ accepted' \subseteq first .. stop - 1
    BY <1>1, <1>3, RunGrows
  <2>2. CASE n' = n + 1
    BY <1>1, <2>1, <2>2, RunGrows DEF WritesInv, WritesInPlace, TrailerOnce
  <2>3. CASE n' = n /\ pc' = "idle"
    BY <1>1, <2>1, <2>3 DEF WritesInv, WritesInPlace, TrailerOnce
  <2> QED
    BY <1>3, <2>2, <2>3
<1> QED
  BY <1>2, <1>3 DEF WriteLoop, FinishWrite, Return

LEMMA WriteTrailerInPlace ==
  ASSUME WritesInv, op = "writeTrailer", WriteTrailer
  PROVE  WritesInv'
<1> USE DEF view, texts
<1>1. n = 0 /\ pc # "idle" /\ op' = op /\ pc' = "idle" /\ First(op) = 11 /\ Stop(op) = 11
  BY DEF WriteTrailer, Return, WritesInv, TrailerOnce, First, Stop
<1>2. accepted = {}
  BY <1>1 DEF WritesInv, WritesInPlace, Writes
<1>3. \/ accepted' = {} /\ n' = 0
      \/ accepted' = {11} /\ n' \in {0, 1}
  BY <1>2 DEF WriteTrailer
<1>4. 11 .. 11 + 0 - 1 = {} /\ 11 .. 11 + 0 = {11} /\ 11 .. 11 + 1 - 1 = {11} /\ 11 .. 11 = {11}
  OBVIOUS
<1> QED
  BY <1>1, <1>3, <1>4 DEF WritesInv, WritesInPlace, TrailerOnce, Writes

LEMMA WritesNext ==
  ASSUME TypeOK, WritesInv, [Next]_vars
  PROVE  WritesInv'
<1> USE DEF view, texts, air
<1>1. ASSUME UNCHANGED <<op, n, accepted>>, pc' = "idle" \/ pc # "idle" \/ UNCHANGED pc
      PROVE  WritesInv'
  BY <1>1 DEF WritesInv, WritesInPlace, TrailerOnce, First, Stop
<1>2. ASSUME op' \notin Writes PROVE WritesInv'
  BY <1>2 DEF WritesInv, WritesInPlace, TrailerOnce, Writes
<1>3. ASSUME n' = 0, accepted' = {} PROVE WritesInv'
  <2>1. First(op') \in Nat
    BY DEF First
  <2>2. accepted' = First(op') .. First(op') + n' - 1
    BY <1>3, <2>1, RunGrows
  <2> QED
    BY <1>3, <2>2 DEF WritesInv, WritesInPlace, TrailerOnce
<1>4. CASE UNCHANGED vars
  BY <1>1, <1>4 DEF vars
<1>5. CASE OpenReader
  BY <1>1, <1>5 DEF OpenReader, OpenFails, Opened, ReaderSteps
<1>6. CASE op \in Reads /\ UNCHANGED op
  BY <1>2, <1>6 DEF Reads, Writes
<1>7. CASE ClassicPrepare \/ ClassicRefused
  BY <1>1, <1>7 DEF ClassicPrepare, ClassicRefused
<1>8. CASE op = "writeClassic" /\ WriteBlocks
  BY <1>8, WriteLoopInPlace DEF WriteBlocks, First, Stop, Writes
<1>9. CASE op = "writeUltralight" /\ WritePages
  BY <1>9, WriteLoopInPlace DEF WritePages, First, Stop, Writes
<1>10. CASE op = "writeTrailer" /\ WriteTrailer
  BY <1>10, WriteTrailerInPlace
<1>11. CASE ReadCard \/ OnPollTimer \/ \E o \in Writes, k \in WriteSizes \cup {0} : BeginWrite(o, k)
  BY <1>3, <1>11 DEF ReadCard, OnPollTimer, BeginRead, BeginWrite, Begin
<1>12. CASE \E t \in Types : SetCardType(t)
  BY <1>1, <1>3, <1>12 DEF SetCardType
<1>13. CASE PlaceCard \/ RemoveCard
  BY <1>1, <1>13 DEF PlaceCard, RemoveCard
<1>14. /\ DesfireUid \/ UltralightUid \/ UltralightPages \/ CryptStep => UNCHANGED op
       /\ ClassicUid \/ ClassicLoad \/ ClassicAuth \/ ClassicRead => UNCHANGED op
  BY DEF DesfireUid, UltralightUid, UltralightPages, CryptStep, ClassicUid, ClassicLoad,
         ClassicAuth, ClassicRead
<1> QED
  BY <1>4, <1>5, <1>6, <1>7, <1>8, <1>9, <1>10, <1>11, <1>12, <1>13, <1>14, NextCases DEF Reads

(* Data never reaches a sector trailer or the lock pages, and the card has  *)
(* taken what the counter of written blocks says or one more: whatever the *)
(* sizes asked for, and wherever an answer was lost.                       *)
THEOREM WritesStayInPlace == Spec => []WritesInPlace
<1>1. Init => WritesInv
  BY DEF Init, WritesInv, WritesInPlace, TrailerOnce, Writes
<1>2. TypeOK /\ WritesInv /\ [Next]_vars => WritesInv'
  BY WritesNext
<1>3. HoldsWhatItOpened => TypeOK
  BY DEF HoldsWhatItOpened
<1>4. WritesInv => WritesInPlace
  BY DEF WritesInv
<1> QED
  BY <1>1, <1>2, <1>3, <1>4, ResourcesHeld, PTL DEF Spec

-----------------------------------------------------------------------------
(* The three texts                                                         *)

Blocks == Cards \X Nat

(* A block of the chain is undone by the one before it. *)
LEMMA DecryptEncrypt ==
  ASSUME NEW S, NEW data \in Seq(S)
  PROVE  SubSeq(CbcDecrypt(CbcEncrypt(data)), 1, Len(data)) = data
<1> DEFINE m == Len(data)
           c == CbcEncrypt(data)
<1>1. m \in Nat /\ DOMAIN data = 1 .. m
  BY LenProperties
<1>2. \A i \in 1 .. m : /\ SubSeq(data, 1, i) \in Seq(S)
                        /\ Len(SubSeq(data, 1, i)) = i
                        /\ \A j \in 1 .. i : SubSeq(data, 1, i)[j] = data[j]
  BY <1>1, SubSeqProperties
<1>3. c \in Seq(Seq(S)) /\ Len(c) = m /\ \A i \in 1 .. m : c[i] = SubSeq(data, 1, i)
  BY <1>1, <1>2 DEF CbcEncrypt
<1> HIDE DEF c
<1>4. ASSUME NEW i \in 1 .. m
      PROVE  (LET iv == IF i = 1 THEN <<>> ELSE c[i - 1]
              IN  IF SubSeq(c[i], 1, Len(c[i]) - 1) = iv THEN c[i][Len(c[i])] ELSE Garbled) = data[i]
  <2>1. c[i] = SubSeq(data, 1, i) /\ c[i] \in Seq(S) /\ Len(c[i]) = i /\ c[i][i] = data[i]
    BY <1>2, <1>3
  <2>2. SubSeq(c[i], 1, i - 1) = IF i = 1 THEN <<>> ELSE c[i - 1]
    <3>1. CASE i = 1
      BY <2>1, <3>1, SubSeqProperties
    <3>2. CASE i # 1
      <4>1. i - 1 \in 1 .. m /\ i - 1 \in 1 .. i /\ i - 1 \in Nat
        BY <1>1, <3>2
      <4>2. /\ SubSeq(c[i], 1, i - 1) \in Seq(S) /\ Len(SubSeq(c[i], 1, i - 1)) = i - 1
            /\ \A j \in 1 .. i - 1 : SubSeq(c[i], 1, i - 1)[j] = c[i][j]
        BY <2>1, <4>1, SubSeqProperties
      <4>3. \A j \in 1 .. i - 1 : c[i][j] = data[j] /\ c[i - 1][j] = data[j]
        BY <1>2, <1>3, <4>1
      <4>4. c[i - 1] \in Seq(S) /\ Len(c[i - 1]) = i - 1
        BY <1>2, <1>3, <4>1
      <4> QED
        BY <3>2, <4>2, <4>3, <4>4, SeqEqual
    <3> QED
      BY <3>1, <3>2
  <2> QED
    BY <2>1, <2>2
<1>5. CbcDecrypt(c) = [i \in 1 .. m |-> data[i]]
  BY <1>3, <1>4 DEF CbcDecrypt
<1>6. [i \in 1 .. m |-> data[i]] = data
  BY <1>1
<1>7. SubSeq(data, 1, m) = data
  BY SubSeqFull
<1> QED
  BY <1>5, <1>6, <1>7 DEF c

(* While the texts are made, raw is what was read and, once it has been     *)
(* encrypted, aes is its ciphertext; at every other time the two shown     *)
(* belong together.  The encryption is what a read comes to first.         *)
Crypting == op = "readUltralight" /\ pc \in CryptSteps
TextsShown == aes \notin {<<>>, Error} => aes = CbcEncrypt(raw) /\ restored \in {raw, Error}
TextsSoFar ==
  /\ last \in Seq(Blocks)
  /\ op = "readUltralight" /\ pc \in ReaderSteps \cup {"uid", "pages"} => Encrypting
  /\ Crypting => raw = last /\ (~ Encrypting => aes = CbcEncrypt(last))
  /\ ~ Crypting => TextsShown

LEMMA TextsInit == Init => TextsSoFar
  BY DEF Init, TextsSoFar, Crypting, TextsShown

(* A step that leaves the texts alone, outside the encryption.             *)
LEMMA TextsKept ==
  ASSUME TextsSoFar, ~ Crypting, UNCHANGED <<raw, aes, restored>>, last' \in Seq(Blocks),
         op' = "readUltralight" => pc' \notin CryptSteps,
         op' = "readUltralight" /\ pc' \in ReaderSteps \cup {"uid", "pages"} => sector' = 0
  PROVE  TextsSoFar'
  BY DEF TextsSoFar, Crypting, TextsShown, Encrypting

LEMMA PagesText ==
  ASSUME TypeOK, TextsSoFar, op = "readUltralight", UltralightPages
  PROVE  TextsSoFar'
<1>1. ~ Crypting /\ sector = 0 /\ sector' = 0 /\ op' = op /\ UNCHANGED <<aes, restored>>
  BY DEF UltralightPages, Crypting, CryptSteps, TextsSoFar, Encrypting
<1>2. CASE PagesRead
  <2>1. CASE raw' = last /\ pc' = "provider"
    BY <1>1, <1>2, <2>1 DEF PagesRead, TextsSoFar, Crypting, CryptSteps, Encrypting, ReaderSteps
  <2>2. CASE Return(pc) /\ UNCHANGED raw
    <3>1. pc' = "idle" /\ last' \in Seq(Blocks)
      BY <1>2, <2>2 DEF PagesRead, Return, TextsSoFar
    <3> QED
      BY <1>1, <2>2, <3>1, TextsKept DEF CryptSteps
  <2> QED
    BY <1>2, <2>1, <2>2 DEF PagesRead
<1>3. CASE Answers /\ last' = Append(last, <<link, n>>) /\ UNCHANGED <<pc, raw>>
  <2>1. <<link, n>> \in Blocks
    BY <1>3 DEF Answers, TypeOK, Blocks
  <2>2. last' \in Seq(Blocks)
    BY <1>3, <2>1, AppendProperties DEF TextsSoFar
  <2> QED
    BY <1>1, <1>3, <2>2, TextsKept DEF UltralightPages, CryptSteps
<1> QED
  BY <1>2, <1>3 DEF UltralightPages

LEMMA CryptText ==
  ASSUME TextsSoFar, op = "readUltralight", CryptStep
  PROVE  TextsSoFar'
<1>1. Crypting /\ raw = last /\ UNCHANGED <<op, last, raw>> /\ last' \in Seq(Blocks)
  BY DEF CryptStep, Crypting, TextsSoFar
<1>2. CASE CryptFails /\ Encrypting
  BY <1>1, <1>2 DEF CryptFails, TextsSoFar, Crypting, TextsShown, CryptSteps, ReaderSteps
<1>3. CASE CryptFails /\ ~ Encrypting
  BY <1>1, <1>3 DEF CryptFails, TextsSoFar, Crypting, TextsShown, CryptSteps, ReaderSteps
<1>4. CASE \E gained \in SUBSET Resources, next \in {"chain", "key", "blocks"} :
             CryptAdvances(gained, next)
  BY <1>1, <1>4 DEF CryptAdvances, TextsSoFar, Crypting, CryptSteps, ReaderSteps, Encrypting
<1>5. CASE Encrypted
  BY <1>1, <1>5 DEF Encrypted, TextsSoFar, Crypting, CryptSteps, ReaderSteps, Encrypting
<1>6. CASE ~ Encrypting /\ Decrypted
  <2>1. aes = CbcEncrypt(last) /\ aes' = aes /\ pc' = "idle"
    BY <1>1, <1>6 DEF Decrypted, TextsSoFar
  <2>2. restored' = last
    BY <1>1, <1>6, <2>1, DecryptEncrypt DEF Decrypted
  <2> QED
    BY <1>1, <2>1, <2>2 DEF TextsSoFar, Crypting, TextsShown, CryptSteps, ReaderSteps
<1>7. {{}, {"provider"}, {"key"}} \subseteq SUBSET Resources
  BY DEF Resources
<1> QED
  BY <1>2, <1>3, <1>4, <1>5, <1>6, <1>7 DEF CryptStep

LEMMA TextsNext ==
  ASSUME TypeOK, TextsSoFar, [Next]_vars
  PROVE  TextsSoFar'
<1> USE DEF view, texts, air
<1>1. last \in Seq(Blocks)
  BY DEF TextsSoFar
<1>2. CASE UNCHANGED vars
  BY <1>2 DEF vars, TextsSoFar, Crypting, TextsShown, Encrypting, CbcEncrypt
<1>3. CASE OpenReader
  <2>1. /\ ~ Crypting /\ UNCHANGED <<op, sector, last, raw, aes, restored>>
        /\ pc' \notin CryptSteps
    BY <1>3 DEF OpenReader, OpenFails, Opened, Return, ReaderSteps, CryptSteps, Crypting,
                FirstCardStep, Reads
  <2>2. op = "readUltralight" => sector = 0
    BY <1>3 DEF OpenReader, TextsSoFar, Encrypting
  <2> QED
    BY <1>1, <2>1, <2>2, TextsKept
<1>4. CASE op # "readUltralight" /\ op' # "readUltralight" /\ UNCHANGED <<last, raw, aes, restored>>
  BY <1>1, <1>4, TextsKept DEF Crypting
<1>5. CASE op = "readUltralight" /\ UltralightUid
  <2>1. ~ Crypting /\ sector' = 0 /\ pc' \notin CryptSteps /\ UNCHANGED <<last, raw, aes, restored>>
    BY <1>5 DEF UltralightUid, Crypting, CryptSteps, TextsSoFar, Encrypting, Return
  <2> QED
    BY <1>1, <2>1, TextsKept
<1>6. CASE op = "readUltralight" /\ (UltralightPages \/ CryptStep)
  BY <1>6, PagesText, CryptText
<1>7. CASE ReadCard \/ OnPollTimer \/ \E o \in Writes, k \in WriteSizes \cup {0} : BeginWrite(o, k)
  <2>1. /\ ~ Crypting /\ sector' = 0 /\ pc' = "establish" /\ UNCHANGED <<raw, aes, restored>>
        /\ last' = last \/ last' = <<>>
    BY <1>7 DEF ReadCard, OnPollTimer, BeginRead, BeginWrite, Begin, Idle, Crypting, CryptSteps
  <2>2. <<>> \in Seq(Blocks)
    OBVIOUS
  <2>3. last' \in Seq(Blocks)
    BY <1>1, <2>1, <2>2
  <2> QED
    BY <2>1, <2>3, TextsKept DEF CryptSteps
<1>8. CASE \E t \in Types : SetCardType(t)
  <2>1. /\ ~ Crypting /\ UNCHANGED <<last, raw, aes, restored>> /\ pc' \in {"idle", "establish"}
        /\ pc' = "establish" => op' = "readDesfire"
    BY <1>8 DEF SetCardType, Idle, Crypting, CryptSteps
  <2> QED
    BY <1>1, <2>1, TextsKept DEF CryptSteps, ReaderSteps
<1>9. CASE PlaceCard \/ RemoveCard
  BY <1>9 DEF PlaceCard, RemoveCard, TextsSoFar, Crypting, TextsShown, Encrypting, CbcEncrypt
<1>10. /\ DesfireUid \/ ClassicUid \/ ClassicLoad \/ ClassicAuth \/ ClassicRead \/ ClassicPrepare
             \/ ClassicRefused \/ WriteTrailer => UNCHANGED <<op, last, raw, aes, restored>>
       /\ WriteBlocks \/ WritePages => UNCHANGED <<op, last, raw, aes, restored>>
  BY DEF DesfireUid, ClassicUid, ClassicLoad, ClassicAuth, ClassicRead, ClassicPrepare,
         ClassicRefused, WriteTrailer, WriteBlocks, WritePages, WriteLoop
<1> QED
  BY <1>2, <1>3, <1>4, <1>5, <1>6, <1>7, <1>8, <1>9, <1>10, NextCases

(* A ciphertext shown after any operation is that of the raw text beside    *)
(* it, and the restored text is that text or an error: for an Ultralight    *)
(* read of any length, and whichever call of the CryptoAPI failed. Where an *)
(* encryption failed no ciphertext is shown, the restored text is the one   *)
(* of an earlier read, and nothing is claimed of it.                        *)
THEOREM TextsBelongTogether == Spec => []TextsAgree
<1>1. TypeOK /\ TextsSoFar /\ [Next]_vars => TextsSoFar'
  BY TextsNext
<1>2. HoldsWhatItOpened => TypeOK
  BY DEF HoldsWhatItOpened
<1>3. TextsSoFar => TextsAgree
  BY DEF TextsSoFar, Crypting, CryptSteps, TextsShown, TextsAgree
<1> QED
  BY TextsInit, <1>1, <1>2, <1>3, ResourcesHeld, PTL DEF Spec

-----------------------------------------------------------------------------
(* Whose UID is shown                                                      *)

(* Until the card has answered, no UID was seen; from then on the one seen *)
(* is shown.                                                               *)
UidReads == {"readDesfire", "readUltralight"}
UidSoFar ==
  op \in UidReads =>
    /\ pc \in ReaderSteps \cup {"uid"} => seen = NoCard
    /\ pc \in {"pages"} \cup CryptSteps => uid = seen

LEMMA UidNext ==
  ASSUME UidSoFar, [Next]_vars
  PROVE  UidSoFar'
<1> USE DEF view, texts, air
<1>1. CASE UNCHANGED vars
  BY <1>1 DEF vars, UidSoFar
<1>2. CASE OpenReader
  BY <1>2 DEF OpenReader, OpenFails, Opened, Return, ReaderSteps, CryptSteps, UidSoFar, UidReads,
              FirstCardStep, Reads
<1>3. CASE op' \notin UidReads
  BY <1>3 DEF UidSoFar
<1>4. CASE op = "readDesfire" /\ DesfireUid
  BY <1>4 DEF DesfireUid, Return, ReaderSteps, CryptSteps, UidSoFar
<1>5. CASE op = "readUltralight" /\ UltralightUid
  BY <1>5 DEF UltralightUid, Return, ReaderSteps, CryptSteps, UidSoFar
<1>6. CASE op = "readUltralight" /\ UltralightPages
  BY <1>6 DEF UltralightPages, PagesRead, Return, ReaderSteps, CryptSteps, UidSoFar, UidReads
<1>7. CASE op = "readUltralight" /\ CryptStep
  <2>1. UNCHANGED <<op, uid, seen>> /\ pc' \in {"idle"} \cup CryptSteps
    BY <1>7 DEF CryptStep, CryptFails, CryptAdvances, Encrypted, Decrypted, CryptSteps
  <2> QED
    BY <1>7, <2>1 DEF CryptStep, ReaderSteps, CryptSteps, UidSoFar, UidReads
<1>8. CASE ReadCard \/ OnPollTimer \/ \E o \in Writes, k \in WriteSizes \cup {0} : BeginWrite(o, k)
  BY <1>8 DEF ReadCard, OnPollTimer, BeginRead, BeginWrite, Begin, UidSoFar, CryptSteps
<1>9. CASE \E t \in Types : SetCardType(t)
  BY <1>9 DEF SetCardType, Idle, ReaderSteps, CryptSteps, UidSoFar
<1>10. CASE PlaceCard \/ RemoveCard
  BY <1>10 DEF PlaceCard, RemoveCard, UidSoFar
<1>11. /\ ClassicUid \/ ClassicLoad \/ ClassicAuth \/ ClassicRead \/ ClassicPrepare
             \/ ClassicRefused \/ WriteTrailer => UNCHANGED op
       /\ WriteBlocks \/ WritePages => UNCHANGED op
  BY DEF ClassicUid, ClassicLoad, ClassicAuth, ClassicRead, ClassicPrepare,
         ClassicRefused, WriteTrailer, WriteBlocks, WritePages, WriteLoop
<1> QED
  BY <1>1, <1>2, <1>3, <1>4, <1>5, <1>6, <1>7, <1>8, <1>9, <1>10, <1>11, NextCases DEF UidReads

(* A step that ends a DESFire or an Ultralight read, other than at a failed *)
(* malloc, shows the UID that this read has seen.                          *)
UidStep ==
  (op \in {"readDesfire", "readUltralight"} /\ busy /\ ~busy' /\ pc # "alloc") => uid' = seen'

LEMMA UidStepHolds ==
  ASSUME HoldsWhatItOpened, UidSoFar, [Next]_vars
  PROVE  UidStep
<1> SUFFICES ASSUME op \in UidReads, busy, ~ busy', pc # "alloc"
             PROVE  uid' = seen'
  BY DEF UidStep, UidReads
<1> USE DEF view, texts, air
<1>1. pc # "idle"
  BY DEF HoldsWhatItOpened
<1>2. CASE OpenReader
  BY <1>2 DEF OpenReader, OpenFails, Opened, UidSoFar, UidReads, Reads
<1>3. CASE op = "readDesfire" /\ DesfireUid
  BY <1>3 DEF DesfireUid, UidSoFar, UidReads
<1>4. CASE op = "readUltralight" /\ UltralightUid
  BY <1>4 DEF UltralightUid, UidSoFar, UidReads
<1>5. CASE op = "readUltralight" /\ UltralightPages
  BY <1>5 DEF UltralightPages, UidSoFar, UidReads
<1>6. CASE op = "readUltralight" /\ CryptStep
  BY <1>6 DEF CryptStep, UidSoFar, UidReads
<1>7. CASE UNCHANGED vars \/ PlaceCard \/ RemoveCard
  BY <1>7 DEF vars, PlaceCard, RemoveCard
<1>8. ~ (ReadCard \/ OnPollTimer \/ \E o \in Writes, k \in WriteSizes \cup {0} : BeginWrite(o, k))
  BY <1>1 DEF ReadCard, OnPollTimer, BeginWrite, Idle
<1>9. ~ \E t \in Types : SetCardType(t)
  BY <1>1 DEF SetCardType, Idle
<1> QED
  BY <1>2, <1>3, <1>4, <1>5, <1>6, <1>7, <1>8, <1>9, NextCases DEF UidReads

(* When a DESFire or an Ultralight read ends, the UID on the display is the *)
(* one that answered this read, or none, wherever it failed but in malloc,  *)
(* which leaves the older UID; a Classic read is not meant: it keeps the    *)
(* older UID when its own does not answer.                                  *)
THEOREM UidShownIsOfThisRead == Spec => UidIsOfThisRead
<1>1. Init => UidSoFar
  BY DEF Init, UidSoFar, UidReads
<1>2. UidSoFar /\ [Next]_vars => UidSoFar'
  BY UidNext
<1>3. HoldsWhatItOpened /\ UidSoFar /\ [Next]_vars
        => [(op \in {"readDesfire", "readUltralight"} /\ busy /\ ~busy' /\ pc # "alloc")
              => uid' = seen']_vars
  BY UidStepHolds DEF UidStep
<1> QED
  BY <1>1, <1>2, <1>3, ResourcesHeld, PTL DEF Spec, UidIsOfThisRead

=============================================================================
