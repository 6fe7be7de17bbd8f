---------------------------- MODULE LegacyReader ----------------------------
(***************************************************************************)
(* Documents/cardreader.cpp: the Qt class CardReader, which opens the PC/SC *)
(* resource manager anew for every operation.  One thread runs it: a slot  *)
(* runs to its end before the next, so the only thing that moves between   *)
(* two calls of one operation is the card.                                 *)
(*                                                                         *)
(* pc names the call about to be made.  held is the set of what the        *)
(* operation has opened and not given back.  Every call may fail; a card   *)
(* may carry out a write whose answer never arrives.  A block is 16 bytes  *)
(* (four Ultralight pages); the CBC ciphertext block that ends a chain is  *)
(* the chain of plain blocks it was made from, which is what it determines. *)
(***************************************************************************)
EXTENDS Naturals, Sequences

CONSTANTS
  Cards,        \* the cards that are put on the reader
  NoCard,       \* nothing on the reader; an empty UID
  LastSector,   \* sectors read from a Classic card, 0 .. 15 in the code
  UserSectors,  \* the sectors that carry the user's key from the start
  PageReads,    \* reads of four pages of an Ultralight card, 4 in the code
  WriteSizes    \* how many blocks or pages a write may be asked for

ASSUME CardsAssumption == NoCard \notin Cards
ASSUME SectorAssumption == LastSector \in Nat /\ 2 <= LastSector
ASSUME BlocksAssumption == WriteSizes \subseteq Nat /\ PageReads \in Nat

VARIABLES
  type,       \* m_cardType
  polling,    \* m_pollTimer is active
  busy,       \* m_busy
  op, pc, n,  \* the operation, its next call and its loop counter
  total,      \* the blocks or pages a write was given
  sector,     \* the sector a Classic operation is at
  held,       \* resources of the operation: context, names, card, provider, key
  uid, seen,  \* m_cardUID, and the UID that answered in this operation
  last,       \* m_lastReadData, as blocks
  raw, aes, restored,  \* the three Ultralight texts
  card,       \* the card on the reader
  link,       \* the card the handle reaches, NoCard once it was taken away
  keys,       \* key A of each card's sectors
  slot,       \* the key in the reader's slot 1
  authed,     \* the sector the card is authenticated for, or none
  accepted    \* blocks or pages the card took in this operation

view == <<uid, seen>>
texts == <<last, raw, aes, restored>>
air == <<card, link, keys, slot, authed, accepted>>
vars == <<type, polling, busy, op, pc, n, total, sector, held, view, texts, air>>

Types == {"desfire", "ultralight", "classic"}
Reads == {"readDesfire", "readClassic", "readUltralight"}
Writes == {"writeClassic", "writeTrailer", "writeUltralight"}
Sectors == 0 .. LastSector
None == LastSector + 1
Factory == "FFFFFFFFFFFF"
User == "010203040506"
Unset == "unset"    \* nothing was loaded into the slot
Garbled == <<>>     \* no block of a text
Error == <<Garbled>>  \* a text that says what failed
ReaderSteps == {"establish", "size", "alloc", "list", "connect"}
CardSteps == {"uid", "load", "auth", "read", "write", "pages"}
CryptSteps == {"provider", "chain", "key", "blocks"}

Init ==
  /\ type = "desfire" /\ polling = FALSE /\ busy = FALSE
  /\ op = "none" /\ pc = "idle" /\ n = 0 /\ total = 0 /\ sector = 0 /\ held = {}
  /\ uid = NoCard /\ seen = NoCard
  /\ last = <<>> /\ raw = <<>> /\ aes = <<>> /\ restored = <<>>
  /\ card = NoCard /\ link = NoCard /\ slot = Unset /\ authed = None /\ accepted = {}
  /\ keys = [c \in Cards |-> [s \in Sectors |-> IF s \in UserSectors THEN User ELSE Factory]]

-----------------------------------------------------------------------------
(* The reader and the card.                                                *)

PlaceCard ==
  /\ card = NoCard
  /\ card' \in Cards
  /\ UNCHANGED <<type, polling, busy, op, pc, n, total, sector, held, view, texts,
                 link, keys, slot, authed, accepted>>

\* Taking the card away ends its authentication and kills the handle.
RemoveCard ==
  /\ card # NoCard
  /\ card' = NoCard /\ link' = NoCard /\ authed' = None
  /\ UNCHANGED <<type, polling, busy, op, pc, n, total, sector, held, view, texts,
                 keys, slot, accepted>>

Answers == link # NoCard

-----------------------------------------------------------------------------
(* Starting an operation.  Each one but the polled reads tests m_busy.     *)

Begin(o, k) ==
  /\ total' = k
  /\ busy' = TRUE /\ op' = o /\ pc' = "establish"
  /\ n' = 0 /\ sector' = 0 /\ seen' = NoCard /\ accepted' = {}
  /\ UNCHANGED <<held, uid, raw, aes, restored, card, link, keys, slot, authed>>

ReadOf(t) ==
  CASE t = "ultralight" -> "readUltralight" [] t = "classic" -> "readClassic"
    [] OTHER -> "readDesfire"

\* The Ultralight read clears the data of the last one.
BeginRead(t) ==
  /\ Begin(ReadOf(t), 0)
  /\ last' = IF t = "ultralight" THEN <<>> ELSE last

Idle == pc = "idle"

\* readCard, by hand or from the poll timer, which reads in DESFire mode only.
ReadCard == Idle /\ ~busy /\ BeginRead(type) /\ UNCHANGED <<type, polling>>

OnPollTimer ==
  /\ Idle /\ polling /\ type = "desfire" /\ ~busy
  /\ BeginRead(type)
  /\ UNCHANGED <<type, polling>>

\* setCardType clears the display and starts or stops the poll; a poll that
\* starts reads at once, unless an operation is under way.
SetCardType(t) ==
  /\ Idle /\ t # type
  /\ type' = t /\ polling' = (t = "desfire")
  /\ uid' = NoCard
  /\ IF t = "desfire" /\ ~polling /\ ~busy
     THEN /\ busy' = TRUE /\ op' = "readDesfire" /\ pc' = "establish"
          /\ n' = 0 /\ total' = 0 /\ sector' = 0 /\ seen' = NoCard /\ accepted' = {}
     ELSE UNCHANGED <<busy, op, pc, n, total, sector, seen, accepted>>
  /\ UNCHANGED <<held, texts, card, link, keys, slot, authed>>

\* A write whose text has no byte, or one that is not hexadecimal, returns at
\* once; the others have k pages or blocks to write.
BeginWrite(o, k) ==
  /\ Idle /\ ~busy
  /\ Begin(o, k)
  /\ UNCHANGED <<type, polling, last>>

-----------------------------------------------------------------------------
(* Opening the reader: the same five calls, with the same early returns,   *)
(* open every operation.                                                   *)

FaultyReleases(p) == IF p = "connect" THEN {"context"} ELSE
  CASE p = "establish" -> {} [] p \in {"size", "alloc"} -> {"context"}
    [] p = "list" -> {"names", "context"} [] OTHER -> {"card", "names", "context"}

\* What the return at each call gives back, in the order of the code.
Releases(p) ==
  CASE p = "establish" -> {}
    [] p \in {"size", "alloc"} -> {"context"}
    [] p \in {"list", "connect"} -> {"names", "context"}
    [] OTHER -> {"card", "names", "context"}

FaultyReturn(p) ==
  /\ held' = held \ Releases(p)
  /\ busy' = (p = "list")
  /\ pc' = "idle"
  /\ link' = IF "card" \in Releases(p) THEN NoCard ELSE link
  /\ authed' = IF "card" \in Releases(p) THEN None ELSE authed

\* The common end of every path.
Return(p) ==
  /\ held' = held \ Releases(p)
  /\ busy' = FALSE
  /\ pc' = "idle"
  /\ link' = IF "card" \in Releases(p) THEN NoCard ELSE link
  /\ authed' = IF "card" \in Releases(p) THEN None ELSE authed

FaultyOpenFails ==
  /\ Return(pc)
  /\ uid' = IF op \in Reads /\ pc \notin {"alloc", "connect"} THEN NoCard ELSE uid
  /\ UNCHANGED <<seen, card, keys, slot, accepted>>

\* A read that cannot open the reader drops the UID, except when malloc
\* failed.
OpenFails ==
  /\ Return(pc)
  /\ uid' = IF op \in Reads /\ pc # "alloc" THEN NoCard ELSE uid
  /\ UNCHANGED <<seen, card, keys, slot, accepted>>

FirstCardStep(o) ==
  CASE o \in Reads -> "uid" [] o = "writeUltralight" -> "write" [] OTHER -> "load"

Opened(gained, next) ==
  /\ held' = held \cup gained
  /\ pc' = next
  /\ UNCHANGED <<busy, view, card, keys, slot, authed, accepted>>

\* SCardEstablishContext, SCardListReaders twice around malloc, SCardConnect
\* to the contactless reader found, or to the first.
OpenReader ==
  /\ pc \in ReaderSteps
  /\ \/ OpenFails
     \/ pc = "establish" /\ Opened({"context"}, "size") /\ UNCHANGED link
     \/ pc = "size" /\ Opened({}, "alloc") /\ UNCHANGED link
     \/ pc = "alloc" /\ Opened({"names"}, "list") /\ UNCHANGED link
     \/ pc = "list" /\ Opened({}, "connect") /\ UNCHANGED link
     \/ /\ pc = "connect" /\ card # NoCard
        /\ Opened({"card"}, FirstCardStep(op)) /\ link' = card
  /\ UNCHANGED <<type, polling, op, n, total, sector, texts>>

-----------------------------------------------------------------------------
(* The exchanges of each operation.                                        *)

\* readDesfireCard ends with the answer: the UID of the card, or none.
DesfireUid ==
  /\ pc = "uid"
  /\ \/ Answers /\ seen' = link /\ uid' = link
     \/ uid' = NoCard /\ UNCHANGED seen
  /\ Return(pc)
  /\ UNCHANGED <<type, polling, op, n, total, sector, texts, card, keys, slot, accepted>>

ReadDesfireCard == op = "readDesfire" /\ (OpenReader \/ DesfireUid)

\* readMifareClassicCard: a UID that does not come leaves the old one shown.
ClassicUid ==
  /\ pc = "uid" /\ pc' = "load"
  /\ \/ Answers /\ uid' = link /\ seen' = link
     \/ UNCHANGED view
  /\ UNCHANGED <<type, polling, busy, op, n, total, sector, held, texts, air>>

NextSector ==
  IF sector = LastSector
  THEN Return(pc) /\ UNCHANGED <<sector, n>>
  ELSE /\ sector' = sector + 1 /\ n' = 0 /\ pc' = "load"
       /\ UNCHANGED <<busy, held, link, authed>>

\* A sector whose key cannot be loaded, or that refuses it, is skipped.
ClassicLoad ==
  /\ pc = "load"
  /\ \/ Answers /\ slot' = User /\ pc' = "auth" /\ UNCHANGED <<busy, held, link, authed, n, sector>>
     \/ NextSector /\ UNCHANGED slot
  /\ UNCHANGED <<type, polling, op, total, view, texts, card, keys, accepted>>

FaultyClassicAuth ==
  /\ pc = "auth"
  /\ \/ /\ Answers /\ keys[link][sector] = slot
        /\ authed' = sector /\ n' = 0 /\ pc' = "read"
        /\ UNCHANGED <<busy, held, link, sector>>
     \/ pc' = "read" /\ UNCHANGED <<busy, held, link, authed, n, sector>>
  /\ UNCHANGED <<type, polling, op, total, view, texts, card, keys, slot, accepted>>

ClassicAuth ==
  /\ pc = "auth"
  /\ \/ /\ Answers /\ keys[link][sector] = slot
        /\ authed' = sector /\ n' = 0 /\ pc' = "read"
        /\ UNCHANGED <<busy, held, link, sector>>
     \/ NextSector
  /\ UNCHANGED <<type, polling, op, total, view, texts, card, keys, slot, accepted>>

\* The four blocks of the sector, whether or not each can be read.
ClassicRead ==
  /\ pc = "read"
  /\ IF n < 3
     THEN n' = n + 1 /\ UNCHANGED <<busy, held, link, authed, pc, sector>>
     ELSE NextSector
  /\ UNCHANGED <<type, polling, op, total, view, texts, card, keys, slot, accepted>>

ReadMifareClassicCard ==
  /\ op = "readClassic"
  /\ OpenReader \/ ClassicUid \/ ClassicLoad \/ ClassicAuth \/ ClassicRead

\* writeMifareClassicCard and the trailer write load the factory key and
\* authenticate one sector; a failure of either ends them with its message.
TargetSector(o) == IF o = "writeTrailer" THEN 2 ELSE 1

ClassicPrepare ==
  /\ \/ pc = "load" /\ Answers /\ slot' = Factory /\ pc' = "auth" /\ UNCHANGED authed
     \/ /\ pc = "auth" /\ Answers /\ keys[link][TargetSector(op)] = slot
        /\ authed' = TargetSector(op) /\ pc' = "write" /\ UNCHANGED slot
  /\ UNCHANGED <<type, polling, busy, op, n, total, sector, held, view, texts,
                 card, link, keys, accepted>>

ClassicRefused ==
  /\ pc \in {"load", "auth"}
  /\ Return(pc)
  /\ UNCHANGED <<type, polling, op, n, total, sector, view, texts, card, keys, slot, accepted>>

\* The loop over the blocks or pages: first is where it starts, stop the place
\* it must not reach.  It ends at the end of the data, at stop, or with the
\* first exchange that is not answered 90 00, which the card may have obeyed.
FinishWrite == Return("write") /\ UNCHANGED <<n, keys>>

FaultyWriteLoop(first, stop) ==
  /\ pc = "write"
  /\ LET place == first + n IN
     \/ n = total /\ FinishWrite /\ UNCHANGED accepted
     \/ n < total /\ place > stop /\ FinishWrite /\ UNCHANGED accepted
     \/ /\ n < total /\ place <= stop /\ Answers
        /\ accepted' = accepted \cup {place} /\ n' = n + 1
        /\ UNCHANGED <<pc, busy, held, link, authed, keys>>
  /\ UNCHANGED <<type, polling, op, total, sector, view, texts, card, slot>>

WriteLoop(first, stop) ==
  /\ pc = "write"
  /\ LET place == first + n IN
     \/ n = total /\ FinishWrite /\ UNCHANGED accepted
     \/ n < total /\ place >= stop /\ FinishWrite /\ UNCHANGED accepted
     \/ /\ n < total /\ place < stop /\ Answers
        /\ accepted' = accepted \cup {place} /\ n' = n + 1
        /\ UNCHANGED <<pc, busy, held, link, authed, keys>>
     \/ /\ n < total /\ place < stop /\ FinishWrite
        /\ \/ Answers /\ accepted' = accepted \cup {place}
           \/ UNCHANGED accepted
  /\ UNCHANGED <<type, polling, op, total, sector, view, texts, card, slot>>

\* From block 4 on, never to block 7, the trailer of sector 1.
WriteBlocks == WriteLoop(4, 7)

WriteMifareClassicCard ==
  /\ op = "writeClassic"
  /\ OpenReader \/ ClassicPrepare \/ ClassicRefused \/ WriteBlocks

\* writeMifareClassicSectorTrailer: block 11, which changes the key of sector 2.
WriteTrailer ==
  /\ pc = "write"
  /\ \E obeyed, answered \in BOOLEAN :
       /\ obeyed => Answers
       /\ answered => obeyed
       /\ accepted' = IF obeyed THEN {11} ELSE accepted
       /\ keys' = IF obeyed THEN [keys EXCEPT ![link][2] = User] ELSE keys
       /\ n' = IF answered THEN 1 ELSE 0
  /\ Return(pc)
  /\ UNCHANGED <<type, polling, op, total, sector, view, texts, card, slot>>

WriteMifareClassicSectorTrailer ==
  /\ op = "writeTrailer"
  /\ OpenReader \/ ClassicPrepare \/ ClassicRefused \/ WriteTrailer

\* writeUltralightCard: from page 5 to the last page, 15.
WritePages == WriteLoop(5, 16)

WriteUltralightCard == op = "writeUltralight" /\ (OpenReader \/ WritePages)

-----------------------------------------------------------------------------
(* readUltralightCard: the UID, four reads of four pages, then the texts.  *)

UltralightUid ==
  /\ pc = "uid"
  /\ \/ /\ Answers /\ uid' = link /\ seen' = link /\ pc' = "pages"
        /\ UNCHANGED <<busy, held, link, authed>>
     \/ uid' = NoCard /\ UNCHANGED seen /\ Return(pc)
  /\ UNCHANGED <<type, polling, op, n, total, sector, texts, card, keys, slot, accepted>>

\* A read that fails ends the loop.  What was read becomes the raw text and
\* goes to the encryption; nothing read leaves the three texts as they were.
\* (It comes in blocks of 16 bytes, so the test for fewer never matters.)
PagesRead ==
  /\ UNCHANGED <<n, last>>
  /\ IF last = <<>>
     THEN Return(pc) /\ UNCHANGED raw
     ELSE raw' = last /\ pc' = "provider" /\ UNCHANGED <<busy, held, link, authed>>

UltralightPages ==
  /\ pc = "pages"
  /\ \/ PagesRead  \* after the last read, or at one that fails
     \/ /\ n < PageReads /\ Answers
        /\ last' = Append(last, <<link, n>>) /\ n' = n + 1
        /\ UNCHANGED <<pc, busy, held, link, authed, raw>>
  /\ UNCHANGED <<type, polling, op, total, sector, view, aes, restored,
                 card, keys, slot, accepted>>

\* encryptUltralightData and decryptUltralightData make the same calls: sector
\* is 0 in the first and 1 in the second.
Encrypting == sector = 0

\* CBC with the fixed key and IV: block i of the ciphertext determines the
\* plain blocks up to i, and is undone by the ciphertext block before it.
CbcEncrypt(data) == [i \in 1 .. Len(data) |-> SubSeq(data, 1, i)]

CbcDecrypt(cipher) ==
  [i \in 1 .. Len(cipher) |->
     LET iv == IF i = 1 THEN <<>> ELSE cipher[i - 1]
     IN  IF SubSeq(cipher[i], 1, Len(cipher[i]) - 1) = iv
         THEN cipher[i][Len(cipher[i])] ELSE Garbled]

\* A failure closes what is open, says so in the text, and goes back to
\* readUltralightCard, which closes the reader.
CryptReleases(p) ==
  CASE p = "provider" -> {} [] p \in {"chain", "key"} -> {"provider"}
    [] OTHER -> {"key", "provider"}

FaultyCryptFails ==
  /\ held' = held \ (CryptReleases(pc) \cup Releases(pc))
  /\ busy' = FALSE /\ pc' = "idle" /\ link' = NoCard /\ authed' = None
  /\ IF Encrypting THEN aes' = Error /\ UNCHANGED restored
                   ELSE UNCHANGED <<restored, aes>>
  /\ UNCHANGED sector

CryptFails ==
  /\ held' = held \ (CryptReleases(pc) \cup Releases(pc))
  /\ busy' = FALSE /\ pc' = "idle" /\ link' = NoCard /\ authed' = None
  /\ IF Encrypting THEN aes' = Error /\ UNCHANGED restored
                   ELSE restored' = Error /\ UNCHANGED aes
  /\ UNCHANGED sector

CryptAdvances(gained, next) ==
  /\ held' = held \cup gained /\ pc' = next
  /\ UNCHANGED <<busy, link, authed, aes, restored, sector>>

\* Every block went well: the ciphertext is shown and decrypted to verify it,
\* and what comes out is cut to the size of what was read.
Encrypted ==
  /\ aes' = CbcEncrypt(last)
  /\ held' = held \ CryptReleases(pc)
  /\ pc' = "provider" /\ sector' = 1
  /\ UNCHANGED <<busy, link, authed, restored>>

Decrypted ==
  /\ restored' = SubSeq(CbcDecrypt(aes), 1, Len(last))
  /\ held' = held \ (CryptReleases(pc) \cup Releases(pc))
  /\ busy' = FALSE /\ pc' = "idle" /\ link' = NoCard /\ authed' = None
  /\ UNCHANGED <<aes, sector>>

CryptStep ==
  /\ pc \in CryptSteps
  /\ \/ CryptFails
     \/ pc = "provider" /\ CryptAdvances({"provider"}, "chain")
     \/ pc = "chain" /\ CryptAdvances({}, "key")
     \/ pc = "key" /\ CryptAdvances({"key"}, "blocks")
     \/ pc = "blocks" /\ Encrypting /\ Encrypted
     \/ pc = "blocks" /\ ~Encrypting /\ Decrypted
  /\ UNCHANGED <<type, polling, op, n, total, view, last, raw, card, keys, slot, accepted>>

ReadUltralightCard ==
  /\ op = "readUltralight"
  /\ OpenReader \/ UltralightUid \/ UltralightPages \/ CryptStep

-----------------------------------------------------------------------------
Step ==
  \/ ReadDesfireCard \/ ReadMifareClassicCard \/ WriteMifareClassicCard
  \/ WriteMifareClassicSectorTrailer \/ ReadUltralightCard \/ WriteUltralightCard

Next ==
  \/ Step
  \/ ReadCard \/ OnPollTimer \/ PlaceCard \/ RemoveCard
  \/ \E t \in Types : SetCardType(t)
  \/ \E o \in {"writeClassic", "writeUltralight"}, k \in WriteSizes : BeginWrite(o, k)
  \/ BeginWrite("writeTrailer", 0)

\* An operation is straight-line code and loops over fixed ranges, and the
\* calls it makes return: it takes its next step.
Spec == Init /\ [][Next]_vars /\ WF_vars(Step)

-----------------------------------------------------------------------------
(* Properties.                                                             *)

Resources == {"context", "names", "card", "provider", "key"}

TypeOK ==
  /\ type \in Types /\ polling \in BOOLEAN /\ busy \in BOOLEAN
  /\ op \in Reads \cup Writes \cup {"none"}
  /\ pc \in {"idle"} \cup ReaderSteps \cup CardSteps \cup CryptSteps
  /\ n \in Nat /\ total \in Nat /\ sector \in Sectors /\ held \subseteq Resources
  /\ {uid, seen, card, link} \subseteq Cards \cup {NoCard}
  /\ keys \in [Cards -> [Sectors -> {Factory, User}]]
  /\ slot \in {Unset, Factory, User} /\ authed \in 0 .. None
  /\ accepted \subseteq Nat

\* What an operation holds at each of its calls, and nothing between two
\* operations: every one of the early returns gives back exactly what had been
\* opened, no call is made on a handle that is not open, and none is freed twice.
OpenAt(p) ==
  CASE p \in {"idle", "establish"} -> {}
    [] p \in {"size", "alloc"} -> {"context"}
    [] p \in {"list", "connect"} -> {"context", "names"}
    [] p \in CardSteps \cup {"provider"} -> {"context", "names", "card"}
    [] p \in {"chain", "key"} -> {"context", "names", "card", "provider"}
    [] OTHER -> {"context", "names", "card", "provider", "key"}
HoldsWhatItOpened == TypeOK /\ held = OpenAt(pc) /\ busy = (pc # "idle")

\* A block of a Classic card is read or written only under an authentication
\* of the sector it belongs to, or through a handle that has died.
UnderItsAuthentication ==
  (op \in {"readClassic", "writeClassic", "writeTrailer"} /\ pc \in {"read", "write"} /\ Answers)
    => authed = IF op = "readClassic" THEN sector ELSE TargetSector(op)

\* What the card took in a write is the run of blocks reported as written, and
\* at most the one after it, whose answer did not arrive; data never reaches
\* a sector trailer, or the lock and one-time pages of an Ultralight card.
First(o) == CASE o = "writeClassic" -> 4 [] o = "writeTrailer" -> 11 [] OTHER -> 5
Stop(o) == CASE o = "writeClassic" -> 6 [] o = "writeTrailer" -> 11 [] OTHER -> 15
WritesInPlace ==
  op \in Writes =>
    /\ accepted \subseteq First(op) .. Stop(op)
    /\ \/ accepted = First(op) .. First(op) + n - 1
       \/ accepted = First(op) .. First(op) + n /\ pc = "idle"

\* When a DESFire or an Ultralight read ends, the UID shown is the one that
\* answered it, or none; only a failed malloc leaves an older one. (A Classic
\* read whose UID does not answer goes on and leaves the older one standing.)
UidIsOfThisRead ==
  [][(op \in {"readDesfire", "readUltralight"} /\ busy /\ ~busy' /\ pc # "alloc")
       => uid' = seen']_vars

\* Between operations, a ciphertext shown is that of the raw text beside it, and
\* the restored text then equals the raw text unless its decryption failed. An
\* encryption that fails shows its error in place of the ciphertext, and beside
\* the new raw text the restored text is still that of an earlier read: so the
\* ciphertext vouches for both texts, and without one nothing does.
TextsAgree ==
  (pc = "idle" /\ aes \notin {<<>>, Error})
    => /\ aes = CbcEncrypt(raw)
       /\ restored \in {raw, Error}

\* Every operation comes back and leaves the reader free for the next one.
OperationEnds == busy ~> (pc = "idle" /\ ~busy)
=============================================================================
