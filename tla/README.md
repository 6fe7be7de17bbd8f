# A verification project for PCSCWorkshop

PCSCWorkshop is a C++17 library that talks to contactless smart cards through
PC/SC. This directory holds TLA+ models of its core, the TLC configurations
that check them, and proofs of the theorems that carry them.

## 1. The system

| Part | State it keeps | Operations | Talks to |
| --- | --- | --- | --- |
| `PCSC` (Utils/Utils/PCSC.cpp) | context, card handle, protocol, `connected_` | establish, list, choose, connect with retries, transmit, chained responses, disconnect, move | the PC/SC service |
| `Reader`, `PcscCommands` (Reader/Reader) | `LE`, authenticated flag of the convenience calls | read / write / clear a page, load a key into a reader slot, authenticate, multi-page loops | `PCSC::tryTransmit`; status words become `PcscError` |
| `CardIO` (Card/Card/CardIO.cpp) | key list, authenticated sector and key type, what each reader slot holds, a DESFire session | key settings, read card / sector / block, write block, trailers and access configurations, backup and restore, DESFire commands | `Reader`, `CardInterface` |
| `CardInterface` (Card/Card/CardInterface.cpp) | the memory image; owns the four parts below | load / export, register key, authenticate, permission queries | its parts |
| `CardLayoutTopology` (CardModel/CardTopology.cpp) | none | block and sector arithmetic | – |
| `TrailerConfig`, `AccessBitsCodec` (CardModel/TrailerConfig.h) | none | permission tables, encode, decode, verify, sector modes | – |
| `AccessControl` (CardProtocol/AccessControl.cpp) | none of its own: the image's access bytes | queries, edits of data and trailer permissions, modes | memory image |
| `KeyManagement` (CardProtocol/KeyManagement.cpp) | host keys, their slots | register, look up, clear | memory image |
| `AuthenticationState` (CardProtocol/AuthenticationState.cpp) | a session per sector with a start time and a time-out | mark, invalidate, refresh, expire, query | the clock |
| `DesfireAuth`, `DesfireSession`, `DesfireSecureMessaging`, `DesfireCommands` | session key, IV, current application, time-out | three-pass authentication, MAC and encipher, chained exchanges | `CardIO`'s transmit function |
| `DesfireMemoryLayout` | applications and files of a card, the active file | initialise, find, virtual blocks | – |
| `Log` (Utils/Utils/Log) | enabled types and categories, level, a mutex | toggle, enable, disable, log | every thread |
| `CardReader` (Documents/cardreader.cpp) | card type, poll timer, busy flag, UID and three texts of an Ultralight card | read and write DESFire, Classic and Ultralight cards, poll, encrypt and decrypt what was read | the PC/SC service, opened anew for each operation |
| `Result`, `Error`, `StatusWordHandler` | none | carry and classify errors | everything |
| `Cipher` | keys | Caesar, affine and XOR ciphers; facades over OpenSSL | – |

The library is synchronous: one caller thread drives `CardIO`, each call is a
sequence of exchanges with the reader. What makes it hard is that the host keeps
three caches of remote state (the session, the reader's key slots, the memory
image) which every exchange can leave behind: the card may be lifted, a command
refused, an exception may leave the middle of a call, and a Result that is an
error of no kind passes as success. Only the logger is meant for several threads.
`CardReader` is a program of its own that shares nothing with the library but the
readers.

What makes each part correct:

* topology: blocks and sectors tile the card, and all copies of the arithmetic agree;
* access bits: the codec is a bijection between configurations and well-formed
  bytes; edits repair and stay local, a request the tables can represent is
  what the queries answer afterwards, and an edit of a trailer lets no key write a
  part of it that was not asked for (a data request without a row becomes full
  access);
* CardIO: no page is transferred outside the session the host believes in, the
  slot cache names what the reader holds, the image never shows what the card
  does not hold, a call returns whatever happens, a failure leaves no trace;
* sessions: all queries give one answer, and a session that has run out comes
  back only by a call that says so;
* DESFire: the two ends agree on session key and IV, or the session ends;
* connection: every open handle belongs to the one object that will close it, a
  chained answer is whole unless another object sends to the same card in between,
  retries and page loops end;
* logger: lines come out whole, and the macros obey the settings;
* `CardReader`: every early return gives back what was opened, writes stay off
  trailers and lock pages, and a ciphertext on the display belongs to the texts
  beside it (where the encryption failed there is none, and the restored text is an
  earlier read's).

## 2. The modules

| Module | Models | Composes |
| --- | --- | --- |
| `AccessBits` | `AccessCondition`, permission tables, `AccessBitsCodec`, sector modes of `TrailerConfig.h` | – |
| `MifareTopology` | `CardLayoutTopology`, the sector views of `CardMemoryLayout.h`, the private arithmetic of `AccessControl` | – |
| `AccessControl` | the class over the access bytes of an image | `AccessBits`, `MifareTopology` |
| `CardIO` | `CardIO` on a MIFARE Classic card, with the reader's key slots and the card | `AccessBits` |
| `CardHost` | `AuthenticationState` and `KeyManagement` behind `CardInterface`, with the clock | – |
| `Desfire` | `CardIO` on a DESFire card, `DesfireSession`, `DesfireAuth`, the chained exchanges of `DesfireCommands`, with the card | `SessionPair` |
| `SessionPair` | nothing in the code: what the authentication promises | – |
| `SecureMessaging` | `DesfireSecureMessaging`, with a card and a link that may lose or garble | – |
| `DesfireFiles` | `DesfireMemoryLayout.h`, the file commands and parsers of `DesfireCommands` | `Totals` |
| `Pcsc` | `PCSC` objects over the resource manager, its readers and cards | `HandleOwnership` |
| `HandleOwnership` | nothing in the code: what `PCSC` promises about card handles | – |
| `ReaderIO` | the paged transfers of `Reader` and its LE guard | – |
| `StatusWords` | `StatusWord` and its categories, the evaluators of `PcscCommands`, `fromStatusWord`, the verdicts of `DesfireCommands` | – |
| `Logger` | `Log` and its macros, by several threads | – |
| `ClassicalCiphers` | the Caesar, affine and XOR ciphers | `Totals` |
| `Totals` | `std::accumulate` over the numbers of a list | – |
| `LegacyReader` | the Qt class of `Documents/cardreader.cpp` | – |
| `Algorithms` | one step to each input of the parts without a state | `MifareTopology`, `StatusWords`, `ClassicalCiphers`, `DesfireFiles`, `SecureMessaging` |
| `MC*` | the instances TLC checks | the module they are named for |
| `*_proofs` | theorems | the module they are named for; `Algorithms_proofs` also `AccessControl` |

The operators called `Faulty...`, and the few others that `PROJECT.json` lists as
mutants, are no part of a specification: each is a plausible bug, with which the
property beside it must fail.

**CardIO.** The variables of the host are the members `keys_`,
`lastAuthSector_` / `lastAuthKT_`, `slotContents_`, the `CardInterface`'s memory
image, `readCard`'s buffer and the vector of `saveAllTrailers`. `call` is the
program counter: the public operation, where it stands (`ensure`, `load`,
`auth`, `read`, `write`), sector, block, the key in use and the attempt. A step
is one exchange (LOAD KEY, AUTH, READ, WRITE) with all host code up to the next
one, so that `tryEnsureAuth` is `EnsureAuthHit` / `EnsureAuthChoose`,
`tryDoAuth` is `LoadKey` and `Auth`, `AttemptFailed` is the fallback to a second
key, and each caller's treatment of its error is `AuthGaveUp`. The reader and
the card are external: slots, memory, the session; what the card allows follows
the access bits of the sector as `AccessBits` reads them. A sector keeps
`NumData` data blocks and the trailer; the code's third block behaves like the
others. Answers are classes: accepted, refused, refused with a status word
outside `fromStatusWord`'s table, shorter than a page, exception. An exception
may leave LOAD KEY or a write before or after the device has done what it was told.
`unnoted` is history: the slots whose last LOAD KEY `slotContents_` was not told of,
because it threw after the reader took the key or was that of
`authenticate(sector, kt, slot)`. `ReadSectorValue` is what the public `readSector`
makes of `tryReadSector`'s Result. The card refuses a trailer whose access bits may
not be written as a whole; a real one may acknowledge it and keep the protected
parts, of which the host, which does not read back, would not know.

**CardHost.** `sessions`, `cachingEnabled` and `defaultTimeout` are the members of
`AuthenticationState`, `table` is `keys_` of `KeyManagement`. The clock is
`system_clock`: `Tick` moves it, `SetBack` is somebody setting it back. `shown` is
history: the key each sector was last authenticated with, until it was given up.

**Desfire.** `session` is `desfireSession_` (`exists` for the pointer),
`layout` the two fields of `DesfireMemoryLayout` that the calls set, `call` the
operation and, in the three-pass protocol, the pass. Ciphers are perfect, and a
session key is the pair of nonces it is derived from. `isDesfire()` is taken to
hold: otherwise every operation returns an error at once and changes nothing.
All queries are one action sequence (one exchange and a loop), all management
commands another (one exchange; the host keeps nothing of them); those with an
effect on applications are told apart on the card's side. `astray` is history:
the card has changed its application and no answer has told the host.

`DesfireAuth.h:133` asks for `unwrap_error()`, which `Result` does not declare;
it is read as `error()`, which throws on a Result that holds a value. A refusal
of the first pass therefore leaves by an exception (`ChallengeFailed`). So does a
key of the wrong length, where the cipher looks at it (`LengthChecked`: AES and
three-key DES); two-key DES does not, and goes on with whatever it deciphers.

**Pcsc.** `object` holds the members of each `PCSC` object, `contexts` and
`handles` what the resource manager has given out; a handle knows its context and
the card it was opened on. `task` is the call an object is in: a connection
attempt, or a command with the frames received so far, which the caller takes by
`Return`. Calls of two objects interleave at every call of the resource manager.
`chain` is the card's side of a command: the frames it has still to send. An
exchange may bring a frame, or be refused, or lose its answer, and the card
may be gone or another one. Connections are shared (`SCARD_SHARE_SHARED`) and
a command is no transaction, so two objects on one card get each other's frames;
`disturbed` is history, the objects that another one has come between. A LOG macro
throws while the logger is not configured (`logReady`) and ends the call it stands
in. `overwritten` are the handles that a second `connectToCard` replaced without
closing them, which the code does not prevent. `HandleOwnership` says the same from
outside, with neither service nor fields: a handle that is open belongs to the
object that opened it or was moved into, nobody else closes it, and it is lost only
by an object that is connecting. An object owns an open handle when it names it in
`hCard_` and is connected.

**ReaderIO.** `le` is the block size, `task` the transfer with the page it is at
and what it has so far. A page number is a BYTE and wraps, and a card may have as
many pages as it counts. A step is one page; the card may leave between two of
them, the connection may not be there, and an exception leaves through `Ends`,
which is the destructor of `LEGuard`. A write that is refused with a status word
outside `fromStatusWord`'s table does not throw: `writePage` returns, and the loop
passes the page over (`passed`). A read may bring fewer or more bytes than were
asked for, which are appended as they came (`odd` has their lengths) and cut or
filled up at the end. `readAll` ends with what it has at the first page that is
refused, too short or empty, also a page the card has (`"cut"`).

**Logger.** A thread is at one of the points where it does not hold the mutex
(`macro`, `category`, `direct`, `print`) or is writing under it. Each test is one
step, as each takes the mutex by itself; a line is written in pieces. `seen` is
history: what the settings have said of a thread's line since its call began.

**LegacyReader.** `pc` names the next call an operation makes (of the resource
manager, the card or the cryptography provider) and each may fail; `held` is what
the operation has opened. The five functions open the reader with the same
sequence, modelled once as `OpenReader`, with the early return of each call in
`Releases`. A block of ciphertext is the chain of plain blocks it determines, so
that decryption under CBC can be checked for undoing what encryption did.

**AccessControl** holds the access bytes of a normal and an extended sector
and applies any sequence of loads and edits; the queries are operators.

**The parts without a state** (`StatusWords`, `ClassicalCiphers`, `DesfireFiles`,
`SecureMessaging`, `MifareTopology`) are operators with one property each.
`Algorithms` takes them to their inputs, one action per kind of input; the inputs
are constants, and its assumptions say what the code can be given.

## 3. What the runs check

| Run | Property | What it shows |
| --- | --- | --- |
| `algorithms` | `LayersAgree`, `StatusLayersFit`, `CiphersInvert`, `FilesFaithful`, `MessagingRecovers` | every block of every card; every status word whose first byte some layer knows; every multiplier; file settings and virtual blocks at their edges; pairs of secured exchanges with lost, cut and garbled answers |
| | `EditsRepair`, `EditsAreLocal`, `RequestHonoured`, `TrailerGrantsNoMore`, `BlockAnswersAgree` | edits of valid and corrupt bytes, in every order |
| `cardio_keys` | `TransferUnderAuth`, `SlotCacheCoherent`, `FailureForgets` | every key setting and both ways to authenticate between reads, with refusals and exceptions |
| `cardio_mirror` | `MemoryMirrors`, `TryReadSectorComplete`, `CallsReturn` | reads and writes under all five faults |
| `cardio_trailers` | `KeyChoiceServesBlock0` | trailers, configurations, backup and restore with two keys and exceptions |
| `card_host` | `QueriesAgree`, `LiveMeansAuthenticated`, `RevivedOnlyByCall` | sessions and keys with caching switched on and off, every time-out, and a clock set back |
| `desfire` | `SessionsPair`, `OkMeansMutual`, `SelectedAppKnown`, `QueryComplete`, `CallsReturn` | authentication among selections, chained queries, deletions, time-outs and all faults; the refinement of `SessionPair` |
| `pcsc` | `OpenIsOwned`, `AnswerWhole`, `HandlesChangeHands`, `CallsEnd` | two objects connecting, sending, moving into each other and dying over one reader, with frames refused, lost and mixed; the refinement of `HandleOwnership` |
| `reader_io` | `SizeRestored`, `TransfersInOrder`, `CallsEnd` | every start page, length and block size, with the link breaking, a page refused, passed over or answered in another length anywhere, on a card that does and one that does not fill the range of page numbers |
| `logger` | `LinesWhole`, `SettingsObeyed` | two threads logging while settings change between the tests of a macro |
| `legacy_reader` | `HoldsWhatItOpened`, `UnderItsAuthentication`, `WritesInPlace`, `TextsAgree`, `UidIsOfThisRead`, `OperationEnds` | every operation with a failure at every call and the card taken away at any moment |

One type invariant per stateful module is proved or is part of a property above.
Of trailers, backup and restore `MemoryMirrors` is not run but proved:
`ImageMirrorsCard` is about every call.
`StatusLayersFit` does not say that the layers agree, for they do not: it fixes the
relation between them (the category determines the error kind; a reader's
command and a DESFire answer get different verdicts for 90 00 and 91 AF and for no
other status).

Two runs expect a violation, a sentence of the repository that the code does not
keep. `cardio_keyloss` (`CardIO.cpp:435`): `setAccessConfig` writes the zeros the
card returns in place of its keys back as keys. `cardio_readsector`
(`CardIO.cpp:263`): `readSector` answers true, "all blocks were read"
(`CardIO.h:148`), for a sector of which one could not be.

**Bounds.** Two sectors are the fewest in which a session for one can be used
for the other and a loop has a next sector; two keys with two slots the fewest
for which slots, entries and key types can be confused; two values tell a
written block from an old one; three configurations tell read from write access
and fixed from free access bits. `MaxKeys` bounds `addKey`. The DESFire instance
has the card and one application, where the host names each key's type right or
one whose nonces are too short, and two nonces so that an old challenge differs
from a new one; `MaxFrames` (2) bounds an answer (that
`getVersion` stops after three is covered by the theorem `QueriesComplete`),
`MaxAge` (1) the clock against time-outs of 0 and 1. `card_host` has time-outs 0
(never live) and 2 on a clock to 4, enough to run out, be revived and run out
again. `cardio_keys` has one data block per sector, since a key is for a sector, and
two keys and slots with a card whose keys are both of them.
`pcsc` has two objects, since a move has two, one reader, four identifiers
of contexts and handles (`MaxIds`), two cards in turn (`MaxCards`), so that an
answer could be put together from two, and two frames (`AnswersWhole` is about
answers of any length). `reader_io` has
page numbers modulo 2 and cards of one page, where the next one is missing, and of
two, where it is the first again; pages of two bytes, block sizes that fit them
and do not (2, 3), answers of every length up to 3, and up to five bytes, three
pages that end inside one and wrap. `MaxOut` ends the collection of a `readAll` that
nothing ends. `logger` has the lowest and the highest type. In
`legacy_reader` three sectors cover the ones written (1 and 2) and one with the
user's key, and writes of 2, 4 and 12 end before, at and after the last place
allowed for blocks and for pages. In `algorithms` the inputs lie at the edges of each
part, and `SizeT` and `Word` are 2^30, since TLC computes with 32 bits: files of up
to 40 bytes and blocks from -1 to 3 stay far from it. Each run uses a subset of the calls and faults,
named in its .cfg, to stay small; the theorems make no such choice.

**Fairness.** `FairSpec` of `CardIO`, `Desfire` and `ReaderIO` adds weak fairness
of the steps of the call that is under way; that of `Pcsc` the same for each
object, and `Spec` of `LegacyReader` for `Step`. The library is synchronous: a
caller that has entered a call runs it to its end, and each such step is one call
of the PC/SC service, which answers or fails. The client, the card, the hand that
takes it away and the clock owe nothing. `CallsEnd` of `Pcsc` is about bounded
calls: `connectToCard` with `maxRetries` 0 waits for a card for ever by design, and a
command that another object disturbs may get frames of ever new answers.
`CallsEnd` of `ReaderIO` excepts `readAll` on a card of as many pages as a BYTE
numbers (the 4K card), which comes round to page 0 and does not stop.
That an answer has finitely many frames is assumed of the card; `tryTransceive`
and `trySendCommand` do not limit them. `Logger` and `CardHost` claim no liveness.
Deadlock is checked everywhere except in `algorithms`, whose one step leads to an
input and stops.

## 4. What is proved

For every value of the constants, from the assumptions named in the modules.

* `Algorithms_proofs`, of the codec: encode and decode are inverse to each
  other (`DecodeEncode`, `EncodeDecode`) and what is encoded verifies
  (`EncodeVerifies`). Of the topology: each block lies between the bounds of its
  sector and each block between them belongs to it (`BlockInSectorBounds`,
  `SectorOfItsBlocks`); the copies of the arithmetic agree (`CopiesAgree`,
  `ViewsAgree`). Of `AccessControl`: `TypeCorrect`; `BlockAnswersCorrect`, from the
  theorems about the topology; `EditsRepaired`, `EditsStayLocal`,
  `TrailerGrantsNothingMore` and `RequestsHonoured`, from the codec's theorems:
  each edit is an encoding of what was decoded with one condition replaced, and
  the condition chosen is looked up in the finite tables. `TrailerGrantsNothingMore`
  is about writing the parts of a trailer; what a row lets a key read may exceed
  the request.

  Of `Algorithms`, that each property of the run `algorithms` holds of every input
  the code can be given (`LayersCorrect`, `StatusLayersCorrect`, `CiphersCorrect`,
  `FilesCorrect`, `MessagingCorrect`). These rest on theorems about the operators:
  - `NumbersSurvive`: numbers and file rights are read back from their bytes.
    `FileSettingsSurvive`: what `parseFileSettings` makes of a file is what it was
    created with, for files of every type (the answer of the card, `Described`,
    repeats the bytes of the command).
  - `VirtualBlocksCoverFile`: for every image and block number, those below 0
    included; its hypothesis, that neither the file nor the block reaches round the
    end of `size_t` (2^64, where a capacity has 32 bits), holds of every file the
    code allocates and every block near it, and `LayoutAssumption` repeats it.
    `ListsOfTheRun`, a lemma: the list of applications is read back whole, and an
    application's total is what its files have been allocated, on a card that holds
    fewer bytes than `uint32_t` counts (`Allocated`).
  - `StatusLayersFitted`: for every status word. `ExchangesRecover`: for every
    key, mode and pair of exchanges, with ciphers and MACs perfect, as
    `SecureMessaging` has them, and an answer that is garbled differing from the
    one sent (`ExchangeAssumption`).
  - `CiphersUndo`: Caesar, affine and XOR decryption undo encryption, for every
    key, the multipliers without an inverse and the keys derived from a string
    included, and every text. `Egcd` and the sum behind a derived key are recursive
    functions. That there is a function with Egcd's equations, and that it satisfies
    Bezout's identity, is proved by induction on the second argument; an odd
    multiplier then has an inverse modulo 256, and an even one is made odd before it
    is used (for 0, Caesar falls back to a shift). XOR is by bits, and a byte is known
    by its eight.
* `CardIO_proofs`: `TypeCorrect`. The type invariant is not inductive: that
  `keys_` has an entry where a call uses it and that `restoreAllTrailers` finds
  one saved trailer per sector rest on `CallShape` (which operations can be at
  which point of the control flow), `SavedShape` (how far the backup has come)
  and `BufShape` (the buffer exists during `readCard` only). `IInv` is their
  conjunction; one lemma per group of actions shows that it is kept.
  Over `IInv`: `TransfersUnderAuth`, no page is
  transferred outside the session the host remembers, under every fault;
  `SlotCacheCoheres`, the slot cache is right, under every call and exception, for
  every slot but those it was not told of (`unnoted`), of which the code
  keeps no count; `FailuresForget`. `ImageMirrorsCard` is proved of the image
  and of the buffer of `readCard` together, which the call loads into the image
  at its end (`Faithful`); `TryReadSectorsComplete`, from what the loop of
  `tryReadSector` has passed (`SoFar`). `ChosenKeyServesBlock0`, that the automatic
  choice is right for block 0, needs to follow the choice from `chooseKey`
  over LOAD KEY and AUTH to the first page (`WellChosen`): at first the key in
  `call`, then the key type of the session opened with it, may do what the call
  is for, as far as the image knows.
* `CardHost_proofs`: `TypeCorrect`, `AnswersAgree`, `LiveWereAuthenticated` and
  `RevivalNeedsACall`. The strengthening is that there is no session while caching
  is off, which `enableCaching(false)` is for, and that each session is of
  the key last shown.
* `Pcsc_proofs`: `TypeCorrect`, `OpenStaysOwned`, `AnswersWhole` and
  `HandlesChangeHandsRefined`, for any number of objects and readers. Ownership is
  not inductive. It needs that no two objects hold the same context or handle, which
  is why a move leaves a blank object behind; that the service gives no identifier out again while an object
  names it; and that an object which is connecting keeps the context it began
  with (`Bound`). `AnswersWhole` rests on an invariant of its own: what an
  object has collected, followed by what its card has still to send, is what the
  card set out to send (`Whole`), as long as the handle reaches that card and no
  other object has sent to it; no step of another object changes that
  (`Undisturbed`).
  The refinement, that `Pcsc` implements `HandleOwnership`, uses `Bound` for each
  of the calls that close: `cleanup` and `releaseContext` close by context, and that
  what is open in an object's context is the object's or nobody's follows from
  `ContextsHeld` and `HandlesHeld` together (`ContextsOwn`).
* `ReaderIO_proofs`: `BlockSizeRestored` and `PagesInOrder`, for every card, page
  size, block size and data. `IInv` says that the size a call will put back is the
  program's own (`Kept`), how far a write has come, and what a read has so far
  (`UnderWay`): the pages passed are in their places but those passed over, and
  where the page number wrapped the later page stands. On a card with fewer pages
  than a BYTE counts a read does not come round (`Stretch`); on one with as many
  the page number is the page of the card, round and round.
* `LegacyReader_proofs`: all five safety properties, for any number of sectors,
  cards and sizes of a write. `ResourcesHeld` and `BlocksUnderAuthentication` are
  inductive with their types. `WritesStayInPlace` needs that the trailer has not
  been written when the operation comes to it (`TrailerOnce`),
  `TextsBelongTogether` which texts belong together at each call of the
  cryptography provider (`TextsSoFar`; that decryption undoes the chaining is the
  lemma `DecryptEncrypt`), and
  `UidShownIsOfThisRead` whose UID is shown at each call (`UidSoFar`).
* `Logger_proofs`: `TypeCorrect`, `LinesComeOutWhole`, `MacrosObey`, for any
  number of threads and changes. The strengthening says that what the settings say
  now, and what the tests behind a thread have found, is among what its call has
  seen (`Tested`). A line may be printed that no single moment asked for as a
  whole: type and level at one, category at another.
* `Desfire_proofs`: `TypeCorrect`; `SessionsPairRefined`, that `Desfire`
  implements `SessionPair`, and with it `KeysAgree`; `OkIsMutual`;
  `SelectedAppCorrect`; `QueriesComplete`. The refinement needs that the host holds no session key
  while it authenticates (`CallShape`): this is what the reset at the beginning
  of `tryAuthenticate` is for, and without it a card that opened a new session
  whose answer was lost would face a host with the old key. `OkIsMutual` needs
  in addition that the nonce the card waits for belongs to the key number asked
  for, unless the host has deciphered something else (`NonceShape`).
  `QueriesComplete`, that a query returns the whole answer, needs that the host
  has collected exactly the frames before the one the card owes (`QueryShape`).

Every safety invariant, action property and refinement that a run checks is thus a
theorem. Only model-checked are the five liveness properties (`CallsReturn` of
`CardIO` and `Desfire`, `CallsEnd` of `Pcsc` and `ReaderIO`, `OperationEnds`),
which are beyond the prover. The runs that expect a violation have no theorem.

Inductions go over the set of the numbers for which the formula holds (`Whole`),
since the library's induction theorems take an operator as a parameter, which the
provers cannot instantiate. The proofs avoid leaves in which `Len` meets a function
that is not known to be a sequence: this version's SMT translation gives every such
function a length.

## 5. What is not modelled

* `CardIO` on an Ultralight card: `tryEnsureAuth` answers an error for it, so no
  transfer follows.
* What `CardInterface` only delegates or copies: topology queries, exports, the UID.
* Command bytes, formatting, time stamps and colours of the log; OpenSSL and the
  Windows cryptography behind the AES and key-derivation facades; the example
  program.
* Two programs that use one card at the same time (two `PCSC` objects of one
  program are in `Pcsc`).

Seen while modelling, without a run of their own:

* the second access to the authenticated sector answers an error instead of
  skipping the authentication (`CardIO.cpp:89`, against `CardIO.h:356`), so that
  `readCard` right after an access to sector 0 leaves that sector of the image blank;
* `authenticate(sector, kt, slot)` that throws after LOAD KEY leaves
  `slotContents_` naming another key (`CardIO.cpp:219`);
* `writeBlock` and `writePage` return although the card refused, if the status
  word is not in the table (`PcscError.h:98`): the error has no kind, and
  `Result<void>::unwrap` (`Result.h:197`) passes it, where `Result.h:33` says that
  it throws; `writeData` goes on to the next page (`Reader.cpp:203`);
* two `PCSC` objects on one card get frames of each other's answers, since a
  connection is shared and nothing begins a transaction (`PCSC.cpp:177`);
* `readAll` of a card with 256 blocks comes round to block 0 (`Reader.cpp:243`);
* an Ultralight read whose encryption fails leaves the restored text of an earlier
  read beside the new raw text (`cardreader.cpp:1173`);
* the logger may print a line no single moment asked for as a whole, when type and
  category change between the tests of a macro (`Log.cpp:165`);
* an authentication with key type DES ends in an exception and leaves a session
  that counts as valid (`DesfireAuth.h:173`);
* a data permission request without a row of its own becomes full access;
* `restoreAllTrailers` writes zeros as keys, since the saved trailers hold no
  key A;
* the automatic key choice looks at data block 0 whatever block is meant;
* `DesfireSession.h:19` says that the session ends when the card is taken away;
  nothing does that;
* `selectApplication` before the first authentication is not noted in the
  session that is created later (`CardIO.cpp:570`), only in the image;
* `checkResponse` and the `check...` functions ask an Ok Result for its error,
  which throws `std::bad_variant_access`, where
  `Tests/CardSystemTests.cpp:1060` expects no exception; the replacement of an
  error's kind by `ReadFailed` or `LoadKeyFailed` in the evaluators is never reached;
* the tables of `Log` are empty until something fills them, since `getInstance`
  does not use the constructor that does (`Log.cpp:17`): a macro then throws from
  `at()`; and `shouldLog` compares the level with the number of the type, one less than
  its level, so that a direct call prints errors at level Off;
* a second `connectToCard` overwrites `hCard_` without closing it;
* `Reader.cpp:60` announces an exception-free core, and `transmit` throws through it;
* in MAC mode an answer of fewer than eight bytes is returned unverified
  (`DesfireSecureMessaging.cpp:81`).

## 6. Plan

| Step | Module | State |
| --- | --- | --- |
| 1 | `AccessBits`, `MifareTopology`, `AccessControl` | modelled; codec, arithmetic and edits proved |
| 2 | `CardIO` | modelled; types and all safety properties proved |
| 3 | `Desfire`, `SessionPair` | modelled; types, refinement and all safety properties proved |
| 4 | `CardHost` | modelled; all its properties proved |
| 5 | `Pcsc`, `HandleOwnership`, `ReaderIO` | modelled; refinement and all their safety properties proved |
| 6 | `Logger` | modelled; all its properties proved |
| 7 | `Algorithms` with `SecureMessaging`, `DesfireFiles`, `StatusWords`, `ClassicalCiphers`, `Totals` | checked over inputs; all proved, for every input |
| 8 | `LegacyReader` | modelled; all its safety properties proved |

Left: liveness, which only TLC can check, and the call sequences of `CardIO` as one
abstract specification (a cache of a card that may be wrong only where `unsure`
says so), which its safety properties now state one by one.
