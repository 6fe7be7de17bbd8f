------------------------------- MODULE CardIO -------------------------------
(***************************************************************************)
(* CardIO on a MIFARE Classic card (Card/Card/CardIO.cpp, lines 14-507):   *)
(* the host's key list, its authentication and key-slot caches and its     *)
(* memory image, together with the reader's key slots and the card they    *)
(* are supposed to mirror.                                                 *)
(*                                                                         *)
(* A step of a call is one exchange with the reader (LOAD KEY, AUTH, READ, *)
(* WRITE) and the host code that follows it up to the next exchange, so    *)
(* that a card that leaves the field, a refused command or an exception    *)
(* out of PCSC::transmit may strike between any two of them.  A block is a *)
(* pair (sector, index): the data blocks 0..NumData-1 and the trailer 3.   *)
(***************************************************************************)
EXTENDS AccessBits, Integers, Sequences

CONSTANTS
  NumSectors,      \* sectors of the card
  NumData,         \* data blocks per sector the instance keeps (code: 3)
  Keys,            \* key values
  ClientKeys,      \* the ones the client sets
  ZeroKey,         \* 00 00 00 00 00 00
  FactoryKey,      \* FF FF FF FF FF FF
  NoKey,           \* "nothing known to be loaded"
  Slots,           \* key slots of the reader
  DefaultSlot,     \* KeyInfo::slot, 0x01
  Vals,            \* contents of a data block
  ZeroVal,         \* a block of zero bytes
  Configs,         \* access configurations in play
  MaxKeys,         \* bound on the length of keys_
  Calls,           \* the public operations the client uses
  Faults,          \* what may go wrong in an exchange, see Replies
  CardTrailers,    \* trailers the card may have been personalised with
  TrailerInputs    \* trailers the client passes to writeTrailer

Sectors == 0..(NumSectors - 1)
DataBlocks == 0..(NumData - 1)
Blocks == DataBlocks \cup {3}

ZeroConfig == Uniform(0, 0)

Trailer == [keyA : Keys, keyB : Keys, access : Configs]
SectorImage == [data : [DataBlocks -> Vals], trailer : Trailer]

ZeroTrailer == [keyA |-> ZeroKey, keyB |-> ZeroKey, access |-> ZeroConfig]
ZeroImage == [data |-> [b \in DataBlocks |-> ZeroVal], trailer |-> ZeroTrailer]
ZeroMemory == [s \in Sectors |-> ZeroImage]

FactoryTrailer ==
  [keyA |-> FactoryKey, keyB |-> FactoryKey, access |-> FactoryConfig]

KeyInfo == [key : Keys, kt : KeyTypes, slot : Slots]
DefaultKeyInfo == [key |-> FactoryKey, kt |-> "A", slot |-> DefaultSlot]

NoAuth == [sector |-> -1, kt |-> "A"]
AuthRef == {NoAuth} \cup [sector : Sectors, kt : KeyTypes]

KeyCalls == {"setDefaultKey", "setKeys", "addKey", "clearKeys"}
CardCalls == {"readCard", "readSector", "readBlock", "writeBlock",
              "authenticate", "authenticateSlot", "readTrailer",
              "writeTrailer", "setAccessConfig", "saveAllTrailers",
              "restoreAllTrailers"}
FaultKinds == {"error", "unlisted", "short", "thrown", "reset"}

ASSUME SizeAssumption == /\ NumSectors \in Nat \ {0}
                         /\ NumData \in 1..3
                         /\ MaxKeys \in Nat \ {0, 1}
ASSUME DataAssumption == /\ ZeroKey \in Keys /\ FactoryKey \in Keys
                         /\ NoKey \notin Keys /\ ClientKeys \subseteq Keys
                         /\ DefaultSlot \in Slots
                         /\ ZeroVal \in Vals
                         /\ Configs \subseteq Config
                         /\ {ZeroConfig, FactoryConfig} \subseteq Configs
                         /\ CardTrailers \subseteq Trailer
                         /\ TrailerInputs \subseteq Trailer
ASSUME UseAssumption == /\ Calls \subseteq KeyCalls \cup CardCalls
                        /\ Faults \subseteq FaultKinds

VARIABLES
  \* CardIO
  keys,           \* keys_
  lastAuth,       \* lastAuthSector_ and lastAuthKT_
  slotContents,   \* slotContents_
  mem,            \* the CardInterface's CardMemoryLayout
  buf,            \* rawBuf of the readCard call in progress
  saved,          \* the vector saveAllTrailers fills and restore reads
  \* the call in progress, its arguments, and how the last one ended
  call, arg, ret,
  \* reader and card
  slotKey,        \* the key each reader slot holds
  card,           \* the card's memory
  cardAuth,       \* sector and key type the card is authenticated for
  \* history
  unsure,         \* blocks whose last write ended in an exception
  unnoted         \* slots whose last LOAD KEY slotContents_ was not told of

host == <<keys, lastAuth, slotContents, mem, buf, saved>>
reader == <<slotKey, unnoted>>
device == <<reader, card, cardAuth>>
vars == <<host, call, arg, ret, device, unsure>>

-----------------------------------------------------------------------------
(* The call in progress                                                    *)

Idle == [op |-> "none", pc |-> "idle", sector |-> 0, block |-> 0,
         purpose |-> "Read", key |-> 1, attempt |-> 1, allOk |-> TRUE]

NoArg == [val |-> ZeroVal, trailer |-> ZeroTrailer, config |-> ZeroConfig,
          kt |-> "A", slot |-> DefaultSlot]

Return(r) == /\ call' = Idle
             /\ arg' = NoArg
             /\ ret' = r

Continue(c) == /\ call' = c
               /\ UNCHANGED <<arg, ret>>

Begin(op, s, b, purpose, a) ==
  /\ call.pc = "idle"
  /\ op \in Calls
  /\ call' = [Idle EXCEPT !.op = op, !.pc = "ensure", !.sector = s,
                          !.block = b, !.purpose = purpose]
  /\ arg' = a
  /\ ret' = "none"

(* faulty variant: the key slots are not forgotten *)
InvalidateSessionOnly == lastAuth' = NoAuth /\ UNCHANGED slotContents

(* CardIO::invalidateAuth *)
InvalidateAuth == /\ lastAuth' = NoAuth
                  /\ slotContents' = [sl \in Slots |-> NoKey]

KeepAuth == UNCHANGED <<lastAuth, slotContents>>

-----------------------------------------------------------------------------
(* Key settings: no exchange with the reader                               *)

KeyCall(op) == /\ call.pc = "idle"
               /\ op \in Calls
               /\ ret' = "none"
               /\ UNCHANGED <<mem, buf, saved, call, arg, device, unsure>>

SetDefaultKey(ki) ==
  /\ KeyCall("setDefaultKey")
  /\ keys' = <<ki>>
  /\ slotContents' = [sl \in Slots |-> NoKey]
  /\ UNCHANGED lastAuth

SetKeys(keyA, slotA, keyB, slotB) ==
  /\ KeyCall("setKeys")
  /\ keys' = << [key |-> keyA, kt |-> "A", slot |-> slotA],
                [key |-> keyB, kt |-> "B", slot |-> slotB] >>
  /\ slotContents' = [sl \in Slots |-> NoKey]
  /\ UNCHANGED lastAuth

SameEntry(i, ki) == keys[i].kt = ki.kt /\ keys[i].slot = ki.slot

AddKeyReplace(ki) ==
  /\ KeyCall("addKey")
  /\ \E i \in DOMAIN keys :
       /\ SameEntry(i, ki)
       /\ \A j \in 1..(i - 1) : ~SameEntry(j, ki)
       /\ keys' = [keys EXCEPT ![i] = ki]
  /\ slotContents' = [slotContents EXCEPT ![ki.slot] = NoKey]
  /\ UNCHANGED lastAuth

AddKeyPush(ki) ==
  /\ KeyCall("addKey")
  /\ \A i \in DOMAIN keys : ~SameEntry(i, ki)
  /\ Len(keys) < MaxKeys
  /\ keys' = Append(keys, ki)
  /\ KeepAuth

ClearKeys ==
  /\ KeyCall("clearKeys")
  /\ keys' = <<DefaultKeyInfo>>
  /\ InvalidateAuth

-----------------------------------------------------------------------------
(* Key choice                                                              *)

IsMultiKey == Len(keys) > 1

(* faulty variant: the purpose is ignored *)
CanKeyRead(ki, s, purpose) == ki.kt \in DataRead(mem[s].trailer.access[0])

(* canKeyPerform: the memory image's access bits, data block 0 only *)
CanKeyPerform(ki, s, purpose) ==
  ki.kt \in IF purpose = "Read" THEN DataRead(mem[s].trailer.access[0])
                                ELSE DataWrite(mem[s].trailer.access[0])

Score(ki, s) ==
  IF CanKeyPerform(ki, s, "Read") /\ CanKeyPerform(ki, s, "Write") THEN 1 ELSE 2

(* chooseKey: the first usable key of the highest score, else the front *)
ChooseKey(s, purpose) ==
  LET usable == {i \in DOMAIN keys : CanKeyPerform(keys[i], s, purpose)}
      best == {i \in usable : \A j \in usable : Score(keys[i], s) >= Score(keys[j], s)}
  IN  IF Len(keys) = 1 \/ usable = {} THEN 1
      ELSE CHOOSE i \in best : \A j \in best : i <= j

(* findKey: the first key of that type, else the front *)
FindKey(kt) ==
  LET typed == {i \in DOMAIN keys : keys[i].kt = kt}
  IN  IF typed = {} THEN 1 ELSE CHOOSE i \in typed : \A j \in typed : i <= j

(* the entry the fallback loop of tryEnsureAuth reaches first *)
FirstAlternate == IF call.key = 1 THEN 2 ELSE 1

ChosenKey == keys[call.key]

(* tryDoAuth: LOAD KEY is skipped when the slot is known to hold the key *)
EntryPc(ki) == IF slotContents[ki.slot] = ki.key THEN "auth" ELSE "load"

(* the early return of tryEnsureAuth on an already authenticated sector *)
CacheHit(s, purpose) ==
  /\ lastAuth.sector = s
  /\ IsMultiKey => CanKeyPerform(keys[FindKey(lastAuth.kt)], s, purpose)

-----------------------------------------------------------------------------
(* Exchanges with the reader and the card.  A command the card accepts is  *)
(* answered "ok"; one it refuses, "error".  Faults add: an error the       *)
(* command did not earn, a status word outside fromStatusWord's table      *)
(* ("unlisted"), a reply of less than 16 bytes ("short"), and an exception *)
(* after which the command may or may not have been carried out.           *)

Replies(accepted) ==
  {IF accepted THEN "ok" ELSE "error"} \cup (Faults \cap {"error", "unlisted", "thrown"})

(* the answers that reach the caller of tryTransmit, and how they report *)
Answers == {"ok", "error", "unlisted", "short"}
AllReplies == Answers \cup {"thrown"}

Code(reply) == CASE reply = "ok" -> "ok"
                 [] reply = "unlisted" -> "quiet"
                 [] OTHER -> "err"

(* the key is in the slot, and the host notes it or does not *)
Loaded(slot, key, noted) ==
  /\ slotKey' = [slotKey EXCEPT ![slot] = key]
  /\ unnoted' = IF noted THEN unnoted \ {slot} ELSE unnoted \cup {slot}

ReaderLoads(slot, key, reply, noted) ==
  /\ reply \in Replies(TRUE)
  /\ \/ reply \in {"ok", "thrown"} /\ Loaded(slot, key, noted /\ reply = "ok")
     \/ reply # "ok" /\ UNCHANGED reader
  /\ UNCHANGED <<card, cardAuth>>

CardKey(s, kt) == IF kt = "A" THEN card[s].trailer.keyA ELSE card[s].trailer.keyB

CardAuthenticates(s, kt, slot, reply) ==
  /\ reply \in Replies(slotKey[slot] = CardKey(s, kt))
  /\ \/ /\ slotKey[slot] = CardKey(s, kt)
        /\ reply \in {"ok", "thrown"}
        /\ cardAuth' = [sector |-> s, kt |-> kt]
     \/ reply # "ok" /\ cardAuth' = NoAuth
  /\ UNCHANGED <<reader, card>>

OpenToSession(s, kts) == cardAuth.sector = s /\ cardAuth.kt \in kts

SessionEndsUnless(good) ==
  cardAuth' = IF good THEN cardAuth ELSE NoAuth

CardReads(s, b, reply) ==
  LET access == card[s].trailer.access
      open == OpenToSession(s, IF b = 3 THEN AccessRead(access[3]) ELSE DataRead(access[b]))
  IN  /\ reply \in Replies(open) \cup (IF open THEN Faults \cap {"short"} ELSE {})
      /\ SessionEndsUnless(reply \in {"ok", "short"})
      /\ UNCHANGED <<reader, card>>

(* the trailer as the card returns it: KeyA never, KeyB if readable *)
TrailerRead(s) ==
  LET t == card[s].trailer
  IN  [keyA |-> ZeroKey,
       keyB |-> IF cardAuth.kt \in KeyBRead(t.access[3]) THEN t.keyB ELSE ZeroKey,
       access |-> t.access]

CardWrites(s, open, image, reply) ==
  /\ reply \in Replies(open)
  /\ \/ open /\ reply \in {"ok", "thrown"} /\ card' = [card EXCEPT ![s] = image]
     \/ reply # "ok" /\ UNCHANGED card
  /\ SessionEndsUnless(reply = "ok")
  /\ UNCHANGED reader

CardWritesData(s, b, v, reply) ==
  CardWrites(s, OpenToSession(s, DataWrite(card[s].trailer.access[b])),
             [card[s] EXCEPT !.data[b] = v], reply)

CardWritesTrailer(s, t, reply) ==
  LET old == card[s].trailer
      new == [keyA |-> IF cardAuth.kt \in KeyAWrite(old.access[3]) THEN t.keyA ELSE old.keyA,
              keyB |-> IF cardAuth.kt \in KeyBWrite(old.access[3]) THEN t.keyB ELSE old.keyB,
              access |-> t.access]
  IN  CardWrites(s, OpenToSession(s, AccessWrite(old.access[3])),
                 [card[s] EXCEPT !.trailer = new], reply)

(* the card loses power or is lifted and put back *)
CardReset == /\ "reset" \in Faults
             /\ cardAuth # NoAuth
             /\ cardAuth' = NoAuth
             /\ UNCHANGED <<host, call, arg, ret, reader, card, unsure>>

-----------------------------------------------------------------------------
(* Ends of a call and of the iterations of the multi-sector calls          *)

Abort == /\ Return("thrown")
         /\ buf' = ZeroMemory
         /\ saved' = IF call.op = "saveAllTrailers" THEN <<>> ELSE saved
         /\ UNCHANGED <<keys, lastAuth, slotContents, mem>>

AtLastSector == call.sector = NumSectors - 1

(* faulty variant: the loop variable is not advanced *)
SameSector == [call EXCEPT !.pc = "ensure", !.key = 1, !.attempt = 1,
                           !.block = IF call.op = "readCard" THEN 0 ELSE 3]

NextSector == [call EXCEPT !.sector = @ + 1, !.pc = "ensure",
                           !.block = IF call.op = "readCard" THEN 0 ELSE 3,
                           !.key = 1, !.attempt = 1]

Finish(r) == Return(r) /\ UNCHANGED <<mem, buf, saved, unsure>>

(* tryReadCard: next sector, or loadMemory with what was collected *)
AdvanceReadCard(image) ==
  /\ IF AtLastSector
       THEN Return("ok") /\ mem' = image /\ buf' = ZeroMemory /\ unsure' = {}
       ELSE Continue(NextSector) /\ buf' = image /\ UNCHANGED <<mem, unsure>>
  /\ UNCHANGED saved

(* saveAllTrailers: push_back, next sector *)
PushSaved(t) ==
  /\ saved' = Append(saved, t)
  /\ IF AtLastSector THEN Return("ok") ELSE Continue(NextSector)
  /\ UNCHANGED buf

(* restoreAllTrailers: next saved trailer; the outcome is ignored *)
AdvanceRestore ==
  /\ IF call.sector + 1 = Len(saved) THEN Return("ok") ELSE Continue(NextSector)
  /\ UNCHANGED <<buf, saved>>

(* what each caller of tryEnsureAuth does with its error *)
AuthGaveUp(r) ==
  \/ /\ call.op = "readCard"
     /\ AdvanceReadCard(buf)
  \/ /\ call.op = "saveAllTrailers"
     /\ PushSaved(FactoryTrailer)
     /\ UNCHANGED <<mem, unsure>>
  \/ /\ call.op = "restoreAllTrailers"
     /\ AdvanceRestore
     /\ UNCHANGED <<mem, unsure>>
  \/ /\ call.op \notin {"readCard", "saveAllTrailers", "restoreAllTrailers"}
     /\ Finish(r)

InvalidateIf(cond) == IF cond THEN InvalidateAuth ELSE KeepAuth

CallerInvalidates == call.op \in {"readCard", "readSector"}

-----------------------------------------------------------------------------
(* tryEnsureAuth and tryDoAuth                                             *)

EnsureAuthHit ==
  /\ call.pc = "ensure"
  /\ CacheHit(call.sector, call.purpose)
  /\ InvalidateIf(CallerInvalidates)
  /\ AuthGaveUp("hit")
  /\ UNCHANGED <<keys, device>>

EnsureAuthChoose ==
  /\ call.pc = "ensure"
  /\ ~CacheHit(call.sector, call.purpose)
  /\ LET k == ChooseKey(call.sector, call.purpose)
     IN  Continue([call EXCEPT !.key = k, !.attempt = 1, !.pc = EntryPc(keys[k])])
  /\ UNCHANGED <<host, device, unsure>>

(* One tryDoAuth has failed.  A second key is tried once; its result is    *)
(* returned whatever it is (the test is result.Ok(), a static factory),    *)
(* so that with several keys invalidateAuth is not reached.                *)
AttemptFailed(r) ==
  \/ /\ IsMultiKey /\ call.attempt = 1
     /\ Continue([call EXCEPT !.key = FirstAlternate, !.attempt = 2,
                              !.pc = EntryPc(keys[FirstAlternate])])
     /\ KeepAuth
     /\ UNCHANGED <<mem, buf, saved, unsure>>
  \/ /\ ~(IsMultiKey /\ call.attempt = 1)
     /\ InvalidateIf(~IsMultiKey \/ CallerInvalidates)
     /\ AuthGaveUp(r)

(* faulty variant: the key is noted under the default slot *)
NoteDefaultSlot == slotContents' = [slotContents EXCEPT ![DefaultSlot] = ChosenKey.key]

NoteLoaded == slotContents' = [slotContents EXCEPT ![ChosenKey.slot] = ChosenKey.key]

LoadKey ==
  /\ call.pc = "load"
  /\ \E reply \in AllReplies :
       /\ ReaderLoads(ChosenKey.slot, ChosenKey.key, reply, TRUE)
       /\ \/ /\ reply = "ok"
             /\ NoteLoaded
             /\ Continue([call EXCEPT !.pc = "auth"])
             /\ UNCHANGED <<keys, lastAuth, mem, buf, saved, unsure>>
          \/ /\ reply \in {"error", "unlisted"}
             /\ AttemptFailed(Code(reply))
             /\ UNCHANGED keys
          \/ reply = "thrown" /\ Abort /\ UNCHANGED unsure

(* faulty variant: the session is noted under the key type only *)
NoteKeyType == lastAuth' = [lastAuth EXCEPT !.kt = ChosenKey.kt]

NoteSession == lastAuth' = [sector |-> call.sector, kt |-> ChosenKey.kt]

Authenticated ==
  /\ NoteSession
  /\ IF call.op = "authenticate"
       THEN Return("ok")
       ELSE Continue([call EXCEPT !.pc = IF call.purpose = "Read" THEN "read" ELSE "write"])
  /\ UNCHANGED <<keys, slotContents, mem, buf, saved, unsure>>

Auth ==
  /\ call.pc = "auth"
  /\ \E reply \in AllReplies :
       /\ CardAuthenticates(call.sector, ChosenKey.kt, ChosenKey.slot, reply)
       /\ \/ reply = "ok" /\ Authenticated
          \/ /\ reply \in {"error", "unlisted"}
             /\ AttemptFailed(Code(reply))
             /\ UNCHANGED keys
          \/ reply = "thrown" /\ Abort /\ UNCHANGED unsure

-----------------------------------------------------------------------------
(* Calls                                                                   *)

StartOnly == UNCHANGED <<host, device, unsure>>

BeginReadCard == Begin("readCard", 0, 0, "Read", NoArg) /\ StartOnly

BeginReadSector(s) == Begin("readSector", s, 0, "Read", NoArg) /\ StartOnly

BeginReadBlock(s, b) == Begin("readBlock", s, b, "Read", NoArg) /\ StartOnly

WritableBlock(s, b) == b # 3 /\ ~(s = 0 /\ b = 0)

BeginWriteBlock(s, b, v) ==
  /\ WritableBlock(s, b)
  /\ Begin("writeBlock", s, b, "Write", [NoArg EXCEPT !.val = v])
  /\ StartOnly

(* ManufacturerBlock or TrailerBlock: returned before any exchange *)
RefuseWriteBlock(s, b) ==
  /\ call.pc = "idle"
  /\ "writeBlock" \in Calls
  /\ ~WritableBlock(s, b)
  /\ ret' = "err"
  /\ UNCHANGED <<host, call, arg, device, unsure>>

BeginAuthenticate(s) ==
  /\ Begin("authenticate", s, 0, "Read", NoArg)
  /\ InvalidateAuth
  /\ UNCHANGED <<keys, mem, buf, saved, device, unsure>>

BeginReadTrailer(s) == Begin("readTrailer", s, 3, "Read", NoArg) /\ StartOnly

(* config.isValid() re-encodes the configuration and so never fails, see   *)
(* EncodeVerifies in Algorithms_proofs *)
BeginWriteTrailer(s, t) ==
  Begin("writeTrailer", s, 3, "Write", [NoArg EXCEPT !.trailer = t]) /\ StartOnly

BeginSetAccessConfig(s, cfg) ==
  Begin("setAccessConfig", s, 3, "Read", [NoArg EXCEPT !.config = cfg]) /\ StartOnly

BeginSaveAllTrailers ==
  /\ Begin("saveAllTrailers", 0, 3, "Read", NoArg)
  /\ saved' = <<>>
  /\ UNCHANGED <<keys, lastAuth, slotContents, mem, buf, device, unsure>>

BeginRestoreAllTrailers ==
  /\ saved # <<>>
  /\ Begin("restoreAllTrailers", 0, 3, "Write", NoArg)
  /\ StartOnly

(* authenticate(sector, kt, slot): the throwing calls loadKey and auth,    *)
(* whose unwrap() lets an error with an unlisted status word pass.         *)
BeginAuthenticateSlot(s, kt, slot) ==
  /\ call.pc = "idle"
  /\ "authenticateSlot" \in Calls
  /\ call' = [Idle EXCEPT !.op = "authenticateSlot", !.pc = "loadSlot",
                          !.sector = s, !.key = FindKey(kt)]
  /\ arg' = [NoArg EXCEPT !.kt = kt, !.slot = slot]
  /\ ret' = "none"
  /\ StartOnly

LoadKeySlot ==
  /\ call.pc = "loadSlot"
  /\ \E reply \in AllReplies :
       /\ ReaderLoads(arg.slot, ChosenKey.key, reply, FALSE)
       /\ IF reply \in {"ok", "unlisted"}
            THEN Continue([call EXCEPT !.pc = "authSlot"])
            ELSE Return("thrown")
  /\ UNCHANGED <<host, unsure>>

AuthSlot ==
  /\ call.pc = "authSlot"
  /\ \E reply \in AllReplies :
       /\ CardAuthenticates(call.sector, arg.kt, arg.slot, reply)
       /\ IF reply \in {"ok", "unlisted"}
            THEN /\ Return("ok")
                 /\ lastAuth' = [sector |-> call.sector, kt |-> arg.kt]
                 /\ slotContents' = [sl \in Slots |-> NoKey]
            ELSE Return("thrown") /\ KeepAuth
  /\ UNCHANGED <<keys, mem, buf, saved, unsure>>

-----------------------------------------------------------------------------
(* Transfers                                                               *)

StoreRead(image, s, b) ==
  IF b = 3 THEN [image EXCEPT ![s].trailer = TrailerRead(s)]
           ELSE [image EXCEPT ![s].data[b] = card[s].data[b]]

Target == <<call.sector, call.block>>

NextBlock(b) == IF b + 1 < NumData THEN b + 1 ELSE 3

Page(pc, ops) == call.pc = pc /\ call.op \in ops

(* one tryReadPage, answered *)
Read(ops, reply) == /\ Page("read", ops)
                    /\ CardReads(call.sector, call.block, reply)
                    /\ UNCHANGED <<keys, lastAuth, slotContents>>

ReadAborted == /\ Page("read", CardCalls)
               /\ CardReads(call.sector, call.block, "thrown")
               /\ Abort
               /\ UNCHANGED unsure

LoadBlock(reply) ==
  IF reply = "ok"
    THEN /\ mem' = StoreRead(mem, call.sector, call.block)
         /\ unsure' = unsure \ {Target}
    ELSE UNCHANGED <<mem, unsure>>

ReadBlockPage ==
  \E reply \in Answers :
    /\ Read({"readBlock"}, reply)
    /\ LoadBlock(reply)
    /\ Return(IF reply = "short" THEN "ok" ELSE Code(reply))
    /\ UNCHANGED <<buf, saved>>

(* faulty variant: only the last block counts *)
LastOk(reply) == reply = "ok"

AllOk(reply) == call.allOk /\ reply = "ok"

(* the loop of tryReadSector *)
ReadSectorPage ==
  \E reply \in Answers :
    /\ Read({"readSector"}, reply)
    /\ LoadBlock(reply)
    /\ IF call.block = 3
         THEN Return(IF AllOk(reply) THEN "ok" ELSE "partial")
         ELSE Continue([call EXCEPT !.block = NextBlock(@), !.allOk = AllOk(reply)])
    /\ UNCHANGED <<buf, saved>>

(* readSector hands its caller r.is_ok(): Ok(false) is true as well *)
ReadSectorValue(r) == r \in {"ok", "partial"}

(* the inner loop of tryReadCard *)
ReadCardPage ==
  \E reply \in Answers :
    LET image == IF reply = "ok" THEN StoreRead(buf, call.sector, call.block) ELSE buf
    IN  /\ Read({"readCard"}, reply)
        /\ IF call.block = 3
             THEN AdvanceReadCard(image)
             ELSE /\ Continue([call EXCEPT !.block = NextBlock(@)])
                  /\ buf' = image
                  /\ UNCHANGED <<mem, saved, unsure>>

(* tryReadTrailer, for its three callers *)
ReadTrailerPage ==
  \E reply \in Answers :
    /\ Read({"readTrailer"}, reply)
    /\ LoadBlock(reply)
    /\ Return(Code(reply))
    /\ UNCHANGED <<buf, saved>>

ReadTrailerForConfig ==
  \E reply \in Answers :
    /\ Read({"setAccessConfig"}, reply)
    /\ LoadBlock(reply)
    /\ IF reply = "ok"
         THEN /\ call' = [call EXCEPT !.pc = "ensure", !.purpose = "Write",
                                      !.key = 1, !.attempt = 1]
              /\ arg' = [arg EXCEPT !.trailer =
                           [TrailerRead(call.sector) EXCEPT !.access = arg.config]]
              /\ UNCHANGED ret
         ELSE Return(Code(reply))
    /\ UNCHANGED <<buf, saved>>

ReadTrailerForBackup ==
  \E reply \in Answers :
    /\ Read({"saveAllTrailers"}, reply)
    /\ LoadBlock(reply)
    /\ PushSaved(IF reply = "ok" THEN TrailerRead(call.sector) ELSE FactoryTrailer)

(* one tryWritePage *)
TrailerToWrite == IF call.op = "restoreAllTrailers" THEN saved[call.sector + 1]
                                                    ELSE arg.trailer

CardWritesTarget(reply) ==
  IF call.op = "writeBlock"
    THEN CardWritesData(call.sector, call.block, arg.val, reply)
    ELSE CardWritesTrailer(call.sector, TrailerToWrite, reply)

(* faulty variant: the image is updated whatever the card answers *)
MemoryLeads(image, reply) ==
  mem' = [mem EXCEPT ![call.sector] = image] /\ UNCHANGED unsure

(* the memory image follows only after the card's "ok" *)
MemoryFollows(image, reply) ==
  IF reply = "ok"
    THEN mem' = [mem EXCEPT ![call.sector] = image] /\ unsure' = unsure \ {Target}
    ELSE UNCHANGED <<mem, unsure>>

Write(ops, image, reply) ==
  /\ Page("write", ops)
  /\ CardWritesTarget(reply)
  /\ MemoryFollows(image, reply)
  /\ UNCHANGED <<keys, lastAuth, slotContents>>

WriteAborted == /\ Page("write", CardCalls)
                /\ CardWritesTarget("thrown")
                /\ Abort
                /\ unsure' = unsure \cup {Target}

WriteBlockPage ==
  \E reply \in Answers :
    /\ Write({"writeBlock"}, [mem[call.sector] EXCEPT !.data[call.block] = arg.val], reply)
    /\ Return(Code(reply))
    /\ UNCHANGED <<buf, saved>>

TrailerImage == [mem[call.sector] EXCEPT !.trailer = TrailerToWrite]

WriteTrailerPage ==
  \E reply \in Answers :
    /\ Write({"writeTrailer", "setAccessConfig"}, TrailerImage, reply)
    /\ Return(Code(reply))
    /\ UNCHANGED <<buf, saved>>

RestoreTrailerPage ==
  \E reply \in Answers :
    /\ Write({"restoreAllTrailers"}, TrailerImage, reply)
    /\ AdvanceRestore

-----------------------------------------------------------------------------
Init ==
  /\ keys = <<DefaultKeyInfo>>
  /\ lastAuth = NoAuth
  /\ slotContents = [sl \in Slots |-> NoKey]
  /\ mem = ZeroMemory
  /\ buf = ZeroMemory
  /\ saved = <<>>
  /\ call = Idle
  /\ arg = NoArg
  /\ ret = "none"
  /\ slotKey \in [Slots -> {NoKey}]
  /\ card \in [Sectors -> {[data |-> [b \in DataBlocks |-> v], trailer |-> t] :
                             v \in Vals, t \in CardTrailers}]
  /\ cardAuth = NoAuth
  /\ unsure = {} /\ unnoted = {}

KeySettings ==
  \/ \E ki \in [key : ClientKeys, kt : KeyTypes, slot : Slots] :
       SetDefaultKey(ki) \/ AddKeyReplace(ki) \/ AddKeyPush(ki)
  \/ \E kA, kB \in ClientKeys, slA, slB \in Slots : SetKeys(kA, slA, kB, slB)
  \/ ClearKeys

Start ==
  \/ BeginReadCard \/ BeginSaveAllTrailers \/ BeginRestoreAllTrailers
  \/ \E s \in Sectors :
       \/ BeginReadSector(s) \/ BeginAuthenticate(s) \/ BeginReadTrailer(s)
       \/ \E b \in Blocks : BeginReadBlock(s, b) \/ RefuseWriteBlock(s, b)
       \/ \E b \in DataBlocks, v \in Vals : BeginWriteBlock(s, b, v)
       \/ \E t \in TrailerInputs : BeginWriteTrailer(s, t)
       \/ \E cfg \in Configs : BeginSetAccessConfig(s, cfg)
       \/ \E kt \in KeyTypes, slot \in Slots : BeginAuthenticateSlot(s, kt, slot)

Progress ==
  \/ EnsureAuthHit \/ EnsureAuthChoose \/ LoadKey \/ Auth
  \/ LoadKeySlot \/ AuthSlot
  \/ ReadBlockPage \/ ReadSectorPage \/ ReadCardPage
  \/ ReadTrailerPage \/ ReadTrailerForConfig \/ ReadTrailerForBackup
  \/ WriteBlockPage \/ WriteTrailerPage \/ RestoreTrailerPage
  \/ ReadAborted \/ WriteAborted

Next == KeySettings \/ Start \/ Progress \/ CardReset

Spec == Init /\ [][Next]_vars

(* The library is synchronous: a call that has begun runs on. *)
FairSpec == Spec /\ WF_vars(Progress)

-----------------------------------------------------------------------------
(* Properties                                                              *)

CallType == [op : CardCalls \cup {"none"},
             pc : {"idle", "ensure", "load", "auth", "read", "write", "loadSlot", "authSlot"},
             sector : Sectors, block : Blocks, purpose : {"Read", "Write"},
             key : 1..MaxKeys, attempt : {1, 2}, allOk : BOOLEAN]

ArgType == [val : Vals, trailer : Trailer, config : Configs, kt : KeyTypes, slot : Slots]

Rets == {"none", "ok", "partial", "err", "quiet", "hit", "thrown"}

HostType == /\ keys \in Seq(KeyInfo) /\ Len(keys) \in 1..MaxKeys
            /\ lastAuth \in AuthRef
            /\ slotContents \in [Slots -> Keys \cup {NoKey}]

MemoryType == /\ mem \in [Sectors -> SectorImage]
              /\ buf \in [Sectors -> SectorImage]
              /\ saved \in Seq(Trailer)

DeviceType == /\ slotKey \in [Slots -> Keys \cup {NoKey}]
              /\ card \in [Sectors -> SectorImage]
              /\ cardAuth \in AuthRef
              /\ unnoted \subseteq Slots

ProgressType == /\ call \in CallType /\ call.key <= Len(keys)
                /\ arg \in ArgType
                /\ ret \in Rets
                /\ unsure \subseteq Sectors \X Blocks

(* The variables have the types of the fields they stand for; keys_ is     *)
(* never empty and call.key is the index of one of its entries.            *)
TypeOK == HostType /\ MemoryType /\ DeviceType /\ ProgressType

(* slotContents_ is what the reader holds: a slot the host believes loaded *)
(* with a key does hold that key, so the LOAD KEY that tryDoAuth skips     *)
(* would have changed nothing. This is so for every slot but those of      *)
(* unnoted, the two ways past the cache: a LOAD KEY that threw after the   *)
(* reader took the key, and the one of authenticate(sector, kt, slot),     *)
(* which slotContents_ hears of only if the authentication succeeds and    *)
(* then by losing every entry; a slot stays there until tryDoAuth loads it.*)
SlotCacheCoherent ==
  \A sl \in Slots \ unnoted : slotContents[sl] # NoKey => slotKey[sl] = slotContents[sl]

(* The memory image never shows what the card does not hold: a data block  *)
(* or a sector's access bits are the card's, or still zero, or the block's *)
(* last write ended in an exception that left the outcome open.            *)
MirrorsData(s, b) ==
  mem[s].data[b] \in {ZeroVal, card[s].data[b]} \/ <<s, b>> \in unsure
MirrorsAccess(s) ==
  mem[s].trailer.access \in {ZeroConfig, card[s].trailer.access} \/ <<s, 3>> \in unsure
MemoryMirrors ==
  \A s \in Sectors : MirrorsAccess(s) /\ \A b \in DataBlocks : MirrorsData(s, b)

(* A page is read or written only in the sector lastAuthSector_ names, and *)
(* the card is then in that very session or in none: never is a command    *)
(* for one sector sent into a session opened for another sector or key.    *)
TransferUnderAuth ==
  call.pc \in {"read", "write"} =>
    lastAuth.sector = call.sector /\ cardAuth \in {NoAuth, lastAuth}

(* The automatic choice between several keys: when the image's access bits *)
(* are the card's and one of the keys may do what the call is about to do  *)
(* to data block 0, the key the session was opened with may (first attempt *)
(* only: the fallback takes any key).                                      *)
OpenKeys(s, b, purpose) ==
  LET access == card[s].trailer.access
  IN  IF b = 3 THEN (IF purpose = "Read" THEN AccessRead(access[3]) ELSE AccessWrite(access[3]))
               ELSE (IF purpose = "Read" THEN DataRead(access[b]) ELSE DataWrite(access[b]))
KeyServes(s, b) ==
  LET open == OpenKeys(s, b, call.purpose)
  IN  /\ call.pc \in {"read", "write"} /\ IsMultiKey /\ call.attempt = 1
      /\ mem[s].trailer.access = card[s].trailer.access
      /\ \E i \in DOMAIN keys : keys[i].kt \in open
      => lastAuth.kt \in open
KeyChoiceServesBlock0 == call.block = 0 => KeyServes(call.sector, 0)

(* tryReadSector answers Ok(true), "all blocks read", only if the image of *)
(* the sector is the card's, data and access bits, whatever was lost on    *)
(* the way.                                                                *)
SectorMirrored(s) ==
  /\ \A b \in DataBlocks : mem'[s].data[b] = card'[s].data[b]
  /\ mem'[s].trailer.access = card'[s].trailer.access
Returns(op, codes) == call.op = op /\ call.pc # "idle" /\ call'.pc = "idle" /\ ret' \in codes
TryReadSectorComplete == [][Returns("readSector", {"ok"}) => SectorMirrored(call.sector)]_vars

(* What the header promises of the public readSector, "true: every block   *)
(* was read": when it answers true, the image of the sector is the card's. *)
ReadSectorTrueMeansAll ==
  [][/\ Returns("readSector", Rets) /\ ReadSectorValue(ret')
     => SectorMirrored(call.sector)]_vars

(* An authentication that fails with a single key leaves no trace in the   *)
(* caches: the next call loads its key and authenticates from scratch.     *)
FailureForgets ==
  [][/\ ~IsMultiKey /\ call.pc \in {"load", "auth"}
     /\ call'.pc \in {"ensure", "idle"} /\ ret' \in {"err", "quiet", "none"}
     => lastAuth' = NoAuth /\ \A sl \in Slots : slotContents'[sl] = NoKey]_vars

(* Every call that starts returns, whatever faults it meets.               *)
CallsReturn == call.pc # "idle" ~> call.pc = "idle"

(* Changing a sector's access configuration changes no key on the card.    *)
SetAccessConfigKeepsKeys ==
  [][call.op = "setAccessConfig" =>
       \A s \in Sectors : /\ card'[s].trailer.keyA = card[s].trailer.keyA
                          /\ card'[s].trailer.keyB = card[s].trailer.keyB]_vars

=============================================================================
