------------------------------- MODULE Desfire -------------------------------
(***************************************************************************)
(* CardIO on a DESFire card (Card/Card/CardIO.cpp, lines 517-791) with the *)
(* session of DesfireSession.h, the three-pass authentication of           *)
(* DesfireAuth.h and the chained exchanges of DesfireCommands.h, and the   *)
(* card they talk to.                                                      *)
(*                                                                         *)
(* A step of a call is one exchange with the card and the host code that   *)
(* follows it.  Ciphers are perfect: a text deciphered with another key    *)
(* than it was enciphered with, or altered on its way, is Garbled.  A      *)
(* session key stands for the two nonces it is derived from; the IV and    *)
(* the key type a session also records are used by nothing modelled here.  *)
(***************************************************************************)
EXTENDS Integers, Sequences

CONSTANTS
  AIDs, Picc,      \* applications a card can have; 00 00 00, the card itself
  KeyNos,
  Keys, BadKey,    \* key values; a value of the wrong length
  HostKeyTypes,    \* the key types the client uses
  CardKeys,        \* key and key type of each application's key numbers
  Nonces, Garbled,
  NoKey,
  MaxFrames,       \* frames of the longest answer
  Timeouts,        \* session time-outs the client sets, 0 for none
  MaxAge,          \* a session's age counts up to here
  Calls,           \* the public operations the client uses
  Faults           \* what may go wrong in an exchange, see CardHandles

KeyTypes == {"AES128", "TwoDES", "ThreeDES", "DES"}
Apps == AIDs \cup {Picc}
SessionKeys == Nonces \X (Nonces \cup {Garbled})

DesfireCalls == {"select", "authenticate", "query", "discover", "exec", "setTimeout"}
FaultKinds == {"error", "short", "garbled", "thrown", "reset"}

ASSUME KeyAssumption ==
  /\ Picc \notin AIDs
  /\ 0 \in KeyNos /\ BadKey \in Keys
  /\ HostKeyTypes \subseteq KeyTypes
  /\ CardKeys \in [Apps -> [KeyNos -> [key : Keys \ {BadKey}, type : KeyTypes \ {"DES"}]]]
  /\ NoKey \notin SessionKeys /\ Garbled \notin Nonces
ASSUME BoundAssumption ==
  /\ MaxFrames \in Nat \ {0}
  /\ MaxAge \in Nat /\ Timeouts \subseteq 0..MaxAge
  /\ Calls \subseteq DesfireCalls /\ Faults \subseteq FaultKinds

VARIABLES
  session,   \* desfireSession_; exists is FALSE for the null pointer
  layout,    \* currentAID and versionInfo of the DesfireMemoryLayout
  call,      \* the call in progress
  ret, data, \* how the last call ended; the frames a query has returned
  card,
  astray     \* the card has changed its application unknown to the host

vars == <<session, layout, call, ret, data, card, astray>>

-----------------------------------------------------------------------------
(* DesfireSession *)

NewSession == [exists |-> TRUE, authenticated |-> FALSE, keyNo |-> 0, key |-> NoKey,
               aid |-> Picc, timeout |-> 0, age |-> 0]
NullSession == [NewSession EXCEPT !.exists = FALSE]

Reset(s) == [s EXCEPT !.authenticated = FALSE, !.keyNo = 0, !.key = NoKey, !.age = 0]

IsExpired(s) == ~s.authenticated \/ (s.timeout # 0 /\ s.age >= s.timeout)

IsDesfireAuthenticated(s) == s.exists /\ s.authenticated /\ ~IsExpired(s)

(* if (!desfireSession_) desfireSession_ = make_unique<DesfireSession>() *)
EnsureSession == IF session.exists THEN session ELSE NewSession

-----------------------------------------------------------------------------
(* The card *)

NothingPending == [kind |-> "none", keyNo |-> 0, rndB |-> Garbled, sent |-> 0]
AuthPending(no, b) == [NothingPending EXCEPT !.kind = "auth", !.keyNo = no, !.rndB = b]
MorePending(n) == [NothingPending EXCEPT !.kind = "more", !.sent = n]

Forgetful(c) == [c EXCEPT !.key = NoKey, !.keyNo = 0, !.pending = NothingPending]

(* One exchange.  An accepted command is answered "ok" and leaves the card *)
(* as `done'; a refused one, "error", which may end the card's session.    *)
(* Faults add: an error the command did not earn, a reply without a status *)
(* word ("short"), a reply whose data is not what the card computed        *)
(* ("garbled"), an exception; in these the card may have done its part.    *)
CardHandles(reply, accepted, done) ==
  /\ reply \in {IF accepted THEN "ok" ELSE "error"}
                 \cup (Faults \cap {"error", "short", "garbled", "thrown"})
  /\ \/ accepted /\ reply # "error" /\ card' = done
     \/ reply # "ok" /\ card' \in {card, Forgetful(card)}

Selected(aid) == [Forgetful(card) EXCEPT !.aid = aid]

(* frame n of an answer of `total' frames *)
Framed(n, total) ==
  [card EXCEPT !.pending = IF n < total THEN MorePending(n) ELSE NothingPending,
               !.total = total]

KeyOf(no) == CardKeys[card.aid][no]

(* what a management command does: the card drops a session whose          *)
(* application goes                                                        *)
Deleted(aid) == IF aid = card.aid
                  THEN [Selected(Picc) EXCEPT !.apps = @ \ {aid}]
                  ELSE [card EXCEPT !.apps = @ \ {aid}, !.pending = NothingPending]
Executed(cmd, aid) ==
  CASE cmd = "createApplication" -> [card EXCEPT !.apps = @ \cup {aid}, !.pending = NothingPending]
    [] cmd = "deleteApplication" -> Deleted(aid)
    [] cmd = "formatPICC" -> [card EXCEPT !.apps = {}, !.pending = NothingPending]
    [] cmd = "other" -> [card EXCEPT !.pending = NothingPending]
Executable(cmd, aid) ==
  CASE cmd = "createApplication" -> card.aid = Picc /\ aid \notin card.apps
    [] cmd = "deleteApplication" -> aid \in card.apps
    [] cmd = "formatPICC" -> card.aid = Picc
    [] cmd = "other" -> TRUE

(* the card is lifted and put back *)
CardReset ==
  /\ "reset" \in Faults
  /\ card' = Selected(Picc)
  /\ astray' = (astray \/ card.aid # Picc)
  /\ card' # card
  /\ UNCHANGED <<session, layout, call, ret, data>>

-----------------------------------------------------------------------------
(* The call in progress *)

Idle == [op |-> "none", pc |-> "idle", aid |-> Picc, cmd |-> "other", keyNo |-> 0,
         key |-> BadKey, type |-> "AES128", rndA |-> Garbled, rndB |-> Garbled,
         frames |-> <<>>]

Begin(c) == /\ call.pc = "idle"
            /\ c.op \in Calls
            /\ call' = c
            /\ ret' = "none" /\ data' = <<>>
            /\ UNCHANGED <<layout, card, astray>>

Return(r) == call' = Idle /\ ret' = r

Code(reply) == IF reply = "thrown" THEN "thrown" ELSE "err"

Stage(op, pc) == call.op = op /\ call.pc = pc

SetDesfireSessionTimeout(ms) ==
  /\ call.pc = "idle"
  /\ "setTimeout" \in Calls
  /\ session' = [EnsureSession EXCEPT !.timeout = ms]
  /\ UNCHANGED <<layout, call, ret, data, card, astray>>

(* time passes; a session that is not authenticated has no age *)
Tick == /\ session.authenticated /\ session.age < MaxAge
        /\ session' = [session EXCEPT !.age = @ + 1]
        /\ UNCHANGED <<layout, call, ret, data, card, astray>>

-----------------------------------------------------------------------------
(* trySelectApplication *)

BeginSelect(aid) ==
  /\ Begin([Idle EXCEPT !.op = "select", !.pc = "send", !.aid = aid])
  /\ UNCHANGED session

(* resetKeepApp, then the new currentAID *)
SessionAt(aid) == IF session.exists THEN [Reset(session) EXCEPT !.aid = aid] ELSE session

(* faulty variant: the image's application is not changed *)
NoteSelectedSessionOnly(aid) == session' = SessionAt(aid) /\ UNCHANGED layout

NoteSelected(aid) == /\ session' = SessionAt(aid)
                     /\ layout' = [layout EXCEPT !.aid = aid]

SelectAnswered ==
  /\ Stage("select", "send")
  /\ CardHandles("ok", call.aid \in card.apps \cup {Picc}, Selected(call.aid))
  /\ NoteSelected(call.aid)
  /\ Return("ok")
  /\ astray' = FALSE
  /\ UNCHANGED data

SelectFailed ==
  \E reply \in {"error", "short", "thrown"} :
    /\ Stage("select", "send")
    /\ CardHandles(reply, call.aid \in card.apps \cup {Picc}, Selected(call.aid))
    /\ Return(Code(reply))
    /\ astray' = (astray \/ card'.aid # card.aid)
    /\ UNCHANGED <<session, layout, data>>

-----------------------------------------------------------------------------
(* tryAuthenticateDesfire and DesfireAuth::tryAuthenticate *)

NonceSize(type) == IF type \in {"AES128", "ThreeDES"} THEN 16 ELSE 8
AuthCommand(type) == IF type = "AES128" THEN "AA" ELSE "1A"

(* faulty variant: the old session stays until the new one replaces it *)
BeginAuthenticateLate(key, no, type) ==
  /\ Begin([Idle EXCEPT !.op = "authenticate", !.pc = "send", !.key = key,
                        !.keyNo = no, !.type = type])
  /\ session' = EnsureSession

BeginAuthenticate(key, no, type) ==
  /\ Begin([Idle EXCEPT !.op = "authenticate", !.pc = "send", !.key = key,
                        !.keyNo = no, !.type = type])
  /\ session' = Reset(EnsureSession)

(* the card answers the authentication command with its nonce *)
CardChallenges(reply, b) ==
  CardHandles(reply, AuthCommand(call.type) = AuthCommand(KeyOf(call.keyNo).type),
              [Forgetful(card) EXCEPT !.pending = AuthPending(call.keyNo, b)])

Deciphered(b) == IF call.key = KeyOf(call.keyNo).key THEN b ELSE Garbled

SizesAgree == NonceSize(call.type) = NonceSize(KeyOf(call.keyNo).type)

(* the ciphers that look at the length of their key; the others read what  *)
(* lies behind a short one, and decipher to something or fail              *)
LengthChecked == call.type \in {"AES128", "ThreeDES"}

ChallengeAnswered ==
  \E reply \in {"ok", "garbled"}, a, b \in Nonces :
    /\ Stage("authenticate", "send")
    /\ CardChallenges(reply, b)
    /\ SizesAgree /\ (call.key = BadKey => ~LengthChecked)
    /\ call' = [call EXCEPT !.pc = "prove", !.rndA = a,
                            !.rndB = IF reply = "ok" THEN Deciphered(b) ELSE Garbled]
    /\ UNCHANGED <<session, layout, ret, data, astray>>

(* a nonce of the wrong size is an error; a cipher that fails on its key   *)
(* throws; and so does the answer to a refusal, which asks the successful  *)
(* Result of the transmission for its error                                *)
ChallengeFailed ==
  \E reply \in {"ok", "garbled", "error", "short", "thrown"}, b \in Nonces :
    /\ Stage("authenticate", "send")
    /\ CardChallenges(reply, b)
    /\ \/ reply \in {"ok", "garbled"} /\ ~SizesAgree /\ Return("err")
       \/ reply \in {"ok", "garbled"} /\ SizesAgree /\ call.key = BadKey /\ Return("thrown")
       \/ reply \in {"error", "thrown"} /\ Return("thrown")
       \/ reply = "short" /\ Return("err")
    /\ UNCHANGED <<session, layout, data, astray>>

(* the card checks the host's proof and gives its own *)
CardProves(reply) ==
  CardHandles(reply,
              /\ card.pending.kind = "auth"
              /\ call.key = KeyOf(card.pending.keyNo).key
              /\ call.rndB = card.pending.rndB,
              [card EXCEPT !.key = <<call.rndA, call.rndB>>, !.keyNo = card.pending.keyNo,
                           !.pending = NothingPending])

(* faulty variant: the card's proof is not looked at *)
VerifyNothing(reply) == TRUE

VerifyAuthResponse(reply) == reply # "garbled"

(* deriveSessionKey knows no key for DES and throws; authenticated and     *)
(* authKeyNo are set by then, the key and the time are not                 *)
Authenticated ==
  IF call.type = "DES"
    THEN /\ session' = [session EXCEPT !.authenticated = TRUE, !.keyNo = call.keyNo,
                                       !.age = MaxAge]
         /\ Return("thrown")
    ELSE /\ session' = [session EXCEPT !.authenticated = TRUE, !.keyNo = call.keyNo,
                                       !.key = <<call.rndA, call.rndB>>, !.age = 0]
         /\ Return("ok")

ProofAnswered ==
  \E reply \in {"ok", "garbled"} :
    /\ Stage("authenticate", "prove")
    /\ CardProves(reply)
    /\ IF VerifyAuthResponse(reply) THEN Authenticated
                                    ELSE session' = Reset(session) /\ Return("err")
    /\ UNCHANGED <<layout, data, astray>>

ProofFailed ==
  \E reply \in {"error", "short", "thrown"} :
    /\ Stage("authenticate", "prove")
    /\ CardProves(reply)
    /\ Return(Code(reply))
    /\ session' = Reset(session)
    /\ UNCHANGED <<layout, data, astray>>

-----------------------------------------------------------------------------
(* Queries and tryDiscoverCard: tryTransceive and tryParseGetVersion *)

BeginQuery(op) == /\ op \in {"query", "discover"}
                  /\ Begin([Idle EXCEPT !.op = op, !.pc = "send"])
                  /\ UNCHANGED session

InQuery(pc) == call.op \in {"query", "discover"} /\ call.pc = pc

HasMore == card'.pending.kind = "more"

(* faulty variant: the frame replaces what was collected *)
LastFrame(n) == <<n>>

Collect(n) == Append(call.frames, n)

(* GetVersion reads at most three frames *)
FrameReceived(n) ==
  LET frames == Collect(n)
  IN  IF HasMore /\ ~(call.op = "discover" /\ n = 3)
        THEN /\ call' = [call EXCEPT !.pc = "more", !.frames = frames]
             /\ UNCHANGED <<layout, ret, data>>
        ELSE /\ Return("ok")
             /\ data' = frames
             /\ layout' = IF call.op = "discover" THEN [layout EXCEPT !.version = frames]
                                                 ELSE layout

FirstFrame ==
  \E total \in 1..MaxFrames :
    /\ InQuery("send")
    /\ CardHandles("ok", TRUE, Framed(1, total))
    /\ FrameReceived(1)
    /\ UNCHANGED <<session, astray>>

NextFrame ==
  /\ InQuery("more")
  /\ card.pending.kind = "more"
  /\ CardHandles("ok", TRUE, Framed(card.pending.sent + 1, card.total))
  /\ FrameReceived(card.pending.sent + 1)
  /\ UNCHANGED <<session, astray>>

(* faulty variant: the query is started over *)
StartOver(reply) == call' = [call EXCEPT !.pc = "send", !.frames = <<>>] /\ UNCHANGED ret

GiveUp(reply) == Return(Code(reply))

(* a frame that does not come ends the call; the card may be a frame ahead *)
FrameFailed ==
  \E reply \in {"error", "short", "thrown"}, total \in 1..MaxFrames :
    /\ \/ InQuery("send") /\ CardHandles(reply, TRUE, Framed(1, total))
       \/ /\ InQuery("more")
          /\ total = card.total
          /\ CardHandles(reply, card.pending.kind = "more", Framed(card.pending.sent + 1, total))
    /\ GiveUp(reply)
    /\ UNCHANGED <<session, layout, data, astray>>

-----------------------------------------------------------------------------
(* Management and file commands: one exchange each, through desfireExec.   *)
(* The host keeps nothing of them.                                         *)

Commands == {"createApplication", "deleteApplication", "formatPICC", "other"}

BeginExec(cmd, aid) ==
  /\ Begin([Idle EXCEPT !.op = "exec", !.pc = "send", !.cmd = cmd, !.aid = aid])
  /\ UNCHANGED session

Exec ==
  \E reply \in {"ok", "error", "short", "thrown"} :
    /\ Stage("exec", "send")
    /\ CardHandles(reply, Executable(call.cmd, call.aid), Executed(call.cmd, call.aid))
    /\ Return(IF reply = "ok" THEN "ok" ELSE Code(reply))
    /\ astray' = (astray \/ card'.aid # card.aid)
    /\ UNCHANGED <<session, layout, data>>

-----------------------------------------------------------------------------
Init ==
  /\ session = NullSession
  /\ layout = [aid |-> Picc, version |-> <<>>]
  /\ call = Idle /\ ret = "none" /\ data = <<>>
  /\ card = [apps |-> AIDs, aid |-> Picc, key |-> NoKey, keyNo |-> 0,
             pending |-> NothingPending, total |-> 1]
  /\ astray = FALSE

Start ==
  \/ \E aid \in Apps : BeginSelect(aid)
  \/ \E key \in Keys, no \in KeyNos, type \in HostKeyTypes : BeginAuthenticate(key, no, type)
  \/ \E op \in {"query", "discover"} : BeginQuery(op)
  \/ \E cmd \in Commands, aid \in AIDs : BeginExec(cmd, aid)
  \/ \E ms \in Timeouts : SetDesfireSessionTimeout(ms)

Progress ==
  \/ SelectAnswered \/ SelectFailed
  \/ ChallengeAnswered \/ ChallengeFailed \/ ProofAnswered \/ ProofFailed
  \/ FirstFrame \/ NextFrame \/ FrameFailed
  \/ Exec

Next == Start \/ Progress \/ CardReset \/ Tick

Spec == Init /\ [][Next]_vars

(* The library is synchronous: a call that has begun runs on. *)
FairSpec == Spec /\ WF_vars(Progress)

-----------------------------------------------------------------------------
(* Properties *)

Sessions ==
  [exists : BOOLEAN, authenticated : BOOLEAN, keyNo : KeyNos,
   key : SessionKeys \cup {NoKey}, aid : Apps, timeout : 0..MaxAge, age : 0..MaxAge]

Pendings == [kind : {"none", "auth", "more"}, keyNo : KeyNos,
             rndB : Nonces \cup {Garbled}, sent : 0..MaxFrames]
Cards == [apps : SUBSET AIDs, aid : Apps, key : SessionKeys \cup {NoKey}, keyNo : KeyNos,
          pending : Pendings, total : 1..MaxFrames]

CallRecords ==
  [op : DesfireCalls \cup {"none"}, pc : {"idle", "send", "prove", "more"},
   aid : Apps, cmd : Commands, keyNo : KeyNos, key : Keys, type : KeyTypes,
   rndA : Nonces \cup {Garbled}, rndB : Nonces \cup {Garbled}, frames : Seq(1..MaxFrames)]

(* The variables have the types of the fields they stand for; a session    *)
(* key comes only with the authenticated flag, and a card that owes frames *)
(* has some left.                                                          *)
TypeOK ==
  /\ session \in Sessions /\ card \in Cards /\ call \in CallRecords
  /\ layout \in [aid : Apps, version : Seq(1..MaxFrames)]
  /\ ret \in {"none", "ok", "err", "thrown"} /\ data \in Seq(1..MaxFrames)
  /\ astray \in BOOLEAN
  /\ session.key # NoKey => session.exists /\ session.authenticated
  /\ card.pending.kind = "more" => card.pending.sent < card.total

(* The two ends of the session behave as SessionPair allows: never two     *)
(* different session keys, whatever is lost of the three passes.           *)
Pair == INSTANCE SessionPair
          WITH hostKey <- session.key, cardKey <- card.key, None <- NoKey
SessionsPair == Pair!PairSpec

(* tryAuthenticate answers Ok only when the card has opened the very same  *)
(* session, under the key number asked for.                                *)
Returns(op, codes) == call.op = op /\ call.pc # "idle" /\ call'.pc = "idle" /\ ret' \in codes
OkMeansMutual ==
  [][Returns("authenticate", {"ok"}) =>
       /\ session'.key # NoKey
       /\ card'.key = session'.key /\ card'.keyNo = session'.keyNo
       /\ session'.keyNo = call.keyNo]_vars

(* The memory image's current application is the card's, unless the card   *)
(* changed it in a reset, by deleting it or in a call whose answer was     *)
(* lost; the next successful selection ends that.                          *)
SelectedAppKnown == astray \/ layout.aid = card.aid

(* A query returns the whole of the card's answer, its frames in order;    *)
(* getVersion the first three of them.                                     *)
Answered(n) == data' = [i \in 1..n |-> i]
QueryComplete ==
  [][/\ Returns("query", {"ok"}) => Answered(card'.total)
     /\ Returns("discover", {"ok"}) => Answered(IF card'.total < 3 THEN card'.total ELSE 3)]_vars

(* Every call that starts returns, as long as the card's answers end. *)
CallsReturn == call.pc # "idle" ~> call.pc = "idle"

=============================================================================
