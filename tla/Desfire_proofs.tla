--------------------------- MODULE Desfire_proofs ---------------------------
(***************************************************************************)
(* Proofs about Desfire, for any number of applications, keys, nonces and  *)
(* frames and under every fault: the types, that the two ends of the       *)
(* session implement SessionPair, that an authentication answered Ok was   *)
(* mutual, and that the selected application is known.                     *)
(*                                                                         *)
(* TypeOK alone is not inductive.  What SessionPair needs besides it is    *)
(* that the host holds no session key while an authentication runs, so     *)
(* that the card may open a session the host does not know of, and that    *)
(* the host's nonce has been drawn before the card sees its proof; the     *)
(* types need that a management command names an application.              *)
(***************************************************************************)
EXTENDS Desfire, SequenceTheorems, TLAPS

CallShape ==
  /\ call.op = "authenticate" => session.exists /\ session.key = NoKey
  /\ call.pc = "prove" => call.op = "authenticate" /\ call.rndA \in Nonces
  /\ call.op = "exec" => call.aid \in AIDs

IInv == TypeOK /\ CallShape

-----------------------------------------------------------------------------
(* The card *)

OwesFrames(c) == c.pending.kind = "more" => c.pending.sent < c.total

LEMMA PendingTypes ==
  /\ NothingPending \in Pendings /\ NothingPending.kind = "none"
  /\ \A no \in KeyNos, b \in Nonces :
       AuthPending(no, b) \in Pendings /\ AuthPending(no, b).kind = "auth"
  /\ \A n \in 0..MaxFrames : /\ MorePending(n) \in Pendings
                             /\ MorePending(n).sent = n
<1>1. 0 \in 0..MaxFrames /\ 0 \in KeyNos
  BY KeyAssumption, BoundAssumption
<1>2. NothingPending \in Pendings /\ NothingPending.kind = "none"
  BY <1>1 DEF Pendings, NothingPending
<1>3. ASSUME NEW no \in KeyNos, NEW b \in Nonces
      PROVE  AuthPending(no, b) \in Pendings /\ AuthPending(no, b).kind = "auth"
  BY <1>1, <1>3 DEF Pendings, NothingPending, AuthPending
<1>4. ASSUME NEW n \in 0..MaxFrames
      PROVE  MorePending(n) \in Pendings /\ MorePending(n).sent = n
  BY <1>1, <1>4 DEF Pendings, NothingPending, MorePending
<1> QED
  BY <1>2, <1>3, <1>4

LEMMA ForgetfulType ==
  ASSUME NEW c \in Cards
  PROVE  /\ Forgetful(c) \in Cards
         /\ Forgetful(c).pending = NothingPending
         /\ OwesFrames(Forgetful(c))
<1>1. 0 \in KeyNos /\ NoKey \in SessionKeys \cup {NoKey}
  BY KeyAssumption
<1> QED
  BY <1>1, PendingTypes DEF Cards, Forgetful, OwesFrames

(* Whatever becomes of an exchange, the card is in a state of its type     *)
(* when what the command does is one.                                      *)
LEMMA CardStays ==
  ASSUME TypeOK, NEW reply, NEW accepted,
         NEW done \in Cards, OwesFrames(done), CardHandles(reply, accepted, done)
  PROVE  card' \in Cards /\ OwesFrames(card')
<1>1. card \in Cards /\ OwesFrames(card)
  BY DEF TypeOK, OwesFrames
<1> QED
  BY <1>1, ForgetfulType DEF CardHandles

(* What each command leaves of the card is of the card's type. *)
LEMMA SelectedType ==
  ASSUME TypeOK, NEW aid \in Apps
  PROVE  Selected(aid) \in Cards /\ OwesFrames(Selected(aid))
<1>1. card \in Cards
  BY DEF TypeOK
<1> QED
  BY <1>1, ForgetfulType DEF Cards, Selected, OwesFrames

LEMMA FramedType ==
  ASSUME TypeOK, NEW total \in 1..MaxFrames, NEW n \in 1..total
  PROVE  Framed(n, total) \in Cards /\ OwesFrames(Framed(n, total))
<1>1. card \in Cards
  BY DEF TypeOK
<1>2. n \in 0..MaxFrames /\ n \in Int /\ total \in Int
  BY BoundAssumption
<1>3. CASE n < total
  BY <1>1, <1>2, <1>3, PendingTypes DEF Cards, Framed, OwesFrames
<1>4. CASE ~(n < total)
  BY <1>1, <1>2, <1>4, PendingTypes DEF Cards, Framed, OwesFrames
<1> QED
  BY <1>3, <1>4

LEMMA ChallengedType ==
  ASSUME TypeOK, NEW no \in KeyNos, NEW b \in Nonces
  PROVE  /\ [Forgetful(card) EXCEPT !.pending = AuthPending(no, b)] \in Cards
         /\ OwesFrames([Forgetful(card) EXCEPT !.pending = AuthPending(no, b)])
<1>1. card \in Cards
  BY DEF TypeOK
<1> QED
  BY <1>1, ForgetfulType, PendingTypes DEF Cards, OwesFrames

Proved == [card EXCEPT !.key = <<call.rndA, call.rndB>>,
                       !.keyNo = card.pending.keyNo, !.pending = NothingPending]

LEMMA ProvedType ==
  ASSUME TypeOK, call.rndA \in Nonces
  PROVE  /\ <<call.rndA, call.rndB>> \in SessionKeys
         /\ Proved \in Cards /\ OwesFrames(Proved)
<1>1. <<call.rndA, call.rndB>> \in SessionKeys
  BY DEF TypeOK, CallRecords, SessionKeys
<1>2. card.pending.keyNo \in KeyNos
  BY DEF TypeOK, Cards, Pendings
<1> QED
  BY <1>1, <1>2, PendingTypes DEF TypeOK, Cards, OwesFrames, Proved

LEMMA ExecutedType ==
  ASSUME TypeOK, NEW cmd \in Commands, NEW aid \in AIDs
  PROVE  Executed(cmd, aid) \in Cards /\ OwesFrames(Executed(cmd, aid))
<1>1. Picc \in Apps /\ card \in Cards
  BY DEF Apps, TypeOK
<1>2. Selected(Picc) \in Cards /\ OwesFrames(Selected(Picc))
  BY <1>1, SelectedType
<1>3. CASE cmd = "createApplication"
  BY <1>1, <1>3, PendingTypes DEF Cards, OwesFrames, Executed
<1>4. CASE cmd = "formatPICC"
  BY <1>1, <1>4, PendingTypes DEF Cards, OwesFrames, Executed
<1>5. CASE cmd = "other"
  BY <1>1, <1>5, PendingTypes DEF Cards, OwesFrames, Executed
<1>6. CASE cmd = "deleteApplication"
  <2>1. Deleted(aid) \in Cards /\ OwesFrames(Deleted(aid))
    BY <1>1, <1>2, PendingTypes DEF Cards, OwesFrames, Deleted
  <2> QED
    BY <2>1, <1>6 DEF Executed
<1> QED
  BY <1>3, <1>4, <1>5, <1>6 DEF Commands

-----------------------------------------------------------------------------
(* The host *)

KeyShape(s) == s.key # NoKey => s.exists /\ s.authenticated

LEMMA IdleType ==
  /\ Idle \in CallRecords
  /\ Idle.op = "none" /\ Idle.pc = "idle" /\ Idle.frames = <<>>
BY KeyAssumption DEF Idle, CallRecords, Apps, Commands, KeyTypes

LEMMA NewSessionType ==
  /\ NewSession \in Sessions /\ NewSession.key = NoKey /\ NewSession.exists
  /\ NullSession \in Sessions /\ NullSession.key = NoKey
<1>1. /\ 0 \in KeyNos /\ 0 \in 0..MaxAge /\ Picc \in Apps
      /\ NoKey \in SessionKeys \cup {NoKey}
  BY KeyAssumption, BoundAssumption DEF Apps
<1> QED
  BY <1>1 DEF NewSession, NullSession, Sessions

LEMMA ResetType ==
  ASSUME NEW s \in Sessions
  PROVE  /\ Reset(s) \in Sessions /\ Reset(s).key = NoKey /\ KeyShape(Reset(s))
         /\ Reset(s).exists = s.exists
<1>1. 0 \in KeyNos /\ 0 \in 0..MaxAge /\ NoKey \in SessionKeys \cup {NoKey}
  BY KeyAssumption, BoundAssumption
<1> QED
  BY <1>1 DEF Sessions, Reset, KeyShape

(* A missing session holds no key, so that creating it is no step of the   *)
(* pair.                                                                   *)
LEMMA EnsureSessionType ==
  ASSUME TypeOK
  PROVE  /\ EnsureSession \in Sessions /\ EnsureSession.exists
         /\ EnsureSession.key = session.key /\ KeyShape(EnsureSession)
BY NewSessionType DEF TypeOK, EnsureSession, KeyShape

(* What TypeOK says of each variable of the next state. *)
NextTypes ==
  /\ session' \in Sessions /\ KeyShape(session')
  /\ card' \in Cards /\ OwesFrames(card')
  /\ call' \in CallRecords
  /\ layout' \in [aid : Apps, version : Seq(1..MaxFrames)]
  /\ ret' \in {"none", "ok", "err", "thrown"} /\ data' \in Seq(1..MaxFrames)
  /\ astray' \in BOOLEAN

LEMMA TypesNext == NextTypes => TypeOK'
BY DEF NextTypes, TypeOK, KeyShape, OwesFrames

LEMMA InitInv == Init => IInv
<1> SUFFICES ASSUME Init PROVE IInv
  OBVIOUS
<1>1. /\ 1 \in 1..MaxFrames /\ Picc \in Apps /\ 0 \in KeyNos
      /\ <<>> \in Seq(1..MaxFrames)
  BY KeyAssumption, BoundAssumption DEF Apps
<1>2. card \in Cards /\ card.pending.kind # "more"
  BY <1>1, PendingTypes DEF Init, Cards
<1>3. layout \in [aid : Apps, version : Seq(1..MaxFrames)]
  BY <1>1 DEF Init
<1> QED
  BY <1>1, <1>2, <1>3, NewSessionType, IdleType DEF Init, IInv, TypeOK, CallShape

(* Steps that leave the card as it is: the beginnings of the calls, the    *)
(* time-out and the clock.                                                 *)
LEMMA BeginKeeps ==
  ASSUME TypeOK, NEW c \in CallRecords, Begin(c)
  PROVE  /\ call' \in CallRecords /\ call' = c
         /\ card' \in Cards /\ OwesFrames(card')
         /\ layout' \in [aid : Apps, version : Seq(1..MaxFrames)]
         /\ ret' = "none" /\ data' \in Seq(1..MaxFrames) /\ astray' \in BOOLEAN
<1>1. <<>> \in Seq(1..MaxFrames)
  BY BoundAssumption
<1> QED
  BY <1>1 DEF Begin, TypeOK, OwesFrames

LEMMA StartKeeps == IInv /\ Start => IInv'
<1> SUFFICES ASSUME IInv, Start PROVE IInv'
  OBVIOUS
<1> USE DEF IInv
<1>1. ASSUME NEW aid \in Apps, BeginSelect(aid) PROVE IInv'
  <2> DEFINE c == [Idle EXCEPT !.op = "select", !.pc = "send", !.aid = aid]
  <2>1. c \in CallRecords /\ c.op = "select" /\ c.pc = "send"
    BY IdleType, <1>1 DEF CallRecords, DesfireCalls
  <2>2. Begin(c) /\ UNCHANGED session
    BY <1>1 DEF BeginSelect
  <2> HIDE DEF c
  <2>3. NextTypes /\ call' = c
    BY <2>1, <2>2, BeginKeeps DEF NextTypes, TypeOK, KeyShape
  <2> QED
    BY <2>1, <2>2, <2>3, TypesNext DEF CallShape
<1>2. ASSUME NEW key \in Keys, NEW no \in KeyNos, NEW type \in HostKeyTypes,
             BeginAuthenticate(key, no, type)
      PROVE  IInv'
  <2> DEFINE c == [Idle EXCEPT !.op = "authenticate", !.pc = "send", !.key = key,
                     !.keyNo = no, !.type = type]
  <2>1. c \in CallRecords /\ c.op = "authenticate" /\ c.pc = "send"
    BY IdleType, KeyAssumption, <1>2 DEF CallRecords, DesfireCalls
  <2>0. Begin(c) /\ session' = Reset(EnsureSession)
    BY <1>2 DEF BeginAuthenticate
  <2> HIDE DEF c
  <2>2. call' = c
    BY <2>0, <2>1, BeginKeeps
  <2>3. /\ session' \in Sessions /\ KeyShape(session')
        /\ session'.exists /\ session'.key = NoKey
    BY <2>0, EnsureSessionType, ResetType
  <2>4. NextTypes
    BY <2>0, <2>1, <2>3, BeginKeeps DEF NextTypes
  <2> QED
    BY <2>1, <2>2, <2>3, <2>4, TypesNext DEF CallShape
<1>3. ASSUME NEW op \in {"query", "discover"}, BeginQuery(op) PROVE IInv'
  <2> DEFINE c == [Idle EXCEPT !.op = op, !.pc = "send"]
  <2>1. c \in CallRecords /\ c.op = op /\ c.pc = "send"
    BY IdleType, <1>3 DEF CallRecords, DesfireCalls
  <2>2. Begin(c) /\ UNCHANGED session
    BY <1>3 DEF BeginQuery
  <2> HIDE DEF c
  <2>3. NextTypes /\ call' = c
    BY <2>1, <2>2, BeginKeeps DEF NextTypes, TypeOK, KeyShape
  <2> QED
    BY <2>1, <2>2, <2>3, TypesNext DEF CallShape
<1>4. ASSUME NEW cmd \in Commands, NEW aid \in AIDs, BeginExec(cmd, aid) PROVE IInv'
  <2> DEFINE c == [Idle EXCEPT !.op = "exec", !.pc = "send", !.cmd = cmd, !.aid = aid]
  <2>1. c \in CallRecords /\ c.op = "exec" /\ c.pc = "send" /\ c.aid = aid
    BY IdleType, <1>4 DEF CallRecords, DesfireCalls, Apps
  <2>2. Begin(c) /\ UNCHANGED session
    BY <1>4 DEF BeginExec
  <2> HIDE DEF c
  <2>3. NextTypes /\ call' = c
    BY <2>1, <2>2, BeginKeeps DEF NextTypes, TypeOK, KeyShape
  <2> QED
    BY <2>1, <2>2, <2>3, TypesNext DEF CallShape
<1>5. ASSUME NEW ms \in Timeouts, SetDesfireSessionTimeout(ms) PROVE IInv'
  <2>1. ms \in 0..MaxAge
    BY BoundAssumption
  <2>2. session' \in Sessions /\ KeyShape(session') /\ session'.exists /\ session'.key = session.key
    BY <1>5, <2>1, EnsureSessionType DEF SetDesfireSessionTimeout, Sessions, KeyShape
  <2>3. NextTypes
    BY <1>5, <2>2 DEF SetDesfireSessionTimeout, NextTypes, TypeOK, OwesFrames
  <2> QED
    BY <1>5, <2>2, <2>3, TypesNext DEF SetDesfireSessionTimeout, CallShape
<1> QED
  BY <1>1, <1>2, <1>3, <1>4, <1>5 DEF Start

(* The end of a call; every outcome is one of the four. *)
LEMMA ReturnTypes ==
  ASSUME NEW r, Return(r)
  PROVE  call' \in CallRecords /\ call'.op = "none" /\ call'.pc = "idle" /\ ret' = r
BY IdleType DEF Return

LEMMA AstrayType ==
  ASSUME TypeOK, NEW moved, astray' = (astray \/ moved)
  PROVE  astray' \in BOOLEAN
BY DEF TypeOK

LEMMA SelectKeeps == IInv /\ (SelectAnswered \/ SelectFailed) => IInv'
<1> SUFFICES ASSUME IInv, SelectAnswered \/ SelectFailed PROVE IInv'
  OBVIOUS
<1> USE DEF IInv
<1>1. call.aid \in Apps
  BY DEF TypeOK, CallRecords
<1>2. Selected(call.aid) \in Cards /\ OwesFrames(Selected(call.aid))
  BY <1>1, SelectedType
<1>3. card' \in Cards /\ OwesFrames(card')
  BY <1>2, CardStays DEF SelectAnswered, SelectFailed
<1>4. CASE SelectAnswered
  <2>1. session' \in Sessions /\ KeyShape(session')
    <3>1. session \in Sessions /\ KeyShape(session)
      BY DEF TypeOK, KeyShape
    <3>2. [Reset(session) EXCEPT !.aid = call.aid] \in Sessions
      BY <1>1, <3>1, ResetType DEF Sessions
    <3>3. KeyShape([Reset(session) EXCEPT !.aid = call.aid])
      BY <1>1, <3>1, ResetType DEF Sessions, KeyShape
    <3> QED
      BY <1>4, <3>1, <3>2, <3>3 DEF SelectAnswered, NoteSelected, SessionAt
  <2>2. layout' \in [aid : Apps, version : Seq(1..MaxFrames)]
    BY <1>1, <1>4 DEF SelectAnswered, NoteSelected, TypeOK
  <2>3. NextTypes
    BY <1>3, <1>4, <2>1, <2>2, ReturnTypes DEF SelectAnswered, NextTypes, TypeOK
  <2> QED
    BY <1>4, <2>3, TypesNext, ReturnTypes DEF SelectAnswered, CallShape
<1>5. CASE SelectFailed
  <2>1. \E reply \in {"error", "short", "thrown"} : Return(Code(reply))
    BY <1>5 DEF SelectFailed
  <2>2. call' \in CallRecords /\ call'.op = "none" /\ call'.pc = "idle"
        /\ ret' \in {"none", "ok", "err", "thrown"}
    BY <2>1, ReturnTypes DEF Code
  <2>3. NextTypes
    BY <1>3, <1>5, <2>2 DEF SelectFailed, NextTypes, TypeOK, KeyShape
  <2> QED
    BY <2>2, <2>3, TypesNext DEF CallShape
<1> QED
  BY <1>4, <1>5

LEMMA ChallengeKeeps == IInv /\ (ChallengeAnswered \/ ChallengeFailed) => IInv'
<1> SUFFICES ASSUME IInv, ChallengeAnswered \/ ChallengeFailed PROVE IInv'
  OBVIOUS
<1> USE DEF IInv
<1>1. call.keyNo \in KeyNos /\ call \in CallRecords
  BY DEF TypeOK, CallRecords
<1>2. card' \in Cards /\ OwesFrames(card')
  BY <1>1, ChallengedType, CardStays
     DEF ChallengeAnswered, ChallengeFailed, CardChallenges
<1>3. CASE ChallengeAnswered
  <2>1. PICK reply \in {"ok", "garbled"}, a \in Nonces, b \in Nonces :
          /\ Stage("authenticate", "send")
          /\ call' = [call EXCEPT !.pc = "prove", !.rndA = a,
                        !.rndB = IF reply = "ok" THEN Deciphered(b) ELSE Garbled]
          /\ UNCHANGED <<session, layout, ret, data, astray>>
    BY <1>3 DEF ChallengeAnswered
  <2>2. (IF reply = "ok" THEN Deciphered(b) ELSE Garbled) \in Nonces \cup {Garbled}
    BY DEF Deciphered
  <2>3. call' \in CallRecords /\ call'.op = "authenticate" /\ call'.rndA \in Nonces
    BY <1>1, <2>1, <2>2 DEF CallRecords, Stage
  <2>4. NextTypes
    BY <1>2, <2>1, <2>3 DEF NextTypes, TypeOK, KeyShape
  <2> QED
    BY <2>1, <2>3, <2>4, TypesNext DEF CallShape, Stage
<1>4. CASE ChallengeFailed
  <2>1. Return("err") \/ Return("thrown")
    BY <1>4 DEF ChallengeFailed
  <2>2. call' \in CallRecords /\ call'.op = "none" /\ call'.pc = "idle"
        /\ ret' \in {"none", "ok", "err", "thrown"}
    BY <2>1, ReturnTypes
  <2>3. NextTypes
    BY <1>2, <1>4, <2>2 DEF ChallengeFailed, NextTypes, TypeOK, KeyShape
  <2> QED
    BY <2>2, <2>3, TypesNext DEF CallShape
<1> QED
  BY <1>3, <1>4

LEMMA ProofKeeps == IInv /\ (ProofAnswered \/ ProofFailed) => IInv'
<1> SUFFICES ASSUME IInv, ProofAnswered \/ ProofFailed PROVE IInv'
  OBVIOUS
<1> USE DEF IInv
<1>1. /\ call.op = "authenticate" /\ call.rndA \in Nonces /\ call.keyNo \in KeyNos
      /\ session \in Sessions /\ session.exists /\ session.key = NoKey
  BY DEF TypeOK, CallRecords, CallShape, ProofAnswered, ProofFailed, Stage
<1>2. Proved \in Cards /\ OwesFrames(Proved) /\ <<call.rndA, call.rndB>> \in SessionKeys
  BY <1>1, ProvedType
<1>3. card' \in Cards /\ OwesFrames(card')
  BY <1>2, CardStays DEF ProofAnswered, ProofFailed, CardProves, Proved
<1>4. CASE ProofAnswered
  <2>1. CASE Authenticated
    <3>1. session' \in Sessions /\ KeyShape(session')
      <4>1. CASE call.type = "DES"
        <5>1. MaxAge \in 0..MaxAge
          BY BoundAssumption
        <5> QED
          BY <1>1, <2>1, <4>1, <5>1 DEF Authenticated, Sessions, KeyShape
      <4>2. CASE call.type # "DES"
        <5>1. 0 \in 0..MaxAge
          BY BoundAssumption
        <5> QED
          BY <1>1, <1>2, <2>1, <4>2, <5>1 DEF Authenticated, Sessions, KeyShape
      <4> QED
        BY <4>1, <4>2
    <3>2. Return("ok") \/ Return("thrown")
      BY <2>1 DEF Authenticated
    <3>3. call' \in CallRecords /\ call'.op = "none" /\ call'.pc = "idle"
          /\ ret' \in {"none", "ok", "err", "thrown"}
      BY <3>2, ReturnTypes
    <3>4. NextTypes
      BY <1>3, <1>4, <3>1, <3>3 DEF ProofAnswered, NextTypes, TypeOK
    <3> QED
      BY <3>3, <3>4, TypesNext DEF CallShape
  <2>2. CASE session' = Reset(session) /\ Return("err")
    <3>1. call' \in CallRecords /\ call'.op = "none" /\ call'.pc = "idle" /\ ret' = "err"
      BY <2>2, ReturnTypes
    <3>2. NextTypes
      BY <1>1, <1>3, <1>4, <2>2, <3>1, ResetType DEF ProofAnswered, NextTypes, TypeOK
    <3> QED
      BY <3>1, <3>2, TypesNext DEF CallShape
  <2> QED
    BY <1>4, <2>1, <2>2 DEF ProofAnswered
<1>5. CASE ProofFailed
  <2>1. \E reply \in {"error", "short", "thrown"} : Return(Code(reply))
    BY <1>5 DEF ProofFailed
  <2>2. call' \in CallRecords /\ call'.op = "none" /\ call'.pc = "idle"
        /\ ret' \in {"none", "ok", "err", "thrown"}
    BY <2>1, ReturnTypes DEF Code
  <2>3. NextTypes
    BY <1>1, <1>3, <1>5, <2>2, ResetType DEF ProofFailed, NextTypes, TypeOK
  <2> QED
    BY <2>2, <2>3, TypesNext DEF CallShape
<1> QED
  BY <1>4, <1>5

(* A frame of the card's answer, kept or returned. *)
LEMMA FrameReceivedTypes ==
  ASSUME TypeOK, NEW n \in 1..MaxFrames, FrameReceived(n), InQuery("send") \/ InQuery("more")
  PROVE  /\ call' \in CallRecords /\ call'.op \notin {"authenticate", "exec"} /\ call'.pc # "prove"
         /\ layout' \in [aid : Apps, version : Seq(1..MaxFrames)]
         /\ ret' \in {"none", "ok", "err", "thrown"} /\ data' \in Seq(1..MaxFrames)
<1>1. call \in CallRecords /\ call.op \in {"query", "discover"}
  BY DEF TypeOK, InQuery
<1>2. Collect(n) \in Seq(1..MaxFrames)
  BY <1>1 DEF CallRecords, Collect
<1>3. CASE call' = [call EXCEPT !.pc = "more", !.frames = Collect(n)]
           /\ UNCHANGED <<layout, ret, data>>
  BY <1>1, <1>2, <1>3 DEF TypeOK, CallRecords
<1>4. CASE /\ Return("ok") /\ data' = Collect(n)
           /\ layout' = IF call.op = "discover" THEN [layout EXCEPT !.version = Collect(n)]
                                                ELSE layout
  BY <1>2, <1>4, ReturnTypes DEF TypeOK
<1> QED
  BY <1>3, <1>4 DEF FrameReceived

LEMMA QueryKeeps == IInv /\ (FirstFrame \/ NextFrame \/ FrameFailed) => IInv'
<1> SUFFICES ASSUME IInv, FirstFrame \/ NextFrame \/ FrameFailed PROVE IInv'
  OBVIOUS
<1> USE DEF IInv
<1>1. /\ card.total \in 1..MaxFrames /\ card.pending.sent \in 0..MaxFrames
      /\ card.pending.kind = "more" => card.pending.sent + 1 \in 1..card.total
  BY BoundAssumption DEF TypeOK, Cards, Pendings
<1>2. CASE FirstFrame
  <2>1. PICK total \in 1..MaxFrames :
          /\ InQuery("send") /\ CardHandles("ok", TRUE, Framed(1, total))
          /\ FrameReceived(1) /\ UNCHANGED <<session, astray>>
    BY <1>2 DEF FirstFrame
  <2>2. 1 \in 1..total /\ 1 \in 1..MaxFrames
    BY <2>1, BoundAssumption
  <2>3. Framed(1, total) \in Cards /\ OwesFrames(Framed(1, total))
    BY <2>1, <2>2, FramedType
  <2>4. card' \in Cards /\ OwesFrames(card')
    BY <2>1, <2>3, CardStays
  <2>5. NextTypes /\ call'.op \notin {"authenticate", "exec"} /\ call'.pc # "prove"
    BY <2>1, <2>2, <2>4, FrameReceivedTypes DEF NextTypes, TypeOK, KeyShape
  <2> QED
    BY <2>5, TypesNext DEF CallShape
<1>3. CASE NextFrame
  <2> DEFINE n == card.pending.sent + 1
  <2>1. /\ InQuery("more") /\ CardHandles("ok", TRUE, Framed(n, card.total))
        /\ FrameReceived(n) /\ UNCHANGED <<session, astray>>
        /\ n \in 1..card.total
    BY <1>1, <1>3 DEF NextFrame
  <2>2. n \in 1..MaxFrames
    BY <1>1, <2>1, BoundAssumption
  <2> HIDE DEF n
  <2>3. Framed(n, card.total) \in Cards /\ OwesFrames(Framed(n, card.total))
    BY <1>1, <2>1, FramedType
  <2>4. card' \in Cards /\ OwesFrames(card')
    BY <2>1, <2>3, CardStays
  <2>5. NextTypes /\ call'.op \notin {"authenticate", "exec"} /\ call'.pc # "prove"
    BY <2>1, <2>2, <2>4, FrameReceivedTypes DEF NextTypes, TypeOK, KeyShape
  <2> QED
    BY <2>5, TypesNext DEF CallShape
<1>4. CASE FrameFailed
  <2>1. PICK reply \in {"error", "short", "thrown"}, total \in 1..MaxFrames :
          /\ \/ CardHandles(reply, TRUE, Framed(1, total))
             \/ /\ total = card.total
                /\ CardHandles(reply, card.pending.kind = "more",
                               Framed(card.pending.sent + 1, total))
          /\ Return(Code(reply)) /\ UNCHANGED <<session, layout, data, astray>>
    BY <1>4 DEF FrameFailed, GiveUp
  <2>2. card' \in Cards /\ OwesFrames(card')
    <3>1. CASE CardHandles(reply, TRUE, Framed(1, total))
      <4>1. Framed(1, total) \in Cards /\ OwesFrames(Framed(1, total))
        BY <2>1, FramedType, BoundAssumption
      <4> QED
        BY <3>1, <4>1, CardStays
    <3>2. CASE total = card.total /\ CardHandles(reply, card.pending.kind = "more",
                                                 Framed(card.pending.sent + 1, total))
      <4>1. CASE card.pending.kind = "more"
        <5>1. Framed(card.pending.sent + 1, total) \in Cards
              /\ OwesFrames(Framed(card.pending.sent + 1, total))
          BY <1>1, <3>2, <4>1, FramedType
        <5> QED
          BY <3>2, <5>1, CardStays
      <4>2. CASE card.pending.kind # "more"
        <5>1. card' \in {card, Forgetful(card)}
          BY <3>2, <4>2 DEF CardHandles
        <5> QED
          BY <5>1, ForgetfulType DEF TypeOK, OwesFrames
      <4> QED
        BY <4>1, <4>2
    <3> QED
      BY <2>1, <3>1, <3>2
  <2>3. call' \in CallRecords /\ call'.op = "none" /\ call'.pc = "idle"
        /\ ret' \in {"none", "ok", "err", "thrown"}
    BY <2>1, ReturnTypes DEF Code
  <2>4. NextTypes
    BY <2>1, <2>2, <2>3 DEF NextTypes, TypeOK, KeyShape
  <2> QED
    BY <2>3, <2>4, TypesNext DEF CallShape
<1> QED
  BY <1>2, <1>3, <1>4

LEMMA ExecKeeps == IInv /\ Exec => IInv'
<1> SUFFICES ASSUME IInv, Exec PROVE IInv'
  OBVIOUS
<1> USE DEF IInv
<1>1. PICK reply \in {"ok", "error", "short", "thrown"} :
        /\ CardHandles(reply, Executable(call.cmd, call.aid), Executed(call.cmd, call.aid))
        /\ Return(IF reply = "ok" THEN "ok" ELSE Code(reply))
        /\ astray' = (astray \/ card'.aid # card.aid)
        /\ UNCHANGED <<session, layout, data>>
  BY DEF Exec
<1>2. call.cmd \in Commands /\ call.aid \in AIDs
  BY DEF TypeOK, CallRecords, CallShape, Exec, Stage
<1>3. card' \in Cards /\ OwesFrames(card')
  BY <1>1, <1>2, ExecutedType, CardStays
<1>4. call' \in CallRecords /\ call'.op = "none" /\ call'.pc = "idle"
      /\ ret' \in {"none", "ok", "err", "thrown"}
  BY <1>1, ReturnTypes DEF Code
<1>5. NextTypes
  BY <1>1, <1>3, <1>4 DEF NextTypes, TypeOK, KeyShape
<1> QED
  BY <1>4, <1>5, TypesNext DEF CallShape

LEMMA SurroundingsKeep == IInv /\ (CardReset \/ Tick) => IInv'
<1> SUFFICES ASSUME IInv, CardReset \/ Tick PROVE IInv'
  OBVIOUS
<1> USE DEF IInv
<1>1. CASE CardReset
  <2>1. card' \in Cards /\ OwesFrames(card')
    BY <1>1, SelectedType DEF CardReset, Apps
  <2>2. NextTypes
    BY <1>1, <2>1 DEF CardReset, NextTypes, TypeOK, KeyShape
  <2> QED
    BY <1>1, <2>2, TypesNext DEF CardReset, CallShape
<1>2. CASE Tick
  <2>1. session \in Sessions /\ session.age + 1 \in 0..MaxAge /\ KeyShape(session)
    BY <1>2, BoundAssumption DEF Tick, TypeOK, Sessions, KeyShape
  <2>2. session' \in Sessions /\ KeyShape(session') /\ session'.key = session.key
        /\ session'.exists = session.exists
    BY <1>2, <2>1 DEF Tick, Sessions, KeyShape
  <2>3. NextTypes
    BY <1>2, <2>2 DEF Tick, NextTypes, TypeOK, OwesFrames
  <2> QED
    BY <1>2, <2>2, <2>3, TypesNext DEF Tick, CallShape
<1> QED
  BY <1>1, <1>2

LEMMA StepInv == IInv /\ [Next]_vars => IInv'
<1>1. IInv /\ UNCHANGED vars => IInv'
  BY DEF IInv, vars, TypeOK, CallShape
<1> QED
  BY <1>1, StartKeeps, SelectKeeps, ChallengeKeeps, ProofKeeps, QueryKeeps, ExecKeeps,
     SurroundingsKeep DEF Next, Progress

(* The fields of the host's session, the card and the call have their      *)
(* types in every reachable state, whatever the client does and whatever   *)
(* goes wrong; a session key is held only by an authenticated session.     *)
THEOREM TypeCorrect == Spec => []TypeOK
<1>1. Spec => []IInv
  BY InitInv, StepInv, PTL DEF Spec
<1>2. IInv => TypeOK
  BY DEF IInv
<1> QED
  BY <1>1, <1>2, PTL

-----------------------------------------------------------------------------
(* The session pair *)

(* Agreement is an invariant of the abstract pair. *)
LEMMA PairAgrees == Pair!PairSpec => []Pair!Agreement
<1>1. Pair!PairInit => Pair!Agreement
  BY DEF Pair!PairInit, Pair!Agreement
<1>2. Pair!Agreement /\ [Pair!PairNext]_(Pair!pair) => Pair!Agreement'
  BY DEF Pair!Agreement, Pair!PairNext, Pair!Establish, Pair!HalfOpen, Pair!HostDrops,
         Pair!CardDrops, Pair!pair
<1> QED
  BY <1>1, <1>2, PTL DEF Pair!PairSpec

(* An exchange leaves the card its session key or takes it away, or leaves *)
(* what the command does.                                                  *)
LEMMA KeyAfter ==
  ASSUME NEW reply, NEW accepted, NEW done, card \in Cards, CardHandles(reply, accepted, done)
  PROVE  card'.key \in {card.key, NoKey} \/ card' = done
<1>1. Forgetful(card).key = NoKey
  BY DEF Forgetful, Cards
<1> QED
  BY <1>1 DEF CardHandles

(* Every step of Desfire is a step of the pair or changes neither key. *)
LEMMA StepRefines == IInv /\ [Next]_vars => [Pair!PairNext]_(Pair!pair)
<1> SUFFICES ASSUME IInv, [Next]_vars PROVE [Pair!PairNext]_(Pair!pair)
  OBVIOUS
<1> USE DEF IInv
<1> DEFINE Drop == session'.key = NoKey /\ card'.key \in {card.key, NoKey}
           Lose == session'.key = session.key /\ card'.key \in {card.key, NoKey}
<1>1. Drop => Pair!HostDrops
  BY DEF Pair!HostDrops
<1>2. Lose => Pair!CardDrops \/ UNCHANGED Pair!pair
  BY DEF Pair!CardDrops, Pair!pair
<1>3. session \in Sessions /\ card \in Cards /\ call \in CallRecords /\ KeyShape(session)
  BY DEF TypeOK, KeyShape
<1>4. ASSUME Start PROVE Drop \/ Lose
  <2>1. ASSUME NEW aid \in Apps, BeginSelect(aid) PROVE Lose
    BY <2>1 DEF BeginSelect, Begin
  <2>2. ASSUME NEW key \in Keys, NEW no \in KeyNos, NEW type \in HostKeyTypes,
               BeginAuthenticate(key, no, type)
        PROVE  Drop
    BY <2>2, EnsureSessionType, ResetType DEF BeginAuthenticate, Begin
  <2>3. ASSUME NEW op \in {"query", "discover"}, BeginQuery(op) PROVE Lose
    BY <2>3 DEF BeginQuery, Begin
  <2>4. ASSUME NEW cmd \in Commands, NEW aid \in AIDs, BeginExec(cmd, aid) PROVE Lose
    BY <2>4 DEF BeginExec, Begin
  <2>5. ASSUME NEW ms \in Timeouts, SetDesfireSessionTimeout(ms) PROVE Lose
    BY <2>5, EnsureSessionType DEF SetDesfireSessionTimeout, Sessions
  <2> QED
    BY <1>4, <2>1, <2>2, <2>3, <2>4, <2>5 DEF Start
<1>5. ASSUME NEW aid \in Apps PROVE Selected(aid).key = NoKey
  BY <1>3 DEF Selected, Forgetful, Cards
<1>6. call.aid \in Apps /\ Picc \in Apps
  BY <1>3 DEF CallRecords, Apps
<1>7. ASSUME SelectAnswered PROVE Drop
  <2>1. card'.key \in {card.key, NoKey}
    BY <1>3, <1>5, <1>6, <1>7, KeyAfter DEF SelectAnswered
  <2>2. session'.key = NoKey
    BY <1>3, <1>6, <1>7, ResetType DEF SelectAnswered, NoteSelected, SessionAt, KeyShape, Sessions
  <2> QED
    BY <2>1, <2>2
<1>8. ASSUME SelectFailed PROVE Lose
  BY <1>3, <1>5, <1>6, <1>8, KeyAfter DEF SelectFailed
<1>9. ASSUME ChallengeAnswered \/ ChallengeFailed PROVE Lose
  <2>1. \A b : [Forgetful(card) EXCEPT !.pending = AuthPending(call.keyNo, b)].key = NoKey
    BY <1>3 DEF Forgetful, Cards
  <2> QED
    BY <1>3, <1>9, <2>1, KeyAfter DEF ChallengeAnswered, ChallengeFailed, CardChallenges
<1>10. ASSUME FirstFrame \/ NextFrame \/ FrameFailed PROVE Lose
  <2>1. \A n, total : Framed(n, total).key = card.key
    BY <1>3 DEF Framed, Cards
  <2> QED
    BY <1>3, <1>10, <2>1, KeyAfter DEF FirstFrame, NextFrame, FrameFailed
<1>11. ASSUME Exec PROVE Lose
  <2>1. Executed(call.cmd, call.aid).key \in {card.key, NoKey}
    BY <1>3, <1>5, <1>6 DEF Executed, Deleted, Selected, Forgetful, Cards, CallRecords, Commands
  <2> QED
    BY <1>3, <1>11, <2>1, KeyAfter DEF Exec
<1>12. ASSUME CardReset PROVE Lose
  BY <1>5, <1>6, <1>12 DEF CardReset
<1>13. ASSUME Tick PROVE Lose
  BY <1>3, <1>13 DEF Tick, Sessions
<1>14. ASSUME ProofAnswered \/ ProofFailed PROVE Pair!PairNext
  <2> DEFINE k == <<call.rndA, call.rndB>>
  <2>1. session.key = NoKey /\ call.rndA \in Nonces
    BY <1>14 DEF ProofAnswered, ProofFailed, Stage, CallShape
  <2>2. k \in SessionKeys /\ Proved.key = k
    BY <1>3, <2>1, ProvedType DEF Proved, Cards
  <2>3. \/ \E reply \in {"ok", "garbled"} :
             /\ CardProves(reply)
             /\ IF VerifyAuthResponse(reply) THEN Authenticated ELSE session' = Reset(session)
        \/ session' = Reset(session)
           /\ \E reply \in {"error", "short", "thrown"} : CardProves(reply)
    BY <1>14 DEF ProofAnswered, ProofFailed
  <2>4. \A reply : CardProves(reply) => card'.key \in {card.key, NoKey, k}
    BY <1>3, <2>2, KeyAfter DEF CardProves, Proved
  <2>5. CASE session' = Reset(session)
    <3>1. session'.key = NoKey /\ card'.key \in {card.key, NoKey, k}
      BY <1>3, <2>3, <2>4, <2>5, ResetType
    <3> HIDE DEF k
    <3> QED
      BY <2>1, <2>2, <3>1 DEF Pair!PairNext, Pair!HostDrops, Pair!HalfOpen
  <2>6. CASE session' # Reset(session)
    <3>1. CardProves("ok") /\ Authenticated
      BY <2>3, <2>6 DEF VerifyAuthResponse
    <3>2. card' = Proved
      BY <3>1 DEF CardProves, CardHandles, Proved
    <3>3. session'.key \in {NoKey, k}
      BY <1>3, <2>1, <3>1 DEF Authenticated, Sessions
    <3> HIDE DEF k
    <3> QED
      BY <2>1, <2>2, <3>2, <3>3 DEF Pair!PairNext, Pair!Establish, Pair!HalfOpen
  <2> QED
    BY <2>5, <2>6
<1>15. ASSUME UNCHANGED vars PROVE Lose
  BY <1>15 DEF vars
<1> HIDE DEF Drop, Lose
<1> QED
  BY <1>1, <1>2, <1>4, <1>7, <1>8, <1>9, <1>10, <1>11, <1>12, <1>13, <1>14, <1>15
     DEF Next, Progress, Pair!PairNext

LEMMA InitRefines == Init => Pair!PairInit
BY DEF Init, NullSession, NewSession, Pair!PairInit

(* The three-pass authentication, with the faults that may befall its      *)
(* exchanges, selections, resets and deletions between them, implements    *)
(* the abstract pair: tryAuthenticate and the card never open sessions     *)
(* under two different keys.                                               *)
THEOREM SessionsPairRefined == Spec => SessionsPair
<1>1. Spec => []IInv
  BY InitInv, StepInv, PTL DEF Spec
<1>2. Spec => Pair!PairInit /\ [][Pair!PairNext]_(Pair!pair)
  BY <1>1, InitRefines, StepRefines, PTL DEF Spec
<1> QED
  BY <1>2 DEF SessionsPair, Pair!PairSpec

(* Whenever the host and the card both hold a session key it is the same   *)
(* one, so neither deciphers with a key the other does not have.           *)
THEOREM KeysAgree == Spec => [](session.key # NoKey /\ card.key # NoKey
                                  => session.key = card.key)
<1>1. Pair!Agreement <=> (session.key # NoKey /\ card.key # NoKey
                            => session.key = card.key)
  BY DEF Pair!Agreement
<1>2. Spec => []Pair!Agreement
  BY SessionsPairRefined, PairAgrees DEF SessionsPair
<1> QED
  BY <1>1, <1>2, PTL

-----------------------------------------------------------------------------
(* Mutual authentication                                                   *)

(* The nonce the card waits to see again was sent for the key number the   *)
(* host is proving to know, if it is the nonce the host has deciphered.    *)
NonceShape ==
  /\ card.pending.kind = "auth" => card.pending.rndB \in Nonces
  /\ call.pc = "prove" /\ card.pending.kind = "auth" /\ call.rndB # Garbled
       => card.pending.keyNo = call.keyNo

(* Only a challenge makes the card wait for a nonce. *)
NoChallenge == card'.pending = card.pending \/ card'.pending.kind # "auth"

LEMMA NoChallengeAfter ==
  ASSUME NEW reply, NEW accepted, NEW done, card \in Cards,
         done.pending.kind # "auth", CardHandles(reply, accepted, done)
  PROVE  NoChallenge
<1>1. Forgetful(card).pending.kind = "none"
  BY PendingTypes DEF Forgetful, Cards
<1> QED
  BY <1>1 DEF CardHandles, NoChallenge

LEMMA NonceKept ==
  ASSUME NonceShape, NoChallenge,
         call'.pc = "prove" =>
           call.pc = "prove" /\ call'.rndB = call.rndB /\ call'.keyNo = call.keyNo
  PROVE  NonceShape'
BY DEF NonceShape, NoChallenge

LEMMA DoneKinds ==
  ASSUME TypeOK
  PROVE  /\ \A aid : Selected(aid).pending.kind = "none"
         /\ \A n \in 0..MaxFrames : \A total : Framed(n, total).pending.kind # "auth"
         /\ \A aid : Executed(call.cmd, aid).pending.kind = "none"
         /\ Proved.pending.kind = "none"
<1>1. card \in Cards /\ call.cmd \in Commands
  BY DEF TypeOK, CallRecords
<1>2. NothingPending.kind = "none"
  BY PendingTypes
<1>3. \A n \in 0..MaxFrames : MorePending(n).kind = "more"
  BY DEF MorePending, NothingPending
<1>4. /\ \A aid : Selected(aid).pending = NothingPending
      /\ Selected(Picc) \in Cards
  BY <1>1, ForgetfulType, SelectedType DEF Selected, Cards, Apps
<1>5. \A n \in 0..MaxFrames : \A total : Framed(n, total).pending.kind # "auth"
  BY <1>1, <1>2, <1>3 DEF Framed, Cards
<1>6. Proved.pending.kind = "none"
  BY <1>1, <1>2 DEF Proved, Cards
<1>7. \A aid : Executed(call.cmd, aid).pending.kind = "none"
  <2> TAKE aid
  <2>1. Deleted(aid).pending.kind = "none"
    BY <1>1, <1>2, <1>4 DEF Deleted, Cards
  <2>2. CASE call.cmd = "createApplication"
    BY <1>1, <1>2, <2>2 DEF Executed, Cards
  <2>3. CASE call.cmd = "deleteApplication"
    BY <2>1, <2>3 DEF Executed
  <2>4. CASE call.cmd = "formatPICC"
    BY <1>1, <1>2, <2>4 DEF Executed, Cards
  <2>5. CASE call.cmd = "other"
    BY <1>1, <1>2, <2>5 DEF Executed, Cards
  <2> QED
    BY <1>1, <2>2, <2>3, <2>4, <2>5 DEF Commands
<1> QED
  BY <1>2, <1>4, <1>5, <1>6, <1>7

LEMMA ReturnPc == ASSUME NEW r, Return(r) PROVE call'.pc = "idle"
BY IdleType DEF Return

LEMMA NonceStep == IInv /\ NonceShape /\ [Next]_vars => NonceShape'
<1> SUFFICES ASSUME IInv, NonceShape, [Next]_vars PROVE NonceShape'
  OBVIOUS
<1> USE DEF IInv
<1>1. card \in Cards /\ call \in CallRecords
  BY DEF TypeOK
<1>2. CASE Start \/ Tick \/ UNCHANGED vars
  <2>1. card' = card /\ (call'.pc = "send" \/ call' = call)
    BY <1>2, IdleType DEF Start, BeginSelect, BeginAuthenticate, BeginQuery, BeginExec,
       SetDesfireSessionTimeout, Begin, Tick, vars, CallRecords
  <2> QED
    BY <2>1, NonceKept DEF NoChallenge
<1>3. CASE CardReset
  BY <1>3, DoneKinds DEF CardReset, NonceShape
<1>4. CASE SelectAnswered \/ SelectFailed
  <2>1. NoChallenge
    BY <1>1, <1>4, DoneKinds, NoChallengeAfter DEF SelectAnswered, SelectFailed
  <2>2. call'.pc = "idle"
    BY <1>4, ReturnPc DEF SelectAnswered, SelectFailed
  <2> QED
    BY <2>1, <2>2, NonceKept
<1>5. CASE Exec
  BY <1>1, <1>5, DoneKinds, NoChallengeAfter, ReturnPc, NonceKept DEF Exec
<1>6. CASE ProofAnswered \/ ProofFailed
  <2>1. \A reply : CardProves(reply) => NoChallenge
    BY <1>1, DoneKinds, NoChallengeAfter DEF CardProves, Proved
  <2>2. call'.pc = "idle"
    BY <1>6, ReturnPc DEF ProofAnswered, ProofFailed, Authenticated
  <2> QED
    BY <1>6, <2>1, <2>2, NonceKept DEF ProofAnswered, ProofFailed
<1>7. CASE FirstFrame \/ NextFrame \/ FrameFailed
  <2>1. /\ 1 \in 0..MaxFrames
        /\ card.pending.kind = "more" => card.pending.sent + 1 \in 0..MaxFrames
    BY <1>1, BoundAssumption DEF TypeOK, Cards, Pendings
  <2>2. call'.pc # "prove"
    BY <1>1, <1>7, ReturnPc DEF FirstFrame, NextFrame, FrameFailed, FrameReceived, GiveUp, CallRecords
  <2>3. CASE FirstFrame
    BY <1>1, <2>1, <2>2, <2>3, DoneKinds, NoChallengeAfter, NonceKept DEF FirstFrame
  <2>4. CASE NextFrame
    BY <1>1, <2>1, <2>2, <2>4, DoneKinds, NoChallengeAfter, NonceKept DEF NextFrame
  <2>5. CASE FrameFailed
    <3>1. PICK reply, total :
            \/ CardHandles(reply, TRUE, Framed(1, total))
            \/ CardHandles(reply, card.pending.kind = "more", Framed(card.pending.sent + 1, total))
      BY <2>5 DEF FrameFailed
    <3>2. CASE card.pending.kind = "more" \/ CardHandles(reply, TRUE, Framed(1, total))
      BY <1>1, <2>1, <3>1, <3>2, DoneKinds, NoChallengeAfter, NonceKept, <2>2
    <3>3. CASE card.pending.kind # "more"
               /\ CardHandles(reply, card.pending.kind = "more", Framed(card.pending.sent + 1, total))
      <4>1. card' \in {card, Forgetful(card)}
        BY <3>3 DEF CardHandles
      <4>2. NoChallenge
        BY <4>1, ForgetfulType, PendingTypes, <1>1 DEF NoChallenge
      <4> QED
        BY <4>2, <2>2, NonceKept
    <3> QED
      BY <3>1, <3>2, <3>3
  <2> QED
    BY <1>7, <2>3, <2>4, <2>5
<1>8. CASE ChallengeAnswered \/ ChallengeFailed
  <2>1. call.keyNo \in KeyNos
    BY <1>1 DEF CallRecords
  <2>2. ASSUME NEW reply, NEW b \in Nonces, CardChallenges(reply, b)
        PROVE  \/ NoChallenge
               \/ card'.pending = AuthPending(call.keyNo, b)
    <3>1. [Forgetful(card) EXCEPT !.pending = AuthPending(call.keyNo, b)].pending
            = AuthPending(call.keyNo, b)
      BY <1>1, ForgetfulType DEF Cards
    <3>2. Forgetful(card).pending.kind = "none"
      BY <1>1, ForgetfulType, PendingTypes
    <3> QED
      BY <2>2, <3>1, <3>2 DEF CardChallenges, CardHandles, NoChallenge
  <2>3. ASSUME NEW b \in Nonces
        PROVE  /\ AuthPending(call.keyNo, b).rndB = b
               /\ AuthPending(call.keyNo, b).keyNo = call.keyNo
    BY DEF AuthPending, NothingPending
  <2>4. CASE ChallengeFailed
    <3>1. call'.pc = "idle"
      BY <2>4, ReturnPc DEF ChallengeFailed
    <3>2. PICK reply \in {"ok", "garbled", "error", "short", "thrown"}, b \in Nonces :
            CardChallenges(reply, b)
      BY <2>4 DEF ChallengeFailed
    <3>3. CASE NoChallenge
      BY <3>1, <3>3, NonceKept
    <3>4. CASE card'.pending = AuthPending(call.keyNo, b)
      BY <2>3, <3>1, <3>4 DEF NonceShape
    <3> QED
      BY <2>2, <3>2, <3>3, <3>4
  <2>5. CASE ChallengeAnswered
    <3>1. PICK reply \in {"ok", "garbled"}, b \in Nonces :
            /\ CardChallenges(reply, b)
            /\ call'.keyNo = call.keyNo
            /\ call'.rndB = IF reply = "ok" THEN Deciphered(b) ELSE Garbled
      BY <1>1, <2>5 DEF ChallengeAnswered, CallRecords
    <3>2. CASE reply = "ok"
      <4>1. card'.pending = AuthPending(call.keyNo, b)
        <5>1. card' = [Forgetful(card) EXCEPT !.pending = AuthPending(call.keyNo, b)]
          BY <3>1, <3>2 DEF CardChallenges, CardHandles
        <5> QED
          BY <5>1, <1>1, ForgetfulType DEF Cards
      <4> QED
        BY <2>3, <3>1, <4>1 DEF NonceShape
    <3>3. CASE reply = "garbled"
      <4>1. call'.rndB = Garbled
        BY <3>1, <3>3
      <4> QED
        BY <2>2, <2>3, <3>1, <4>1 DEF NoChallenge, NonceShape
    <3> QED
      BY <3>1, <3>2, <3>3
  <2> QED
    BY <1>8, <2>4, <2>5
<1> QED
  BY <1>2, <1>3, <1>4, <1>5, <1>6, <1>7, <1>8 DEF Next, Progress

LEMMA AuthenticateReturns ==
  ASSUME IInv, NonceShape, [Next]_vars, Returns("authenticate", {"ok"})
  PROVE  /\ session'.key # NoKey
         /\ card'.key = session'.key /\ card'.keyNo = session'.keyNo
         /\ session'.keyNo = call.keyNo
<1> USE DEF IInv
<1>1. /\ call.op = "authenticate" /\ call.pc # "idle" /\ call'.pc = "idle" /\ ret' = "ok"
      /\ call \in CallRecords /\ session \in Sessions /\ card \in Cards
  BY DEF Returns, TypeOK
<1>2. ASSUME NEW r, Return(r) PROVE r = "ok"
  BY <1>1, <1>2 DEF Return
<1>3. ~Start /\ ~CardReset /\ ~Tick /\ ~UNCHANGED vars
  BY <1>1 DEF Start, BeginSelect, BeginAuthenticate, BeginQuery, BeginExec,
     SetDesfireSessionTimeout, Begin, CardReset, Tick, vars
<1>4. /\ ~SelectAnswered /\ ~SelectFailed /\ ~Exec
      /\ ~FirstFrame /\ ~NextFrame /\ ~FrameFailed
  BY <1>1 DEF SelectAnswered, SelectFailed, Exec, FirstFrame, NextFrame, FrameFailed,
     InQuery, Stage
<1>5. ~ChallengeFailed /\ ~ProofFailed
  BY <1>2 DEF ChallengeFailed, ProofFailed, Code
<1>6. ~ChallengeAnswered
  BY <1>1 DEF ChallengeAnswered, CallRecords
<1>7. ProofAnswered
  BY <1>3, <1>4, <1>5, <1>6 DEF Next, Progress
<1>8. PICK reply \in {"ok", "garbled"} : CardProves(reply) /\ VerifyAuthResponse(reply) /\ Authenticated
  BY <1>2, <1>7 DEF ProofAnswered
<1>9. /\ session'.key = <<call.rndA, call.rndB>> /\ session'.keyNo = call.keyNo
  <2>1. session' = [session EXCEPT !.authenticated = TRUE, !.keyNo = call.keyNo,
                                   !.key = <<call.rndA, call.rndB>>, !.age = 0]
    BY <1>2, <1>8 DEF Authenticated
  <2> QED
    BY <1>1, <2>1 DEF Sessions
<1>10. /\ card.pending.kind = "auth" /\ call.rndB = card.pending.rndB
       /\ card' = Proved
  BY <1>8 DEF CardProves, CardHandles, VerifyAuthResponse, Proved
<1>11. card'.key = <<call.rndA, call.rndB>> /\ card'.keyNo = card.pending.keyNo
  BY <1>1, <1>10 DEF Proved, Cards
<1>12. /\ call.pc = "prove" /\ call.rndA \in Nonces
       /\ <<call.rndA, call.rndB>> # NoKey
  <2>1. call.pc = "prove" /\ call.rndA \in Nonces
    BY <1>7 DEF ProofAnswered, Stage, CallShape
  <2> QED
    BY <2>1, ProvedType, KeyAssumption
<1>13. call.rndB # Garbled
  BY <1>10, KeyAssumption DEF NonceShape
<1> QED
  BY <1>9, <1>10, <1>11, <1>12, <1>13 DEF NonceShape

(* tryAuthenticate answers Ok only when the card has opened the very       *)
(* session the host has, under the key number asked for, whatever was      *)
(* lost, garbled or left over of earlier attempts.                         *)
THEOREM OkIsMutual == Spec => OkMeansMutual
<1> DEFINE Mutual ==
             Returns("authenticate", {"ok"}) =>
               /\ session'.key # NoKey
               /\ card'.key = session'.key /\ card'.keyNo = session'.keyNo
               /\ session'.keyNo = call.keyNo
<1>1. Init => IInv /\ NonceShape
  BY InitInv DEF Init, NonceShape, NothingPending, Idle
<1>2. (IInv /\ NonceShape) /\ [Next]_vars => (IInv /\ NonceShape)'
  BY StepInv, NonceStep
<1>3. IInv /\ NonceShape /\ [Next]_vars => [Mutual]_vars
  BY AuthenticateReturns
<1>4. OkMeansMutual <=> [][Mutual]_vars
  BY DEF OkMeansMutual
<1> HIDE DEF Mutual
<1> QED
  BY <1>1, <1>2, <1>3, <1>4, PTL DEF Spec

-----------------------------------------------------------------------------
(* The selected application                                                *)

LEMMA AidAfter ==
  ASSUME card \in Cards, NEW reply, NEW accepted, NEW done, done.aid = card.aid,
         CardHandles(reply, accepted, done)
  PROVE  card'.aid = card.aid
BY DEF CardHandles, Forgetful, Cards

(* Apart from a selection, a management command and a reset of the card,   *)
(* no step changes the application on either side.                         *)
LEMMA QuietSteps ==
  ASSUME IInv, \/ Start \/ Tick \/ UNCHANGED vars
               \/ ChallengeAnswered \/ ChallengeFailed \/ ProofAnswered \/ ProofFailed
               \/ FirstFrame \/ NextFrame \/ FrameFailed
  PROVE  card'.aid = card.aid /\ UNCHANGED astray /\ layout'.aid = layout.aid
<1>1. card \in Cards /\ layout \in [aid : Apps, version : Seq(1..MaxFrames)]
  BY DEF IInv, TypeOK
<1>2. CASE Start \/ Tick \/ UNCHANGED vars
  BY <1>2 DEF Start, BeginSelect, BeginAuthenticate, BeginQuery, BeginExec,
     SetDesfireSessionTimeout, Begin, Tick, vars
<1>3. CASE ChallengeAnswered \/ ChallengeFailed
  <2>1. \A b : [Forgetful(card) EXCEPT !.pending = AuthPending(call.keyNo, b)].aid = card.aid
    BY <1>1 DEF Forgetful, Cards
  <2>2. \A reply, b : CardChallenges(reply, b) => card'.aid = card.aid
    BY <1>1, <2>1, AidAfter DEF CardChallenges
  <2> QED
    BY <1>3, <2>2 DEF ChallengeAnswered, ChallengeFailed
<1>4. CASE ProofAnswered \/ ProofFailed
  <2>1. Proved.aid = card.aid
    BY <1>1 DEF Proved, Cards
  <2>2. \A reply : CardProves(reply) => card'.aid = card.aid
    BY <1>1, <2>1, AidAfter DEF CardProves, Proved
  <2> QED
    BY <1>4, <2>2 DEF ProofAnswered, ProofFailed
<1>5. CASE FirstFrame \/ NextFrame \/ FrameFailed
  <2>1. \A n, total : Framed(n, total).aid = card.aid
    BY <1>1 DEF Framed, Cards
  <2>2. \A n : FrameReceived(n) => layout'.aid = layout.aid
    BY <1>1 DEF FrameReceived
  <2>3. \A reply, accepted, n, total :
          CardHandles(reply, accepted, Framed(n, total)) => card'.aid = card.aid
    BY <1>1, <2>1, AidAfter
  <2>4. CASE FirstFrame \/ NextFrame
    BY <2>2, <2>3, <2>4 DEF FirstFrame, NextFrame
  <2>5. CASE FrameFailed
    BY <2>3, <2>5 DEF FrameFailed
  <2> QED
    BY <1>5, <2>4, <2>5
<1> QED
  BY <1>2, <1>3, <1>4, <1>5

LEMMA SelectedAppStep == IInv /\ SelectedAppKnown /\ [Next]_vars => SelectedAppKnown'
<1> SUFFICES ASSUME IInv, SelectedAppKnown, [Next]_vars PROVE SelectedAppKnown'
  OBVIOUS
<1>1. /\ card \in Cards /\ call.aid \in Apps /\ Picc \in Apps
      /\ layout \in [aid : Apps, version : Seq(1..MaxFrames)]
  BY DEF IInv, TypeOK, CallRecords, Apps
<1>2. \A aid \in Apps : Selected(aid).aid = aid
  BY <1>1 DEF Selected, Forgetful, Cards
<1>3. CASE SelectAnswered
  <2>1. card' = Selected(call.aid) /\ layout' = [layout EXCEPT !.aid = call.aid]
    BY <1>3 DEF SelectAnswered, CardHandles, NoteSelected
  <2> QED
    BY <1>1, <1>2, <2>1 DEF SelectedAppKnown
<1>4. CASE SelectFailed \/ Exec
  BY <1>4 DEF SelectFailed, Exec, SelectedAppKnown
<1>5. CASE CardReset
  BY <1>1, <1>2, <1>5 DEF CardReset, SelectedAppKnown
<1> QED
  BY <1>3, <1>4, <1>5, QuietSteps DEF SelectedAppKnown, Next, Progress

(* The application the memory image names is the card's, whatever calls    *)
(* fail, unless the card changed it without the host's seeing.             *)
THEOREM SelectedAppCorrect == Spec => []SelectedAppKnown
<1>1. Spec => []IInv
  BY InitInv, StepInv, PTL DEF Spec
<1>2. Init => SelectedAppKnown
  BY DEF Init, SelectedAppKnown
<1> QED
  BY <1>1, <1>2, SelectedAppStep, PTL DEF Spec

-----------------------------------------------------------------------------
(* The frames of an answer                                                 *)

FirstFrames(n) == [i \in 1..n |-> i]

(* While the card owes a query its next frame, the host has collected the  *)
(* ones before it; and getVersion still wants one of the first three.      *)
QueryShape ==
  /\ call.pc = "send" => call.frames = <<>>
  /\ InQuery("more") /\ card.pending.kind = "more" =>
       /\ call.frames = FirstFrames(card.pending.sent)
       /\ card.pending.sent \in Nat \ {0}
       /\ card.pending.sent < card.total
       /\ call.op = "discover" => card.pending.sent < 3

LEMMA OneMore ==
  ASSUME NEW n \in Nat
  PROVE  Append(FirstFrames(n), n + 1) = FirstFrames(n + 1)
<1>1. FirstFrames(n) \in Seq(1..n) /\ Len(FirstFrames(n)) = n
  BY DEF FirstFrames
<1>2. FirstFrames(n + 1) \in Seq(1..(n + 1)) /\ Len(FirstFrames(n + 1)) = n + 1
  BY DEF FirstFrames
<1> QED
  BY <1>1, <1>2 DEF FirstFrames

(* frame n of `total' has come behind n - 1 others *)
Arrives(n, total) ==
  /\ call.op \in {"query", "discover"}
  /\ n \in Nat \ {0} /\ total \in Nat /\ n <= total
  /\ call.op = "discover" => n <= 3
  /\ call.frames = FirstFrames(n - 1)
  /\ card' = Framed(n, total)
  /\ FrameReceived(n)

LEMMA Arrivals ==
  ASSUME IInv, QueryShape, FirstFrame \/ NextFrame
  PROVE  \E n, total : Arrives(n, total)
<1>1. CASE FirstFrame
  <2>1. PICK total \in 1..MaxFrames :
          /\ InQuery("send")
          /\ CardHandles("ok", TRUE, Framed(1, total))
          /\ FrameReceived(1)
    BY <1>1 DEF FirstFrame
  <2>2. card' = Framed(1, total)
    BY <2>1 DEF CardHandles
  <2>3. call.frames = FirstFrames(1 - 1)
    BY <2>1 DEF QueryShape, InQuery, FirstFrames
  <2>4. Arrives(1, total)
    BY <2>1, <2>2, <2>3, BoundAssumption DEF Arrives, InQuery
  <2> QED
    BY <2>4
<1>2. CASE NextFrame
  <2> DEFINE n == card.pending.sent + 1
  <2>1. /\ InQuery("more") /\ card.pending.kind = "more"
        /\ card' = Framed(n, card.total)
        /\ FrameReceived(n)
    BY <1>2 DEF NextFrame, CardHandles
  <2>2. card.total \in Nat
    BY BoundAssumption DEF IInv, TypeOK, Cards
  <2>3. /\ n - 1 = card.pending.sent /\ n \in Nat \ {0} /\ n <= card.total
        /\ call.op = "discover" => n <= 3
    BY <2>1, <2>2 DEF QueryShape
  <2>4. Arrives(n, card.total)
    BY <2>1, <2>2, <2>3 DEF Arrives, InQuery, QueryShape
  <2> QED
    BY <2>4
<1> QED
  BY <1>1, <1>2

(* What has arrived is kept or, the last frame wanted, returned. *)
LEMMA ArrivalKept ==
  ASSUME IInv, NEW n, NEW total, Arrives(n, total)
  PROVE  \/ /\ call'.pc = "more" /\ call'.op = call.op
            /\ call'.frames = FirstFrames(n)
            /\ card'.pending.sent = n /\ card'.total = total /\ n < total
            /\ call.op = "discover" => n # 3
         \/ /\ call' = Idle
            /\ data' = FirstFrames(n) /\ card'.total = total
            /\ n = total \/ (call.op = "discover" /\ n = 3)
<1>1. n \in Nat \ {0} /\ total \in Nat /\ n <= total
  BY DEF Arrives
<1>2. Collect(n) = FirstFrames(n)
  <2>1. n - 1 \in Nat /\ (n - 1) + 1 = n
    BY <1>1
  <2> QED
    BY <2>1, OneMore DEF Arrives, Collect
<1>3. card \in Cards /\ call \in CallRecords
  BY DEF IInv, TypeOK
<1>4. /\ card'.total = total
      /\ HasMore <=> n < total
      /\ n < total => card'.pending.sent = n
  BY <1>1, <1>3 DEF Arrives, Framed, HasMore, MorePending, NothingPending, Cards
<1>5. CASE HasMore /\ ~(call.op = "discover" /\ n = 3)
  <2>1. call' = [call EXCEPT !.pc = "more", !.frames = FirstFrames(n)]
    BY <1>2, <1>5 DEF Arrives, FrameReceived
  <2> QED
    BY <1>3, <1>4, <1>5, <2>1 DEF CallRecords
<1>6. CASE ~(HasMore /\ ~(call.op = "discover" /\ n = 3))
  <2>1. call' = Idle /\ data' = FirstFrames(n)
    BY <1>2, <1>6 DEF Arrives, FrameReceived, Return
  <2> QED
    BY <1>1, <1>4, <1>6, <2>1
<1> QED
  BY <1>5, <1>6

LEMMA QueryShapeStep == IInv /\ QueryShape /\ [Next]_vars => QueryShape'
<1> SUFFICES ASSUME IInv, QueryShape, [Next]_vars PROVE QueryShape'
  OBVIOUS
<1>1. CASE FirstFrame \/ NextFrame
  <2>1. PICK n, total : Arrives(n, total)
    BY <1>1, Arrivals
  <2>2. n \in Nat \ {0} /\ (call.op = "discover" => n <= 3)
    BY <2>1 DEF Arrives
  <2> QED
    BY <2>1, <2>2, ArrivalKept DEF QueryShape, InQuery, Idle
<1>2. CASE CardReset
  <2>1. card'.pending.kind = "none" /\ call' = call
    BY <1>2 DEF CardReset, Selected, Forgetful, NothingPending, IInv, TypeOK, Cards
  <2> QED
    BY <2>1 DEF QueryShape, InQuery
<1>3. CASE Tick \/ UNCHANGED vars \/ \E ms \in Timeouts : SetDesfireSessionTimeout(ms)
  BY <1>3 DEF Tick, SetDesfireSessionTimeout, vars, QueryShape, InQuery
<1>4. CASE Start /\ ~\E ms \in Timeouts : SetDesfireSessionTimeout(ms)
  <2>1. call'.pc = "send" /\ call'.frames = <<>>
    BY <1>4 DEF Start, BeginSelect, BeginAuthenticate, BeginQuery, BeginExec, Begin, Idle
  <2> QED
    BY <2>1 DEF QueryShape, InQuery
<1>5. CASE ChallengeAnswered
  <2>1. call'.pc = "prove"
    BY <1>5 DEF ChallengeAnswered, IInv, TypeOK, CallRecords
  <2> QED
    BY <2>1 DEF QueryShape, InQuery
<1>6. CASE \/ SelectAnswered \/ SelectFailed \/ ChallengeFailed
           \/ ProofAnswered \/ ProofFailed \/ FrameFailed \/ Exec
  <2>1. ASSUME SelectAnswered \/ SelectFailed PROVE call' = Idle
    BY <2>1 DEF SelectAnswered, SelectFailed, Return
  <2>2. ASSUME ChallengeFailed PROVE call' = Idle
    BY <2>2 DEF ChallengeFailed, Return
  <2>3. ASSUME ProofAnswered PROVE call' = Idle
    BY <2>3 DEF ProofAnswered, Authenticated, Return
  <2>4. ASSUME ProofFailed PROVE call' = Idle
    BY <2>4 DEF ProofFailed, Return
  <2>5. ASSUME FrameFailed PROVE call' = Idle
    BY <2>5 DEF FrameFailed, GiveUp, Return
  <2>6. ASSUME Exec PROVE call' = Idle
    BY <2>6 DEF Exec, Return
  <2>7. Idle.pc = "idle"
    BY DEF Idle
  <2> QED
    BY <1>6, <2>1, <2>2, <2>3, <2>4, <2>5, <2>6, <2>7 DEF QueryShape, InQuery
<1> QED
  BY <1>1, <1>2, <1>3, <1>4, <1>5, <1>6 DEF Next, Progress

(* Only the arrival of a frame ends a query with Ok. *)
LEMMA QueryReturns ==
  ASSUME IInv, NEW op \in {"query", "discover"}, [Next]_vars, Returns(op, {"ok"})
  PROVE  FirstFrame \/ NextFrame
<1>1. call.op = op /\ call.pc # "idle" /\ call'.pc = "idle" /\ ret' = "ok"
  BY DEF Returns
<1>2. ~FrameFailed
  <2>1. \A reply \in {"error", "short", "thrown"} : Code(reply) # "ok"
    BY DEF Code
  <2> QED
    BY <1>1, <2>1 DEF FrameFailed, GiveUp, Return
<1>3. ~Start
  BY <1>1 DEF Start, BeginSelect, BeginAuthenticate, BeginQuery, BeginExec, Begin,
     SetDesfireSessionTimeout
<1>4. ~(CardReset \/ Tick \/ UNCHANGED vars)
  BY <1>1 DEF CardReset, Tick, vars
<1>5. ~(\/ SelectAnswered \/ SelectFailed \/ ChallengeAnswered \/ ChallengeFailed
        \/ ProofAnswered \/ ProofFailed \/ Exec)
  BY <1>1 DEF SelectAnswered, SelectFailed, ChallengeAnswered, ChallengeFailed,
     ProofAnswered, ProofFailed, Exec, Stage
<1> QED
  BY <1>2, <1>3, <1>4, <1>5 DEF Next, Progress

Complete ==
  /\ Returns("query", {"ok"}) => Answered(card'.total)
  /\ Returns("discover", {"ok"}) => Answered(IF card'.total < 3 THEN card'.total ELSE 3)

LEMMA CompleteStep == IInv /\ QueryShape /\ [Next]_vars => Complete
<1>1. ASSUME IInv, QueryShape, [Next]_vars, NEW op \in {"query", "discover"},
             Returns(op, {"ok"})
      PROVE  /\ op = "query" => Answered(card'.total)
             /\ op = "discover" => Answered(IF card'.total < 3 THEN card'.total ELSE 3)
  <2>1. PICK n, total : Arrives(n, total)
    BY <1>1, QueryReturns, Arrivals
  <2>2. call.op = op /\ call'.pc = "idle"
    BY <1>1 DEF Returns
  <2>3. /\ n \in Nat /\ total \in Nat /\ n <= total
        /\ op = "discover" => n <= 3
    BY <2>1, <2>2 DEF Arrives
  <2>4. /\ data' = FirstFrames(n) /\ card'.total = total
        /\ n = total \/ (op = "discover" /\ n = 3)
    BY <1>1, <2>1, <2>2, ArrivalKept
  <2>5. op = "query" => n = card'.total
    BY <2>4
  <2>6. op = "discover" => n = IF card'.total < 3 THEN card'.total ELSE 3
    BY <2>3, <2>4
  <2> QED
    BY <2>4, <2>5, <2>6 DEF Answered, FirstFrames
<1> QED
  BY <1>1 DEF Complete

(* A query that answers Ok returns the whole of the card's answer, however *)
(* long, and getVersion its first three frames, whatever is lost between.  *)
THEOREM QueriesComplete == Spec => QueryComplete
<1>1. Spec => []IInv
  BY InitInv, StepInv, PTL DEF Spec
<1>2. Init => QueryShape
  BY DEF Init, Idle, QueryShape, InQuery
<1>3. QueryComplete <=> [][Complete]_vars
  BY DEF QueryComplete, Complete
<1> HIDE DEF Complete
<1> QED
  BY <1>1, <1>2, <1>3, QueryShapeStep, CompleteStep, PTL DEF Spec
=============================================================================
