-------------------------------- MODULE Pcsc --------------------------------
(***************************************************************************)
(* The PC/SC layer (class PCSC): each object owns a context of the smart   *)
(* card service and, while it is connected, a handle of that context; the  *)
(* object is moved, released and destroyed by the program, the card comes  *)
(* and goes as its owner likes, and a command is answered in as many       *)
(* frames as the card has.  The service itself (SCard...) is external, and *)
(* so is the card.                                                         *)
(*                                                                         *)
(* A connection is shared (SCARD_SHARE_SHARED) and a command is not in a   *)
(* transaction: the card cannot tell the objects that send to it apart,    *)
(* and the command for the next frame does not name the answer it is of.   *)
(*                                                                         *)
(* Logging is part of the control: a LOG macro throws while the logger is  *)
(* not configured, and ends the call it stands in.                         *)
(***************************************************************************)
EXTENDS Integers, Sequences, FiniteSets

CONSTANTS
  Objects,     \* PCSC objects, each used by one thread
  Readers,     \* reader names
  NoName,      \* readerName_ is empty
  MaxIds,      \* bound on the contexts and handles ever opened
  MaxCards,    \* bound on the cards ever put on a reader
  MaxFrames,   \* bound on the frames of an answer
  Retries      \* values of maxRetries; 0 is for ever

ASSUME PcscBoundAssumption == MaxIds \in Nat /\ MaxCards \in Nat /\ MaxFrames \in Nat \ {0}
ASSUME RetriesAssumption == Retries \subseteq Nat
ASSUME NameAssumption == NoName \notin Readers

VARIABLES
  object,      \* the fields of each object, and whether it exists
  contexts,    \* the service: open contexts
  handles,     \* the service: open handle -> its context, reader and card
  lastId,      \* the last context or handle the service gave out; none is reused
  card,        \* the card in each reader, numbered as it was put there; 0 is none
  lastCard,
  chain,       \* the card in each reader: the frames it has still to send
  disturbed,   \* objects in a send during which another one has sent to their card
  logReady,    \* the logger's maps are filled
  task,        \* the call each object is in
  overwritten  \* handles that a second connect has overwritten in hCard_

service == <<contexts, handles, lastId>>
outside == <<card, lastCard, chain, disturbed, logReady>>
vars == <<object, service, outside, task, overwritten>>

Blank == [live |-> TRUE, ctx |-> 0, name |-> NoName, hcard |-> 0, connected |-> FALSE]
Gone == [Blank EXCEPT !.live = FALSE]
NoTask == [kind |-> "idle"]

Init ==
  /\ object = [p \in Objects |-> Gone]
  /\ contexts = {} /\ handles = <<>> /\ lastId = 0
  /\ card = [r \in Readers |-> 0] /\ lastCard = 0
  /\ chain = [r \in Readers |-> <<>>] /\ disturbed = {}
  /\ logReady \in BOOLEAN
  /\ task = [p \in Objects |-> NoTask]
  /\ overwritten = {}

Idle(p) == object[p].live /\ task[p] = NoTask
Open == DOMAIN handles
Keep(hs) == handles' = [h \in hs |-> handles[h]]

\* The card that was there when the handle was made still is.
Usable(h) == h \in Open /\ card[handles[h].reader] = handles[h].card

-----------------------------------------------------------------------------
(* Objects: construction, moves, context and reader.                       *)

Closed(p) == IF object[p].connected THEN {object[p].hcard} ELSE {}

\* SCardReleaseContext closes what is open in the context.
OfContext(c) == {h \in Open : handles[h].ctx = c}

Construct(p) ==
  /\ ~ object[p].live
  /\ object' = [object EXCEPT ![p] = Blank]
  /\ UNCHANGED <<service, outside, task, overwritten>>

\* cleanup: disconnect, then releaseContext.
CleanUp(p) ==
  /\ contexts' = contexts \ {object[p].ctx}
  /\ Keep(Open \ (Closed(p) \cup OfContext(object[p].ctx)))
  /\ UNCHANGED <<lastId, outside, task, overwritten>>

Destroy(p) ==
  /\ Idle(p)
  /\ CleanUp(p)
  /\ object' = [object EXCEPT ![p] = Gone]

FaultyMoveConstruct(p, q) ==
  /\ ~ object[p].live /\ Idle(q)
  /\ object' = [object EXCEPT ![p] = object[q]]
  /\ UNCHANGED <<service, outside, task, overwritten>>

\* The source keeps nothing that its destructor would close.
MoveConstruct(p, q) ==
  /\ ~ object[p].live /\ Idle(q)
  /\ object' = [object EXCEPT ![p] = object[q], ![q] = Blank]
  /\ UNCHANGED <<service, outside, task, overwritten>>

FaultyMoveAssign(p, q) ==
  /\ p # q /\ Idle(p) /\ Idle(q)
  /\ object' = [object EXCEPT ![p] = object[q], ![q] = Blank]
  /\ UNCHANGED <<service, outside, task, overwritten>>

\* What the target held is closed first.
MoveAssign(p, q) ==
  /\ p # q /\ Idle(p) /\ Idle(q)
  /\ CleanUp(p)
  /\ object' = [object EXCEPT ![p] = object[q], ![q] = Blank]

\* An object that has a context keeps it.
EstablishContext(p) ==
  /\ Idle(p) /\ object[p].ctx = 0 /\ lastId < MaxIds
  /\ lastId' = lastId + 1
  /\ contexts' = contexts \cup {lastId'}
  /\ object' = [object EXCEPT ![p].ctx = lastId']
  /\ UNCHANGED <<handles, outside, task, overwritten>>

\* releaseContext does not disconnect: the object stays connected, by a handle
\* that is closed.
ReleaseContext(p) ==
  /\ Idle(p) /\ object[p].ctx # 0
  /\ contexts' = contexts \ {object[p].ctx}
  /\ Keep(Open \ OfContext(object[p].ctx))
  /\ object' = [object EXCEPT ![p].ctx = 0]
  /\ UNCHANGED <<lastId, outside, task, overwritten>>

\* listReaders and the user's choice; a connection that is open is left alone.
ChooseReader(p) ==
  /\ Idle(p) /\ object[p].ctx # 0
  /\ \E r \in Readers : object' = [object EXCEPT ![p].name = r]
  /\ UNCHANGED <<service, outside, task, overwritten>>

-----------------------------------------------------------------------------
(* The connection.                                                         *)

\* A call that fails ends by false, an error or an exception, which the caller
\* is told and no field keeps.
Ends(p) == task' = [task EXCEPT ![p] = NoTask]

BeginConnect(p, retries) ==
  /\ Idle(p) /\ object[p].ctx # 0 /\ object[p].name # NoName
  /\ task' = [task EXCEPT ![p] = [kind |-> "connect", attempt |-> 0, max |-> retries]]
  /\ UNCHANGED <<object, service, outside, overwritten>>

\* SCardConnect succeeds: the object is connected before the line that may
\* throw.  A handle it held until now is open and forgotten.
Connected(p) ==
  LET r == object[p].name IN
  /\ card[r] # 0 /\ lastId < MaxIds
  /\ lastId' = lastId + 1
  /\ handles' = [h \in Open \cup {lastId'} |->
                   IF h \in Open THEN handles[h]
                   ELSE [ctx |-> object[p].ctx, reader |-> r, card |-> card[r]]]
  /\ object' = [object EXCEPT ![p].hcard = lastId', ![p].connected = TRUE]
  /\ overwritten' = overwritten \cup (Closed(p) \cap Open)
  /\ Ends(p)
  /\ UNCHANGED <<contexts, outside>>

EndlessNotConnected(p) ==
  /\ IF ~ logReady THEN Ends(p) ELSE UNCHANGED task
  /\ UNCHANGED <<object, overwritten, service, outside>>

\* It fails, for want of a card or for another reason, and may have cleared
\* the handle.  The failure is logged first: without a logger the first one
\* ends the call.
NotConnected(p) ==
  LET tried == task[p].attempt + 1
      max == task[p].max
  IN
  /\ \E h \in {object[p].hcard, 0} :
       /\ object' = [object EXCEPT ![p].hcard = h]
       /\ overwritten' = overwritten \cup (IF h = 0 THEN Closed(p) \cap Open ELSE {})
  /\ IF ~ logReady \/ (max > 0 /\ tried >= max) THEN Ends(p)
     ELSE task' = [task EXCEPT ![p].attempt = IF max = 0 THEN 0 ELSE tried]
  /\ UNCHANGED <<service, outside>>

Attempt(p) == task[p].kind = "connect" /\ (Connected(p) \/ NotConnected(p))

Disconnect(p) ==
  /\ Idle(p) /\ object[p].connected
  /\ Keep(Open \ Closed(p))
  /\ object' = [object EXCEPT ![p].hcard = 0, ![p].connected = FALSE]
  /\ UNCHANGED <<contexts, lastId, outside, task, overwritten>>

-----------------------------------------------------------------------------
(* Commands.  A frame is known by the object whose command it answers, and *)
(* its number in that answer; "answer" is what the card set out to send.   *)

BeginSend(p, follow) ==
  /\ Idle(p)
  /\ task' = [task EXCEPT ![p] = [kind |-> "send", follow |-> follow, cmd |-> "first",
                                  full |-> <<>>, answer |-> <<>>]]
  /\ UNCHANGED <<object, service, outside, overwritten>>

\* The command is logged before it is sent: without a logger nothing is sent.
\* connected_ is not looked at, and a failure leaves it as it is.
NotSent(p) ==
  /\ Ends(p)
  /\ disturbed' = disturbed \ {p}
  /\ UNCHANGED chain

At(p) == handles[object[p].hcard].reader

FaultyTakeFrame(p, answer, frames) ==
  LET taken == [task[p] EXCEPT !.answer = answer, !.full = Append(@, Head(frames))] IN
  /\ chain' = [chain EXCEPT ![At(p)] = Tail(frames)]
  /\ task' = [task EXCEPT ![p] = IF Tail(frames) # <<>> /\ ~ task[p].follow
                                 THEN [taken EXCEPT !.cmd = "next"]
                                 ELSE [taken EXCEPT !.kind = "sent"]]

\* Of the frames it has still to send the card sends the first, which is
\* appended; the status says whether there is another, which is fetched if the
\* caller follows the chain.
TakeFrame(p, answer, frames) ==
  LET taken == [task[p] EXCEPT !.answer = answer, !.full = Append(@, Head(frames))] IN
  /\ chain' = [chain EXCEPT ![At(p)] = Tail(frames)]
  /\ task' = [task EXCEPT ![p] = IF Tail(frames) # <<>> /\ task[p].follow
                                 THEN [taken EXCEPT !.cmd = "next"]
                                 ELSE [taken EXCEPT !.kind = "sent"]]

Sending(p) == task[p].kind = "send" /\ Usable(object[p].hcard)

\* What p sends to the card comes between the frames of any other object that
\* is sending to it.
Disturbed(p) == disturbed \cup {q \in Objects \ {p} : Sending(q) /\ At(q) = At(p)}

\* The frames the card has to send when the command arrives: those of a new
\* answer, in place of any it had still to send; or, for the command for the
\* next frame, the ones that are left.
ToSend(p) ==
  IF task[p].cmd = "first" THEN {[i \in 1 .. n |-> <<p, i>>] : n \in 1 .. MaxFrames}
  ELSE {chain[At(p)]} \ {<<>>}

Answered(p) ==
  /\ disturbed' = Disturbed(p)
  /\ \E frames \in ToSend(p) :
       TakeFrame(p, IF task[p].cmd = "first" THEN frames ELSE task[p].answer, frames)

FaultyRefused(p) ==
  /\ chain' = [chain EXCEPT ![At(p)] = <<>>]
  /\ task' = [task EXCEPT ![p] = IF @.full = <<>> THEN NoTask ELSE [@ EXCEPT !.kind = "sent"]]
  /\ disturbed' = Disturbed(p) \ {p}

\* Any other status is an error, and what came before it is dropped; an answer
\* without a status throws.  So ends, too, a command whose answer is lost on its
\* way, and the card may have more to send that nobody asks for.
Refused(p) ==
  /\ \E left \in {<<>>} \cup {Tail(frames) : frames \in ToSend(p)} :
       chain' = [chain EXCEPT ![At(p)] = left]
  /\ Ends(p)
  /\ disturbed' = Disturbed(p) \ {p}

Exchange(p) ==
  /\ task[p].kind = "send"
  /\ \/ NotSent(p)
     \/ logReady /\ Sending(p) /\ (Answered(p) \/ Refused(p))
  /\ UNCHANGED <<object, service, card, lastCard, logReady, overwritten>>

\* The caller takes the answer.
Return(p) ==
  /\ task[p].kind = "sent"
  /\ Ends(p)
  /\ disturbed' = disturbed \ {p}
  /\ UNCHANGED <<object, service, card, lastCard, chain, logReady, overwritten>>

-----------------------------------------------------------------------------
PlaceCard(r) ==
  /\ card[r] = 0 /\ lastCard < MaxCards
  /\ lastCard' = lastCard + 1
  /\ card' = [card EXCEPT ![r] = lastCard']
  /\ UNCHANGED <<object, service, chain, disturbed, logReady, task, overwritten>>

RemoveCard(r) ==
  /\ card[r] # 0
  /\ card' = [card EXCEPT ![r] = 0]
  /\ chain' = [chain EXCEPT ![r] = <<>>]
  /\ UNCHANGED <<object, service, lastCard, disturbed, logReady, task, overwritten>>

Owner(p) ==
  \/ Construct(p) \/ Destroy(p)
  \/ \E q \in Objects : MoveConstruct(p, q) \/ MoveAssign(p, q)
  \/ EstablishContext(p) \/ ReleaseContext(p) \/ ChooseReader(p)
  \/ Disconnect(p)
  \/ \E retries \in Retries : BeginConnect(p, retries)
  \/ \E follow \in BOOLEAN : BeginSend(p, follow)

Proceed(p) == Attempt(p) \/ Exchange(p) \/ Return(p)

Next ==
  \/ \E p \in Objects : Owner(p) \/ Proceed(p)
  \/ \E r \in Readers : PlaceCard(r) \/ RemoveCard(r)

Spec == Init /\ [][Next]_vars

\* A thread that is in a call goes on with it.
FairSpec == Spec /\ \A p \in Objects : WF_vars(Proceed(p))

-----------------------------------------------------------------------------
(* Properties.                                                             *)

\* Objects, service and calls are what they can be.
TypeOK ==
  /\ object \in [Objects -> [live : BOOLEAN, ctx : 0 .. MaxIds, name : Readers \cup {NoName},
                             hcard : 0 .. MaxIds, connected : BOOLEAN]]
  /\ contexts \subseteq 1 .. lastId /\ Open \subseteq 1 .. lastId /\ lastId \in 0 .. MaxIds
  /\ \A h \in Open : handles[h].ctx \in contexts
  /\ card \in [Readers -> 0 .. lastCard] /\ lastCard \in 0 .. MaxCards
  /\ \A p \in Objects :
       /\ task[p] # NoTask => object[p].live
       /\ task[p].kind = "connect" /\ task[p].max > 0 => task[p].attempt < task[p].max

Owns(p, h) == object[p].connected /\ object[p].hcard = h

\* Every context that is open is held by one object, and every handle by one
\* connected object and in that object's context, through moves, failures and
\* exceptions: so the destructors close all there is.  A handle is lost in one
\* way only, by connecting an object that is connected.
OpenIsOwned ==
  /\ TypeOK
  /\ \A c \in contexts : Cardinality({p \in Objects : object[p].ctx = c}) = 1
  /\ \A h \in Open \ overwritten : Cardinality({p \in Objects : Owns(p, h)}) = 1
  /\ \A p \in Objects : ~ object[p].live => object[p] = Gone
  /\ \A p \in Objects : Owns(p, object[p].hcard) /\ object[p].hcard \in Open =>
       handles[object[p].hcard].ctx = object[p].ctx

Ownership ==
  INSTANCE HandleOwnership
    WITH Handles <- 1 .. MaxIds,
         owners <- [h \in Open |-> {p \in Objects : Owns(p, h)}],
         connecting <- {p \in Objects : task[p].kind = "connect"}

\* The objects pass their handles on and close them as HandleOwnership says:
\* no call closes a handle of another object, and none but connectToCard loses
\* one.
HandlesChangeHands == Ownership!OwnSpec

\* A command whose exchanges no other object came between returns what the
\* card answered to it: every frame of it, in order, if it follows the chain,
\* and the first one if it does not; never a part that a refusal, a lost answer
\* or another card has cut short.
AnswerWhole ==
  \A p \in Objects : task[p].kind = "sent" /\ p \notin disturbed =>
    task[p].full = IF task[p].follow THEN task[p].answer ELSE <<Head(task[p].answer)>>

InCall(p) ==
  task[p].kind = "send" \/ (task[p].kind = "connect" /\ task[p].max > 0)

\* A bounded connect returns, and so does every command that no other object
\* disturbs: one that is disturbed may get frames of ever new answers.
CallsEnd == \A p \in Objects : InCall(p) ~> task[p] = NoTask \/ p \in disturbed
=============================================================================
