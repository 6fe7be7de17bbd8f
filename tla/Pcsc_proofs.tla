----------------------------- MODULE Pcsc_proofs -----------------------------
(***************************************************************************)
(* The PC/SC objects, for any number of objects and readers and whatever   *)
(* the card, the service and the logger do.                                *)
(*                                                                         *)
(* That what is open is owned is not inductive: it needs besides that no   *)
(* two objects hold the same context or handle (which is what the moves    *)
(* leave blank objects for), that no identifier an object still names is    *)
(* given out again, and that an object which is connecting keeps the       *)
(* context it began with.  Bound says this of the state, Tasks what a call  *)
(* in progress can be, and Places where handles and frames are.            *)
(*                                                                         *)
(* Of an answer it is that what an object has collected, followed by what  *)
(* the card has still to send, is what the card set out to send (Whole),   *)
(* as long as the handle is one to the same card and no other object sends *)
(* to it.                                                                  *)
(***************************************************************************)
EXTENDS Pcsc, FiniteSetTheorems, SequenceTheorems, TLAPS

Fields == [live : BOOLEAN, ctx : 0 .. MaxIds, name : Readers \cup {NoName},
           hcard : 0 .. MaxIds, connected : BOOLEAN]

Frames == Objects \X Nat
Connects == [kind : {"connect"}, attempt : Nat, max : Retries]
Sends == [kind : {"send", "sent"}, follow : BOOLEAN, cmd : {"first", "next"},
          full : Seq(Frames), answer : Seq(Frames)]
Tasks == {NoTask} \cup Connects \cup Sends

-----------------------------------------------------------------------------
(* The calls in progress                                                   *)

(* A task is known by its kind. *)
LEMMA ByKind ==
  ASSUME NEW t \in Tasks
  PROVE  /\ t.kind = "connect" => t \in Connects
         /\ t.kind \in {"send", "sent"} => t \in Sends
         /\ t = NoTask <=> t.kind = "idle"
<1>1. NoTask.kind = "idle"
  BY DEF NoTask
<1>2. t \in Connects => t.kind = "connect"
  BY DEF Connects
<1>3. t \in Sends => t.kind \in {"send", "sent"}
  BY DEF Sends
<1> QED
  BY <1>1, <1>2, <1>3 DEF Tasks

(* What the card sends: the frames of an answer of n frames. *)
LEMMA AnAnswer ==
  ASSUME NEW p \in Objects, NEW n \in 1 .. MaxFrames
  PROVE  LET answer == [i \in 1 .. n |-> <<p, i>>]
         IN  /\ answer \in Seq(Frames) /\ answer # <<>>
<1> DEFINE answer == [i \in 1 .. n |-> <<p, i>>]
<1>1. n \in Nat \ {0} /\ \A i \in 1 .. n : <<p, i>> \in Frames
  BY PcscBoundAssumption DEF Frames
<1>2. answer \in Seq(Frames) /\ Len(answer) = n
  BY <1>1
<1>3. answer # <<>>
  BY <1>1, <1>2
<1> QED
  BY <1>2, <1>3

(* To take the first of the frames that are left changes nothing of the    *)
(* whole.                                                                  *)
LEMMA KeepsWhole ==
  ASSUME NEW full \in Seq(Frames), NEW left \in Seq(Frames), left # <<>>
  PROVE  /\ Head(left) \in Frames /\ Tail(left) \in Seq(Frames)
         /\ Append(full, Head(left)) \in Seq(Frames)
         /\ Append(full, Head(left)) \o Tail(left) = full \o left
<1>1. Head(left) \in Frames /\ Tail(left) \in Seq(Frames)
  BY HeadTailProperties
<1>2. PICK frame \in Frames, tail \in Seq(Frames) : frame = Head(left) /\ tail = Tail(left)
  BY <1>1
<1>3. Append(full, frame) \in Seq(Frames) /\ Append(full, frame) = full \o <<frame>>
  BY AppendProperties, AppendIsConcat
<1>4. (full \o <<frame>>) \o tail = full \o (<<frame>> \o tail)
  BY ConcatAssociative
<1>5. <<frame>> \o tail = left
  <2>1. /\ <<frame>> \o tail \in Seq(Frames) /\ Len(<<frame>> \o tail) = Len(left)
        /\ \A i \in 1 .. Len(left) : (<<frame>> \o tail)[i] = left[i]
    BY <1>2, HeadTailProperties, ConcatProperties, LenProperties
  <2> QED
    BY <2>1, SeqEqual
<1> QED
  BY <1>1, <1>2, <1>3, <1>4, <1>5

(* The call after a frame: it waits for the next one, or has its answer. *)
After(t, u, answer, frames) ==
  /\ u.answer = answer /\ u.full = Append(t.full, Head(frames)) /\ u.follow = t.follow
  /\ IF Tail(frames) # <<>> /\ t.follow THEN u.kind = t.kind /\ u.cmd = "next" ELSE u.kind = "sent"

LEMMA FrameTaken ==
  ASSUME NEW p \in Objects, task \in [Objects -> Tasks], task[p] \in Sends,
         NEW answer \in Seq(Frames), NEW frames \in Seq(Frames), frames # <<>>,
         TakeFrame(p, answer, frames)
  PROVE  \E u \in Sends : task' = [task EXCEPT ![p] = u] /\ After(task[p], u, answer, frames)
<1>1. PICK full \in Seq(Frames) : full = Append(task[p].full, Head(frames))
  BY KeepsWhole DEF Sends
<1>2. PICK t \in Sends : t = task[p]
  OBVIOUS
<1> DEFINE taken == [t EXCEPT !.answer = answer, !.full = full]
           next == [taken EXCEPT !.cmd = "next"]
           sent == [taken EXCEPT !.kind = "sent"]
           u == IF Tail(frames) # <<>> /\ t.follow THEN next ELSE sent
<1>3. /\ next \in Sends /\ next.answer = answer /\ next.full = full /\ next.follow = t.follow
      /\ next.kind = t.kind /\ next.cmd = "next"
  BY DEF Sends
<1>4. /\ sent \in Sends /\ sent.answer = answer /\ sent.full = full /\ sent.follow = t.follow
      /\ sent.kind = "sent"
  BY DEF Sends
<1>5. task' = [task EXCEPT ![p] = u]
  <2>1. [t EXCEPT !.answer = answer, !.full = Append(@, Head(frames))]
           = [t EXCEPT !.answer = answer, !.full = full]
    BY <1>1, <1>2 DEF Sends
  <2> QED
    BY <1>2, <2>1, Zenon DEF TakeFrame
<1> HIDE DEF next, sent
<1>6. u \in Sends /\ After(t, u, answer, frames)
  BY <1>1, <1>2, <1>3, <1>4 DEF After
<1> QED
  BY <1>2, <1>5, <1>6, Zenon

LEMMA TriedAgain ==
  ASSUME NEW t \in Connects, NEW a \in Nat
  PROVE  [t EXCEPT !.attempt = a] \in Connects
  BY DEF Connects

LEMMA CallsBegin ==
  /\ \A m \in Retries : [kind |-> "connect", attempt |-> 0, max |-> m] \in Connects
  /\ \A follow \in BOOLEAN :
       [kind |-> "send", follow |-> follow, cmd |-> "first", full |-> <<>>, answer |-> <<>>] \in Sends
BY DEF Connects, Sends

-----------------------------------------------------------------------------
(* Objects o, contexts c and handles h of the service, the last identifier *)
(* l and the overwritten handles w, as they belong together                *)

Typed(o, c, h, l) ==
  /\ o \in [Objects -> Fields]
  /\ l \in 0 .. MaxIds /\ c \subseteq 1 .. l /\ DOMAIN h \subseteq 1 .. l
  /\ \A x \in DOMAIN h : h[x].ctx \in c

NoneOutlives(o) == \A p \in Objects : ~ o[p].live => o[p] = Gone
ContextsHeld(o, c) ==
  /\ \A p \in Objects : o[p].ctx # 0 => o[p].ctx \in c
  /\ \A x \in c : \E p \in Objects : o[p].ctx = x
  /\ \A p, q \in Objects : p # q /\ o[p].ctx # 0 => o[q].ctx # o[p].ctx
HandlesHeld(o, h, w) ==
  /\ \A x \in DOMAIN h : x \notin w => \E p \in Objects : o[p].connected /\ o[p].hcard = x
  /\ \A p \in Objects : o[p].connected /\ o[p].hcard \in DOMAIN h => h[o[p].hcard].ctx = o[p].ctx
HandlesApart(o, l) ==
  /\ \A p, q \in Objects : p # q /\ o[p].connected /\ o[q].connected /\ o[p].hcard # 0
                             => o[q].hcard # o[p].hcard
  /\ \A p \in Objects : o[p].hcard <= l

Bound(o, c, h, l, w) ==
  /\ Typed(o, c, h, l) /\ NoneOutlives(o) /\ ContextsHeld(o, c)
  /\ HandlesHeld(o, h, w) /\ HandlesApart(o, l)

Same == UNCHANGED <<object, contexts, handles, lastId, overwritten>>
Owned == Bound(object, contexts, handles, lastId, overwritten)

(* A blank object, an object that is gone, and what they hold: nothing.    *)
LEMMA BlankHolds ==
  /\ Blank \in Fields /\ Gone \in Fields
  /\ Blank.live = TRUE /\ Gone.live = FALSE
  /\ Blank.ctx = 0 /\ Gone.ctx = 0 /\ Blank.hcard = 0 /\ Gone.hcard = 0
  /\ Blank.connected = FALSE /\ Gone.connected = FALSE
<1>1. 0 \in 0 .. MaxIds
  BY PcscBoundAssumption
<1>2. /\ Blank \in Fields /\ Blank.live = TRUE /\ Blank.ctx = 0 /\ Blank.hcard = 0
      /\ Blank.connected = FALSE
  BY <1>1 DEF Blank, Fields
<1>3. \A b \in Fields : /\ [b EXCEPT !.live = FALSE] \in Fields
                        /\ [b EXCEPT !.live = FALSE].live = FALSE
                        /\ [b EXCEPT !.live = FALSE].ctx = b.ctx
                        /\ [b EXCEPT !.live = FALSE].hcard = b.hcard
                        /\ [b EXCEPT !.live = FALSE].connected = b.connected
  BY DEF Fields
<1> QED
  BY <1>2, <1>3 DEF Gone

(* An object that holds nothing may come and go. *)
LEMMA Blanked ==
  ASSUME NEW o, NEW c, NEW h, NEW l, NEW w, Bound(o, c, h, l, w),
         NEW p \in Objects, o[p] \in {Blank, Gone}, NEW b \in {Blank, Gone}
  PROVE  Bound([o EXCEPT ![p] = b], c, h, l, w)
<1> DEFINE n == [o EXCEPT ![p] = b]
<1>1. o \in [Objects -> Fields] /\ b \in Fields
  BY BlankHolds DEF Bound, Typed
<1>2. n \in [Objects -> Fields] /\ \A q \in Objects : n[q] = IF q = p THEN b ELSE o[q]
  BY <1>1
<1>3. /\ b.ctx = 0 /\ ~ b.connected /\ b.hcard = 0 /\ (~ b.live => b = Gone)
      /\ o[p].ctx = 0 /\ ~ o[p].connected /\ o[p].hcard = 0
  BY BlankHolds
<1> HIDE DEF n
<1>4. Typed(n, c, h, l) /\ l \in Nat
  BY <1>2, PcscBoundAssumption DEF Bound, Typed
<1>5. NoneOutlives(n)
  BY <1>2, <1>3 DEF Bound, NoneOutlives
<1>6. ContextsHeld(n, c)
  BY <1>2, <1>3, <1>4 DEF Bound, ContextsHeld, Typed
<1>7. HandlesHeld(n, h, w)
  BY <1>2, <1>3 DEF Bound, HandlesHeld
<1>8. HandlesApart(n, l)
  BY <1>2, <1>3, <1>4 DEF Bound, HandlesApart
<1> QED
  BY <1>4, <1>5, <1>6, <1>7, <1>8 DEF Bound, n

(* What an object holds may go to one that holds nothing. *)
LEMMA Moved ==
  ASSUME NEW o, NEW c, NEW h, NEW l, NEW w, Bound(o, c, h, l, w),
         NEW p \in Objects, NEW q \in Objects, p # q, o[p] \in {Blank, Gone}
  PROVE  Bound([o EXCEPT ![p] = o[q], ![q] = Blank], c, h, l, w)
<1> DEFINE n == [o EXCEPT ![p] = o[q], ![q] = Blank]
<1>1. o \in [Objects -> Fields]
  BY DEF Bound, Typed
<1>2. /\ n \in [Objects -> Fields]
      /\ n[p] = o[q] /\ n[q] = Blank /\ \A r \in Objects \ {p, q} : n[r] = o[r]
  BY <1>1, BlankHolds
<1>3. o[p].ctx = 0 /\ ~ o[p].connected /\ o[p].hcard = 0
  BY BlankHolds
<1> HIDE DEF n
<1>4. Typed(n, c, h, l) /\ l \in Nat
  BY <1>2, PcscBoundAssumption DEF Bound, Typed
<1>5. NoneOutlives(n)
  BY <1>2, <1>3, BlankHolds DEF Bound, NoneOutlives
<1>6. ContextsHeld(n, c)
  <2>1. \A x \in c : x # 0
    BY DEF Bound, Typed
  <2>2. \A r \in Objects : n[r].ctx # 0 => r # q /\ n[r].ctx = o[IF r = p THEN q ELSE r].ctx
    BY <1>2, BlankHolds
  <2>3. \A x \in c : \E r \in Objects : n[r].ctx = x
    BY <1>2, <1>3, <2>1 DEF Bound, ContextsHeld
  <2> QED
    BY <2>2, <2>3 DEF Bound, ContextsHeld
<1>7. HandlesHeld(n, h, w)
  <2>1. \A r \in Objects : n[r].connected
          => /\ r # q /\ n[r].ctx = o[IF r = p THEN q ELSE r].ctx
             /\ n[r].hcard = o[IF r = p THEN q ELSE r].hcard /\ o[IF r = p THEN q ELSE r].connected
    BY <1>2, BlankHolds
  <2>2. \A r \in Objects : o[r].connected
          => /\ r # p /\ n[IF r = q THEN p ELSE r].hcard = o[r].hcard
             /\ n[IF r = q THEN p ELSE r].connected
    BY <1>2, <1>3
  <2>3. \A x \in DOMAIN h : x \notin w => \E r \in Objects : n[r].connected /\ n[r].hcard = x
    BY <2>2 DEF Bound, HandlesHeld
  <2> QED
    BY <2>1, <2>3 DEF Bound, HandlesHeld
<1>8. HandlesApart(n, l)
  <2>1. \A r \in Objects : n[r].connected
          => /\ r # q
             /\ n[r].hcard = o[IF r = p THEN q ELSE r].hcard /\ o[IF r = p THEN q ELSE r].connected
    BY <1>2, BlankHolds
  <2>2. \A r \in Objects : n[r].hcard <= l
    BY <1>2, <1>4, BlankHolds DEF Bound, HandlesApart
  <2> QED
    BY <2>1, <2>2 DEF Bound, HandlesApart
<1> QED
  BY <1>4, <1>5, <1>6, <1>7, <1>8 DEF Bound, n

(* Cleaning an object up closes all that only it holds. *)
LEMMA CleanedUp ==
  ASSUME NEW o, NEW c, NEW h, NEW l, NEW w, Bound(o, c, h, l, w), NEW p \in Objects,
         NEW k, k \subseteq DOMAIN h,
         \A x \in DOMAIN h : x \notin k <=> \/ o[p].connected /\ x = o[p].hcard
                                            \/ h[x].ctx = o[p].ctx
  PROVE  Bound([o EXCEPT ![p] = Blank], c \ {o[p].ctx}, [x \in k |-> h[x]], l, w)
<1> DEFINE n == [o EXCEPT ![p] = Blank]
           d == c \ {o[p].ctx}
           g == [x \in k |-> h[x]]
<1>1. o \in [Objects -> Fields]
  BY DEF Bound, Typed
<1>2. n \in [Objects -> Fields] /\ \A q \in Objects : n[q] = IF q = p THEN Blank ELSE o[q]
  BY <1>1, BlankHolds
<1>3. DOMAIN g = k /\ \A x \in k : g[x] = h[x]
  OBVIOUS
<1> HIDE DEF n, g
<1>4. Typed(n, d, g, l) /\ l \in Nat
  <2>1. \A x \in k : g[x].ctx \in d
    BY <1>3 DEF Bound, Typed
  <2>2. d \subseteq 1 .. l /\ k \subseteq 1 .. l /\ l \in 0 .. MaxIds
    BY DEF Bound, Typed
  <2> QED
    BY <1>2, <1>3, <2>1, <2>2, PcscBoundAssumption DEF Typed
<1>5. NoneOutlives(n)
  BY <1>2, BlankHolds DEF Bound, NoneOutlives
<1>6. ContextsHeld(n, d)
  <2>1. \A x \in d : x \in c /\ x # o[p].ctx
    OBVIOUS
  <2>2. \A x \in d : \E q \in Objects : n[q].ctx = x
    BY <1>2, <2>1 DEF Bound, ContextsHeld
  <2>3. \A q \in Objects : n[q].ctx # 0 => q # p /\ n[q].ctx = o[q].ctx
    BY <1>2, BlankHolds
  <2> QED
    BY <2>2, <2>3 DEF Bound, ContextsHeld
<1>7. HandlesHeld(n, g, w)
  BY <1>2, <1>3, BlankHolds DEF Bound, HandlesHeld
<1>8. HandlesApart(n, l)
  BY <1>2, <1>4, BlankHolds DEF Bound, HandlesApart
<1> QED
  BY <1>4, <1>5, <1>6, <1>7, <1>8 DEF Bound, n, g

LEMMA EstablishOwned ==
  ASSUME Owned, NEW p \in Objects, EstablishContext(p)
  PROVE  Owned'
<1>1. /\ object \in [Objects -> Fields] /\ object[p].ctx = 0
      /\ lastId \in 0 .. MaxIds /\ lastId < MaxIds /\ lastId' = lastId + 1
      /\ contexts \subseteq 1 .. lastId /\ Open \subseteq 1 .. lastId
  BY DEF EstablishContext, Owned, Bound, Typed, Open
<1>2. /\ contexts' = contexts \cup {lastId'} /\ handles' = handles /\ overwritten' = overwritten
      /\ object' = [object EXCEPT ![p].ctx = lastId']
  BY DEF EstablishContext
<1>3. /\ lastId' \in 1 .. MaxIds /\ lastId' \notin contexts /\ lastId' \notin Open
      /\ 1 .. lastId \subseteq 1 .. lastId'
  BY <1>1, PcscBoundAssumption
<1>4. /\ object' \in [Objects -> Fields]
      /\ object'[p].ctx = lastId' /\ object'[p].live = object[p].live
      /\ object'[p].hcard = object[p].hcard /\ object'[p].connected = object[p].connected
      /\ \A q \in Objects : q # p => object'[q] = object[q]
  BY <1>1, <1>2, <1>3 DEF Fields
<1>5. Typed(object', contexts', handles', lastId')
  BY <1>1, <1>2, <1>3, <1>4 DEF Owned, Bound, Typed, Open
<1>6. NoneOutlives(object')
  BY <1>4 DEF EstablishContext, Idle, Owned, Bound, NoneOutlives
<1>7. ContextsHeld(object', contexts')
  <2>1. \A q \in Objects : q # p /\ object[q].ctx # 0 => object[q].ctx \in contexts
    BY DEF Owned, Bound, ContextsHeld
  <2>2. \A x \in contexts : x # 0
    BY <1>1
  <2>3. \A x \in contexts' : \E q \in Objects : object'[q].ctx = x
    BY <1>1, <1>2, <1>4, <2>2 DEF Owned, Bound, ContextsHeld
  <2>4. \A q, r \in Objects : q # r /\ object'[q].ctx # 0 => object'[r].ctx # object'[q].ctx
    BY <1>1, <1>3, <1>4, <2>1, <2>2 DEF Owned, Bound, ContextsHeld
  <2> QED
    BY <1>2, <1>4, <2>1, <2>3, <2>4 DEF ContextsHeld
<1>8. HandlesHeld(object', handles', overwritten')
  <2>1. \A x \in Open : handles[x].ctx # 0
    BY <1>1 DEF Owned, Bound, Typed, Open
  <2>2. object[p].connected => object[p].hcard \notin Open
    BY <1>1, <2>1 DEF Owned, Bound, HandlesHeld, Open
  <2> QED
    BY <1>2, <1>4, <2>2 DEF Owned, Bound, HandlesHeld, Open
<1>9. HandlesApart(object', lastId')
  BY <1>1, <1>4, PcscBoundAssumption DEF Owned, Bound, HandlesApart, Fields
<1> QED
  BY <1>5, <1>6, <1>7, <1>8, <1>9 DEF Owned, Bound

LEMMA ReleaseOwned ==
  ASSUME Owned, NEW p \in Objects, ReleaseContext(p)
  PROVE  Owned'
<1> DEFINE k == Open \ OfContext(object[p].ctx)
<1>1. /\ object \in [Objects -> Fields] /\ lastId \in 0 .. MaxIds
      /\ contexts' = contexts \ {object[p].ctx} /\ lastId' = lastId /\ overwritten' = overwritten
      /\ object' = [object EXCEPT ![p].ctx = 0] /\ handles' = [x \in k |-> handles[x]]
  BY DEF ReleaseContext, Keep, Owned, Bound, Typed
<1>2. /\ object' \in [Objects -> Fields]
      /\ object'[p].ctx = 0 /\ object'[p].live = object[p].live
      /\ object'[p].hcard = object[p].hcard /\ object'[p].connected = object[p].connected
      /\ \A q \in Objects : q # p => object'[q] = object[q]
  BY <1>1, PcscBoundAssumption DEF Fields
<1>3. /\ DOMAIN handles' = k /\ k \subseteq Open
      /\ \A x \in k : handles'[x] = handles[x] /\ handles[x].ctx # object[p].ctx
  BY <1>1 DEF OfContext
<1> HIDE DEF k
<1>4. Typed(object', contexts', handles', lastId')
  BY <1>1, <1>2, <1>3 DEF Owned, Bound, Typed, Open
<1>5. NoneOutlives(object')
  BY <1>2 DEF ReleaseContext, Idle, Owned, Bound, NoneOutlives
<1>6. ContextsHeld(object', contexts')
  <2>1. \A x \in contexts' : x \in contexts /\ x # object[p].ctx
    BY <1>1
  <2>2. \A x \in contexts' : \E q \in Objects : object'[q].ctx = x
    BY <1>2, <2>1 DEF Owned, Bound, ContextsHeld
  <2>3. \A q \in Objects : object'[q].ctx # 0 => q # p /\ object'[q].ctx = object[q].ctx
    BY <1>2
  <2> QED
    BY <1>1, <2>2, <2>3 DEF Owned, Bound, ContextsHeld
<1>7. HandlesHeld(object', handles', overwritten')
  <2>1. object[p].connected => object[p].hcard \notin k
    BY <1>3 DEF Owned, Bound, HandlesHeld, Open
  <2>2. \A x \in k : x \notin overwritten =>
          \E q \in Objects : object'[q].connected /\ object'[q].hcard = x
    BY <1>2, <1>3 DEF Owned, Bound, HandlesHeld, Open
  <2>3. \A q \in Objects : object'[q].connected /\ object'[q].hcard \in k =>
          handles'[object'[q].hcard].ctx = object'[q].ctx
    BY <1>2, <1>3, <2>1 DEF Owned, Bound, HandlesHeld, Open
  <2> QED
    BY <1>1, <1>3, <2>2, <2>3 DEF HandlesHeld
<1>8. HandlesApart(object', lastId')
  BY <1>1, <1>2 DEF Owned, Bound, HandlesApart
<1> QED
  BY <1>4, <1>5, <1>6, <1>7, <1>8 DEF Owned, Bound

LEMMA ChooseOwned ==
  ASSUME Owned, NEW p \in Objects, ChooseReader(p)
  PROVE  Owned'
<1>1. PICK r \in Readers : object' = [object EXCEPT ![p].name = r]
  BY DEF ChooseReader
<1>2. /\ object \in [Objects -> Fields] /\ object[p].live
      /\ contexts' = contexts /\ handles' = handles /\ lastId' = lastId /\ overwritten' = overwritten
  BY DEF ChooseReader, Idle, service, Owned, Bound, Typed
<1>3. /\ object' \in [Objects -> Fields]
      /\ \A q \in Objects : /\ object'[q].ctx = object[q].ctx /\ object'[q].hcard = object[q].hcard
                            /\ object'[q].connected = object[q].connected
                            /\ object'[q].live = object[q].live
      /\ \A q \in Objects : q # p => object'[q] = object[q]
  BY <1>1, <1>2 DEF Fields
<1>4. Typed(object', contexts', handles', lastId')
  BY <1>2, <1>3 DEF Owned, Bound, Typed
<1>5. NoneOutlives(object')
  BY <1>2, <1>3 DEF Owned, Bound, NoneOutlives
<1>6. ContextsHeld(object', contexts')
  BY <1>2, <1>3 DEF Owned, Bound, ContextsHeld
<1>7. HandlesHeld(object', handles', overwritten')
  BY <1>2, <1>3 DEF Owned, Bound, HandlesHeld
<1>8. HandlesApart(object', lastId')
  BY <1>2, <1>3 DEF Owned, Bound, HandlesApart
<1> QED
  BY <1>4, <1>5, <1>6, <1>7, <1>8 DEF Owned, Bound

LEMMA DisconnectOwned ==
  ASSUME Owned, NEW p \in Objects, Disconnect(p)
  PROVE  Owned'
<1> DEFINE k == Open \ Closed(p)
<1>1. /\ object \in [Objects -> Fields] /\ object[p].connected /\ object[p].live
      /\ contexts' = contexts /\ lastId' = lastId /\ overwritten' = overwritten
      /\ object' = [object EXCEPT ![p].hcard = 0, ![p].connected = FALSE]
      /\ handles' = [x \in k |-> handles[x]] /\ lastId \in Nat
  BY PcscBoundAssumption DEF Disconnect, Idle, Keep, Owned, Bound, Typed
<1>2. /\ object' \in [Objects -> Fields]
      /\ object'[p].ctx = object[p].ctx /\ object'[p].live = object[p].live
      /\ object'[p].hcard = 0 /\ ~ object'[p].connected
      /\ \A q \in Objects : q # p => object'[q] = object[q]
  <2>1. 0 \in 0 .. MaxIds
    BY PcscBoundAssumption
  <2> QED
    BY <1>1, <2>1 DEF Fields
<1>3. DOMAIN handles' = k /\ \A x \in k : x \in Open /\ x # object[p].hcard /\ handles'[x] = handles[x]
  BY <1>1 DEF Closed
<1> HIDE DEF k
<1>4. Typed(object', contexts', handles', lastId')
  BY <1>1, <1>2, <1>3 DEF Owned, Bound, Typed, Open
<1>5. NoneOutlives(object')
  BY <1>1, <1>2 DEF Owned, Bound, NoneOutlives
<1>6. ContextsHeld(object', contexts')
  <2>1. \A q \in Objects : object'[q].ctx = object[q].ctx
    BY <1>2
  <2> QED
    BY <1>1, <2>1 DEF Owned, Bound, ContextsHeld
<1>7. HandlesHeld(object', handles', overwritten')
  BY <1>1, <1>2, <1>3 DEF Owned, Bound, HandlesHeld, Open
<1>8. HandlesApart(object', lastId')
  BY <1>1, <1>2 DEF Owned, Bound, HandlesApart
<1> QED
  BY <1>4, <1>5, <1>6, <1>7, <1>8 DEF Owned, Bound

LEMMA ComesAndGoes ==
  ASSUME Owned, NEW p \in Objects,
         Construct(p) \/ Destroy(p) \/ (\E q \in Objects : MoveConstruct(p, q) \/ MoveAssign(p, q))
  PROVE  Owned'
<1>1. object \in [Objects -> Fields]
  BY DEF Owned, Bound, Typed
<1> DEFINE k == Open \ (Closed(p) \cup OfContext(object[p].ctx))
           clean == [object EXCEPT ![p] = Blank]
<1>2. Bound(clean, contexts \ {object[p].ctx}, [x \in k |-> handles[x]], lastId, overwritten)
  <2>1. k \subseteq DOMAIN handles
    BY DEF Open
  <2>2. \A x \in DOMAIN handles : x \notin k <=> \/ object[p].connected /\ x = object[p].hcard
                                                 \/ handles[x].ctx = object[p].ctx
    BY DEF Closed, OfContext, Open
  <2> HIDE DEF k
  <2> QED
    BY <2>1, <2>2, CleanedUp DEF Owned
<1>3. /\ clean[p] = Blank
      /\ [clean EXCEPT ![p] = Gone] = [object EXCEPT ![p] = Gone]
      /\ \A q \in Objects \ {p} : [clean EXCEPT ![p] = clean[q], ![q] = Blank]
                                    = [object EXCEPT ![p] = object[q], ![q] = Blank]
  BY <1>1
<1>0. ASSUME CleanUp(p)
      PROVE  Bound(clean, contexts', handles', lastId', overwritten')
  <2>1. /\ contexts' = contexts \ {object[p].ctx} /\ handles' = [x \in k |-> handles[x]]
        /\ lastId' = lastId /\ overwritten' = overwritten
    BY <1>0 DEF CleanUp, Keep
  <2> HIDE DEF clean, k
  <2> QED
    BY <1>2, <2>1
<1>4. CASE Construct(p)
  <2>1. object[p] \in {Blank, Gone}
    BY <1>4 DEF Construct, Owned, Bound, NoneOutlives
  <2> QED
    BY <1>4, <2>1, Blanked DEF Construct, service, Owned
<1>5. CASE Destroy(p)
  <2>1. Bound(clean, contexts', handles', lastId', overwritten')
    BY <1>0, <1>5 DEF Destroy
  <2> HIDE DEF clean
  <2>2. Bound([clean EXCEPT ![p] = Gone], contexts', handles', lastId', overwritten')
    BY <1>3, <2>1, Blanked
  <2> QED
    BY <1>3, <1>5, <2>2 DEF Destroy, Owned
<1>6. CASE \E q \in Objects : MoveConstruct(p, q)
  <2>1. PICK q \in Objects : MoveConstruct(p, q)
    BY <1>6
  <2>2. p # q /\ object[p] \in {Blank, Gone}
    BY <2>1 DEF MoveConstruct, Idle, Owned, Bound, NoneOutlives
  <2> QED
    BY <2>1, <2>2, Moved DEF MoveConstruct, service, Owned
<1>7. CASE \E q \in Objects : MoveAssign(p, q)
  <2>1. PICK q \in Objects : MoveAssign(p, q)
    BY <1>7
  <2>2. p # q /\ q \in Objects \ {p}
    BY <2>1 DEF MoveAssign
  <2>3. Bound(clean, contexts', handles', lastId', overwritten')
    BY <1>0, <2>1 DEF MoveAssign
  <2> HIDE DEF clean
  <2>4. Bound([clean EXCEPT ![p] = clean[q], ![q] = Blank], contexts', handles', lastId', overwritten')
    BY <1>3, <2>2, <2>3, Moved
  <2> QED
    BY <1>3, <2>1, <2>2, <2>4 DEF MoveAssign, Owned
<1> QED
  BY <1>4, <1>5, <1>6, <1>7

(* The handle that a connection gives is new, and in the object's context; *)
(* the one the object held before, if it is open, is overwritten.          *)
LEMMA ConnectedOwned ==
  ASSUME Owned, NEW p \in Objects, object[p].ctx # 0, object[p].live, Connected(p)
  PROVE  Owned'
<1> DEFINE e == [ctx |-> object[p].ctx, reader |-> object[p].name, card |-> card[object[p].name]]
<1>1. /\ object \in [Objects -> Fields] /\ lastId \in 0 .. MaxIds /\ lastId < MaxIds
      /\ lastId' = lastId + 1 /\ Open \subseteq 1 .. lastId /\ contexts \subseteq 1 .. lastId
      /\ contexts' = contexts
  BY DEF Connected, Owned, Bound, Typed, Open
<1>2. /\ object' = [object EXCEPT ![p].hcard = lastId', ![p].connected = TRUE]
      /\ overwritten' = overwritten \cup (Closed(p) \cap Open)
  BY DEF Connected
<1>3. handles' = [x \in Open \cup {lastId'} |-> IF x \in Open THEN handles[x] ELSE e]
  BY DEF Connected
<1>4. lastId' \in 1 .. MaxIds /\ lastId' \notin Open /\ 1 .. lastId \subseteq 1 .. lastId'
  BY <1>1, PcscBoundAssumption
<1>5. /\ DOMAIN handles' = Open \cup {lastId'} /\ handles'[lastId'].ctx = object[p].ctx
      /\ \A x \in Open : handles'[x] = handles[x]
  <2>1. e.ctx = object[p].ctx
    OBVIOUS
  <2> HIDE DEF e
  <2> QED
    BY <1>3, <1>4, <2>1
<1>6. /\ object' \in [Objects -> Fields]
      /\ object'[p].ctx = object[p].ctx /\ object'[p].live = object[p].live
      /\ object'[p].hcard = lastId' /\ object'[p].connected
      /\ \A q \in Objects : q # p => object'[q] = object[q]
  <2>1. lastId' \in 0 .. MaxIds
    BY <1>4
  <2> QED
    BY <1>1, <1>2, <2>1 DEF Fields
<1>7. Typed(object', contexts', handles', lastId')
  <2>1. object[p].ctx \in contexts
    BY DEF Owned, Bound, ContextsHeld
  <2>2. \A x \in DOMAIN handles' : handles'[x].ctx \in contexts
    BY <1>5, <2>1 DEF Owned, Bound, Typed, Open
  <2> QED
    BY <1>1, <1>4, <1>5, <1>6, <2>2 DEF Typed
<1>8. NoneOutlives(object')
  BY <1>6 DEF Owned, Bound, NoneOutlives
<1>9. ContextsHeld(object', contexts')
  <2>1. \A q \in Objects : object'[q].ctx = object[q].ctx
    BY <1>6
  <2> QED
    BY <1>1, <2>1 DEF Owned, Bound, ContextsHeld
<1>10. HandlesHeld(object', handles', overwritten')
  <2>1. \A x \in Open : x \notin overwritten' =>
          \E q \in Objects : object'[q].connected /\ object'[q].hcard = x
    <3>1. ASSUME NEW x \in Open, x \notin overwritten'
          PROVE  \E q \in Objects : object'[q].connected /\ object'[q].hcard = x
      <4>1. PICK q \in Objects : object[q].connected /\ object[q].hcard = x
        BY <1>2, <3>1 DEF Owned, Bound, HandlesHeld, Open
      <4>2. q # p
        BY <1>2, <3>1, <4>1 DEF Closed
      <4> QED
        BY <1>6, <4>1, <4>2
    <3> QED
      BY <3>1
  <2>2. \A q \in Objects \ {p} : object'[q].connected /\ object'[q].hcard \in DOMAIN handles' =>
          handles'[object'[q].hcard].ctx = object'[q].ctx
    <3>1. \A q \in Objects \ {p} : object[q].hcard <= lastId /\ object[q].hcard \in 0 .. MaxIds
      BY <1>1 DEF Owned, Bound, HandlesApart, Fields
    <3>2. \A q \in Objects \ {p} : object[q].hcard # lastId'
      BY <1>1, <3>1, PcscBoundAssumption
    <3>3. \A q \in Objects \ {p} : object[q].connected /\ object[q].hcard \in Open =>
            handles'[object[q].hcard].ctx = object[q].ctx
      BY <1>5 DEF Owned, Bound, HandlesHeld, Open
    <3> QED
      BY <1>5, <1>6, <3>2, <3>3
  <2> QED
    BY <1>5, <1>6, <2>1, <2>2 DEF HandlesHeld
<1>11. HandlesApart(object', lastId')
  <2>1. \A q \in Objects : object[q].hcard \in 0 .. MaxIds /\ object[q].hcard <= lastId
    BY <1>1 DEF Owned, Bound, HandlesApart, Fields
  <2>2. \A q \in Objects : object[q].hcard < lastId'
    BY <1>1, <2>1, PcscBoundAssumption
  <2>3. \A q \in Objects : object'[q].hcard <= lastId'
    BY <1>1, <1>4, <1>6, <2>1, <2>2, PcscBoundAssumption
  <2>4. \A q, r \in Objects :
          q # r /\ object'[q].connected /\ object'[r].connected /\ object'[q].hcard # 0
            => object'[r].hcard # object'[q].hcard
    <3>1. \A q \in Objects \ {p} : object'[q].hcard # lastId'
      BY <1>1, <1>6, <2>1, PcscBoundAssumption
    <3>2. \A q, r \in Objects \ {p} :
            q # r /\ object[q].connected /\ object[r].connected /\ object[q].hcard # 0
              => object[r].hcard # object[q].hcard
      BY DEF Owned, Bound, HandlesApart
    <3> QED
      BY <1>6, <3>1, <3>2
  <2> QED
    BY <2>3, <2>4 DEF HandlesApart
<1> QED
  BY <1>7, <1>8, <1>9, <1>10, <1>11 DEF Owned, Bound

(* A connection that fails may clear the field: its handle is overwritten. *)
LEMMA NotConnectedOwned ==
  ASSUME Owned, NEW p \in Objects, object[p].live, NotConnected(p)
  PROVE  Owned'
<1>1. PICK x \in {object[p].hcard, 0} :
        /\ object' = [object EXCEPT ![p].hcard = x]
        /\ overwritten' = overwritten \cup (IF x = 0 THEN Closed(p) \cap Open ELSE {})
  BY DEF NotConnected
<1>2. /\ object \in [Objects -> Fields] /\ lastId \in Nat
      /\ contexts' = contexts /\ handles' = handles /\ lastId' = lastId
  BY PcscBoundAssumption DEF NotConnected, service, Owned, Bound, Typed
<1>3. /\ object' \in [Objects -> Fields]
      /\ object'[p].ctx = object[p].ctx /\ object'[p].live = object[p].live
      /\ object'[p].hcard = x /\ object'[p].connected = object[p].connected
      /\ \A q \in Objects : q # p => object'[q] = object[q]
  <2>1. x \in 0 .. MaxIds
    BY <1>2, PcscBoundAssumption DEF Fields
  <2> QED
    BY <1>1, <1>2, <2>1 DEF Fields
<1>4. Typed(object', contexts', handles', lastId')
  BY <1>2, <1>3 DEF Owned, Bound, Typed
<1>5. NoneOutlives(object')
  BY <1>3 DEF Owned, Bound, NoneOutlives
<1>6. ContextsHeld(object', contexts')
  <2>1. \A q \in Objects : object'[q].ctx = object[q].ctx
    BY <1>3
  <2> QED
    BY <1>2, <2>1 DEF Owned, Bound, ContextsHeld
<1>7. HandlesHeld(object', handles', overwritten')
  <2>1. 0 \notin Open
    BY DEF Owned, Bound, Typed, Open
  <2>2. \A y \in Open : y \notin overwritten' =>
          \E q \in Objects : object'[q].connected /\ object'[q].hcard = y
    <3>1. ASSUME NEW y \in Open, y \notin overwritten'
          PROVE  \E q \in Objects : object'[q].connected /\ object'[q].hcard = y
      <4>1. PICK q \in Objects : object[q].connected /\ object[q].hcard = y
        BY <1>1, <3>1 DEF Owned, Bound, HandlesHeld, Open
      <4>2. q = p => x = object[p].hcard
        BY <1>1, <3>1, <4>1 DEF Closed
      <4> QED
        BY <1>3, <4>1, <4>2
    <3> QED
      BY <3>1
  <2>3. \A q \in Objects : object'[q].connected /\ object'[q].hcard \in Open =>
          handles[object'[q].hcard].ctx = object'[q].ctx
    BY <1>1, <1>3, <2>1 DEF Owned, Bound, HandlesHeld, Open
  <2> QED
    BY <1>2, <2>2, <2>3 DEF HandlesHeld, Open
<1>8. HandlesApart(object', lastId')
  BY <1>1, <1>2, <1>3 DEF Owned, Bound, HandlesApart
<1> QED
  BY <1>4, <1>5, <1>6, <1>7, <1>8 DEF Owned, Bound

-----------------------------------------------------------------------------
(* The invariant                                                           *)

Calls ==
  /\ task \in [Objects -> Tasks]
  /\ \A p \in Objects : task[p] # NoTask => object[p].live
  /\ \A p \in Objects : task[p].kind = "connect" =>
       /\ object[p].ctx # 0
       /\ task[p].max > 0 => task[p].attempt < task[p].max
CardsOK == card \in [Readers -> 0 .. lastCard] /\ lastCard \in 0 .. MaxCards

\* Handles are of readers and of cards that are or were there.
HandlesPlaced == \A h \in Open : handles[h].reader \in Readers /\ handles[h].card \in 1 .. lastCard
Places ==
  /\ chain \in [Readers -> Seq(Frames)]
  /\ HandlesPlaced
  /\ \A p \in Objects : task[p].kind = "connect" => object[p].name \in Readers

IInv == Owned /\ Calls /\ CardsOK /\ Places

(* What the program does with an object that is in no call.                *)
Changes(p) ==
  \/ Construct(p) \/ Destroy(p) \/ \E q \in Objects : MoveConstruct(p, q) \/ MoveAssign(p, q)
  \/ EstablishContext(p) \/ ReleaseContext(p) \/ ChooseReader(p) \/ Disconnect(p)

LEMMA NextCases ==
  ASSUME Next
  PROVE  \/ \E p \in Objects :
              \/ Changes(p) \/ Attempt(p) \/ Exchange(p) \/ Return(p)
              \/ \E retries \in Retries : BeginConnect(p, retries)
              \/ \E follow \in BOOLEAN : BeginSend(p, follow)
         \/ \E r \in Readers : PlaceCard(r) \/ RemoveCard(r)
  BY DEF Next, Owner, Proceed, Changes

(* An object that is in a call is not changed by another. *)
LEMMA ChangesKeep ==
  ASSUME IInv, NEW p \in Objects, Changes(p)
  PROVE  /\ UNCHANGED <<task, card, lastCard, chain, disturbed>>
         /\ \A q \in Objects : task[q] # NoTask => object'[q] = object[q]
         /\ Open' \subseteq Open /\ \A h \in Open' : handles'[h] = handles[h]
<1> USE DEF service, outside
<1>1. object \in [Objects -> Fields] /\ (task[p] # NoTask => object[p].live)
  BY DEF IInv, Owned, Bound, Typed, Calls
<1>2. CASE Construct(p) \/ Destroy(p)
  BY <1>1, <1>2 DEF Construct, Destroy, CleanUp, Keep, Open, Idle
<1>3. CASE \E q \in Objects : MoveConstruct(p, q) \/ MoveAssign(p, q)
  BY <1>1, <1>3 DEF MoveConstruct, MoveAssign, CleanUp, Keep, Open, Idle
<1>4. CASE EstablishContext(p) \/ ReleaseContext(p)
  BY <1>1, <1>4 DEF EstablishContext, ReleaseContext, Keep, Open, Idle
<1>5. CASE ChooseReader(p)
  BY <1>1, <1>5 DEF ChooseReader, Open, Idle
<1>6. CASE Disconnect(p)
  BY <1>1, <1>6 DEF Disconnect, Keep, Open, Idle
<1> QED
  BY <1>2, <1>3, <1>4, <1>5, <1>6 DEF Changes

LEMMA ChangesStep ==
  ASSUME IInv, NEW p \in Objects, Changes(p)
  PROVE  IInv'
<1>1. Owned'
  BY ComesAndGoes, EstablishOwned, ReleaseOwned, ChooseOwned, DisconnectOwned DEF Changes, IInv
<1>2. Calls'
  <2>1. \A q \in Objects : task[q].kind = "connect" => task[q] # NoTask
    BY ByKind DEF IInv, Calls
  <2> QED
    BY <2>1, ChangesKeep DEF IInv, Calls
<1>3. CardsOK'
  BY ChangesKeep DEF IInv, CardsOK
<1>4. Places'
  <2>1. HandlesPlaced'
    BY ChangesKeep DEF IInv, Places, HandlesPlaced
  <2>2. \A q \in Objects : task[q].kind = "connect" => task[q] # NoTask
    BY ByKind DEF IInv, Calls
  <2>3. \A q \in Objects : task'[q].kind = "connect" => object'[q].name \in Readers
    BY <2>2, ChangesKeep DEF IInv, Places
  <2> QED
    BY <2>1, <2>3, ChangesKeep DEF IInv, Places
<1> QED
  BY <1>1, <1>2, <1>3, <1>4 DEF IInv

(* A call that begins, goes on or ends changes the task of its object. *)
LEMMA TaskSet ==
  ASSUME IInv, NEW p \in Objects, NEW t \in Tasks, task' = [task EXCEPT ![p] = t],
         t # NoTask => object[p].live,
         t.kind = "connect" => object[p].ctx # 0 /\ (t.max > 0 => t.attempt < t.max),
         \A q \in Objects : object'[q].live = object[q].live /\ object'[q].ctx = object[q].ctx
  PROVE  Calls'
<1>1. task \in [Objects -> Tasks]
  BY DEF IInv, Calls
<1>2. task' \in [Objects -> Tasks] /\ \A q \in Objects : task'[q] = IF q = p THEN t ELSE task[q]
  BY <1>1
<1>3. \A q \in Objects : task'[q] # NoTask => object'[q].live
  BY <1>2 DEF IInv, Calls
<1>4. \A q \in Objects : task'[q].kind = "connect" =>
        object'[q].ctx # 0 /\ (task'[q].max > 0 => task'[q].attempt < task'[q].max)
  BY <1>2 DEF IInv, Calls
<1> QED
  BY <1>2, <1>3, <1>4 DEF Calls

(* The handles and the frames stay where they are. *)
LEMMA TaskPlaced ==
  ASSUME IInv, NEW p \in Objects, NEW t \in Tasks, task' = [task EXCEPT ![p] = t],
         t.kind = "connect" => object[p].name \in Readers,
         \A q \in Objects : object'[q].name = object[q].name,
         chain' \in [Readers -> Seq(Frames)], HandlesPlaced'
  PROVE  Places'
<1>1. task \in [Objects -> Tasks]
  BY DEF IInv, Calls
<1>2. \A q \in Objects : task'[q] = IF q = p THEN t ELSE task[q]
  BY <1>1
<1>3. \A q \in Objects : task'[q].kind = "connect" => object'[q].name \in Readers
  BY <1>2 DEF IInv, Places
<1> QED
  BY <1>3 DEF Places

LEMMA SameOwned == Owned /\ Same => Owned'
  BY DEF Owned, Same

(* A new handle is of the object's reader and of the card in it. *)
LEMMA ConnectedPlaced ==
  ASSUME IInv, NEW p \in Objects, object[p].name \in Readers, Connected(p)
  PROVE  /\ HandlesPlaced'
         /\ Open' = Open \cup {lastId'} /\ \A h \in Open : h # lastId' /\ handles'[h] = handles[h]
         /\ \A q \in Objects : object[q].hcard # lastId'
<1> DEFINE e == [ctx |-> object[p].ctx, reader |-> object[p].name, card |-> card[object[p].name]]
<1>1. /\ object \in [Objects -> Fields] /\ lastId \in Nat /\ lastId' = lastId + 1
      /\ Open \subseteq 1 .. lastId /\ lastCard' = lastCard
  BY PcscBoundAssumption DEF Connected, IInv, Owned, Bound, Typed, Open, outside
<1>2. handles' = [x \in Open \cup {lastId'} |-> IF x \in Open THEN handles[x] ELSE e]
  BY DEF Connected
<1>3. lastId' \notin Open
  BY <1>1
<1>4. e.reader \in Readers /\ e.card \in 1 .. lastCard
  BY PcscBoundAssumption DEF Connected, IInv, CardsOK
<1> HIDE DEF e
<1>5. Open' = Open \cup {lastId'} /\ handles'[lastId'] = e /\ \A h \in Open : handles'[h] = handles[h]
  BY <1>2, <1>3 DEF Open
<1>6. HandlesPlaced'
  BY <1>1, <1>4, <1>5 DEF HandlesPlaced, IInv, Places
<1>7. \A q \in Objects : object[q].hcard # lastId'
  BY <1>1, PcscBoundAssumption DEF IInv, Owned, Bound, HandlesApart, Fields
<1> QED
  BY <1>3, <1>5, <1>6, <1>7

LEMMA AttemptStep ==
  ASSUME IInv, NEW p \in Objects, Attempt(p)
  PROVE  IInv'
<1> USE DEF outside
<1>1. /\ task[p] \in Connects /\ object[p].ctx # 0 /\ object[p].live
      /\ UNCHANGED <<card, lastCard, chain>> /\ object[p].name \in Readers
  <2>1. task[p] \in Tasks /\ task[p].kind = "connect"
    BY DEF Attempt, IInv, Calls
  <2>2. task[p] # NoTask
    BY <2>1, ByKind
  <2> QED
    BY <2>1, <2>2, ByKind DEF Attempt, Connected, NotConnected, IInv, Calls, Places
<1>2. Owned'
  BY <1>1, ConnectedOwned, NotConnectedOwned DEF Attempt, IInv
<1>3. \A q \in Objects : /\ object'[q].live = object[q].live /\ object'[q].ctx = object[q].ctx
                         /\ object'[q].name = object[q].name
  <2>1. object \in [Objects -> Fields]
    BY DEF IInv, Owned, Bound, Typed
  <2>2. CASE Connected(p)
    BY <2>1, <2>2 DEF Connected, Fields
  <2>3. CASE NotConnected(p)
    BY <2>1, <2>3 DEF NotConnected, Fields
  <2> QED
    BY <2>2, <2>3 DEF Attempt
<1>4. \E t \in Tasks : /\ task' = [task EXCEPT ![p] = t]
                       /\ t.kind = "connect" => (t.max > 0 => t.attempt < t.max)
  <2>1. NoTask \in Tasks /\ NoTask.kind # "connect"
    BY ByKind DEF Tasks
  <2>2. ASSUME task' = [task EXCEPT ![p] = NoTask]
        PROVE  \E t \in Tasks : /\ task' = [task EXCEPT ![p] = t]
                                /\ t.kind = "connect" => (t.max > 0 => t.attempt < t.max)
    BY <2>1, <2>2
  <2>3. ASSUME NEW max, max = task[p].max, ~ (max > 0 /\ task[p].attempt + 1 >= max),
               task' = [task EXCEPT ![p].attempt = IF max = 0 THEN 0 ELSE task[p].attempt + 1]
        PROVE  \E t \in Tasks : /\ task' = [task EXCEPT ![p] = t]
                                /\ t.kind = "connect" => (t.max > 0 => t.attempt < t.max)
    <3> DEFINE a == IF max = 0 THEN 0 ELSE task[p].attempt + 1
               t == [task[p] EXCEPT !.attempt = a]
    <3>1. /\ max \in Nat /\ task[p].attempt \in Nat /\ a \in Nat
          /\ max > 0 => a < max
      BY <1>1, <2>3, RetriesAssumption DEF Connects
    <3> HIDE DEF a
    <3>2. t \in Connects /\ t.max = max /\ t.attempt = a
      BY <1>1, <2>3, <3>1 DEF Connects
    <3>3. task' = [task EXCEPT ![p] = t]
      BY <2>3 DEF IInv, Calls, a
    <3> HIDE DEF t
    <3> QED
      BY <3>1, <3>2, <3>3 DEF Tasks
  <2>4. Connected(p) => task' = [task EXCEPT ![p] = NoTask]
    BY DEF Connected, Ends
  <2>5. NotConnected(p) =>
          \/ task' = [task EXCEPT ![p] = NoTask]
          \/ /\ ~ (task[p].max > 0 /\ task[p].attempt + 1 >= task[p].max)
             /\ task' = [task EXCEPT ![p].attempt = IF task[p].max = 0 THEN 0 ELSE task[p].attempt + 1]
    BY DEF NotConnected, Ends
  <2> QED
    BY <2>2, <2>3, <2>4, <2>5 DEF Attempt
<1>5. Calls'
  BY <1>1, <1>3, <1>4, TaskSet
<1>6. CardsOK'
  BY <1>1 DEF IInv, CardsOK
<1>7. HandlesPlaced'
  <2>1. CASE Connected(p)
    BY <1>1, <2>1, ConnectedPlaced
  <2>2. CASE NotConnected(p)
    BY <1>1, <2>2 DEF NotConnected, service, Open, IInv, Places, HandlesPlaced
  <2> QED
    BY <2>1, <2>2 DEF Attempt
<1>8. Places'
  BY <1>1, <1>3, <1>4, <1>7, TaskPlaced DEF IInv, Places
<1> QED
  BY <1>2, <1>5, <1>6, <1>8 DEF IInv

(* A call that leaves the objects and the service alone. *)
LEMMA CallStep ==
  ASSUME IInv, NEW p \in Objects, NEW t \in Tasks, task' = [task EXCEPT ![p] = t],
         object[p].live,
         t.kind = "connect" => /\ object[p].ctx # 0 /\ (t.max > 0 => t.attempt < t.max)
                               /\ object[p].name \in Readers,
         Same, UNCHANGED <<card, lastCard>>, chain' \in [Readers -> Seq(Frames)]
  PROVE  IInv'
<1>1. Owned'
  BY SameOwned DEF IInv
<1>2. Calls'
  BY TaskSet DEF Same
<1>3. CardsOK'
  BY DEF IInv, CardsOK
<1>4. HandlesPlaced'
  BY DEF Same, Open, IInv, Places, HandlesPlaced
<1>5. Places'
  BY <1>4, TaskPlaced DEF Same
<1> QED
  BY <1>1, <1>2, <1>3, <1>5 DEF IInv

LEMMA BeginStep ==
  ASSUME IInv, NEW p \in Objects,
         \/ \E retries \in Retries : BeginConnect(p, retries)
         \/ \E follow \in BOOLEAN : BeginSend(p, follow)
  PROVE  IInv'
<1> USE DEF service, outside, Same
<1>0. chain \in [Readers -> Seq(Frames)]
  BY DEF IInv, Places
<1>1. CASE \E retries \in Retries : BeginConnect(p, retries)
  <2>1. PICK retries \in Retries : BeginConnect(p, retries)
    BY <1>1
  <2> DEFINE t == [kind |-> "connect", attempt |-> 0, max |-> retries]
  <2>2. t \in Tasks /\ t.attempt = 0 /\ t.max = retries
    BY CallsBegin DEF Tasks
  <2>3. object[p].live /\ object[p].ctx # 0 /\ task' = [task EXCEPT ![p] = t]
    BY <2>1 DEF BeginConnect, Idle
  <2>4. Same /\ UNCHANGED <<card, lastCard, chain>>
    BY <2>1 DEF BeginConnect
  <2>5. object[p].name \in Readers
    BY <2>1 DEF BeginConnect, IInv, Owned, Bound, Typed, Fields
  <2> HIDE DEF t, Same
  <2> QED
    BY <1>0, <2>2, <2>3, <2>4, <2>5, CallStep
<1>2. CASE \E follow \in BOOLEAN : BeginSend(p, follow)
  <2>1. PICK follow \in BOOLEAN : BeginSend(p, follow)
    BY <1>2
  <2> DEFINE t == [kind |-> "send", follow |-> follow, cmd |-> "first", full |-> <<>>, answer |-> <<>>]
  <2>2. t \in Tasks /\ t.kind = "send"
    BY CallsBegin DEF Tasks
  <2>3. object[p].live /\ task' = [task EXCEPT ![p] = t]
    BY <2>1 DEF BeginSend, Idle
  <2>4. Same /\ UNCHANGED <<card, lastCard, chain>>
    BY <2>1 DEF BeginSend
  <2> HIDE DEF t, Same
  <2> QED
    BY <1>0, <2>2, <2>3, <2>4, CallStep
<1> QED
  BY <1>1, <1>2

(* What can come of an exchange: the frames stay frames, and a frame that  *)
(* is taken is the first of those that are left of its answer.             *)
LeftOf(p, answer) ==
  IF task[p].cmd = "first" THEN answer ELSE chain[At(p)]

Took(p, answer) ==
  /\ answer \in Seq(Frames) /\ LeftOf(p, answer) \in Seq(Frames) /\ LeftOf(p, answer) # <<>>
  /\ task[p].cmd = "next" => answer = task[p].answer
  /\ TakeFrame(p, answer, LeftOf(p, answer))
  /\ disturbed' = Disturbed(p)

LEMMA Exchanged ==
  ASSUME IInv, NEW p \in Objects, Exchange(p)
  PROVE  /\ task[p] \in Sends /\ task[p].kind = "send"
         /\ \/ task' = [task EXCEPT ![p] = NoTask] /\ chain' = chain /\ disturbed' = disturbed \ {p}
            \/ /\ Sending(p) /\ At(p) \in Readers
               /\ \E left \in Seq(Frames) : chain' = [chain EXCEPT ![At(p)] = left]
               /\ task' = [task EXCEPT ![p] = NoTask] /\ disturbed' = Disturbed(p) \ {p}
            \/ /\ Sending(p) /\ At(p) \in Readers
               /\ \E answer \in Seq(Frames) : Took(p, answer)
<1>1. task[p] \in Sends /\ task[p].kind = "send"
  BY ByKind DEF Exchange, IInv, Calls
<1>2. CASE NotSent(p)
  BY <1>1, <1>2 DEF NotSent, Ends
<1>3. Sending(p) => At(p) \in Readers
  BY DEF Sending, Usable, At, IInv, Places, HandlesPlaced
<1>4. ASSUME Sending(p), NEW frames \in ToSend(p)
      PROVE  /\ frames \in Seq(Frames) /\ frames # <<>>
             /\ task[p].cmd = "next" => frames = chain[At(p)]
  <2>1. CASE task[p].cmd = "first"
    <3>1. PICK n \in 1 .. MaxFrames : frames = [i \in 1 .. n |-> <<p, i>>]
      BY <1>4, <2>1 DEF ToSend
    <3> QED
      BY <2>1, <3>1, AnAnswer
  <2>2. CASE task[p].cmd = "next"
    BY <1>3, <1>4, <2>2 DEF ToSend, IInv, Places
  <2> QED
    BY <1>1, <2>1, <2>2 DEF Sends
<1>5. CASE Sending(p) /\ Refused(p)
  <2>1. PICK left \in {<<>>} \cup {Tail(frames) : frames \in ToSend(p)} :
          chain' = [chain EXCEPT ![At(p)] = left]
    BY <1>5 DEF Refused
  <2>2. <<>> \in Seq(Frames)
    OBVIOUS
  <2>3. left \in Seq(Frames)
    BY <1>4, <1>5, <2>1, <2>2, HeadTailProperties
  <2> QED
    BY <1>1, <1>3, <1>5, <2>1, <2>3 DEF Refused, Ends
<1>6. CASE Sending(p) /\ Answered(p)
  <2>1. PICK frames \in ToSend(p) :
          TakeFrame(p, IF task[p].cmd = "first" THEN frames ELSE task[p].answer, frames)
    BY <1>6 DEF Answered
  <2>2. PICK answer \in Seq(Frames) :
          answer = IF task[p].cmd = "first" THEN frames ELSE task[p].answer
    BY <1>1, <1>4, <1>6 DEF Sends
  <2>3. TakeFrame(p, answer, frames) /\ disturbed' = Disturbed(p)
    BY <1>6, <2>1, <2>2, Zenon DEF Answered
  <2>4. LeftOf(p, answer) = frames /\ (task[p].cmd = "next" => answer = task[p].answer)
    BY <1>1, <1>4, <1>6, <2>2 DEF LeftOf, Sends
  <2>5. Took(p, answer)
    BY <1>4, <1>6, <2>3, <2>4 DEF Took
  <2> QED
    BY <1>1, <1>3, <1>6, <2>5
<1> QED
  BY <1>2, <1>5, <1>6 DEF Exchange

LEMMA TookFrames ==
  ASSUME IInv, NEW p \in Objects, task[p] \in Sends, At(p) \in Readers,
         NEW answer \in Seq(Frames), Took(p, answer)
  PROVE  /\ chain' \in [Readers -> Seq(Frames)]
         /\ chain' = [chain EXCEPT ![At(p)] = Tail(LeftOf(p, answer))]
         /\ \E u \in Sends : /\ task' = [task EXCEPT ![p] = u]
                            /\ After(task[p], u, answer, LeftOf(p, answer))
<1>1. PICK left \in Seq(Frames) : left = LeftOf(p, answer)
  BY DEF Took
<1>2. left # <<>> /\ TakeFrame(p, answer, left)
  BY <1>1 DEF Took
<1>3. Tail(left) \in Seq(Frames)
  BY <1>2, HeadTailProperties
<1>4. chain' = [chain EXCEPT ![At(p)] = Tail(left)]
  BY <1>2 DEF TakeFrame
<1>5. chain' \in [Readers -> Seq(Frames)]
  BY <1>3, <1>4 DEF IInv, Places
<1>6. task \in [Objects -> Tasks]
  BY DEF IInv, Calls
<1> QED
  BY <1>1, <1>2, <1>4, <1>5, <1>6, FrameTaken

LEMMA ExchangeStep ==
  ASSUME IInv, NEW p \in Objects, Exchange(p) \/ Return(p)
  PROVE  IInv'
<1> USE DEF service
<1>1. task \in [Objects -> Tasks] /\ object[p].live /\ chain \in [Readers -> Seq(Frames)]
  <2>1. task[p] \in Tasks /\ task[p].kind \in {"send", "sent"}
    BY DEF Exchange, Return, IInv, Calls
  <2> QED
    BY <2>1, ByKind DEF IInv, Calls, Places
<1>2. Same /\ UNCHANGED <<card, lastCard>>
  BY DEF Exchange, Return, Same
<1>3. NoTask \in Tasks /\ NoTask.kind # "connect"
  BY ByKind DEF Tasks
<1>4. /\ chain' \in [Readers -> Seq(Frames)]
      /\ \E t \in Tasks : task' = [task EXCEPT ![p] = t] /\ t.kind # "connect"
  <2>1. CASE /\ task' = [task EXCEPT ![p] = NoTask]
             /\ \/ chain' = chain
                \/ \E left \in Seq(Frames) : chain' = [chain EXCEPT ![At(p)] = left]
    BY <1>1, <1>3, <2>1
  <2>2. CASE Return(p)
    BY <2>1, <2>2 DEF Return, Ends
  <2>3. ASSUME task[p] \in Sends, At(p) \in Readers,
               NEW answer \in Seq(Frames), Took(p, answer)
        PROVE  /\ chain' \in [Readers -> Seq(Frames)]
               /\ \E t \in Tasks : task' = [task EXCEPT ![p] = t] /\ t.kind # "connect"
    <3>1. PICK u \in Sends : task' = [task EXCEPT ![p] = u]
      BY <2>3, TookFrames
    <3>2. u.kind # "connect" /\ u \in Tasks
      BY DEF Sends, Tasks
    <3> QED
      BY <2>3, <3>1, <3>2, TookFrames
  <2> QED
    BY <2>1, <2>2, <2>3, Exchanged
<1> QED
  BY <1>1, <1>2, <1>4, CallStep

LEMMA CardStep ==
  ASSUME IInv, NEW r \in Readers, PlaceCard(r) \/ RemoveCard(r)
  PROVE  IInv'
<1>1. Same /\ UNCHANGED task
  BY DEF PlaceCard, RemoveCard, service, Same
<1>2. Owned' /\ Calls'
  BY <1>1, SameOwned DEF Same, IInv, Calls
<1>3. CardsOK'
  BY PcscBoundAssumption DEF PlaceCard, RemoveCard, IInv, CardsOK
<1>4. lastCard \in Nat /\ lastCard' \in {lastCard, lastCard + 1}
  BY PcscBoundAssumption DEF PlaceCard, RemoveCard, IInv, CardsOK
<1>5. chain' \in [Readers -> Seq(Frames)]
  <2>1. <<>> \in Seq(Frames)
    OBVIOUS
  <2> QED
    BY <2>1 DEF PlaceCard, RemoveCard, IInv, Places
<1>6. HandlesPlaced'
  BY <1>1, <1>4 DEF Same, Open, IInv, Places, HandlesPlaced
<1>7. Places'
  BY <1>1, <1>5, <1>6 DEF Same, IInv, Places
<1> QED
  BY <1>2, <1>3, <1>7 DEF IInv

LEMMA IInvInit == Init => IInv
<1> SUFFICES ASSUME Init PROVE IInv
  OBVIOUS
<1>1. object = [p \in Objects |-> Gone] /\ \A p \in Objects : object[p] = Gone
  BY DEF Init
<1>2. contexts = {} /\ DOMAIN handles = {} /\ lastId = 0 /\ overwritten = {}
  BY DEF Init
<1>3. Typed(object, contexts, handles, lastId)
  BY <1>1, <1>2, BlankHolds, PcscBoundAssumption DEF Typed
<1>4. NoneOutlives(object) /\ ContextsHeld(object, contexts)
  BY <1>1, <1>2, BlankHolds DEF NoneOutlives, ContextsHeld
<1>5. HandlesHeld(object, handles, overwritten) /\ HandlesApart(object, lastId)
  BY <1>1, <1>2, BlankHolds DEF HandlesHeld, HandlesApart
<1>6. Calls
  <2>1. NoTask \in Tasks /\ NoTask.kind # "connect"
    BY ByKind DEF Tasks
  <2> QED
    BY <2>1 DEF Init, Calls
<1>7. CardsOK
  BY PcscBoundAssumption DEF Init, CardsOK
<1>8. Places
  <2>1. <<>> \in Seq(Frames)
    OBVIOUS
  <2>2. \A p \in Objects : task[p].kind # "connect"
    BY ByKind DEF Init, NoTask
  <2> QED
    BY <1>2, <2>1, <2>2 DEF Init, Places, HandlesPlaced, Open
<1> QED
  BY <1>3, <1>4, <1>5, <1>6, <1>7, <1>8 DEF IInv, Owned, Bound

LEMMA IInvNext == IInv /\ [Next]_vars => IInv'
<1>1. ASSUME IInv, Next PROVE IInv'
  BY <1>1, NextCases, ChangesStep, AttemptStep, BeginStep, ExchangeStep, CardStep
<1>2. ASSUME IInv, UNCHANGED vars PROVE IInv'
  <2>1. Same /\ UNCHANGED <<task, card, lastCard, chain>>
    BY <1>2 DEF vars, service, outside, Same
  <2>2. Owned'
    BY <1>2, <2>1, SameOwned DEF IInv
  <2>3. Calls' /\ CardsOK' /\ Places'
    BY <1>2, <2>1 DEF Same, IInv, Calls, CardsOK, Places, HandlesPlaced, Open
  <2> QED
    BY <2>2, <2>3 DEF IInv
<1> QED
  BY <1>1, <1>2

LEMMA Invariant == Spec => []IInv
  BY IInvInit, IInvNext, PTL DEF Spec

LEMMA InvTypeOK == IInv => TypeOK
<1> SUFFICES ASSUME IInv PROVE TypeOK
  OBVIOUS
<1>1. \A p \in Objects : task[p].kind = "connect" /\ task[p].max > 0 => task[p].attempt < task[p].max
  BY DEF IInv, Calls
<1> QED
  BY <1>1 DEF IInv, Owned, Bound, Typed, Calls, CardsOK, TypeOK, Open, Fields

(* Objects, the service and the calls stay what they can be, whatever order *)
(* the program constructs, moves, connects and destroys PCSC objects in.   *)
THEOREM TypeCorrect == Spec => []TypeOK
  BY Invariant, InvTypeOK, PTL

(* Every open context is held by exactly one PCSC object and every open     *)
(* handle that no second connect has overwritten by exactly one connected   *)
(* object, through moves, failures and exceptions of the logger: the       *)
(* destructors of the objects that are left close all that is open.        *)
THEOREM OpenStaysOwned == Spec => []OpenIsOwned
<1>1. ASSUME IInv PROVE OpenIsOwned
  <2>1. Typed(object, contexts, handles, lastId) /\ ContextsHeld(object, contexts)
    BY <1>1 DEF IInv, Owned, Bound
  <2>2. ASSUME NEW c \in contexts
        PROVE  Cardinality({p \in Objects : object[p].ctx = c}) = 1
    <3>1. PICK p \in Objects : object[p].ctx = c
      BY <2>1 DEF ContextsHeld
    <3>2. c # 0
      BY <2>1 DEF Typed
    <3>3. {q \in Objects : object[q].ctx = c} = {p}
      BY <2>1, <3>1, <3>2 DEF ContextsHeld
    <3> QED
      BY <3>3, FS_Singleton
  <2>3. ASSUME NEW h \in Open \ overwritten
        PROVE  Cardinality({p \in Objects : Owns(p, h)}) = 1
    <3>1. PICK p \in Objects : object[p].connected /\ object[p].hcard = h
      BY <1>1 DEF IInv, Owned, Bound, HandlesHeld, Open
    <3>2. h # 0
      BY <2>1 DEF Typed, Open
    <3>3. {q \in Objects : Owns(q, h)} = {p}
      BY <1>1, <3>1, <3>2 DEF Owns, IInv, Owned, Bound, HandlesApart
    <3> QED
      BY <3>3, FS_Singleton
  <2>4. \A p \in Objects : ~ object[p].live => object[p] = Gone
    BY <1>1 DEF IInv, Owned, Bound, NoneOutlives
  <2>5. \A p \in Objects : Owns(p, object[p].hcard) /\ object[p].hcard \in Open =>
          handles[object[p].hcard].ctx = object[p].ctx
    BY <1>1 DEF Owns, IInv, Owned, Bound, HandlesHeld, Open
  <2> QED
    BY <1>1, <2>2, <2>3, <2>4, <2>5, InvTypeOK DEF OpenIsOwned
<1> QED
  BY <1>1, Invariant, PTL

(* What an object collects and what the card has still to send. *)
Whole(p) ==
  /\ task[p].kind = "send" /\ task[p].cmd = "first" => task[p].full = <<>>
  /\ task[p].kind = "send" /\ task[p].cmd = "next" /\ p \notin disturbed =>
       /\ task[p].follow
       /\ Usable(object[p].hcard) => task[p].full \o chain[At(p)] = task[p].answer
  /\ task[p].kind = "sent" /\ p \notin disturbed =>
       task[p].full = IF task[p].follow THEN task[p].answer ELSE <<Head(task[p].answer)>>

Answers == \A p \in Objects : Whole(p)

(* An object whose call another one leaves alone: if it is not disturbed,   *)
(* its card is the same as before and has the same frames to send.         *)
Undisturbed(q) ==
  /\ q \in disturbed => q \in disturbed'
  /\ task[q].kind = "send" /\ q \notin disturbed' /\ Usable(object[q].hcard)' =>
       /\ Usable(object[q].hcard)
       /\ At(q)' = At(q) /\ chain'[At(q)] = chain[At(q)]

LEMMA StaysWhole ==
  ASSUME NEW q \in Objects, Whole(q), task'[q] = task[q], Undisturbed(q)
  PROVE  Whole(q)'
BY DEF Whole, Undisturbed

(* The same card, seen through the same handle. *)
LEMMA SameCard ==
  ASSUME NEW q \in Objects, object'[q] = object[q], UNCHANGED <<chain, disturbed>>,
         object[q].hcard \in Open' => /\ object[q].hcard \in Open
                                      /\ handles'[object[q].hcard] = handles[object[q].hcard],
         Usable(object[q].hcard)' => card'[At(q)'] = card[At(q)']
  PROVE  Undisturbed(q)
BY DEF Undisturbed, Usable, At

LEMMA ChangesWhole ==
  ASSUME IInv, Answers, NEW p \in Objects, Changes(p)
  PROVE  Answers'
<1> SUFFICES ASSUME NEW q \in Objects PROVE Whole(q)'
  BY DEF Answers
<1>1. task' = task /\ Whole(q)
  BY ChangesKeep DEF Answers
<1>2. CASE task[q] = NoTask
  BY <1>1, <1>2 DEF Whole, NoTask
<1>3. CASE task[q] # NoTask
  <2>1. Undisturbed(q)
    BY <1>3, ChangesKeep, SameCard
  <2> QED
    BY <1>1, <2>1, StaysWhole
<1> QED
  BY <1>2, <1>3

LEMMA AttemptWhole ==
  ASSUME IInv, Answers, NEW p \in Objects, Attempt(p)
  PROVE  Answers'
<1> SUFFICES ASSUME NEW q \in Objects PROVE Whole(q)'
  BY DEF Answers
<1>1. /\ task[p] \in Connects /\ object[p].name \in Readers /\ UNCHANGED <<card, chain, disturbed>>
      /\ task \in [Objects -> Tasks] /\ object \in [Objects -> Fields] /\ Whole(q)
  BY ByKind DEF Attempt, Connected, NotConnected, outside, IInv, Calls, Places, Owned, Bound, Typed, Answers
<1>2. CASE q = p
  <2>1. ASSUME NEW n, task' = [task EXCEPT ![p].attempt = n]
        PROVE  task'[p].kind = "connect"
    BY <1>1, <2>1 DEF Connects
  <2>2. \/ task' = [task EXCEPT ![p] = NoTask]
        \/ \E n : task' = [task EXCEPT ![p].attempt = n]
    BY DEF Attempt, Connected, NotConnected, Ends
  <2>3. task'[q].kind \notin {"send", "sent"}
    BY <1>1, <1>2, <2>1, <2>2 DEF NoTask
  <2> QED
    BY <2>3 DEF Whole
<1>3. CASE q # p
  <2>1. task'[q] = task[q] /\ object'[q] = object[q]
    BY <1>1, <1>3 DEF Attempt, Connected, NotConnected, Ends
  <2>2. object[q].hcard \in Open' => /\ object[q].hcard \in Open
                                     /\ handles'[object[q].hcard] = handles[object[q].hcard]
    <3>1. CASE Connected(p)
      BY <1>1, <3>1, ConnectedPlaced
    <3>2. CASE NotConnected(p)
      BY <3>2 DEF NotConnected, service, Open
    <3> QED
      BY <3>1, <3>2 DEF Attempt
  <2>3. Undisturbed(q)
    BY <1>1, <2>1, <2>2, SameCard
  <2> QED
    BY <1>1, <2>1, <2>3, StaysWhole
<1> QED
  BY <1>2, <1>3

LEMMA BeginWhole ==
  ASSUME IInv, Answers, NEW p \in Objects,
         \/ \E retries \in Retries : BeginConnect(p, retries)
         \/ \E follow \in BOOLEAN : BeginSend(p, follow)
  PROVE  Answers'
<1> SUFFICES ASSUME NEW q \in Objects PROVE Whole(q)'
  BY DEF Answers
<1> USE DEF service, outside
<1>1. /\ task \in [Objects -> Tasks] /\ Whole(q) /\ UNCHANGED <<object, handles, card, chain, disturbed>>
  BY DEF BeginConnect, BeginSend, IInv, Calls, Answers
<1>2. CASE q = p
  <2>1. \/ task'[q].kind = "connect"
        \/ task'[q].kind = "send" /\ task'[q].cmd = "first" /\ task'[q].full = <<>>
    BY <1>1, <1>2 DEF BeginConnect, BeginSend
  <2> QED
    BY <2>1 DEF Whole
<1>3. CASE q # p
  <2>1. task'[q] = task[q]
    BY <1>1, <1>3 DEF BeginConnect, BeginSend
  <2>2. Undisturbed(q)
    BY <1>1, SameCard DEF Open
  <2> QED
    BY <1>1, <2>1, <2>2, StaysWhole
<1> QED
  BY <1>2, <1>3

(* Whoever sends to the card of another one disturbs it. *)
LEMMA OthersWhole ==
  ASSUME IInv, Answers, NEW p \in Objects, NEW q \in Objects, q # p, NEW left,
         UNCHANGED <<object, handles, card>>, task'[q] = task[q],
         \/ chain' = chain /\ disturbed' = disturbed \ {p}
         \/ /\ At(p) \in Readers /\ chain' = [chain EXCEPT ![At(p)] = left]
            /\ disturbed' = Disturbed(p) \/ disturbed' = Disturbed(p) \ {p}
  PROVE  Whole(q)'
<1>1. q \in disturbed => q \in disturbed'
  BY DEF Disturbed
<1>2. Usable(object[q].hcard)' <=> Usable(object[q].hcard)
  BY DEF Usable, Open
<1>3. At(q)' = At(q)
  BY DEF At
<1>4. ASSUME task[q].kind = "send", q \notin disturbed', Usable(object[q].hcard)
      PROVE  chain'[At(q)] = chain[At(q)]
  <2>1. CASE chain' = chain
    BY <2>1
  <2>2. CASE /\ chain' = [chain EXCEPT ![At(p)] = left]
             /\ disturbed' = Disturbed(p) \/ disturbed' = Disturbed(p) \ {p}
    <3>1. At(q) # At(p)
      BY <1>4, <2>2 DEF Disturbed, Sending
    <3>2. chain \in [Readers -> Seq(Frames)] /\ At(q) \in Readers
      BY <1>4 DEF IInv, Places, HandlesPlaced, Usable, At
    <3> QED
      BY <2>2, <3>1, <3>2
  <2> QED
    BY <2>1, <2>2
<1>5. Undisturbed(q)
  BY <1>1, <1>2, <1>3, <1>4 DEF Undisturbed
<1> QED
  BY <1>5, StaysWhole DEF Answers

(* A frame that is taken keeps the answer whole, and completes it when it   *)
(* is the last one.                                                        *)
LEMMA TookWhole ==
  ASSUME IInv, Answers, NEW p \in Objects, task[p] \in Sends, task[p].kind = "send",
         Sending(p), At(p) \in Readers, UNCHANGED <<object, handles, card>>,
         NEW answer \in Seq(Frames), Took(p, answer)
  PROVE  Whole(p)'
<1> DEFINE left == LeftOf(p, answer)
<1>1. /\ left \in Seq(Frames) /\ left # <<>> /\ chain' = [chain EXCEPT ![At(p)] = Tail(left)]
      /\ p \notin disturbed' => p \notin disturbed
      /\ task[p].full \in Seq(Frames) /\ task[p].cmd \in {"first", "next"} /\ task[p].follow \in BOOLEAN
  BY TookFrames DEF Took, Disturbed, Sends
<1>2. PICK u \in Sends : /\ task' = [task EXCEPT ![p] = u]
                         /\ After(task[p], u, answer, left)
  BY TookFrames
<1>3. task'[p] = u /\ u.full \in Seq(Frames)
  BY <1>2 DEF IInv, Calls, Sends
<1>4. chain'[At(p)] = Tail(left) /\ At(p)' = At(p)
  <2>1. chain \in [Readers -> Seq(Frames)]
    BY DEF IInv, Places
  <2> QED
    BY <1>1, <2>1 DEF At
<1>5. p \notin disturbed' => /\ task[p].full \o left = answer
                             /\ ~ task[p].follow => task[p].full = <<>> /\ left = answer
  <2>1. Whole(p)
    BY DEF Answers
  <2>2. CASE task[p].cmd = "first"
    <3>1. task[p].full = <<>> /\ left = answer
      BY <2>1, <2>2 DEF Whole, LeftOf
    <3>2. <<>> \o answer = answer
      BY ConcatEmptySeq
    <3> HIDE DEF left
    <3> QED
      BY <3>1, <3>2
  <2>3. CASE task[p].cmd = "next"
    <3>1. left = chain[At(p)] /\ answer = task[p].answer
      BY <2>3 DEF LeftOf, Took
    <3>2. Usable(object[p].hcard)
      BY DEF Sending
    <3>3. p \notin disturbed' => task[p].follow /\ task[p].full \o chain[At(p)] = task[p].answer
      BY <1>1, <2>1, <2>3, <3>2 DEF Whole
    <3> HIDE DEF left
    <3> QED
      BY <3>1, <3>3
  <2> QED
    BY <1>1, <2>2, <2>3
<1> HIDE DEF left
<1>6. /\ u.answer = answer /\ u.full = Append(task[p].full, Head(left)) /\ u.follow = task[p].follow
      /\ IF Tail(left) # <<>> /\ task[p].follow THEN u.kind = "send" /\ u.cmd = "next" ELSE u.kind = "sent"
  BY <1>2 DEF After
<1>7. u.full \o Tail(left) = task[p].full \o left
  BY <1>1, <1>6, KeepsWhole
<1>8. CASE Tail(left) # <<>> /\ task[p].follow
  <2>1. p \notin disturbed' => u.full \o chain'[At(p)'] = u.answer
    BY <1>4, <1>5, <1>6, <1>7
  <2> QED
    BY <1>3, <1>6, <1>8, <2>1 DEF Whole
<1>9. CASE Tail(left) = <<>> /\ task[p].follow
  <2>1. u.full \o <<>> = u.full
    BY <1>3, ConcatEmptySeq
  <2>2. p \notin disturbed' => u.full = u.answer
    BY <1>1, <1>5, <1>6, <1>7, <1>9, <2>1
  <2> QED
    BY <1>3, <1>6, <1>9, <2>2 DEF Whole
<1>10. CASE ~ task[p].follow
  <2>1. Append(<<>>, Head(left)) = <<Head(left)>>
    OBVIOUS
  <2>2. p \notin disturbed' => u.full = <<Head(u.answer)>>
    BY <1>5, <1>6, <1>10, <2>1
  <2> QED
    BY <1>3, <1>6, <1>10, <2>2 DEF Whole
<1> QED
  BY <1>8, <1>9, <1>10

LEMMA ExchangeWhole ==
  ASSUME IInv, Answers, NEW p \in Objects, Exchange(p) \/ Return(p)
  PROVE  Answers'
<1> SUFFICES ASSUME NEW q \in Objects PROVE Whole(q)'
  BY DEF Answers
<1>1. task \in [Objects -> Tasks] /\ UNCHANGED <<object, handles, card>>
  BY DEF Exchange, Return, service, IInv, Calls
<1>2. ASSUME task' = [task EXCEPT ![p] = NoTask]
      PROVE  Whole(p)' /\ (q # p => task'[q] = task[q])
  BY <1>1, <1>2 DEF NoTask, Whole
<1>3. CASE Return(p)
  <2>1. task' = [task EXCEPT ![p] = NoTask] /\ chain' = chain /\ disturbed' = disturbed \ {p}
    BY <1>3 DEF Return, Ends
  <2> QED
    BY <1>1, <1>2, <2>1, OthersWhole
<1>4. ASSUME task[p] \in Sends, task[p].kind = "send", Sending(p), At(p) \in Readers,
             NEW answer \in Seq(Frames), Took(p, answer)
      PROVE  Whole(q)'
  <2>1. Whole(p)'
    BY <1>1, <1>4, TookWhole
  <2>2. /\ disturbed' = Disturbed(p)
        /\ chain' = [chain EXCEPT ![At(p)] = Tail(LeftOf(p, answer))]
    BY <1>4, TookFrames DEF Took
  <2>3. PICK u \in Sends : task' = [task EXCEPT ![p] = u]
    BY <1>4, TookFrames
  <2>4. q # p => task'[q] = task[q]
    BY <1>1, <2>3
  <2>5. q # p => Whole(q)'
    BY <1>1, <1>4, <2>2, <2>4, OthersWhole
  <2> QED
    BY <2>1, <2>5
<1>5. CASE Exchange(p)
  <2>1. CASE task' = [task EXCEPT ![p] = NoTask] /\ chain' = chain /\ disturbed' = disturbed \ {p}
    BY <1>1, <1>2, <2>1, OthersWhole
  <2>2. ASSUME At(p) \in Readers, task' = [task EXCEPT ![p] = NoTask], disturbed' = Disturbed(p) \ {p},
               NEW left \in Seq(Frames), chain' = [chain EXCEPT ![At(p)] = left]
        PROVE  Whole(q)'
    BY <1>1, <1>2, <2>2, OthersWhole
  <2> QED
    BY <1>4, <1>5, <2>1, <2>2, Exchanged
<1> QED
  BY <1>3, <1>5

(* A card that is taken away, or put down, is not the one of the handle.   *)
LEMMA CardWhole ==
  ASSUME IInv, Answers, NEW r \in Readers, PlaceCard(r) \/ RemoveCard(r)
  PROVE  Answers'
<1> SUFFICES ASSUME NEW q \in Objects PROVE Whole(q)'
  BY DEF Answers
<1>1. /\ UNCHANGED <<object, handles, task, disturbed>> /\ Whole(q)
      /\ card \in [Readers -> 0 .. lastCard] /\ lastCard \in Nat /\ chain \in [Readers -> Seq(Frames)]
  BY PcscBoundAssumption DEF PlaceCard, RemoveCard, service, IInv, CardsOK, Places, Answers
<1>2. ASSUME Usable(object[q].hcard)'
      PROVE  Usable(object[q].hcard) /\ chain'[At(q)] = chain[At(q)]
  <2>1. /\ object[q].hcard \in Open /\ At(q) \in Readers
        /\ handles[object[q].hcard].card \in 1 .. lastCard
        /\ card'[At(q)] = handles[object[q].hcard].card
    BY <1>1, <1>2 DEF Usable, Open, At, IInv, Places, HandlesPlaced
  <2>2. At(q) # r
    <3>1. CASE PlaceCard(r)
      BY <1>1, <2>1, <3>1 DEF PlaceCard
    <3>2. CASE RemoveCard(r)
      BY <1>1, <2>1, <3>2 DEF RemoveCard
    <3> QED
      BY <3>1, <3>2
  <2>3. card'[At(q)] = card[At(q)] /\ chain'[At(q)] = chain[At(q)]
    BY <1>1, <2>1, <2>2 DEF PlaceCard, RemoveCard
  <2> QED
    BY <2>1, <2>3 DEF Usable, At
<1>3. Undisturbed(q)
  BY <1>1, <1>2 DEF Undisturbed, At
<1> QED
  BY <1>1, <1>3, StaysWhole

LEMMA AnswersNext == IInv /\ Answers /\ [Next]_vars => Answers'
<1>1. ASSUME IInv, Answers, Next PROVE Answers'
  BY <1>1, NextCases, ChangesWhole, AttemptWhole, BeginWhole, ExchangeWhole, CardWhole
<1>2. ASSUME Answers, UNCHANGED vars PROVE Answers'
  BY <1>2 DEF vars, service, outside, Answers, Whole, Usable, At, Open
<1> QED
  BY <1>1, <1>2

LEMMA AnswersInit == Init => Answers
BY DEF Init, Answers, Whole, NoTask

(* A command that follows the chain, and between whose exchanges no other   *)
(* object sent to its card, returns all the frames of the card's answer to  *)
(* it, in order; one that does not follow it returns the first frame: for   *)
(* answers of any length and any number of objects and cards.               *)
THEOREM AnswersWhole == Spec => []AnswerWhole
<1>1. Answers => AnswerWhole
  BY DEF Answers, Whole, AnswerWhole
<1> QED
  BY <1>1, Invariant, IInvNext, AnswersInit, AnswersNext, PTL DEF Spec

-----------------------------------------------------------------------------
(* The refinement of HandleOwnership.  What an object owns is told by its  *)
(* own fields; that no two name one handle, and that the open handles of a *)
(* context are those of the object that has the context, comes from Owned. *)

Owners == [h \in Open |-> {p \in Objects : Owns(p, h)}]
Connecting == {p \in Objects : task[p].kind = "connect"}
HandlesOf(p) == {h \in Open : Owners[h] = {p}}
Orphans == {h \in Open : Owners[h] = {}}

(* The actions of the abstract specification, over these names.            *)
LEMMA AbstractBegin ==
  ASSUME NEW p \in Objects, p \notin Connecting, Connecting' = Connecting \cup {p},
         Owners' = Owners
  PROVE  Ownership!OwnNext
BY Zenon DEF Ownership!OwnNext, Ownership!Begin, Owners, Connecting

Tried(o, next, p) ==
  \E new \in {{}} \cup {{h} : h \in 1 .. MaxIds \ DOMAIN o},
     lost \in SUBSET {h \in DOMAIN o : o[h] = {p}} :
    next = [h \in DOMAIN o \cup new |-> IF h \in new THEN {p} ELSE IF h \in lost THEN {} ELSE o[h]]

LEMMA AbstractTry ==
  ASSUME NEW p \in Connecting, Connecting' \in {Connecting, Connecting \ {p}},
         NEW new \in {{}} \cup {{h} : h \in 1 .. MaxIds \ Open}, NEW lost \in SUBSET HandlesOf(p),
         Owners' = [h \in Open \cup new |-> IF h \in new THEN {p} ELSE IF h \in lost THEN {} ELSE Owners[h]]
  PROVE  Ownership!OwnNext
<1>1. p \in Objects
  BY DEF Connecting
<1>2. DOMAIN Owners = Open
  BY DEF Owners
<1>3. lost \in SUBSET {h \in DOMAIN Owners : Owners[h] = {p}}
  BY <1>2, Zenon DEF HandlesOf
<1>4. Tried(Owners, Owners', p)
  <2>1. new \in {{}} \cup {{h} : h \in 1 .. MaxIds \ DOMAIN Owners}
    BY <1>2
  <2>2. Owners' = [h \in DOMAIN Owners \cup new |->
                     IF h \in new THEN {p} ELSE IF h \in lost THEN {} ELSE Owners[h]]
    BY <1>2, Zenon
  <2> QED
    BY <1>3, <2>1, <2>2, Zenon DEF Tried
<1>5. Ownership!Try(p)
  BY <1>4, Zenon DEF Tried, Ownership!Try, Ownership!Of, Owners, Connecting
<1> QED
  BY <1>1, <1>5, Zenon DEF Ownership!OwnNext

LEMMA AbstractClose ==
  ASSUME NEW p \in Objects, p \notin Connecting, Connecting' = Connecting,
         NEW closed \in SUBSET (HandlesOf(p) \cup Orphans),
         Owners' = [h \in Open \ closed |-> Owners[h]]
  PROVE  Ownership!OwnNext
<1>1. DOMAIN Owners = Open
  BY DEF Owners
<1>2. Ownership!Close(p)
  BY <1>1, Zenon DEF Ownership!Close, Ownership!Of, Ownership!Lost, HandlesOf, Orphans, Owners, Connecting
<1> QED
  BY <1>2, Zenon DEF Ownership!OwnNext

Taken(o, next, p, q) ==
  \E closed \in SUBSET ({h \in DOMAIN o : o[h] = {p}} \cup {h \in DOMAIN o : o[h] = {}}) :
    /\ {h \in DOMAIN o : o[h] = {p}} \subseteq closed
    /\ next = [h \in DOMAIN o \ closed |-> IF h \in {i \in DOMAIN o : o[i] = {q}} THEN {p} ELSE o[h]]

(* The premises of a take, with the handles that are closed.               *)
Takes(p, q, closed) ==
  /\ closed \in SUBSET (HandlesOf(p) \cup Orphans) /\ HandlesOf(p) \subseteq closed
  /\ Owners' = [h \in Open \ closed |-> IF h \in HandlesOf(q) THEN {p} ELSE Owners[h]]

LEMMA AbstractTake ==
  ASSUME NEW p \in Objects, NEW q \in Objects, p # q, p \notin Connecting, q \notin Connecting,
         Connecting' = Connecting, NEW closed, Takes(p, q, closed)
  PROVE  Ownership!OwnNext
<1>1. DOMAIN Owners = Open
  BY DEF Owners
<1>2. {p, q} \cap Connecting = {}
  OBVIOUS
<1>3. /\ HandlesOf(p) = {h \in DOMAIN Owners : Owners[h] = {p}}
      /\ HandlesOf(q) = {h \in DOMAIN Owners : Owners[h] = {q}}
      /\ Orphans = {h \in DOMAIN Owners : Owners[h] = {}}
  BY <1>1, Zenon DEF HandlesOf, Orphans
<1>4. Taken(Owners, Owners', p, q)
  BY <1>1, <1>3, Zenon DEF Taken, Takes
<1>5. Ownership!Take(p, q)
  BY <1>2, <1>4, Zenon DEF Taken, Ownership!Take, Ownership!Of, Ownership!Lost, Owners, Connecting
<1> QED
  BY <1>5, Zenon DEF Ownership!OwnNext

LEMMA StutterOwns ==
  ASSUME Owners' = Owners, Connecting' = Connecting
  PROVE  UNCHANGED Ownership!ownership
BY Zenon DEF Ownership!ownership, Owners, Connecting

(* An open handle that an object owns has no other owner.                  *)
LEMMA HeldByOne ==
  ASSUME Owned, NEW p \in Objects, NEW h \in Open, Owns(p, h)
  PROVE  h \in HandlesOf(p) /\ \A q \in Objects : Owns(q, h) => q = p
<1>1. h # 0
  BY DEF Owned, Bound, Typed, Open
<1>2. \A q \in Objects : Owns(q, h) => q = p
  BY <1>1 DEF Owns, Owned, Bound, HandlesApart
<1>3. {q \in Objects : Owns(q, h)} = {p}
  BY <1>2
<1> QED
  BY <1>2, <1>3 DEF HandlesOf, Owners

(* Of the open handles of an object's context nobody else owns one.        *)
LEMMA ContextsOwn ==
  ASSUME Owned, NEW p \in Objects
  PROVE  OfContext(object[p].ctx) \subseteq HandlesOf(p) \cup Orphans
<1> SUFFICES ASSUME NEW h \in OfContext(object[p].ctx), h \notin Orphans
             PROVE  h \in HandlesOf(p)
  OBVIOUS
<1>1. h \in Open /\ handles[h].ctx = object[p].ctx /\ object[p].ctx # 0
  BY DEF OfContext, Owned, Bound, Typed, Open
<1>2. PICK q \in Objects : Owns(q, h)
  BY <1>1 DEF Orphans, Owners
<1>3. object[q].ctx = object[p].ctx
  BY <1>1, <1>2 DEF Owns, Owned, Bound, HandlesHeld, Open
<1>4. q = p
  BY <1>1, <1>3 DEF Owned, Bound, ContextsHeld
<1> QED
  BY <1>1, <1>2, <1>4, HeldByOne

(* Who owns what is left as it is when the objects' handles are.            *)
LEMMA SameOwners ==
  ASSUME Open' = Open,
         \A p \in Objects : object'[p].connected = object[p].connected /\ object'[p].hcard = object[p].hcard
  PROVE  Owners' = Owners
<1>1. \A p \in Objects, h \in Open : Owns(p, h)' <=> Owns(p, h)
  BY DEF Owns
<1>2. \A h \in Open : {p \in Objects : Owns(p, h)'} = {p \in Objects : Owns(p, h)}
  BY <1>1
<1> QED
  BY <1>2 DEF Owners

(* An object that is not live owns nothing and is in no call.               *)
LEMMA GoneOwnsNothing ==
  ASSUME IInv, NEW p \in Objects, ~ object[p].live
  PROVE  HandlesOf(p) = {} /\ p \notin Connecting
<1>1. ~ object[p].connected
  BY BlankHolds DEF IInv, Owned, Bound, NoneOutlives
<1>2. \A h \in Open : Owners[h] # {p}
  BY <1>1 DEF Owners, Owns
<1>3. task[p] = NoTask
  BY DEF IInv, Calls
<1>4. p \notin Connecting
  BY <1>3, ByKind DEF Connecting, NoTask
<1> QED
  BY <1>2, <1>4 DEF HandlesOf

LEMMA IdleDoesNotConnect ==
  ASSUME NEW p \in Objects, Idle(p)
  PROVE  p \notin Connecting
BY DEF Idle, NoTask, Connecting

(* What cleanUp, releaseContext and disconnect close.                      *)
LEMMA CleanUpCloses ==
  ASSUME Owned, NEW p \in Objects
  PROVE  /\ Closed(p) \cap Open \subseteq HandlesOf(p)
         /\ HandlesOf(p) \subseteq Closed(p)
         /\ OfContext(object[p].ctx) \subseteq HandlesOf(p) \cup Orphans
<1>1. \A h \in Closed(p) \cap Open : Owns(p, h)
  BY DEF Closed, Owns
<1>2. \A h \in HandlesOf(p) : Owns(p, h)
  BY DEF HandlesOf, Owners
<1>3. HandlesOf(p) \subseteq Closed(p)
  BY <1>2 DEF Owns, Closed
<1> QED
  BY <1>1, <1>3, HeldByOne, ContextsOwn

LEMMA DisconnectCloses ==
  ASSUME IInv, NEW p \in Objects, Disconnect(p)
  PROVE  Ownership!OwnNext
<1>1. /\ object \in [Objects -> Fields] /\ Idle(p) /\ task' = task
      /\ object' = [object EXCEPT ![p].hcard = 0, ![p].connected = FALSE]
  BY DEF Disconnect, IInv, Owned, Bound, Typed
<1>2. /\ ~ object'[p].connected
      /\ \A q \in Objects : q # p => object'[q] = object[q]
  BY <1>1 DEF Fields
<1> DEFINE closed == Closed(p) \cap Open
<1>3. Open' = Open \ closed
  BY DEF Disconnect, Keep, Open
<1>4. closed \in SUBSET (HandlesOf(p) \cup Orphans)
  BY CleanUpCloses DEF IInv
<1>5. \A h \in Open \ closed : {q \in Objects : Owns(q, h)'} = {q \in Objects : Owns(q, h)}
  BY <1>2 DEF Owns, Closed
<1> HIDE DEF closed
<1>6. Owners' = [h \in Open \ closed |-> Owners[h]]
  BY <1>3, <1>5 DEF Owners
<1>7. p \notin Connecting /\ Connecting' = Connecting
  BY <1>1, IdleDoesNotConnect DEF Connecting
<1> QED
  BY <1>4, <1>6, <1>7, AbstractClose

LEMMA ReleaseCloses ==
  ASSUME IInv, NEW p \in Objects, ReleaseContext(p)
  PROVE  Ownership!OwnNext
<1>1. /\ object \in [Objects -> Fields] /\ Idle(p) /\ task' = task
      /\ object' = [object EXCEPT ![p].ctx = 0]
  BY DEF ReleaseContext, IInv, Owned, Bound, Typed
<1>2. \A q \in Objects : object'[q].connected = object[q].connected /\ object'[q].hcard = object[q].hcard
  BY <1>1 DEF Fields
<1> DEFINE closed == OfContext(object[p].ctx)
<1>3. Open' = Open \ closed
  BY DEF ReleaseContext, Keep, Open
<1>4. closed \in SUBSET (HandlesOf(p) \cup Orphans)
  BY CleanUpCloses DEF IInv
<1> HIDE DEF closed
<1>5. \A h \in Open \ closed : {q \in Objects : Owns(q, h)'} = {q \in Objects : Owns(q, h)}
  BY <1>2 DEF Owns
<1>6. Owners' = [h \in Open \ closed |-> Owners[h]]
  BY <1>3, <1>5 DEF Owners
<1>7. p \notin Connecting /\ Connecting' = Connecting
  BY <1>1, IdleDoesNotConnect DEF Connecting
<1> QED
  BY <1>4, <1>6, <1>7, AbstractClose

LEMMA DestroyCloses ==
  ASSUME IInv, NEW p \in Objects, Destroy(p)
  PROVE  Ownership!OwnNext
<1>1. /\ object \in [Objects -> Fields] /\ Idle(p) /\ task' = task
      /\ object' = [object EXCEPT ![p] = Gone]
  BY DEF Destroy, CleanUp, IInv, Owned, Bound, Typed
<1>2. /\ ~ object'[p].connected
      /\ \A q \in Objects : q # p => object'[q] = object[q]
  BY <1>1, BlankHolds
<1> DEFINE closed == (Closed(p) \cup OfContext(object[p].ctx)) \cap Open
<1>3. Open' = Open \ closed
  BY DEF Destroy, CleanUp, Keep, Open
<1>4. closed \in SUBSET (HandlesOf(p) \cup Orphans)
  BY CleanUpCloses DEF IInv
<1>5. \A h \in Open \ closed : {q \in Objects : Owns(q, h)'} = {q \in Objects : Owns(q, h)}
  BY <1>2 DEF Owns, Closed
<1> HIDE DEF closed
<1>6. Owners' = [h \in Open \ closed |-> Owners[h]]
  BY <1>3, <1>5 DEF Owners
<1>7. p \notin Connecting /\ Connecting' = Connecting
  BY <1>1, IdleDoesNotConnect DEF Connecting
<1> QED
  BY <1>4, <1>6, <1>7, AbstractClose

(* A move: the target closes what it has and owns what the source owned.   *)
Leaves(p, q, closed) ==
  /\ closed \in SUBSET (HandlesOf(p) \cup Orphans) /\ HandlesOf(p) \subseteq closed
  /\ Open' = Open \ closed
  /\ object' = [object EXCEPT ![p] = object[q], ![q] = Blank]

LEMMA OwnersMoved ==
  ASSUME IInv, NEW p \in Objects, NEW q \in Objects, p # q, NEW closed, Leaves(p, q, closed)
  PROVE  Takes(p, q, closed)
<1>0. /\ closed \in SUBSET (HandlesOf(p) \cup Orphans) /\ HandlesOf(p) \subseteq closed
      /\ Open' = Open \ closed
      /\ object' = [object EXCEPT ![p] = object[q], ![q] = Blank]
  BY DEF Leaves
<1>1. /\ object \in [Objects -> Fields] /\ Owned
  BY DEF IInv, Owned, Bound, Typed
<1>2. /\ object'[p] = object[q] /\ ~ object'[q].connected
      /\ \A r \in Objects \ {p, q} : object'[r] = object[r]
  BY <1>0, <1>1, BlankHolds
<1>3. ASSUME NEW h \in Open \ closed, h \in HandlesOf(q)
      PROVE  {r \in Objects : Owns(r, h)'} = {p}
  <2>1. Owns(q, h) /\ \A r \in Objects : Owns(r, h) => r = q
    <3>1. Owns(q, h)
      BY <1>3 DEF HandlesOf, Owners
    <3> QED
      BY <1>1, <3>1, HeldByOne
  <2> QED
    BY <1>2, <2>1 DEF Owns
<1>4. ASSUME NEW h \in Open \ closed, h \notin HandlesOf(q)
      PROVE  {r \in Objects : Owns(r, h)'} = {r \in Objects : Owns(r, h)}
  <2>1. ~ Owns(q, h) /\ ~ Owns(p, h)
    BY <1>0, <1>1, <1>4, HeldByOne
  <2> QED
    BY <1>2, <2>1 DEF Owns
<1>5. Owners' = [h \in Open \ closed |-> IF h \in HandlesOf(q) THEN {p} ELSE Owners[h]]
  BY <1>0, <1>3, <1>4 DEF Owners
<1> QED
  BY <1>0, <1>5 DEF Takes

LEMMA MoveTakes ==
  ASSUME IInv, NEW p \in Objects, NEW q \in Objects, MoveConstruct(p, q) \/ MoveAssign(p, q)
  PROVE  Ownership!OwnNext
<1>1. CASE MoveConstruct(p, q)
  <2>1. /\ ~ object[p].live /\ Idle(q) /\ task' = task /\ Open' = Open \ {} /\ p # q
        /\ object' = [object EXCEPT ![p] = object[q], ![q] = Blank]
    BY <1>1 DEF MoveConstruct, service, Open, Idle
  <2>2. HandlesOf(p) = {} /\ p \notin Connecting /\ q \notin Connecting /\ Connecting' = Connecting
    BY <2>1, GoneOwnsNothing, IdleDoesNotConnect DEF Connecting
  <2>3. HandlesOf(p) \subseteq {} /\ {} \in SUBSET Open /\ {} \in SUBSET (HandlesOf(p) \cup Orphans)
    BY <2>2
  <2>4. Leaves(p, q, {})
    BY <2>1, <2>3, Zenon DEF Leaves
  <2>5. Takes(p, q, {})
    BY <2>1, <2>3, <2>4, OwnersMoved, Zenon
  <2> QED
    BY <2>1, <2>2, <2>5, AbstractTake, Zenon
<1>2. CASE MoveAssign(p, q)
  <2> DEFINE closed == (Closed(p) \cup OfContext(object[p].ctx)) \cap Open
  <2>1. /\ Idle(p) /\ Idle(q) /\ task' = task /\ Open' = Open \ closed /\ p # q
        /\ object' = [object EXCEPT ![p] = object[q], ![q] = Blank]
    BY <1>2 DEF MoveAssign, CleanUp, Keep, Open
  <2>2. p \notin Connecting /\ q \notin Connecting /\ Connecting' = Connecting
    BY <2>1, IdleDoesNotConnect DEF Connecting
  <2>3. /\ HandlesOf(p) \subseteq closed /\ closed \in SUBSET Open
        /\ closed \in SUBSET (HandlesOf(p) \cup Orphans)
    BY CleanUpCloses DEF IInv, HandlesOf
  <2> HIDE DEF closed
  <2>4. Leaves(p, q, closed)
    BY <2>1, <2>3, Zenon DEF Leaves
  <2>5. Takes(p, q, closed)
    BY <2>1, <2>3, <2>4, OwnersMoved, Zenon
  <2> QED
    BY <2>1, <2>2, <2>5, AbstractTake, Zenon
<1> QED
  BY <1>1, <1>2

(* Construction, the choice of a reader and a new context.                 *)
LEMMA NobodysHandles ==
  ASSUME IInv, NEW p \in Objects, Construct(p) \/ EstablishContext(p) \/ ChooseReader(p)
  PROVE  UNCHANGED Ownership!ownership
<1>1. object \in [Objects -> Fields] /\ task' = task /\ handles' = handles
  BY DEF Construct, EstablishContext, ChooseReader, service, IInv, Owned, Bound, Typed
<1>2. \A q \in Objects : object'[q].connected = object[q].connected /\ object'[q].hcard = object[q].hcard
  <2>1. CASE Construct(p)
    <3>1. object[p].connected = Blank.connected /\ object[p].hcard = Blank.hcard
      BY <2>1, BlankHolds DEF Construct, IInv, Owned, Bound, NoneOutlives
    <3> QED
      BY <1>1, <2>1, <3>1 DEF Construct
  <2>2. CASE EstablishContext(p)
    BY <1>1, <2>2 DEF EstablishContext, Fields
  <2>3. CASE ChooseReader(p)
    BY <1>1, <2>3 DEF ChooseReader, Fields
  <2> QED
    BY <2>1, <2>2, <2>3
<1>3. Owners' = Owners
  BY <1>1, <1>2, SameOwners DEF Open
<1> QED
  BY <1>1, <1>3, StutterOwns DEF Connecting

(* The attempt to connect: it opens one handle or none, and what the       *)
(* object was connected by may be lost.                                    *)
LEMMA ConnectedTries ==
  ASSUME IInv, NEW p \in Objects, p \in Connecting, Connected(p)
  PROVE  Ownership!OwnNext
<1>1. /\ object \in [Objects -> Fields] /\ Owned /\ task \in [Objects -> Tasks]
      /\ lastId \in Nat /\ lastId + 1 \in 1 .. MaxIds /\ lastId + 1 \notin Open
      /\ lastId' = lastId + 1 /\ Open' = Open \cup {lastId + 1}
      /\ object' = [object EXCEPT ![p].hcard = lastId', ![p].connected = TRUE]
      /\ task' = [task EXCEPT ![p] = NoTask]
  BY PcscBoundAssumption DEF Connected, Ends, Open, IInv, Calls, Owned, Bound, Typed
<1>0. PICK id \in 1 .. MaxIds : id = lastId + 1
  BY <1>1
<1> DEFINE lost == Closed(p) \cap Open
<1>2. /\ object'[p].connected /\ object'[p].hcard = id
      /\ \A q \in Objects \ {p} : object'[q] = object[q]
  BY <1>0, <1>1 DEF Fields
<1>3. lost \in SUBSET HandlesOf(p)
  BY <1>1, CleanUpCloses
<1>4. \A q \in Objects : object[q].hcard # id
  BY <1>0, <1>1 DEF Owned, Bound, HandlesApart, Fields
<1>5. {q \in Objects : Owns(q, id)'} = {p}
  BY <1>2, <1>4 DEF Owns
<1>6. ASSUME NEW h \in Open, h \in lost
      PROVE  {q \in Objects : Owns(q, h)'} = {}
  <2>1. Owns(p, h) /\ h # id /\ \A q \in Objects : Owns(q, h) => q = p
    BY <1>1, <1>3, <1>4, <1>6, HeldByOne DEF Owns, Closed
  <2> QED
    BY <1>2, <2>1 DEF Owns
<1>7. ASSUME NEW h \in Open, h \notin lost
      PROVE  h # id /\ {q \in Objects : Owns(q, h)'} = {q \in Objects : Owns(q, h)}
  <2>1. ~ Owns(p, h) /\ h # id
    BY <1>0, <1>1, <1>7 DEF Owns, Closed
  <2> QED
    BY <1>2, <2>1 DEF Owns
<1> HIDE DEF lost
<1>8. Owners' = [h \in Open \cup {id} |->
                   IF h \in {id} THEN {p} ELSE IF h \in lost THEN {} ELSE Owners[h]]
  <2>1. Open' = Open \cup {id} /\ id \notin Open
    BY <1>0, <1>1
  <2> QED
    BY <2>1, <1>5, <1>6, <1>7 DEF Owners
<1>9. Connecting' = Connecting \ {p}
  BY <1>1, ByKind DEF Connecting, NoTask
<1>10. {id} \in {{}} \cup {{h} : h \in 1 .. MaxIds \ Open}
  BY <1>0, <1>1
<1> QED
  BY <1>3, <1>8, <1>9, <1>10, AbstractTry, Zenon

LEMMA NotConnectedTries ==
  ASSUME IInv, NEW p \in Objects, p \in Connecting, NotConnected(p)
  PROVE  Ownership!OwnNext
<1>1. PICK x \in {object[p].hcard, 0} : object' = [object EXCEPT ![p].hcard = x]
  BY DEF NotConnected
<1>2. /\ object \in [Objects -> Fields] /\ Owned /\ task \in [Objects -> Tasks] /\ Open' = Open
      /\ task[p] \in Connects
      /\ \A h \in Open : h # 0
  BY ByKind DEF NotConnected, service, Open, IInv, Calls, Owned, Bound, Typed, Connecting
<1> DEFINE lost == IF x = 0 THEN Closed(p) \cap Open ELSE {}
<1>3. /\ object'[p].connected = object[p].connected /\ object'[p].hcard = x
      /\ \A q \in Objects \ {p} : object'[q] = object[q]
  BY <1>1, <1>2 DEF Fields
<1>4. lost \in SUBSET HandlesOf(p)
  BY <1>2, CleanUpCloses
<1>5. ASSUME NEW h \in Open, h \in lost
      PROVE  {q \in Objects : Owns(q, h)'} = {}
  <2>1. x = 0 /\ h # 0 /\ \A q \in Objects : Owns(q, h) => q = p
    BY <1>2, <1>4, <1>5, HeldByOne DEF Owns, Closed
  <2> QED
    BY <1>3, <2>1 DEF Owns
<1>6. ASSUME NEW h \in Open, h \notin lost
      PROVE  {q \in Objects : Owns(q, h)'} = {q \in Objects : Owns(q, h)}
  <2>1. Owns(p, h)' <=> Owns(p, h)
    BY <1>1, <1>2, <1>3, <1>6 DEF Owns, Closed
  <2> QED
    BY <1>3, <2>1 DEF Owns
<1> HIDE DEF lost
<1>7. Owners' = [h \in Open \cup {} |->
                   IF h \in {} THEN {p} ELSE IF h \in lost THEN {} ELSE Owners[h]]
  BY <1>2, <1>5, <1>6 DEF Owners
<1>8. Connecting' \in {Connecting, Connecting \ {p}}
  <2>1. CASE task' = [task EXCEPT ![p] = NoTask]
    BY <1>2, <2>1, ByKind DEF Connecting, NoTask
  <2>2. ASSUME NEW n \in Nat, task' = [task EXCEPT ![p].attempt = n]
        PROVE  Connecting' = Connecting
    <3>1. task'[p].kind = "connect" /\ \A q \in Objects \ {p} : task'[q] = task[q]
      BY <1>2, <2>2, TriedAgain DEF Connects
    <3> QED
      BY <1>2, <3>1 DEF Connecting
  <2>3. \/ task' = [task EXCEPT ![p] = NoTask]
        \/ \E n \in Nat : task' = [task EXCEPT ![p].attempt = n]
    BY <1>2 DEF NotConnected, Ends, Connects
  <2> QED
    BY <2>1, <2>2, <2>3
<1>9. {} \in {{}} \cup {{h} : h \in 1 .. MaxIds \ Open}
  OBVIOUS
<1> QED
  BY <1>4, <1>7, <1>8, <1>9, AbstractTry, Zenon

(* The calls that begin and go on, and the card that comes and goes.       *)
LEMMA CallsHandOn ==
  ASSUME IInv, NEW p \in Objects,
         \/ \E retries \in Retries : BeginConnect(p, retries)
         \/ \E follow \in BOOLEAN : BeginSend(p, follow)
         \/ Exchange(p) \/ Return(p)
  PROVE  Ownership!OwnNext \/ UNCHANGED Ownership!ownership
<1>1. task \in [Objects -> Tasks] /\ object' = object /\ handles' = handles
  BY DEF IInv, Calls, BeginConnect, BeginSend, Exchange, Return, service
<1>2. Owners' = Owners
  BY <1>1, SameOwners DEF Open
<1>3. ASSUME NEW retries \in Retries, BeginConnect(p, retries)
      PROVE  p \notin Connecting /\ Connecting' = Connecting \cup {p}
  BY <1>1, <1>3, IdleDoesNotConnect DEF BeginConnect, Connecting
<1>4. CASE Exchange(p)
  <2>1. task[p].kind = "send"
    BY <1>4 DEF Exchange
  <2>2. ASSUME task' = [task EXCEPT ![p] = NoTask]
        PROVE  task'[p].kind # "connect" /\ \A q \in Objects \ {p} : task'[q] = task[q]
    BY <1>1, <2>2 DEF NoTask
  <2>3. ASSUME task[p] \in Sends, At(p) \in Readers,
               NEW answer \in Seq(Frames), Took(p, answer)
        PROVE  task'[p].kind # "connect" /\ \A q \in Objects \ {p} : task'[q] = task[q]
    <3>1. PICK u \in Sends : task' = [task EXCEPT ![p] = u]
      BY <2>3, TookFrames
    <3>2. u.kind # "connect"
      BY DEF Sends
    <3> QED
      BY <1>1, <3>1, <3>2
  <2>5. task'[p].kind # "connect" /\ \A q \in Objects \ {p} : task'[q] = task[q]
    BY <1>4, <2>2, <2>3, Exchanged
  <2>6. Connecting' = Connecting
    BY <2>1, <2>5 DEF Connecting
  <2> QED
    BY <1>2, <2>6, StutterOwns
<1>5. CASE Return(p)
  <2>1. task[p].kind = "sent" /\ task'[p].kind # "connect" /\ \A q \in Objects \ {p} : task'[q] = task[q]
    BY <1>1, <1>5 DEF Return, Ends, NoTask
  <2>2. Connecting' = Connecting
    BY <2>1 DEF Connecting
  <2> QED
    BY <1>2, <2>2, StutterOwns
<1>6. CASE \E retries \in Retries : BeginConnect(p, retries)
  BY <1>2, <1>3, <1>6, AbstractBegin, Zenon
<1>7. CASE \E follow \in BOOLEAN : BeginSend(p, follow)
  <2>1. PICK follow \in BOOLEAN : BeginSend(p, follow)
    BY <1>7
  <2>2. p \notin Connecting /\ task'[p].kind # "connect" /\ \A q \in Objects \ {p} : task'[q] = task[q]
    BY <1>1, <2>1, IdleDoesNotConnect DEF BeginSend
  <2>3. Connecting' = Connecting
    BY <2>2 DEF Connecting
  <2> QED
    BY <1>2, <2>3, StutterOwns
<1> QED
  BY <1>4, <1>5, <1>6, <1>7

LEMMA OthersHandOn ==
  ASSUME UNCHANGED <<object, handles, task>>
  PROVE  UNCHANGED Ownership!ownership
<1>1. Owners' = Owners
  BY SameOwners DEF Open
<1> QED
  BY <1>1, StutterOwns DEF Connecting

(* At first there are no handles, and no object is in a call.              *)
LEMMA OwnershipInit == Init => Ownership!OwnInit
<1> SUFFICES ASSUME Init PROVE Ownership!OwnInit
  OBVIOUS
<1>1. Open = {}
  BY DEF Init, Open
<1>2. Owners = <<>>
  BY <1>1 DEF Owners
<1>3. Connecting = {}
  BY DEF Init, Connecting, NoTask
<1> QED
  BY <1>2, <1>3, Zenon DEF Ownership!OwnInit, Owners, Connecting

LEMMA OwnershipStep == IInv /\ [Next]_vars => [Ownership!OwnNext]_(Ownership!ownership)
<1> SUFFICES ASSUME IInv, [Next]_vars PROVE Ownership!OwnNext \/ UNCHANGED Ownership!ownership
  OBVIOUS
<1>1. CASE UNCHANGED vars
  BY <1>1, OthersHandOn DEF vars, service
<1>2. ASSUME NEW p \in Objects, Changes(p)
      PROVE  Ownership!OwnNext \/ UNCHANGED Ownership!ownership
  BY <1>2, NobodysHandles, DestroyCloses, MoveTakes, ReleaseCloses, DisconnectCloses, Zenon DEF Changes
<1>3. ASSUME NEW p \in Objects, Attempt(p)
      PROVE  Ownership!OwnNext
  <2>1. p \in Connecting
    BY <1>3 DEF Attempt, Connecting
  <2> QED
    BY <1>3, <2>1, ConnectedTries, NotConnectedTries, Zenon DEF Attempt
<1>4. ASSUME NEW r \in Readers, PlaceCard(r) \/ RemoveCard(r)
      PROVE  UNCHANGED Ownership!ownership
  BY <1>4, OthersHandOn DEF PlaceCard, RemoveCard, service
<1>5. CASE Next
  BY <1>2, <1>3, <1>4, <1>5, NextCases, CallsHandOn, Zenon
<1> QED
  BY <1>1, <1>5

(* The objects hand their handles on and close them as the abstract        *)
(* specification says: whatever the service, the cards and the logger do,  *)
(* no call of the class closes the handle of an object but its own, and    *)
(* none but connectToCard leaves an open handle without an owner.          *)
THEOREM HandlesChangeHandsRefined == Spec => HandlesChangeHands
<1>1. Spec => Ownership!OwnSpec
  BY Invariant, OwnershipInit, OwnershipStep, PTL DEF Spec, Ownership!OwnSpec
<1> QED
  BY <1>1 DEF HandlesChangeHands
=============================================================================
