------------------------------ MODULE ReaderIO ------------------------------
(***************************************************************************)
(* The pages a Reader reads and writes through its PCSC object.  A call on *)
(* many pages is a loop of exchanges, and between two of them the card may *)
(* leave; the block size LE is a field of the reader, which some overloads *)
(* replace for the length of a call (LEGuard).                             *)
(*                                                                         *)
(* The card, which is external, has cardPages pages of PageSize bytes, at  *)
(* most as many as a BYTE numbers.  It takes a write of one page and no    *)
(* other length, and answers a read from the start of a page, beyond its   *)
(* last page from its first; it may answer with other lengths than the one *)
(* asked for, and it may refuse any page.                                  *)
(***************************************************************************)
EXTENDS Integers, Sequences

CONSTANTS
  CardSizes,  \* how many pages a card may have
  PageSize,   \* bytes of a page
  ByteSpace,  \* a page number is a BYTE: 256 values
  Sizes,      \* block sizes that callers set
  Answers,    \* lengths a page may be answered with
  Values,     \* byte values, 0 among them
  MaxLength,  \* bound on the length of what is written or read
  MaxOut      \* bound on what readAll collects from a card that never refuses

ASSUME PageAssumption == PageSize \in Nat \ {0} /\ PageSize \in Sizes
ASSUME SpaceAssumption == ByteSpace \in Nat /\ CardSizes \subseteq 1 .. ByteSpace
ASSUME SizesAssumption == Sizes \subseteq Nat \ {0} /\ Answers \subseteq Nat
ASSUME DataAssumption == 0 \in Values /\ MaxLength \in Nat /\ MaxOut \in Nat

VARIABLES
  le,      \* Impl::LE
  chosen,  \* the block size last set by the program itself
  link,    \* "none", "up", or "stale": connected_ is true and the card has left
  present, \* a card is in the reader
  cardPages, \* pages of the card, numbered from 0
  memory,  \* the bytes of each page
  task     \* the call, the page it is at, and what it has so far

vars == <<le, chosen, link, present, cardPages, memory, task>>

Pages == 0 .. ByteSpace - 1
Data == UNION {[1 .. n -> Values] : n \in 0 .. MaxLength}
NoTask == [op |-> "idle"]
Reads == {"readData", "readPage", "readAll"}
Idle == task = NoTask
Busy == task.op \in Reads \cup {"writeData"}

Init ==
  /\ le \in Sizes /\ chosen = le
  /\ link = "none" /\ present = FALSE
  /\ cardPages \in CardSizes
  /\ memory = [page \in Pages |-> [b \in 1 .. PageSize |-> 0]]
  /\ task = NoTask

-----------------------------------------------------------------------------
(* The card and the link.                                                  *)
PlaceCard == ~ present /\ present' = TRUE /\ UNCHANGED <<le, chosen, link, cardPages, memory, task>>

RemoveCard ==
  /\ present /\ present' = FALSE
  /\ link' = IF link = "up" THEN "stale" ELSE link
  /\ UNCHANGED <<le, chosen, cardPages, memory, task>>

Connect ==
  /\ Idle /\ link = "none" /\ present
  /\ link' = "up"
  /\ UNCHANGED <<le, chosen, present, cardPages, memory, task>>

Disconnect ==
  /\ Idle /\ link # "none"
  /\ link' = "none"
  /\ UNCHANGED <<le, chosen, present, cardPages, memory, task>>

\* The card is there and has the page.
OnCard(page) == link = "up" /\ page < cardPages

\* What the card answers from the start of a page, n bytes of it.
Stored(page, n) ==
  [b \in 1 .. n |-> memory[(page + ((b - 1) \div PageSize)) % cardPages][((b - 1) % PageSize) + 1]]

-----------------------------------------------------------------------------
(* The calls begin.  A guard of 0 is the overload without a length.        *)

SetLE(n) ==
  /\ Idle
  /\ le' = n /\ chosen' = n
  /\ UNCHANGED <<link, present, cardPages, memory, task>>

Guard(n) == le' = IF n = 0 THEN le ELSE n

Write(page, data, pages) ==
  task' = [op |-> "writeData", start |-> page, i |-> 0, data |-> data, pages |-> pages,
           passed |-> {}, saved |-> le, before |-> memory]

\* writeData: as many pages as the data fill at the block size of the call.
BeginWriteData(page, data, guard) ==
  /\ Idle /\ Guard(guard)
  /\ Write(page, data, (Len(data) + le' - 1) \div le')
  /\ UNCHANGED <<chosen, link, present, cardPages, memory>>

\* writePage of a container, which is refused when it is longer than a block
\* and filled up with zeros when it is shorter.
BeginWritePage(page, data) ==
  /\ Idle /\ Len(data) <= le
  /\ Write(page, data, 1)
  /\ UNCHANGED <<le, chosen, link, present, cardPages, memory>>

Read(op, page, length) ==
  task' = [op |-> op, start |-> page, page |-> page, length |-> length, size |-> le',
           remaining |-> length, out |-> <<>>, odd |-> {}, saved |-> le]

BeginReadData(page, length) ==
  /\ Idle /\ Guard(0)
  /\ Read("readData", page, length)
  /\ UNCHANGED <<chosen, link, present, cardPages, memory>>

\* readPage: one block, returned as it comes.
BeginReadPage(page, guard) ==
  /\ Idle /\ Guard(guard)
  /\ Read("readPage", page, le')
  /\ UNCHANGED <<chosen, link, present, cardPages, memory>>

BeginReadAll(page) ==
  /\ Idle /\ Guard(0)
  /\ Read("readAll", page, 0)
  /\ UNCHANGED <<chosen, link, present, cardPages, memory>>

-----------------------------------------------------------------------------
(* How a call ends: with its value ("ok"; "cut" when readAll returns with  *)
(* pages of the card unread), or by an exception.  The guard restores the  *)
(* block size either way.                                                  *)

FaultyEnds(call, how) ==
  /\ task' = [op |-> "ended", call |-> call, how |-> how]
  /\ le' = IF how = "threw" THEN le ELSE task.saved

Ends(call, how) ==
  /\ task' = [op |-> "ended", call |-> call, how |-> how]
  /\ le' = task.saved

\* The n-th page of a call: the page number wraps as a BYTE does.
PageOf(call, n) == (call.start + n) % ByteSpace

\* The chunk of the page the loop is at, filled up with zeros.
Chunk ==
  [b \in 1 .. le |-> LET idx == task.i * le + b
                     IN  IF idx <= Len(task.data) THEN task.data[idx] ELSE 0]

\* writeData writes the next page.  The reader is not connected, the exchange
\* fails, or the page is refused with a status word the program knows; the
\* card takes the page, and its answer arrives or is lost; or the page is
\* refused with a status word the program does not know, an error without a
\* kind on which writePage returns, so that the loop passes the page over.
WriteStep ==
  LET page == PageOf(task, task.i) IN
  \/ Ends(task, "threw") /\ UNCHANGED memory
  \/ /\ OnCard(page) /\ le = PageSize
     /\ memory' = [memory EXCEPT ![page] = Chunk]
     /\ \/ Ends(task, "threw")
        \/ task' = [task EXCEPT !.i = @ + 1] /\ UNCHANGED le
  \/ /\ link = "up"
     /\ task' = [task EXCEPT !.i = @ + 1, !.passed = @ \cup {task.i}]
     /\ UNCHANGED <<le, memory>>

WriteData ==
  /\ task.op = "writeData"
  /\ IF task.i < task.pages THEN WriteStep ELSE Ends(task, "ok") /\ UNCHANGED memory
  /\ UNCHANGED <<chosen, link, present, cardPages>>

FaultyTakePage(n, left) ==
  task' = [task EXCEPT !.out = @ \o Stored(task.page, n), !.page = (@ + le) % ByteSpace,
                       !.remaining = left, !.odd = IF n = PageSize THEN @ ELSE @ \cup {n}]

\* An answer of n bytes is appended as it came, and the loop goes on to the
\* next page; odd has the lengths that are not a page's.
TakePage(n, left) ==
  task' = [task EXCEPT !.out = @ \o Stored(task.page, n), !.page = (@ + 1) % ByteSpace,
                       !.remaining = left, !.odd = IF n = PageSize THEN @ ELSE @ \cup {n}]

Resized(out, n) == [j \in 1 .. n |-> IF j <= Len(out) THEN out[j] ELSE 0]

\* readData counts down by the block size, whatever came, and cuts or fills up
\* what it has to the length asked for.  Every refusal of a page throws, and so
\* does an error without a kind, which has no value to return.
ReadData ==
  /\ task.op \in {"readData", "readPage"}
  /\ \/ task.remaining > 0 /\ Ends(task, "threw")
     \/ /\ task.remaining > 0 /\ OnCard(task.page)
        /\ \E n \in Answers : TakePage(n, IF task.remaining > le THEN task.remaining - le ELSE 0)
        /\ UNCHANGED le
     \/ /\ task.remaining = 0 /\ task.op = "readData"
        /\ Ends([task EXCEPT !.out = Resized(@, task.length)], "ok")
     \/ task.remaining = 0 /\ task.op = "readPage" /\ Ends(task, "ok")
  /\ UNCHANGED <<chosen, link, present, cardPages, memory>>

FaultyReadAll ==
  /\ task.op = "readAll"
  /\ \/ /\ OnCard(task.page) /\ Len(task.out) < MaxOut
        /\ \E n \in Answers \ {0} : TakePage(n, 0)
        /\ UNCHANGED le
     \/ link # "none" /\ UNCHANGED <<task, le>>
     \/ link = "none" /\ Ends(task, "ok")
  /\ UNCHANGED <<chosen, link, present, cardPages, memory>>

\* readAll returns what it has at the first page that is refused, answered too
\* short or with nothing, and at once when the reader is not connected; only a
\* failure of the PCSC object underneath goes through it as an exception.  A
\* card with as many pages as a BYTE numbers need not stop it.
ReadAll ==
  /\ task.op = "readAll"
  /\ \/ /\ OnCard(task.page) /\ Len(task.out) < MaxOut
        /\ \E n \in Answers \ {0} : TakePage(n, 0)
        /\ UNCHANGED le
     \/ link # "none" /\ Ends(task, "threw")
     \/ OnCard(task.page) /\ Ends(task, "cut")
     \/ link # "stale" /\ ~ OnCard(task.page) /\ Ends(task, "ok")
  /\ UNCHANGED <<chosen, link, present, cardPages, memory>>

\* The program has taken the value or caught the exception.
Return ==
  /\ task.op = "ended"
  /\ task' = NoTask
  /\ UNCHANGED <<le, chosen, link, present, cardPages, memory>>

Begin ==
  \/ \E n \in Sizes : SetLE(n)
  \/ \E page \in Pages, data \in Data, guard \in Sizes \cup {0} : BeginWriteData(page, data, guard)
  \/ \E page \in Pages, data \in Data : BeginWritePage(page, data)
  \/ \E page \in Pages, guard \in Sizes \cup {0} : BeginReadPage(page, guard)
  \/ \E page \in Pages, length \in 0 .. MaxLength : BeginReadData(page, length)
  \/ \E page \in Pages : BeginReadAll(page)

Proceed == WriteData \/ ReadData \/ ReadAll \/ Return

Next == PlaceCard \/ RemoveCard \/ Connect \/ Disconnect \/ Begin \/ Proceed

Spec == Init /\ [][Next]_vars

\* The thread that is in a call goes on with it.
FairSpec == Spec /\ WF_vars(Proceed)

-----------------------------------------------------------------------------
(* Properties.                                                             *)

\* Sizes and memory stay in their ranges, and a call that is under way has a
\* page number that is a byte and something or nothing left to read.
TypeOK ==
  /\ le \in Sizes /\ chosen \in Sizes /\ present \in BOOLEAN
  /\ link \in {"none", "up", "stale"} /\ (link = "up" => present)
  /\ cardPages \in 1 .. ByteSpace
  /\ memory \in [Pages -> [1 .. PageSize -> Values]]
  /\ task.op \in Reads => task.page \in Pages /\ task.remaining \in Nat

\* Between the calls the block size is the one the program has set, whatever
\* overload was called and however it ended: a guard that is left by an
\* exception would make every later page number count another size.
SizeRestored == TypeOK /\ (~ Busy => le = chosen)

\* The i-th page of what a call writes.
Padded(call, i) ==
  [b \in 1 .. PageSize |-> LET idx == i * PageSize + b
                          IN  IF idx <= Len(call.data) THEN call.data[idx] ELSE 0]

\* A write has come to its n-th page: a page of the card has the last of the
\* pages of the call that went to it and were not passed over, or is as before.
Written(call, n) ==
  \A page \in Pages :
    LET to == {i \in 0 .. n - 1 : PageOf(call, i) = page /\ i \notin call.passed} IN
    \/ to = {} /\ memory[page] = call.before[page]
    \/ \E i \in to : (\A j \in to : j <= i) /\ memory[page] = Padded(call, i)

WrittenInOrder(call, how) ==
  IF how = "ok" THEN Written(call, call.pages)
  ELSE \E n \in {call.i, call.i + 1} : n <= call.pages /\ Written(call, n)

\* What a read has is what the pages from its first one on hold.
Gathered(call) ==
  \A j \in 1 .. Len(call.out) :
    call.out[j] = memory[PageOf(call, (j - 1) \div PageSize)][((j - 1) % PageSize) + 1]

\* Every answer was a page, and a page was asked for.
InPages(call) == call.size = PageSize /\ call.odd = {}

ReadInOrder(call, how) ==
  /\ call.op = "readData" => Len(call.out) = call.length
  /\ InPages(call) => Gathered(call)
  /\ call.op = "readPage" /\ InPages(call) => Len(call.out) = PageSize
  /\ call.op = "readAll" /\ InPages(call) /\ how = "ok" /\ link # "none" =>
       Len(call.out) = (IF call.start < cardPages THEN cardPages - call.start ELSE 0) * PageSize

\* A write that returns has put each of its pages, but those it passed over, in
\* its place, and one that threw the first of them, up to the page whose answer
\* was lost; no other page of the card has changed, and where the page number
\* wraps the later page stands.  readData returns the length asked for; if the
\* answers were pages, it is what the card holds from the first page on, and
\* readAll has every page to the last one unless the card cut it short.
TransfersInOrder ==
  task.op = "ended" =>
    /\ task.call.op = "writeData" => WrittenInOrder(task.call, task.how)
    /\ task.call.op \in Reads /\ task.how # "threw" => ReadInOrder(task.call, task.how)

\* Every call returns or throws, but for readAll on a card with as many pages
\* as a BYTE numbers, whose page number comes round to the first page again.
CallsEnd == Busy /\ ~ (task.op = "readAll" /\ cardPages = ByteSpace) ~> Idle
=============================================================================
