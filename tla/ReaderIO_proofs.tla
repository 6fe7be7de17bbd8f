-------------------------- MODULE ReaderIO_proofs --------------------------
(***************************************************************************)
(* What ReaderIO promises, for every card, page size, block size and data: *)
(* the block size of the program is in place between the calls, and what   *)
(* is written and read is a run of pages, in order.                        *)
(*                                                                         *)
(* The invariant behind both says what a call under way has kept and done: *)
(* the block size it will put back is the program's own (Kept), a write    *)
(* has put the pages it has passed in their places, but those it passed    *)
(* over (WriteUnderWay), and a read whose answers were pages has what the  *)
(* card holds from its first page on (ReadUnderWay).  On a card with fewer *)
(* pages than a BYTE numbers a read does not come round to the first page: *)
(* the page after the last stops it (Stretch).                             *)
(***************************************************************************)
EXTENDS ReaderIO, SequenceTheorems, TLAPS

-----------------------------------------------------------------------------
(* The inductive invariant.                                                *)

Page == [1 .. PageSize -> Values]
Memories == [Pages -> Page]

Writes ==
  [op : {"writeData"}, start : Pages, i : Nat, data : Seq(Values), pages : Nat,
   passed : SUBSET Nat, saved : Sizes, before : Memories]

ReadCalls ==
  [op : Reads, start : Pages, page : Pages, length : Nat, size : Sizes,
   remaining : Nat, out : Seq(Values), odd : SUBSET Nat, saved : Sizes]

Hows == {"ok", "cut", "threw"}
Ended == [op : {"ended"}, call : Writes \cup ReadCalls, how : Hows]

\* The variables but the link and the card have their types.
Typed ==
  /\ le \in Sizes /\ chosen \in Sizes
  /\ cardPages \in CardSizes /\ memory \in Memories
  /\ task \in {NoTask} \cup Writes \cup ReadCalls \cup Ended

Linked == link \in {"none", "up", "stale"} /\ present \in BOOLEAN /\ (link = "up" => present)

\* What a call will put back is what the program has set, and a read counts
\* in the block size that is in place.
Kept ==
  /\ Busy => task.saved = chosen
  /\ ~ Busy => le = chosen
  /\ task.op \in Reads => task.size = le

\* Written and Gathered of a given memory.
WrittenOn(m, call, n) ==
  \A page \in Pages :
    LET to == {i \in 0 .. n - 1 : PageOf(call, i) = page /\ i \notin call.passed} IN
    \/ to = {} /\ m[page] = call.before[page]
    \/ \E i \in to : (\A j \in to : j <= i) /\ m[page] = Padded(call, i)

GatheredOn(m, call) ==
  \A j \in 1 .. Len(call.out) :
    call.out[j] = m[PageOf(call, (j - 1) \div PageSize)][((j - 1) % PageSize) + 1]

\* A write has done the pages before the one it is at.
WriteUnderWay(m, call) ==
  /\ call.i <= call.pages /\ call.passed \subseteq 0 .. call.i - 1
  /\ WrittenOn(m, call, call.i)

\* A read has k pages, of a card with the given number of them.
Stretch(pages, call, k) ==
  /\ Len(call.out) = k * PageSize
  /\ call.page = PageOf(call, k)
  /\ k > 0 /\ pages < ByteSpace => call.start + k <= pages

\* readData and readPage still want what they have not.
Wanted(call) ==
  /\ call.op = "readData" => call.length <= call.remaining + Len(call.out)
  /\ call.op = "readPage" =>
       \/ call.remaining = PageSize /\ Len(call.out) = 0
       \/ call.remaining = 0 /\ Len(call.out) = PageSize

ReadUnderWay(m, pages, call) ==
  InPages(call) =>
    /\ GatheredOn(m, call) /\ Wanted(call)
    /\ \E k \in Nat : Stretch(pages, call, k)

UnderWay ==
  /\ task.op = "writeData" => WriteUnderWay(memory, task)
  /\ task.op \in Reads => ReadUnderWay(memory, cardPages, task)

IInv == Typed /\ Linked /\ Kept /\ UnderWay /\ TransfersInOrder

-----------------------------------------------------------------------------
(* What the constants give, and the shapes of the calls.                   *)

LEMMA Constants ==
  /\ PageSize \in Nat \ {0} /\ PageSize \in Sizes
  /\ ByteSpace \in Nat /\ CardSizes \subseteq 1 .. ByteSpace
  /\ Sizes \subseteq Nat \ {0} /\ Answers \subseteq Nat /\ 0 \in Values /\ MaxLength \in Nat
  BY PageAssumption, SpaceAssumption, SizesAssumption, DataAssumption

LEMMA DataAreSequences == Data \subseteq Seq(Values)
<1>1. \A n \in 0 .. MaxLength : n \in Nat
  BY Constants
<1>. QED  BY <1>1, SeqDef DEF Data

\* A task with an operation is of the shape of that operation.
LEMMA Shapes ==
  ASSUME Typed
  PROVE  /\ task.op = "writeData" => task \in Writes
         /\ task.op \in Reads => task \in ReadCalls
         /\ task.op = "ended" => task \in Ended
         /\ Busy <=> task \in Writes \cup ReadCalls
         /\ Idle => ~ Busy /\ task.op = "idle"
  BY DEF Typed, Writes, ReadCalls, Ended, Reads, Busy, NoTask, Idle

LEMMA WriteFields ==
  ASSUME NEW call \in Writes
  PROVE  /\ call.op = "writeData" /\ call.start \in Nat /\ call.start < ByteSpace
         /\ call.i \in Nat /\ call.data \in Seq(Values) /\ Len(call.data) \in Nat
         /\ call.pages \in Nat /\ call.before \in Memories
  BY Constants DEF Writes, Pages

LEMMA ReadFields ==
  ASSUME NEW call \in ReadCalls
  PROVE  /\ call.op \in Reads /\ call.start \in Nat /\ call.start < ByteSpace
         /\ call.page \in Nat /\ call.page < ByteSpace
         /\ call.length \in Nat /\ call.size \in Nat \ {0} /\ call.remaining \in Nat
         /\ call.out \in Seq(Values) /\ Len(call.out) \in Nat
<1>1. /\ call.op \in Reads /\ call.start \in Pages /\ call.page \in Pages
      /\ call.length \in Nat /\ call.size \in Sizes /\ call.remaining \in Nat
      /\ call.out \in Seq(Values)
  BY DEF ReadCalls
<1>2. call.start \in Nat /\ call.start < ByteSpace /\ call.page \in Nat /\ call.page < ByteSpace
  BY <1>1, Constants DEF Pages
<1>3. call.size \in Nat \ {0} /\ Len(call.out) \in Nat
  BY <1>1, Constants, LenProperties
<1>. QED  BY <1>1, <1>2, <1>3

\* The page of a call is a page number, and the next one comes after it.
LEMMA PageNumbers ==
  ASSUME NEW start \in Nat, start < ByteSpace, NEW n \in Nat
  PROVE  /\ (start + n) % ByteSpace \in Pages
         /\ (((start + n) % ByteSpace) + 1) % ByteSpace = (start + n + 1) % ByteSpace
         /\ start + n < ByteSpace => (start + n) % ByteSpace = start + n
<1>1. ByteSpace \in Nat \ {0} /\ start + n \in Nat
  BY Constants
<1>2. ASSUME NEW B \in Nat \ {0}, NEW at \in Nat
      PROVE  /\ at % B \in 0 .. B - 1 /\ at \div B \in Nat
             /\ at = B * (at \div B) + (at % B)
  BY ONLY <1>2
<1>3. ASSUME NEW B \in Nat \ {0}, NEW q \in Nat, NEW r \in 0 .. B - 1
      PROVE  (B * q + r) % B = r
  <2>1. B * q \in Nat /\ r \in Nat /\ r < B
    BY ONLY <1>3
  <2>2. ASSUME NEW a \in Nat, a = q * B + r PROVE a % B = r
    BY ONLY <1>3, <2>2
  <2>3. B * q = q * B
    BY ONLY <1>3
  <2>4. B * q + r \in Nat /\ B * q + r = q * B + r
    BY ONLY <2>1, <2>3
  <2>. QED  BY ONLY <2>2, <2>4
<1>4. PICK r, q : /\ r \in 0 .. ByteSpace - 1 /\ q \in Nat
                  /\ r = (start + n) % ByteSpace /\ start + n = ByteSpace * q + r
  <2>1. /\ (start + n) % ByteSpace \in 0 .. ByteSpace - 1 /\ (start + n) \div ByteSpace \in Nat
        /\ start + n = ByteSpace * ((start + n) \div ByteSpace) + ((start + n) % ByteSpace)
    BY ONLY <1>1, <1>2
  <2>. QED  BY ONLY <2>1, Zenon
<1>5. (r + 1) % ByteSpace = (start + n + 1) % ByteSpace
  <2>1. CASE r + 1 < ByteSpace
    <3>1. start + n + 1 = ByteSpace * q + (r + 1) /\ r + 1 \in 0 .. ByteSpace - 1
      BY <1>1, <1>4, <2>1
    <3>2. (r + 1) % ByteSpace = r + 1
      BY <1>1, <3>1
    <3>. QED  BY <1>1, <1>3, <1>4, <3>1, <3>2
  <2>2. CASE r + 1 = ByteSpace
    <3>1. ByteSpace * (q + 1) = ByteSpace * q + ByteSpace
      BY <1>1, <1>4
    <3>2. start + n + 1 = ByteSpace * (q + 1) + 0 /\ 0 \in 0 .. ByteSpace - 1 /\ q + 1 \in Nat
      BY <1>1, <1>4, <2>2, <3>1
    <3>3. (r + 1) % ByteSpace = 0
      BY <1>1, <2>2
    <3>. QED  BY <1>1, <1>3, <3>2, <3>3
  <2>. QED  BY <1>1, <1>4, <2>1, <2>2
<1>6. start + n < ByteSpace => (start + n) % ByteSpace = start + n
  BY <1>1
<1>. QED  BY <1>4, <1>5, <1>6 DEF Pages

-----------------------------------------------------------------------------
(* Writing a page.                                                         *)

LEMMA PaddedIsPage ==
  ASSUME NEW call \in Writes, NEW i \in Nat
  PROVE  Padded(call, i) \in Page
<1>. DEFINE Byte(b) == IF i * PageSize + b <= Len(call.data) THEN call.data[i * PageSize + b] ELSE 0
<1>1. ASSUME NEW b \in 1 .. PageSize PROVE Byte(b) \in Values
  <2>1. i * PageSize \in Nat
    BY Constants
  <2>2. i * PageSize + b \in Nat \ {0}
    BY <2>1, Constants
  <2>3. ASSUME NEW j \in Nat \ {0}, j <= Len(call.data) PROVE call.data[j] \in Values
    BY <2>3, WriteFields, ElementOfSeq
  <2>. QED  BY <2>2, <2>3, Constants
<1>2. Padded(call, i) = [b \in 1 .. PageSize |-> Byte(b)]
  BY DEF Padded
<1>. HIDE DEF Byte
<1>. QED  BY <1>1, <1>2 DEF Page

\* The chunk of a page at the block size of a page is the page of the call.
LEMMA ChunkIsPadded ==
  ASSUME le = PageSize
  PROVE  Chunk = Padded(task, task.i)
  BY DEF Chunk, Padded

\* What the pages of a call that went to a page depend on.
SameWrite(before, after) ==
  /\ after.op = before.op /\ after.start = before.start /\ after.data = before.data
  /\ after.pages = before.pages /\ after.saved = before.saved /\ after.before = before.before

\* Nothing is written yet.
LEMMA WrittenNothing ==
  ASSUME NEW m, NEW call, call.before = m
  PROVE  WrittenOn(m, call, 0)
<1>1. 0 .. 0 - 1 = {}
  OBVIOUS
<1>. QED  BY <1>1 DEF WrittenOn

\* The card takes the n-th page of the call.
LEMMA PageTaken ==
  ASSUME NEW m \in Memories, NEW n \in Nat, NEW call, call.passed \subseteq 0 .. n - 1,
         WrittenOn(m, call, n), NEW at \in Pages, at = PageOf(call, n),
         NEW chunk, chunk = Padded(call, n)
  PROVE  WrittenOn([m EXCEPT ![at] = chunk], call, n + 1)
<1>. DEFINE To(k, page) == {i \in 0 .. k - 1 : PageOf(call, i) = page /\ i \notin call.passed}
            Holds(mem, k, page) ==
              \/ To(k, page) = {} /\ mem[page] = call.before[page]
              \/ \E i \in To(k, page) : (\A j \in To(k, page) : j <= i) /\ mem[page] = Padded(call, i)
            after == [m EXCEPT ![at] = chunk]
<1>1. \A page \in Pages : Holds(m, n, page)
  BY DEF WrittenOn
<1>2. n \in 0 .. (n + 1) - 1 /\ n \notin call.passed
  OBVIOUS
<1>3. ASSUME NEW page \in Pages PROVE Holds(after, n + 1, page)
  <2>1. CASE page = at
    <3>1. n \in To(n + 1, page)
      BY <1>2, <2>1
    <3>2. \A j \in To(n + 1, page) : j <= n
      OBVIOUS
    <3>3. after[page] = Padded(call, n)
      BY <2>1 DEF Memories
    <3>. QED  BY <3>1, <3>2, <3>3
  <2>2. CASE page # at
    <3>1. To(n + 1, page) = To(n, page)
      BY <2>2
    <3>2. after[page] = m[page]
      BY <2>2 DEF Memories
    <3>3. Holds(m, n, page)
      BY <1>1
    <3>. HIDE DEF To, after
    <3>. QED  BY <3>1, <3>2, <3>3
  <2>. QED  BY <2>1, <2>2
<1>. QED  BY <1>3 DEF WrittenOn

\* The n-th page of the call is passed over.
LEMMA PagePassed ==
  ASSUME NEW m, NEW n \in Nat, NEW call, WrittenOn(m, call, n), call.passed \subseteq 0 .. n - 1,
         NEW then, SameWrite(call, then), then.passed = call.passed \cup {n}
  PROVE  WrittenOn(m, then, n + 1)
<1>. DEFINE To(c, k, page) == {i \in 0 .. k - 1 : PageOf(c, i) = page /\ i \notin c.passed}
            Holds(c, k, page) ==
              \/ To(c, k, page) = {} /\ m[page] = c.before[page]
              \/ \E i \in To(c, k, page) : (\A j \in To(c, k, page) : j <= i) /\ m[page] = Padded(c, i)
<1>1. \A page \in Pages : Holds(call, n, page)
  BY DEF WrittenOn
<1>2. \A i \in Nat : PageOf(then, i) = PageOf(call, i) /\ Padded(then, i) = Padded(call, i)
  BY DEF SameWrite, PageOf, Padded
<1>3. ASSUME NEW page \in Pages PROVE Holds(then, n + 1, page)
  <2>1. To(then, n + 1, page) = To(call, n, page)
    BY <1>2
  <2>2. Holds(call, n, page) /\ then.before = call.before
    BY <1>1 DEF SameWrite
  <2>3. To(call, n, page) \subseteq Nat
    OBVIOUS
  <2>. HIDE DEF To
  <2>. QED  BY <1>2, <2>1, <2>2, <2>3
<1>. QED  BY <1>3 DEF WrittenOn

\* Calls that differ in the page they are at have written the same.
LEMMA WrittenAlike ==
  ASSUME NEW m, NEW n, NEW call, NEW then, SameWrite(call, then), then.passed = call.passed
  PROVE  WrittenOn(m, call, n) <=> WrittenOn(m, then, n)
<1>1. \A i : PageOf(then, i) = PageOf(call, i) /\ Padded(then, i) = Padded(call, i)
  BY DEF SameWrite, PageOf, Padded
<1>2. then.before = call.before
  BY DEF SameWrite
<1>. QED  BY <1>1, <1>2, Zenon DEF WrittenOn

-----------------------------------------------------------------------------
(* Reading a page.                                                         *)

\* A place in the run of the pages: the page it lies in and its place there.
LEMMA PlaceInPage ==
  ASSUME NEW k \in Nat, NEW c \in 1 .. PageSize
  PROVE  /\ (k * PageSize + c - 1) \div PageSize = k
         /\ (k * PageSize + c - 1) % PageSize = c - 1
<1>1. PageSize \in Nat \ {0}
  BY Constants
<1>2. ASSUME NEW P \in Nat \ {0}, NEW r \in 0 .. P - 1, NEW b \in Nat, b = k * P + r
      PROVE  b \div P = k /\ b % P = r
  BY <1>2
<1>3. c - 1 \in 0 .. PageSize - 1 /\ k * PageSize \in Nat
  BY <1>1
<1>4. k * PageSize + c - 1 = k * PageSize + (c - 1) /\ k * PageSize + (c - 1) \in Nat
  BY <1>1, <1>3
<1>. QED  BY <1>1, <1>2, <1>3, <1>4

LEMMA StoredIsData ==
  ASSUME Typed, NEW page \in Nat, NEW n \in Nat
  PROVE  Stored(page, n) \in Seq(Values) /\ Len(Stored(page, n)) = n
<1>. DEFINE Byte(b) == memory[(page + ((b - 1) \div PageSize)) % cardPages][((b - 1) % PageSize) + 1]
<1>1. PageSize \in Nat \ {0} /\ cardPages \in Nat \ {0} /\ cardPages <= ByteSpace /\ ByteSpace \in Nat
  BY Constants DEF Typed
<1>2. ASSUME NEW b \in 1 .. n PROVE Byte(b) \in Values
  <2>1. b - 1 \in Nat
    OBVIOUS
  <2>2. (b - 1) \div PageSize \in Nat /\ ((b - 1) % PageSize) + 1 \in 1 .. PageSize
    BY <1>1, <2>1
  <2>3. (page + ((b - 1) \div PageSize)) % cardPages \in Pages
    BY <1>1, <2>2 DEF Pages
  <2>4. memory \in [Pages -> [1 .. PageSize -> Values]]
    BY DEF Typed, Memories, Page
  <2>. QED  BY <2>2, <2>3, <2>4
<1>3. Stored(page, n) = [b \in 1 .. n |-> Byte(b)]
  BY DEF Stored
<1>. HIDE DEF Byte
<1>4. Stored(page, n) \in [1 .. n -> Values]
  BY <1>2, <1>3
<1>5. Stored(page, n) \in Seq(Values)
  BY <1>4, SeqDef
<1>. QED  BY <1>4, <1>5, LenProperties

\* What a page of the card holds.
LEMMA StoredPage ==
  ASSUME Typed, NEW page \in Nat, page < cardPages, NEW c \in 1 .. PageSize
  PROVE  Stored(page, PageSize)[c] = memory[page][c]
<1>1. PageSize \in Nat \ {0} /\ cardPages \in Nat \ {0}
  BY Constants DEF Typed
<1>2. (c - 1) \div PageSize = 0 /\ (c - 1) % PageSize = c - 1
  BY <1>1
<1>3. (page + 0) % cardPages = page
  BY <1>1
<1>4. Stored(page, PageSize)[c] = memory[(page + ((c - 1) \div PageSize)) % cardPages][((c - 1) % PageSize) + 1]
  BY DEF Stored
<1>. QED  BY <1>2, <1>3, <1>4

\* What a read does not change when it takes a page.
SameCall(before, after) ==
  /\ after.op = before.op /\ after.start = before.start /\ after.length = before.length
  /\ after.size = before.size /\ after.saved = before.saved

\* The k-th page is appended to what a read has.
LEMMA PageGathered ==
  ASSUME Typed, NEW call \in ReadCalls, GatheredOn(memory, call), NEW k \in Nat,
         Stretch(cardPages, call, k), call.page < cardPages,
         NEW then, SameCall(call, then), then.out = call.out \o Stored(call.page, PageSize)
  PROVE  GatheredOn(memory, then) /\ Len(then.out) = Len(call.out) + PageSize
<1>. DEFINE so_far == Len(call.out)
            answer == Stored(call.page, PageSize)
<1>1. /\ call.page \in Nat /\ so_far \in Nat /\ call.out \in Seq(Values)
      /\ PageSize \in Nat \ {0}
  BY ReadFields, Constants
<1>2. so_far = k * PageSize /\ call.page = PageOf(call, k)
  BY DEF Stretch
<1>3. /\ answer \in Seq(Values) /\ Len(answer) = PageSize
      /\ \A c \in 1 .. PageSize : answer[c] = memory[call.page][c]
  BY <1>1, StoredIsData, StoredPage
<1>4. /\ Len(then.out) = so_far + PageSize
      /\ \A j \in 1 .. so_far + PageSize :
           then.out[j] = IF j <= so_far THEN call.out[j] ELSE answer[j - so_far]
  <2>1. then.out = call.out \o answer /\ so_far = Len(call.out)
    OBVIOUS
  <2>. HIDE DEF so_far, answer
  <2>2. /\ Len(call.out \o answer) = Len(call.out) + Len(answer)
        /\ \A j \in 1 .. Len(call.out) + Len(answer) :
             (call.out \o answer)[j] =
               IF j <= Len(call.out) THEN call.out[j] ELSE answer[j - Len(call.out)]
    BY ONLY <1>1, <1>3, ConcatProperties, Zenon
  <2>3. Len(answer) = PageSize
    BY <1>3
  <2>. QED  BY ONLY <2>1, <2>2, <2>3, Zenon
<1>5. \A i : PageOf(then, i) = PageOf(call, i)
  BY DEF PageOf, SameCall
<1>6. ASSUME NEW j \in 1 .. Len(then.out)
      PROVE  then.out[j] = memory[PageOf(then, (j - 1) \div PageSize)][((j - 1) % PageSize) + 1]
  <2>1. j \in 1 .. so_far + PageSize
    BY <1>4
  <2>2. CASE j <= so_far
    <3>1. j \in 1 .. so_far
      BY <2>1, <2>2, <1>1
    <3>2. call.out[j] = memory[PageOf(call, (j - 1) \div PageSize)][((j - 1) % PageSize) + 1]
      BY <3>1 DEF GatheredOn
    <3>3. then.out[j] = call.out[j]
      BY <1>4, <2>1, <2>2
    <3>. QED  BY <1>5, <3>2, <3>3, Zenon
  <2>3. CASE j > so_far
    <3>. DEFINE c == j - so_far
    <3>1. c \in 1 .. PageSize /\ ~ (j <= so_far) /\ j - 1 = so_far + c - 1
      BY <2>1, <2>3, <1>1
    <3>2. then.out[j] = answer[c]
      BY <1>4, <2>1, <3>1
    <3>. HIDE DEF c
    <3>3. (j - 1) \div PageSize = k /\ (j - 1) % PageSize = c - 1
      BY <1>2, <3>1, PlaceInPage
    <3>4. ((j - 1) % PageSize) + 1 = c
      BY <3>1, <3>3, <1>1
    <3>5. answer[c] = memory[PageOf(call, k)][c]
      BY <1>2, <1>3, <3>1
    <3>. QED  BY <1>5, <3>2, <3>3, <3>4, <3>5
  <2>. QED  BY <2>1, <2>2, <2>3, <1>1
<1>. QED  BY <1>4, <1>6 DEF GatheredOn

\* It is at the page after that.
LEMMA StretchGrows ==
  ASSUME NEW pages \in 1 .. ByteSpace, NEW call \in ReadCalls, NEW k \in Nat,
         Stretch(pages, call, k), call.page < pages,
         NEW then, SameCall(call, then), then.page = (call.page + 1) % ByteSpace,
         Len(then.out) = Len(call.out) + PageSize
  PROVE  Stretch(pages, then, k + 1)
<1>1. call.start \in Nat /\ call.start < ByteSpace /\ ByteSpace \in Nat /\ PageSize \in Nat
  BY ReadFields, Constants
<1>2. call.page = (call.start + k) % ByteSpace /\ Len(call.out) = k * PageSize
  BY DEF Stretch, PageOf
<1>3. then.page = (call.start + k + 1) % ByteSpace
  BY <1>1, <1>2, PageNumbers
<1>4. then.page = PageOf(then, k + 1)
  <2>1. call.start + k + 1 = call.start + (k + 1)
    BY <1>1
  <2>. QED  BY <1>3, <2>1 DEF PageOf, SameCall
<1>5. Len(then.out) = (k + 1) * PageSize
  <2>1. (k + 1) * PageSize = k * PageSize + PageSize
    BY <1>1
  <2>. QED  BY <1>2, <2>1
<1>6. pages < ByteSpace => call.start + (k + 1) <= pages
  <2>. SUFFICES ASSUME pages < ByteSpace PROVE call.start + (k + 1) <= pages
    OBVIOUS
  <2>1. call.start + k < ByteSpace
    <3>1. k > 0 => call.start + k <= pages
      BY DEF Stretch
    <3>. QED  BY <3>1, <1>1
  <2>2. call.page = call.start + k
    BY <1>1, <1>2, <2>1, PageNumbers
  <2>. QED  BY <1>1, <2>2
<1>7. then.start = call.start
  BY DEF SameCall
<1>. QED  BY <1>4, <1>5, <1>6, <1>7 DEF Stretch

-----------------------------------------------------------------------------
(* The steps, one lemma for each kind.                                     *)

\* The card or the link moves: what a call has done and kept stands.
LEMMA LinkMoves ==
  ASSUME IInv, Linked', UNCHANGED <<le, chosen, cardPages, memory, task>>,
         Idle \/ (link = "none" <=> link' = "none")
  PROVE  IInv'
<1>1. Typed' /\ Kept' /\ UnderWay'
  BY DEF IInv, Typed, Kept, Busy, UnderWay
<1>2. CASE Idle
  <2>1. task' = NoTask /\ task'.op # "ended"
    BY <1>2 DEF Idle, NoTask
  <2>. QED  BY <1>1, <2>1 DEF IInv, TransfersInOrder
<1>3. CASE link = "none" <=> link' = "none"
  <2>1. TransfersInOrder'
    BY <1>3 DEF IInv, TransfersInOrder, WrittenInOrder, Written, ReadInOrder, Gathered
  <2>. QED  BY <1>1, <2>1 DEF IInv
<1>. QED  BY <1>2, <1>3

\* A write begins: it has done nothing.
LEMMA WriteBegins ==
  ASSUME IInv, Idle, le' \in Sizes, UNCHANGED <<chosen, link, present, cardPages, memory>>,
         NEW page \in Pages, NEW data \in Seq(Values), NEW pages \in Nat,
         Write(page, data, pages)
  PROVE  IInv'
<1>1. /\ task' \in Writes /\ task'.op = "writeData" /\ task'.i = 0 /\ task'.saved = le
      /\ task'.before = memory /\ task'.passed = {} /\ task'.pages \in Nat
  BY DEF Write, Writes, IInv, Typed
<1>2. Typed' /\ Linked'
  BY <1>1 DEF IInv, Typed, Linked
<1>3. Busy' /\ ~ (task'.op \in Reads) /\ task'.op # "ended" /\ le = chosen
  BY <1>1, Shapes DEF Busy, Reads, IInv, Kept
<1>4. Kept'
  BY <1>1, <1>3 DEF Kept
<1>5. WrittenOn(memory', task', 0)
  BY <1>1, WrittenNothing
<1>6. WriteUnderWay(memory', task')
  BY <1>1, <1>5 DEF WriteUnderWay
<1>. QED  BY <1>1, <1>2, <1>3, <1>4, <1>6 DEF IInv, UnderWay, TransfersInOrder

\* A read begins: it has nothing yet, and wants the whole of its length.
LEMMA ReadBegins ==
  ASSUME IInv, Idle, le' \in Sizes, UNCHANGED <<chosen, link, present, cardPages, memory>>,
         NEW op \in Reads, NEW page \in Pages, NEW length \in Nat,
         op = "readPage" => length = le', Read(op, page, length)
  PROVE  IInv'
<1>1. /\ task' \in ReadCalls /\ task'.op = op /\ task'.page = page /\ task'.start = page
      /\ task'.saved = le /\ task'.size = le' /\ task'.out = <<>>
      /\ task'.length = length /\ task'.remaining = length
  BY DEF Read, ReadCalls, IInv, Typed
<1>2. Typed' /\ Linked'
  BY <1>1 DEF IInv, Typed, Linked
<1>3. Busy' /\ task'.op # "writeData" /\ task'.op # "ended" /\ le = chosen
  BY <1>1, Shapes DEF Busy, Reads, IInv, Kept
<1>4. Kept'
  BY <1>1, <1>3 DEF Kept
<1>5. Len(task'.out) = 0
  BY <1>1, EmptySeq
<1>6. GatheredOn(memory', task')
  BY <1>5 DEF GatheredOn
<1>7. InPages(task') => Wanted(task')
  BY <1>1, <1>5 DEF Wanted, InPages
<1>8. Stretch(cardPages', task', 0)
  <2>1. page \in Nat /\ page < ByteSpace
    BY Constants DEF Pages
  <2>2. (page + 0) % ByteSpace = page
    BY <2>1, Constants
  <2>3. 0 * PageSize = 0
    BY Constants
  <2>. QED  BY <1>1, <1>5, <2>2, <2>3 DEF Stretch, PageOf
<1>9. ReadUnderWay(memory', cardPages', task')
  BY <1>6, <1>7, <1>8 DEF ReadUnderWay
<1>. QED  BY <1>2, <1>3, <1>4, <1>9 DEF IInv, UnderWay, TransfersInOrder

\* A call ends, however: the block size is back.
LEMMA EndsKept ==
  ASSUME IInv, Busy, NEW call \in Writes \cup ReadCalls, NEW how \in Hows, Ends(call, how),
         memory' \in Memories, UNCHANGED <<chosen, link, present, cardPages>>
  PROVE  /\ Typed' /\ Linked' /\ Kept' /\ UnderWay'
         /\ task'.op = "ended" /\ task'.call = call /\ task'.how = how
<1>1. task \in Writes \cup ReadCalls
  BY Shapes DEF IInv
<1>2. task' \in Ended /\ task'.op = "ended" /\ task'.call = call /\ task'.how = how
  BY DEF Ends, Ended
<1>3. task.saved \in Sizes /\ task.saved = chosen
  BY <1>1 DEF Writes, ReadCalls, IInv, Kept
<1>4. Typed' /\ Linked'
  BY <1>2, <1>3 DEF IInv, Typed, Linked, Ends
<1>5. ~ Busy' /\ ~ (task'.op \in Reads) /\ task'.op # "writeData"
  BY <1>2 DEF Busy, Reads
<1>6. Kept' /\ UnderWay'
  BY <1>3, <1>5 DEF Kept, UnderWay, Ends
<1>. QED  BY <1>2, <1>4, <1>6

\* A write ends: with every page behind it, or, by an exception, with the
\* first ones and perhaps the one whose answer was lost.
LEMMA WriteEnds ==
  ASSUME IInv, task.op = "writeData", NEW how \in {"ok", "threw"}, Ends(task, how),
         UNCHANGED <<chosen, link, present, cardPages>>, memory' \in Memories,
         NEW n \in {task.i, task.i + 1}, n <= task.pages, how = "ok" => n = task.pages,
         WrittenOn(memory', task, n)
  PROVE  IInv'
<1>1. Busy /\ task \in Writes /\ ~ (task.op \in Reads)
  BY Shapes DEF IInv, Busy, Reads
<1>2. /\ Typed' /\ Linked' /\ Kept' /\ UnderWay'
      /\ task'.op = "ended" /\ task'.call = task /\ task'.how = how
  <2>1. task \in Writes \cup ReadCalls /\ how \in Hows
    BY <1>1 DEF Hows
  <2>. QED  BY <1>1, <2>1, EndsKept
<1>3. PICK call : call = task
  OBVIOUS
<1>4. task'.call = call /\ WrittenOn(memory', call, n)
  BY <1>2, <1>3
<1>5. Written(call, n)'
  BY <1>4 DEF WrittenOn, Written
<1>6. WrittenInOrder(call, how)'
  BY <1>3, <1>5 DEF WrittenInOrder
<1>7. (task'.call.op = "writeData" => WrittenInOrder(task.call, task.how)')
      /\ ~ (task'.call.op \in Reads)
  BY <1>1, <1>2, <1>3, <1>6
<1>. QED  BY <1>2, <1>7 DEF IInv, TransfersInOrder

\* A write has one more page behind it.
LEMMA WriteGoesOn ==
  ASSUME IInv, task.op = "writeData", task.i < task.pages,
         UNCHANGED <<le, chosen, link, present, cardPages>>, memory' \in Memories,
         task' \in Writes, SameWrite(task, task'), task'.i = task.i + 1,
         task'.passed \subseteq 0 .. task.i, WrittenOn(memory', task', task.i + 1)
  PROVE  IInv'
<1>1. task \in Writes /\ task.i \in Nat /\ task.pages \in Nat
  BY Shapes, WriteFields DEF IInv
<1>2. task'.op = "writeData" /\ task'.pages = task.pages /\ task'.saved = task.saved
  BY DEF SameWrite
<1>3. Typed' /\ Linked'
  BY DEF IInv, Typed, Linked
<1>4. Busy /\ Busy' /\ ~ (task'.op \in Reads) /\ task'.op # "ended"
  BY <1>2 DEF Busy, Reads
<1>5. Kept'
  BY <1>2, <1>4 DEF IInv, Kept
<1>6. task'.i <= task'.pages /\ task'.i - 1 = task.i
  BY <1>1, <1>2
<1>7. WriteUnderWay(memory', task')
  BY <1>6 DEF WriteUnderWay
<1>. QED  BY <1>3, <1>4, <1>5, <1>7 DEF IInv, UnderWay, TransfersInOrder

LEMMA WriteDataStep ==
  ASSUME IInv, WriteData
  PROVE  IInv'
<1>1. task.op = "writeData" /\ UNCHANGED <<chosen, link, present, cardPages>>
  BY DEF WriteData
<1>2. task \in Writes
  BY <1>1, Shapes DEF IInv
<1>3. /\ task.i \in Nat /\ task.pages \in Nat /\ memory \in Memories
      /\ task.start \in Nat /\ task.start < ByteSpace
  BY <1>2, WriteFields DEF IInv, Typed
<1>4. /\ task.i <= task.pages /\ task.passed \subseteq 0 .. task.i - 1
      /\ WrittenOn(memory, task, task.i)
  BY <1>1 DEF IInv, UnderWay, WriteUnderWay
<1>5. CASE ~ (task.i < task.pages)
  <2>1. Ends(task, "ok") /\ memory' = memory
    BY <1>5 DEF WriteData
  <2>2. task.i = task.pages
    BY <1>3, <1>4, <1>5
  <2>3. WrittenOn(memory', task, task.i)
    BY <1>4, <2>1
  <2>. QED  BY <1>1, <1>3, <1>4, <2>1, <2>2, <2>3, WriteEnds
<1>6. CASE task.i < task.pages
  <2>1. WriteStep
    BY <1>6 DEF WriteData
  <2>. DEFINE page == PageOf(task, task.i)
  <2>2. CASE Ends(task, "threw") /\ UNCHANGED memory
    <3>1. WrittenOn(memory', task, task.i)
      BY <1>4, <2>2
    <3>. QED  BY <1>1, <1>3, <1>4, <2>2, <3>1, WriteEnds
  <2>3. CASE /\ OnCard(page) /\ le = PageSize
             /\ memory' = [memory EXCEPT ![page] = Chunk]
             /\ \/ Ends(task, "threw")
                \/ task' = [task EXCEPT !.i = @ + 1] /\ UNCHANGED le
    <3>1. page \in Pages
      BY <1>3, PageNumbers DEF PageOf
    <3>2. Chunk = Padded(task, task.i) /\ Chunk \in Page
      BY <1>2, <1>3, <2>3, ChunkIsPadded, PaddedIsPage
    <3>3. memory' \in Memories
      BY <1>3, <2>3, <3>2 DEF Memories
    <3>4. WrittenOn([memory EXCEPT ![page] = Chunk], task, task.i + 1)
      <4>1. PICK at, chunk, m, n :
              at = page /\ chunk = Chunk /\ m = memory /\ n = task.i
        OBVIOUS
      <4>. HIDE DEF page
      <4>. QED  BY <1>3, <1>4, <3>1, <3>2, PageTaken DEF page
    <3>5. WrittenOn(memory', task, task.i + 1)
      BY <2>3, <3>4
    <3>6. CASE Ends(task, "threw")
      <4>1. task.i + 1 <= task.pages
        BY <1>3, <1>6
      <4>. QED  BY <1>1, <3>3, <3>5, <3>6, <4>1, WriteEnds
    <3>7. CASE task' = [task EXCEPT !.i = @ + 1] /\ UNCHANGED le
      <4>1. /\ task' \in Writes /\ SameWrite(task, task') /\ task'.i = task.i + 1
            /\ task'.passed = task.passed
        BY <1>2, <1>3, <3>7 DEF Writes, SameWrite
      <4>2. task'.passed \subseteq 0 .. task.i
        BY <1>3, <1>4, <4>1
      <4>3. WrittenOn(memory', task', task.i + 1)
        BY <3>5, <4>1, WrittenAlike
      <4>. QED  BY <1>1, <1>6, <3>3, <3>7, <4>1, <4>2, <4>3, WriteGoesOn
    <3>. QED  BY <2>3, <3>6, <3>7
  <2>4. CASE /\ task' = [task EXCEPT !.i = @ + 1, !.passed = @ \cup {task.i}]
             /\ UNCHANGED <<le, memory>>
    <3>1. /\ task' \in Writes /\ SameWrite(task, task') /\ task'.i = task.i + 1
          /\ task'.passed = task.passed \cup {task.i}
      <4>1. task.passed \cup {task.i} \in SUBSET Nat /\ task.i + 1 \in Nat
        BY <1>2, <1>3 DEF Writes
      <4>2. PICK passed, i : passed = task.passed \cup {task.i} /\ i = task.i + 1
        OBVIOUS
      <4>3. task' = [task EXCEPT !.i = i, !.passed = passed]
        BY <2>4, <4>2
      <4>. QED  BY <1>2, <4>1, <4>2, <4>3 DEF Writes, SameWrite
    <3>2. task'.passed \subseteq 0 .. task.i
      BY <1>3, <1>4, <3>1
    <3>3. WrittenOn(memory, task', task.i + 1)
      BY <1>3, <1>4, <3>1, PagePassed
    <3>4. WrittenOn(memory', task', task.i + 1) /\ memory' \in Memories
      BY <1>3, <2>4, <3>3
    <3>. QED  BY <1>1, <1>6, <2>4, <3>1, <3>2, <3>4, WriteGoesOn
  <2>. QED  BY <2>1, <2>2, <2>3, <2>4 DEF WriteStep
<1>. QED  BY <1>5, <1>6

\* A read ends: by an exception, or with what it was asked for.
LEMMA ReadEnds ==
  ASSUME IInv, task.op \in Reads, NEW call \in ReadCalls, NEW how \in Hows, Ends(call, how),
         UNCHANGED <<chosen, link, present, cardPages, memory>>,
         how # "threw" => ReadInOrder(call, how)
  PROVE  IInv'
<1>1. Busy /\ call.op # "writeData" /\ memory' \in Memories
  BY ReadFields DEF Busy, Reads, IInv, Typed
<1>2. /\ Typed' /\ Linked' /\ Kept' /\ UnderWay'
      /\ task'.op = "ended" /\ task'.call = call /\ task'.how = how
  BY <1>1, EndsKept
<1>3. how # "threw" => ReadInOrder(call, how)'
  BY DEF ReadInOrder, Gathered
<1>. QED  BY <1>1, <1>2, <1>3 DEF IInv, TransfersInOrder

\* A read has one more answer.
LEMMA ReadGoesOn ==
  ASSUME IInv, task.op \in Reads, OnCard(task.page),
         UNCHANGED <<le, chosen, link, present, cardPages, memory>>,
         NEW n \in Answers, NEW left \in Nat, TakePage(n, left),
         task.op = "readAll" \/ (/\ task.remaining > 0
                                 /\ left = IF task.remaining > le THEN task.remaining - le ELSE 0)
  PROVE  IInv'
<1>1. task \in ReadCalls /\ Typed
  BY Shapes DEF IInv
<1>2. /\ le \in Nat \ {0} /\ task.page \in Nat /\ task.start \in Nat /\ task.out \in Seq(Values)
      /\ task.page < cardPages /\ n \in Nat /\ task.remaining \in Nat /\ task.length \in Nat
  BY <1>1, ReadFields, Constants DEF Typed, OnCard
<1>3. (task.page + 1) % ByteSpace \in Pages
  <2>1. ByteSpace \in Nat \ {0} /\ task.page + 1 \in Nat
    BY <1>1, <1>2, ReadFields, Constants
  <2>. QED  BY <2>1 DEF Pages
<1>4. task.out \o Stored(task.page, n) \in Seq(Values)
  BY <1>1, <1>2, StoredIsData, ConcatProperties
<1>5. /\ task' \in ReadCalls /\ SameCall(task, task') /\ task'.op = task.op
      /\ task'.out = task.out \o Stored(task.page, n)
      /\ task'.page = (task.page + 1) % ByteSpace /\ task'.remaining = left
      /\ task'.odd = IF n = PageSize THEN task.odd ELSE task.odd \cup {n}
  BY <1>1, <1>2, <1>3, <1>4 DEF TakePage, ReadCalls, SameCall
<1>6. Typed' /\ Linked'
  BY <1>5 DEF IInv, Typed, Linked
<1>7. Busy /\ Busy' /\ task'.op \in Reads /\ task'.op # "writeData" /\ task'.op # "ended"
  BY <1>5 DEF Busy, Reads
<1>8. Kept' /\ task.size = le
  BY <1>5, <1>7 DEF IInv, Kept, SameCall
<1>9. ReadUnderWay(memory, cardPages, task')
  <2>. SUFFICES ASSUME InPages(task')
                PROVE  /\ GatheredOn(memory, task') /\ Wanted(task')
                       /\ \E k \in Nat : Stretch(cardPages, task', k)
    BY DEF ReadUnderWay
  <2>1. n = PageSize /\ InPages(task) /\ le = PageSize
    BY <1>5, <1>8 DEF InPages, SameCall
  <2>2. GatheredOn(memory, task) /\ Wanted(task) /\ \E k \in Nat : Stretch(cardPages, task, k)
    BY <2>1 DEF IInv, UnderWay, ReadUnderWay
  <2>3. PICK k \in Nat : Stretch(cardPages, task, k)
    BY <2>2
  <2>4. task'.out = task.out \o Stored(task.page, PageSize)
    BY <1>5, <2>1
  <2>5. GatheredOn(memory, task') /\ Len(task'.out) = Len(task.out) + PageSize
    BY <1>1, <1>2, <1>5, <2>2, <2>3, <2>4, PageGathered
  <2>6. cardPages \in 1 .. ByteSpace
    BY <1>1, Constants DEF Typed
  <2>7. Stretch(cardPages, task', k + 1) /\ k + 1 \in Nat
    <3>1. /\ SameCall(task, task') /\ task'.page = (task.page + 1) % ByteSpace
          /\ Len(task'.out) = Len(task.out) + PageSize
          /\ task \in ReadCalls /\ task.page < cardPages
      BY <1>1, <1>2, <1>5, <2>5
    <3>2. Stretch(cardPages, task', k + 1)
      BY ONLY <2>3, <2>6, <3>1, StretchGrows, Zenon
    <3>. QED  BY <2>3, <3>2
  <2>8. Wanted(task')
    <3>. DEFINE has == Len(task.out)
                more == Len(task'.out)
                length == task.length
                remaining == task.remaining
    <3>1. /\ has \in Nat /\ more = has + PageSize /\ length \in Nat /\ remaining \in Nat
          /\ PageSize \in Nat \ {0} /\ task'.length = length /\ task'.remaining = left
      BY <1>1, <1>2, <1>5, <2>5, ReadFields, Constants DEF SameCall
    <3>2. task.op # "readAll" =>
            remaining > 0 /\ left = IF remaining > PageSize THEN remaining - PageSize ELSE 0
      BY <2>1
    <3>3. task.op = "readData" => length <= remaining + has
      BY <2>2 DEF Wanted
    <3>4. task.op = "readPage" => (remaining = PageSize /\ has = 0) \/ (remaining = 0 /\ has = PageSize)
      BY <2>2 DEF Wanted
    <3>. HIDE DEF has, more, length, remaining
    <3>5. task.op = "readData" => length <= left + more
      BY <3>1, <3>2, <3>3
    <3>6. task.op = "readPage" => left = 0 /\ more = PageSize
      BY <3>1, <3>2, <3>4
    <3>. QED  BY <1>5, <3>1, <3>5, <3>6 DEF Wanted, more
  <2>. QED  BY <2>5, <2>7, <2>8
<1>. QED  BY <1>6, <1>7, <1>8, <1>9 DEF IInv, UnderWay, TransfersInOrder

\* readData and readPage have nothing left to read.
LEMMA LengthRead ==
  ASSUME IInv, task.op \in {"readData", "readPage"}, task.remaining = 0,
         NEW call, call = IF task.op = "readData"
                          THEN [task EXCEPT !.out = Resized(@, task.length)] ELSE task
  PROVE  call \in ReadCalls /\ ReadInOrder(call, "ok")
<1>1. task \in ReadCalls /\ task.op \in Reads
  BY Shapes DEF IInv, Reads
<1>2. task.length \in Nat /\ task.out \in Seq(Values) /\ Len(task.out) \in Nat
  BY <1>1, ReadFields
<1>3. InPages(task) => GatheredOn(memory, task) /\ Wanted(task)
  BY <1>1 DEF IInv, UnderWay, ReadUnderWay
<1>4. CASE task.op = "readPage"
  <2>1. call = task
    BY <1>4
  <2>2. InPages(task) => Len(task.out) = PageSize
    BY <1>3, <1>4, Constants DEF Wanted
  <2>. QED  BY <1>1, <1>3, <1>4, <2>1, <2>2 DEF ReadInOrder, Gathered, GatheredOn
<1>5. CASE task.op = "readData"
  <2>. DEFINE out == Resized(task.out, task.length)
  <2>1. out \in Seq(Values) /\ Len(out) = task.length
        /\ \A j \in 1 .. task.length : out[j] = IF j <= Len(task.out) THEN task.out[j] ELSE 0
    <3>1. ASSUME NEW j \in 1 .. task.length
          PROVE  (IF j <= Len(task.out) THEN task.out[j] ELSE 0) \in Values
      BY <1>2, Constants, ElementOfSeq
    <3>2. out \in [1 .. task.length -> Values]
      BY <3>1 DEF Resized
    <3>3. out \in Seq(Values)
      BY <1>2, <3>2, SeqDef
    <3>4. Len(out) = task.length
      BY <1>2, <3>2, <3>3, LenProperties
    <3>. QED  BY <3>3, <3>4 DEF Resized
  <2>. HIDE DEF out
  <2>2. call = [task EXCEPT !.out = out]
    BY <1>5 DEF out
  <2>3. /\ call \in ReadCalls /\ call.out = out /\ call.op = "readData"
        /\ call.start = task.start /\ call.size = task.size /\ call.odd = task.odd
        /\ call.length = task.length
    BY <1>1, <1>5, <2>1, <2>2 DEF ReadCalls
  <2>4. ASSUME InPages(call) PROVE Gathered(call)
    <3>1. GatheredOn(memory, task) /\ task.length <= Len(task.out)
      <4>1. GatheredOn(memory, task) /\ task.length <= 0 + Len(task.out)
        BY <1>3, <1>5, <2>3, <2>4 DEF InPages, Wanted
      <4>. QED  BY <1>2, <4>1
    <3>2. ASSUME NEW j \in 1 .. Len(call.out) PROVE call.out[j] = task.out[j] /\ j \in 1 .. Len(task.out)
      BY <1>2, <2>1, <2>3, <3>1
    <3>3. \A i : PageOf(call, i) = PageOf(task, i)
      BY <2>3 DEF PageOf
    <3>. QED  BY <3>1, <3>2, <3>3 DEF Gathered, GatheredOn
  <2>. QED  BY <2>1, <2>3, <2>4 DEF ReadInOrder
<1>. QED  BY <1>4, <1>5

\* readAll has come to a page the card lacks: it has every page to the last.
LEMMA AllRead ==
  ASSUME IInv, task.op = "readAll", NEW how \in {"ok", "cut"},
         how = "ok" => link # "stale" /\ ~ OnCard(task.page)
  PROVE  ReadInOrder(task, how)
<1>1. task \in ReadCalls /\ task.op \in Reads
  BY Shapes DEF IInv, Reads
<1>2. ASSUME InPages(task) PROVE GatheredOn(memory, task) /\ \E k \in Nat : Stretch(cardPages, task, k)
  BY <1>1, <1>2 DEF IInv, UnderWay, ReadUnderWay
<1>3. ASSUME InPages(task), how = "ok", link # "none"
      PROVE  Len(task.out) =
               (IF task.start < cardPages THEN cardPages - task.start ELSE 0) * PageSize
  <2>1. PICK k \in Nat : Stretch(cardPages, task, k)
    BY <1>2, <1>3
  <2>2. /\ task.page \in Nat /\ task.start \in Nat /\ task.start < ByteSpace
        /\ task.page < ByteSpace /\ ByteSpace \in Nat /\ cardPages \in Nat
    BY <1>1, ReadFields, Constants DEF IInv, Typed
  <2>3. cardPages <= task.page
    BY <1>3, <2>2 DEF OnCard, IInv, Linked
  <2>4. cardPages < ByteSpace
    BY <2>2, <2>3
  <2>5. k > 0 => task.start + k <= cardPages
    BY <2>1, <2>4 DEF Stretch
  <2>6. task.page = task.start + k
    <3>1. task.start + k < ByteSpace
      BY <2>2, <2>4, <2>5
    <3>2. task.page = (task.start + k) % ByteSpace
      BY <2>1 DEF Stretch, PageOf
    <3>. QED  BY <2>2, <3>1, <3>2, PageNumbers
  <2>7. k = IF task.start < cardPages THEN cardPages - task.start ELSE 0
    BY <2>2, <2>3, <2>5, <2>6
  <2>. QED  BY <2>1, <2>7 DEF Stretch
<1>4. InPages(task) => Gathered(task)
  BY <1>2 DEF Gathered, GatheredOn
<1>. QED  BY <1>3, <1>4 DEF ReadInOrder

LEMMA ReadDataStep ==
  ASSUME IInv, ReadData
  PROVE  IInv'
<1>1. /\ task.op \in {"readData", "readPage"} /\ task.op \in Reads
      /\ UNCHANGED <<chosen, link, present, cardPages, memory>>
  BY DEF ReadData, Reads
<1>2. task \in ReadCalls
  BY <1>1, Shapes DEF IInv
<1>3. CASE Ends(task, "threw")
  BY <1>1, <1>2, <1>3, ReadEnds DEF Hows
<1>4. CASE /\ task.remaining = 0 /\ task.op = "readData"
           /\ Ends([task EXCEPT !.out = Resized(@, task.length)], "ok")
  <2>1. PICK call : call = [task EXCEPT !.out = Resized(@, task.length)]
    OBVIOUS
  <2>2. call \in ReadCalls /\ ReadInOrder(call, "ok")
    BY <1>1, <1>4, <2>1, LengthRead
  <2>. QED  BY <1>1, <1>4, <2>1, <2>2, ReadEnds DEF Hows
<1>5. CASE task.remaining = 0 /\ task.op = "readPage" /\ Ends(task, "ok")
  <2>1. PICK call : call = task
    OBVIOUS
  <2>2. call \in ReadCalls /\ ReadInOrder(call, "ok")
    BY <1>1, <1>5, <2>1, LengthRead
  <2>. QED  BY <1>1, <1>5, <2>1, <2>2, ReadEnds DEF Hows
<1>6. CASE /\ task.remaining > 0 /\ OnCard(task.page) /\ UNCHANGED le
           /\ \E n \in Answers : TakePage(n, IF task.remaining > le THEN task.remaining - le ELSE 0)
  <2>1. PICK left : left = IF task.remaining > le THEN task.remaining - le ELSE 0
    OBVIOUS
  <2>2. left \in Nat
    BY <1>2, <2>1, ReadFields, Constants DEF IInv, Typed
  <2>3. PICK n \in Answers : TakePage(n, left)
    BY <1>6, <2>1
  <2>. QED  BY <1>1, <1>6, <2>1, <2>2, <2>3, ReadGoesOn
<1>. QED  BY <1>3, <1>4, <1>5, <1>6 DEF ReadData

LEMMA ReadAllStep ==
  ASSUME IInv, ReadAll
  PROVE  IInv'
<1>1. /\ task.op = "readAll" /\ task.op \in Reads
      /\ UNCHANGED <<chosen, link, present, cardPages, memory>>
  BY DEF ReadAll, Reads
<1>2. task \in ReadCalls
  BY <1>1, Shapes DEF IInv
<1>3. CASE Ends(task, "threw")
  BY <1>1, <1>2, <1>3, ReadEnds DEF Hows
<1>4. CASE Ends(task, "cut")
  BY <1>1, <1>2, <1>4, ReadEnds, AllRead DEF Hows
<1>5. CASE link # "stale" /\ ~ OnCard(task.page) /\ Ends(task, "ok")
  BY <1>1, <1>2, <1>5, ReadEnds, AllRead DEF Hows
<1>6. CASE OnCard(task.page) /\ UNCHANGED le /\ \E n \in Answers \ {0} : TakePage(n, 0)
  <2>1. PICK n \in Answers : TakePage(n, 0)
    BY <1>6
  <2>2. 0 \in Nat
    OBVIOUS
  <2>. QED  BY <1>1, <1>6, <2>1, <2>2, ReadGoesOn
<1>. QED  BY <1>3, <1>4, <1>5, <1>6 DEF ReadAll

\* The value is taken, or the program sets a block size of its own.
LEMMA ReturnStep ==
  ASSUME IInv, Return
  PROVE  IInv'
<1>1. task.op = "ended" /\ task' = NoTask /\ UNCHANGED <<le, chosen, link, present, cardPages, memory>>
  BY DEF Return
<1>2. ~ Busy /\ ~ Busy' /\ ~ (task'.op \in Reads)
      /\ task'.op # "writeData" /\ task'.op # "ended"
  BY <1>1 DEF Busy, NoTask, Reads
<1>3. Typed' /\ Linked' /\ Kept'
  BY <1>1, <1>2 DEF IInv, Typed, Linked, Kept
<1>. QED  BY <1>2, <1>3 DEF IInv, UnderWay, TransfersInOrder

LEMMA SetStep ==
  ASSUME IInv, NEW n \in Sizes, SetLE(n)
  PROVE  IInv'
<1>1. /\ Idle /\ task' = NoTask /\ le' = n /\ chosen' = n
      /\ UNCHANGED <<link, present, cardPages, memory>>
  BY DEF SetLE, Idle
<1>2. ~ Busy' /\ ~ (task'.op \in Reads) /\ task'.op # "writeData" /\ task'.op # "ended"
  BY <1>1 DEF Busy, NoTask, Reads
<1>3. Typed' /\ Linked' /\ Kept'
  BY <1>1, <1>2 DEF IInv, Typed, Linked, Kept
<1>. QED  BY <1>2, <1>3 DEF IInv, UnderWay, TransfersInOrder

\* The calls begin, each overload in its own way.
LEMMA BeginStep ==
  ASSUME IInv, Begin
  PROVE  IInv'
<1>1. le \in Sizes /\ le \in Nat \ {0}
  BY Constants DEF IInv, Typed
<1>2. ASSUME NEW n \in Sizes \cup {0}, Guard(n) PROVE le' \in Sizes
  BY <1>1, <1>2 DEF Guard
<1>3. ASSUME NEW data \in Data PROVE data \in Seq(Values) /\ Len(data) \in Nat
  BY <1>3, DataAreSequences, LenProperties
<1>4. ASSUME NEW n \in Sizes, SetLE(n) PROVE IInv'
  BY <1>4, SetStep
<1>5. ASSUME NEW page \in Pages, NEW data \in Data, NEW guard \in Sizes \cup {0},
             BeginWriteData(page, data, guard)
      PROVE  IInv'
  <2>. DEFINE pages == (Len(data) + le' - 1) \div le'
  <2>1. /\ Idle /\ le' \in Sizes /\ UNCHANGED <<chosen, link, present, cardPages, memory>>
        /\ Write(page, data, pages)
    BY <1>2, <1>5 DEF BeginWriteData
  <2>2. data \in Seq(Values)
    BY <1>3
  <2>3. pages \in Nat
    <3>1. Len(data) \in Nat /\ le' \in Nat \ {0}
      BY <1>3, <2>1, Constants
    <3>2. Len(data) + le' - 1 \in Nat
      BY <3>1
    <3>. QED  BY <3>1, <3>2
  <2>. HIDE DEF pages
  <2>. QED  BY <2>1, <2>2, <2>3, WriteBegins
<1>6. ASSUME NEW page \in Pages, NEW data \in Data, BeginWritePage(page, data)
      PROVE  IInv'
  <2>1. /\ Idle /\ le' \in Sizes /\ UNCHANGED <<chosen, link, present, cardPages, memory>>
        /\ Write(page, data, 1) /\ 1 \in Nat
    BY <1>1, <1>6 DEF BeginWritePage
  <2>. QED  BY <1>3, <2>1, WriteBegins
<1>7. ASSUME NEW page \in Pages, NEW guard \in Sizes \cup {0}, BeginReadPage(page, guard)
      PROVE  IInv'
  <2>1. /\ Idle /\ le' \in Sizes /\ UNCHANGED <<chosen, link, present, cardPages, memory>>
        /\ Read("readPage", page, le')
    BY <1>2, <1>7 DEF BeginReadPage
  <2>2. le' \in Nat /\ "readPage" \in Reads
    BY <2>1, Constants DEF Reads
  <2>. QED  BY <2>1, <2>2, ReadBegins
<1>8. ASSUME NEW page \in Pages, NEW length \in 0 .. MaxLength, BeginReadData(page, length)
      PROVE  IInv'
  <2>1. /\ Idle /\ le' \in Sizes /\ UNCHANGED <<chosen, link, present, cardPages, memory>>
        /\ Read("readData", page, length)
    BY <1>2, <1>8 DEF BeginReadData
  <2>2. length \in Nat /\ "readData" \in Reads
    BY Constants DEF Reads
  <2>. QED  BY <2>1, <2>2, ReadBegins
<1>9. ASSUME NEW page \in Pages, BeginReadAll(page)
      PROVE  IInv'
  <2>1. /\ Idle /\ le' \in Sizes /\ UNCHANGED <<chosen, link, present, cardPages, memory>>
        /\ Read("readAll", page, 0)
    BY <1>2, <1>9 DEF BeginReadAll
  <2>2. 0 \in Nat /\ "readAll" \in Reads
    BY DEF Reads
  <2>. QED  BY <2>1, <2>2, ReadBegins
<1>. QED  BY <1>4, <1>5, <1>6, <1>7, <1>8, <1>9 DEF Begin

LEMMA LinkStep ==
  ASSUME IInv, PlaceCard \/ RemoveCard \/ Connect \/ Disconnect
  PROVE  IInv'
<1>1. UNCHANGED <<le, chosen, cardPages, memory, task>> /\ (Idle \/ (link = "none" <=> link' = "none"))
  BY DEF PlaceCard, RemoveCard, Connect, Disconnect
<1>2. Linked'
  BY DEF IInv, Linked, PlaceCard, RemoveCard, Connect, Disconnect
<1>. QED  BY <1>1, <1>2, LinkMoves

-----------------------------------------------------------------------------
(* The theorems.                                                           *)

LEMMA Initially ==
  ASSUME Init
  PROVE  IInv
<1>1. task = NoTask /\ ~ Busy /\ ~ (task.op \in Reads) /\ task.op # "writeData" /\ task.op # "ended"
  BY DEF Init, NoTask, Busy, Reads
<1>2. memory \in Memories
  BY Constants DEF Init, Memories, Page
<1>3. Typed /\ Linked /\ Kept
  BY <1>1, <1>2 DEF Init, Typed, Linked, Kept
<1>. QED  BY <1>1, <1>3 DEF IInv, UnderWay, TransfersInOrder

LEMMA Stutters ==
  ASSUME IInv, UNCHANGED vars
  PROVE  IInv'
<1>1. UNCHANGED <<le, chosen, link, present, cardPages, memory, task>>
  BY DEF vars
<1>2. Linked'
  BY <1>1 DEF IInv, Linked
<1>. QED  BY <1>1, <1>2, LinkMoves

\* In every state of every run a call has kept and done what IInv says.
THEOREM InductiveInvariant == Spec => []IInv
<1>1. Init => IInv
  BY Initially
<1>2. IInv /\ [Next]_vars => IInv'
  <2>. SUFFICES ASSUME IInv, [Next]_vars PROVE IInv'
    OBVIOUS
  <2>1. CASE PlaceCard \/ RemoveCard \/ Connect \/ Disconnect
    BY <2>1, LinkStep
  <2>2. CASE Begin
    BY <2>2, BeginStep
  <2>3. CASE WriteData
    BY <2>3, WriteDataStep
  <2>4. CASE ReadData
    BY <2>4, ReadDataStep
  <2>5. CASE ReadAll
    BY <2>5, ReadAllStep
  <2>6. CASE Return
    BY <2>6, ReturnStep
  <2>7. CASE UNCHANGED vars
    BY <2>7, Stutters
  <2>. QED  BY <2>1, <2>2, <2>3, <2>4, <2>5, <2>6, <2>7 DEF Next, Proceed
<1>. QED  BY <1>1, <1>2, PTL DEF Spec

\* The block size the program has set is in place whenever no call is under
\* way, through every overload with a size of its own and every exception
\* (LEGuard in Reader.cpp), and the state has its types.
THEOREM BlockSizeRestored == Spec => []SizeRestored
<1>1. IInv => SizeRestored
  <2>. SUFFICES ASSUME IInv PROVE SizeRestored
    OBVIOUS
  <2>1. task.op \in Reads => task.page \in Pages /\ task.remaining \in Nat
    BY Shapes DEF IInv, ReadCalls
  <2>2. ~ Busy => le = chosen
    BY DEF IInv, Kept
  <2>3. TypeOK
    BY <2>1, Constants DEF IInv, Typed, Linked, Memories, Page, TypeOK
  <2>. QED  BY <2>2, <2>3 DEF SizeRestored
<1>. QED  BY <1>1, InductiveInvariant, PTL

\* For every card (as many pages as a BYTE numbers, too), block size and data:
\* a write that returns has put in place every page it did not pass over and
\* changed no other, one that threw the first of them, and a read returns what
\* the card holds when its answers are pages, to the last page for a readAll
\* that was not cut short (Reader::writeData, readData and readAll).
THEOREM PagesInOrder == Spec => []TransfersInOrder
<1>1. IInv => TransfersInOrder
  BY DEF IInv
<1>. QED  BY <1>1, InductiveInvariant, PTL
=============================================================================
