---------------------------- MODULE DesfireFiles ----------------------------
(***************************************************************************)
(* The image of a DESFire card's files and the bytes that describe them:   *)
(* applications and the files in them, a file's data seen as virtual       *)
(* blocks of 16 bytes, the command that creates a file and the answer that *)
(* describes it.  Numbers travel lowest byte first, in three bytes or, the *)
(* signed ones of a value file, in four.                                   *)
(***************************************************************************)
EXTENDS Integers, Sequences, Totals

CONSTANTS
  SizeT,  \* stands for 2^64, which an offset wraps at
  Word    \* stands for 2^32, which a capacity wraps at

ASSUME WidthAssumption == SizeT \in Nat \ {0} /\ Word \in Nat \ {0}

Nothing == <<>>
BlockBytes == 16

-----------------------------------------------------------------------------
(* Bytes.                                                                  *)

\* Byte k of a number, in two's complement when it is negative.
Weight == <<1, 256, 65536, 16777216>>
ByteOf(v, k) == (v \div Weight[k + 1]) % 256
WriteLE24(v) == <<ByteOf(v, 0), ByteOf(v, 1), ByteOf(v, 2)>>
ReadLE24(p) == p[1] + 256 * p[2] + 65536 * p[3]
WriteLE32(v) == WriteLE24(v) \o <<ByteOf(v, 3)>>
ReadLE32(p) == ReadLE24(p) + 16777216 * (IF p[4] < 128 THEN p[4] ELSE p[4] - 256)

\* Four key numbers in two bytes.
EncodeRights(r) ==
  <<(r.readKey * 16 + r.writeKey) % 256, (r.readWriteKey * 16 + r.changeKey) % 256>>
DecodeRights(b0, b1) ==
  [readKey |-> b0 \div 16, writeKey |-> b0 % 16, readWriteKey |-> b1 \div 16, changeKey |-> b1 % 16]

\* wrapCommand, with the length of the data in one byte.
WrapCommand(ins, data) ==
  <<144, ins, 0, 0>> \o (IF data = <<>> THEN <<>> ELSE <<Len(data) % 256>> \o data) \o <<0>>

-----------------------------------------------------------------------------
(* Settings of a file: what createXFile sends and parseFileSettings reads. *)

DataTypes == {0, 1}     \* StandardData, BackupData
ValueType == 2
RecordTypes == {3, 4}   \* LinearRecord, CyclicRecord
InsOf == [type \in 0 .. 4 |-> <<205, 203, 204, 193, 192>>[type + 1]]

BuildFileHeader(fileNo, s) == <<fileNo, s.commMode>> \o EncodeRights(s.access)

\* createStdDataFile, createBackupDataFile, createValueFile and the two
\* createRecordFiles.
CreateFile(fileNo, s) ==
  WrapCommand(InsOf[s.fileType],
    BuildFileHeader(fileNo, s) \o
      (CASE s.fileType \in DataTypes -> WriteLE24(s.fileSize)
         [] s.fileType = ValueType ->
              WriteLE32(s.lowerLimit) \o WriteLE32(s.upperLimit) \o WriteLE32(s.value)
                \o <<IF s.limitedCredit THEN 1 ELSE 0>>
         [] s.fileType \in RecordTypes -> WriteLE24(s.recordSize) \o WriteLE24(s.maxRecords)))

\* The card's answer to getFileSettings for a file just created: its type, the
\* rest of the header, and the numbers, of records also how many it holds.
Described(apdu) ==
  LET header == SubSeq(apdu, 7, 9)
      numbers == SubSeq(apdu, 10, Len(apdu) - 1)
      type == CHOOSE t \in DOMAIN InsOf : InsOf[t] = apdu[2]
  IN  <<type>> \o header \o numbers \o (IF type \in RecordTypes THEN <<0, 0, 0>> ELSE <<>>)

\* The settings of each type of file, given how a number of three bytes and a
\* signed one of four are read at a position of the answer.
FileSettings(data, Number(_), Signed(_)) ==
  LET access == DecodeRights(data[3], data[4])
  IN  CASE data[1] \in DataTypes ->
             [fileType |-> data[1], commMode |-> data[2], access |-> access, fileSize |-> Number(5)]
        [] data[1] = ValueType ->
             [fileType |-> data[1], commMode |-> data[2], access |-> access,
              lowerLimit |-> Signed(5), upperLimit |-> Signed(9), value |-> Signed(13),
              limitedCredit |-> data[17] # 0]
        [] data[1] \in RecordTypes ->
             [fileType |-> data[1], commMode |-> data[2], access |-> access,
              recordSize |-> Number(5), maxRecords |-> Number(8), currentRecords |-> Number(11)]

\* Without the highest byte, and with it the sign, of a limit.
FaultyParseFileSettings(data) ==
  LET Number(i) == ReadLE24(SubSeq(data, i, i + 2))
  IN  FileSettings(data, Number, Number)

\* parseFileSettings of an answer that is long enough for its type.
ParseFileSettings(data) ==
  LET Number(i) == ReadLE24(SubSeq(data, i, i + 2))
      Signed(i) == ReadLE32(SubSeq(data, i, i + 3))
  IN  FileSettings(data, Number, Signed)

\* parseApplicationIDs: what does not fill three bytes is dropped.
ParseApplicationIDs(data) == [i \in 1 .. Len(data) \div 3 |-> SubSeq(data, 3 * i - 2, 3 * i)]

-----------------------------------------------------------------------------
(* The image.  A search takes the first that matches.                      *)

First(list, Is(_)) ==
  IF \E i \in DOMAIN list : Is(list[i])
  THEN CHOOSE i \in DOMAIN list : Is(list[i]) /\ \A j \in 1 .. i - 1 : ~ Is(list[j])
  ELSE 0

FindApp(layout, aid) == First(layout.apps, LAMBDA app : app.aid = aid)
FindFile(app, fileNo) == First(app.files, LAMBDA f : f.fileNo = fileNo)

\* activeFile: <<application, file>>, or <<>> when either is not there.
ActiveFile(layout) ==
  LET a == FindApp(layout, layout.currentAID) IN
  IF a = 0 THEN <<>>
  ELSE LET f == FindFile(layout.apps[a], layout.currentFile) IN IF f = 0 THEN <<>> ELSE <<a, f>>

DataAt(layout, at) == layout.apps[at[1]].files[at[2]].data

DataCapacity(s) ==
  CASE s.fileType \in DataTypes -> s.fileSize
    [] s.fileType = ValueType -> 4
    [] s.fileType \in RecordTypes -> (s.recordSize * s.maxRecords) % Word
    [] OTHER -> 0

\* resize keeps what is there and fills up with zeros.
Allocate(f) ==
  [f EXCEPT !.data = [i \in 1 .. DataCapacity(f.settings) |-> IF i <= Len(@) THEN @[i] ELSE 0]]

\* A sum of four bytes.
TotalDataSize(app) ==
  Sum([f \in DOMAIN app.files |-> DataCapacity(app.files[f].settings)]) % Word

VirtualBlockCount(layout) ==
  LET at == ActiveFile(layout) IN
  IF at = <<>> THEN 0 ELSE (Len(DataAt(layout, at)) + 15) \div BlockBytes

\* The offset of a block, computed without a sign.
Offset(block) == (block * BlockBytes) % SizeT

HasBlock(layout, block) ==
  ActiveFile(layout) # <<>> /\ Offset(block) < Len(DataAt(layout, ActiveFile(layout)))

\* A block that the data end in is filled up with zeros.
ReadVirtualBlock(layout, block) ==
  IF ~ HasBlock(layout, block) THEN Nothing
  ELSE LET data == DataAt(layout, ActiveFile(layout)) IN
       [i \in 1 .. BlockBytes |-> IF Offset(block) + i <= Len(data) THEN data[Offset(block) + i] ELSE 0]

FaultyWriteVirtualBlock(layout, block, in) ==
  IF ~ HasBlock(layout, block) THEN layout
  ELSE LET at == ActiveFile(layout) IN
       [layout EXCEPT !.apps[at[1]].files[at[2]].data =
          [i \in 1 .. Offset(block) + BlockBytes |->
             IF i > Offset(block) THEN in[i - Offset(block)] ELSE @[i]]]

\* ... and a write of it stops with the data.
WriteVirtualBlock(layout, block, in) ==
  IF ~ HasBlock(layout, block) THEN layout
  ELSE LET at == ActiveFile(layout) IN
       [layout EXCEPT !.apps[at[1]].files[at[2]].data =
          [i \in DOMAIN @ |->
             IF i - Offset(block) \in 1 .. BlockBytes THEN in[i - Offset(block)] ELSE @[i]]]

-----------------------------------------------------------------------------
(* What a program may ask for: numbers of the widths the commands give     *)
(* them, and images of allocated files.                                    *)

AccessRights == [readKey : 0 .. 15, writeKey : 0 .. 15, readWriteKey : 0 .. 15, changeKey : 0 .. 15]
Int24 == {v \in Int : 0 <= v /\ v < 256 * 65536}
Int32 == {v \in Int : v \div 16777216 \in -128 .. 127}

DataSettings == [fileType : DataTypes, commMode : Int, access : AccessRights, fileSize : Int24]
ValueSettings ==
  [fileType : {ValueType}, commMode : Int, access : AccessRights,
   lowerLimit : Int32, upperLimit : Int32, value : Int32, limitedCredit : BOOLEAN]
RecordSettings ==
  [fileType : RecordTypes, commMode : Int, access : AccessRights,
   recordSize : Int24, maxRecords : Int24]
AllSettings == DataSettings \cup ValueSettings \cup RecordSettings

\* Images of any settings and bytes.
FileIn(Setting, Datum) == [fileNo : Int, settings : Setting, data : Seq(Datum)]
AppIn(Setting, Datum) == [aid : Int, files : Seq(FileIn(Setting, Datum))]
LayoutIn(Setting, Datum) ==
  [currentAID : Int, currentFile : Int, apps : Seq(AppIn(Setting, Datum))]

\* Every file has the data its settings ask for, and those of an application
\* together are fewer than a sum of four bytes can count.
Allocated(layout) ==
  \A a \in DOMAIN layout.apps :
    LET files == layout.apps[a].files IN
    /\ \A f \in DOMAIN files : Len(files[f].data) = DataCapacity(files[f].settings)
    /\ Sum([f \in DOMAIN files |-> Len(files[f].data)]) < Word

\* Neither a file nor a block reaches round the end of size_t.
WithinSizeT(layout, block) ==
  /\ BlockBytes * block < SizeT
  /\ \A a \in DOMAIN layout.apps : \A f \in DOMAIN layout.apps[a].files :
       LET n == Len(layout.apps[a].files[f].data) IN n <= SizeT /\ n - SizeT <= BlockBytes * block

-----------------------------------------------------------------------------
(* Properties, stated for the files a run enumerates.                      *)

\* A file is described as it was created: every number, sign and right comes
\* back from the bytes.
SettingsSurviveOf(fileNo, s) ==
  LET apdu == CreateFile(fileNo, s)
      parsed == ParseFileSettings(Described(apdu))
  IN  /\ apdu[5] = Len(apdu) - 6
      /\ apdu[6] = fileNo
      /\ \A field \in DOMAIN s : parsed[field] = s[field]

\* The bytes of a list of numbers of three bytes each.
Listed(ids) == [i \in 1 .. 3 * Len(ids) |-> ids[((i - 1) \div 3) + 1][((i - 1) % 3) + 1]]

\* The list of applications is read back whole from the bytes it travels in,
\* and an application's total is what its files have been allocated.
ListsAndTotals(layout) ==
  LET ids == [a \in DOMAIN layout.apps |-> WriteLE24(layout.apps[a].aid)] IN
  /\ ParseApplicationIDs(Listed(ids)) = ids
  /\ \A a \in DOMAIN layout.apps :
       LET files == layout.apps[a].files
       IN  TotalDataSize(layout.apps[a]) = Sum([f \in DOMAIN files |-> Len(files[f].data)])

\* The blocks cover the active file and nothing else: those below the count
\* and no other can be read and written, joined they are its data, and a
\* write changes what a read of the same block returns, as far as the data
\* go, and no other byte of the card.
BlocksCoverFile(layout, block, in) ==
  LET at == ActiveFile(layout)
      there == block \in 0 .. VirtualBlockCount(layout) - 1
      written == WriteVirtualBlock(layout, block, in)
      length == IF at = <<>> THEN 0 ELSE Len(DataAt(layout, at))
      Kept(i) == block * BlockBytes + i <= length
  IN  /\ ReadVirtualBlock(layout, block) # Nothing <=> there
      /\ ~ there => written = layout
      /\ there =>
           /\ Len(DataAt(written, at)) = length
           /\ ReadVirtualBlock(written, block) = [i \in 1 .. BlockBytes |-> IF Kept(i) THEN in[i] ELSE 0]
           /\ \A other \in 0 .. VirtualBlockCount(layout) - 1 :
                other # block => ReadVirtualBlock(written, other) = ReadVirtualBlock(layout, other)
           /\ [written EXCEPT !.apps[at[1]].files[at[2]].data = <<>>]
                = [layout EXCEPT !.apps[at[1]].files[at[2]].data = <<>>]
=============================================================================
