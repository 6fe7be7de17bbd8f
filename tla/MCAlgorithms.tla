----------------------------- MODULE MCAlgorithms -----------------------------
(* The parts that exchange nothing with a card: Algorithms over inputs at  *)
(* the edges of each, and AccessControl on a normal and an extended sector *)
(* of a 4K card.  One run takes both; they share no variable, and an input *)
(* is taken only from the delivered image, so that the states add up and   *)
(* do not multiply.                                                        *)
EXTENDS Algorithms, AccessControl

\* No IV, and bytes that no card has sent.
MCNoIV == <<"none">>
MCGarbled == <<99>>

\* The first bytes that some layer knows, with every second byte.
MCStatuses == {99, 103, 105, 106, 108, 109, 110, 111, 144, 145} \X StatusByte

MCOffsets == {0, 1, 7, 255}
MCFileNumbers == {0, 31}

Rights == [readKey : {0, 14}, writeKey : {3}, readWriteKey : {15}, changeKey : {0, 1}]

MCSettings ==
  [fileType : DataTypes, commMode : {0, 3}, access : Rights, fileSize : {0, 255, 256, 70000}]
    \union [fileType : {ValueType}, commMode : {1}, access : Rights,
            lowerLimit : {-2147483647, -1, 0}, upperLimit : {0, 70000, 2147483647},
            value : {-70000, -1, 255}, limitedCredit : BOOLEAN]
    \union [fileType : RecordTypes, commMode : {0}, access : Rights,
            recordSize : {1, 16, 257}, maxRecords : {2, 65536}]

Right == CHOOSE r \in Rights : TRUE
DataFile(type, size) == [fileType |-> type, commMode |-> 0, access |-> Right, fileSize |-> size]
RecordFile(size, max) ==
  [fileType |-> 3, commMode |-> 0, access |-> Right, recordSize |-> size, maxRecords |-> max]

File(fileNo, s) == Allocate([fileNo |-> fileNo, settings |-> s, data |-> <<7>>])

\* Two applications, of which the second has the file of interest behind
\* another one, or lacks it.
Layout(aid, fileNo, size) ==
  [currentAID |-> aid, currentFile |-> fileNo,
   apps |-> <<[aid |-> 1, files |-> <<File(2, DataFile(0, 16))>>],
              [aid |-> 5, files |-> <<File(1, RecordFile(5, 4)), File(2, DataFile(1, size))>>]>>]

MCLayouts == {Layout(aid, fileNo, size) : aid \in {1, 5, 9}, fileNo \in {1, 2, 3}, size \in 0 .. 40}
MCBlockNumbers == -1 .. 3

MCExchanges ==
  [ins : {1, 2}, data : {<<>>, <<1>>}, answer : {<<>>, <<4>>}, status : {0},
   mode : Modes, link : {"arrives", "garbled", "cut", "lost"}]

-----------------------------------------------------------------------------
(* AccessControl.                                                          *)

MCSectors == {0, 33}

(* as delivered, and a sector whose data blocks differ *)
Delivered == Encode(FactoryConfig)
Mixed == Encode([i \in 0..3 |-> IF i = 0 THEN Cond(4) ELSE IF i = 1 THEN Cond(2)
                                ELSE IF i = 2 THEN Cond(0) ELSE Cond(3)])
(* a zeroed image, and a flipped inverted copy *)
Zeroed == LET zero == [i \in 0..7 |-> FALSE] IN [b6 |-> zero, b7 |-> zero, b8 |-> zero]
Flipped == [Delivered EXCEPT !.b6[0] = FALSE]

MCLoadedBytes == {Delivered, Mixed, Zeroed, Flipped}

-----------------------------------------------------------------------------
(* The parts side by side.                                                 *)

Untouched == did.op = "load" /\ \A s \in Sectors : bits[s] = Delivered

PartsInit == InputInit /\ Init
PartsNext ==
  \/ Untouched /\ InputNext /\ UNCHANGED vars
  \/ input = Start /\ Next /\ UNCHANGED input
PartsSpec == PartsInit /\ [][PartsNext]_<<input, vars>>
=============================================================================
