----------------------------- MODULE AccessBits -----------------------------
(***************************************************************************)
(* MIFARE Classic access conditions (Card/Card/CardModel/TrailerConfig.h): *)
(* the two permission tables, the codec between a sector's configuration   *)
(* and the three access bytes with their inverted copies, and the named    *)
(* sector modes.  A configuration is a function on 0..3: positions 0..2    *)
(* are the data blocks, position 3 is the trailer.  The general purpose    *)
(* byte travels unchanged through the codec and is left out.               *)
(***************************************************************************)
EXTENDS Naturals

KeyTypes == {"A", "B"}

Condition == [c1 : BOOLEAN, c2 : BOOLEAN, c3 : BOOLEAN]

Config == [0..3 -> Condition]

Cond(i) == [c1 |-> i \div 4 = 1, c2 |-> (i \div 2) % 2 = 1, c3 |-> i % 2 = 1]

ToIndex(ac) == (IF ac.c1 THEN 4 ELSE 0) + (IF ac.c2 THEN 2 ELSE 0)
                 + (IF ac.c3 THEN 1 ELSE 0)

-----------------------------------------------------------------------------
(* DataBlockPermission::fromCondition: the key types each operation of a   *)
(* data block is open to, row by row of the table.                         *)

DataRead(ac) ==
  {kt \in KeyTypes : IF kt = "A" THEN ToIndex(ac) \in {0, 1, 2, 4, 6}
                                 ELSE ToIndex(ac) # 7}

DataWrite(ac) ==
  {kt \in KeyTypes : IF kt = "A" THEN ToIndex(ac) = 0
                                 ELSE ToIndex(ac) \in {0, 3, 4, 6}}

DataIncrement(ac) ==
  {kt \in KeyTypes : IF kt = "A" THEN ToIndex(ac) = 0
                                 ELSE ToIndex(ac) \in {0, 6}}

DataDecrement(ac) == {kt \in KeyTypes : ToIndex(ac) \in {0, 1, 6}}

-----------------------------------------------------------------------------
(* TrailerPermission::fromCondition.  KeyA is never readable: the table    *)
(* has no column for it.                                                   *)

KeyAWrite(ac) ==
  {kt \in KeyTypes : IF kt = "A" THEN ToIndex(ac) \in {0, 1}
                                 ELSE ToIndex(ac) \in {3, 4}}

AccessRead(ac) == {kt \in KeyTypes : kt = "A" \/ ToIndex(ac) \in 3..7}

AccessWrite(ac) ==
  {kt \in KeyTypes : IF kt = "A" THEN ToIndex(ac) = 1
                                 ELSE ToIndex(ac) \in {3, 5}}

KeyBRead(ac) == {kt \in KeyTypes : kt = "A" /\ ToIndex(ac) \in {0, 1, 2}}

KeyBWrite(ac) ==
  {kt \in KeyTypes : IF kt = "A" THEN ToIndex(ac) \in {0, 1}
                                 ELSE ToIndex(ac) \in {3, 4}}

-----------------------------------------------------------------------------
(* AccessBitsCodec.  A byte is a function from its bit numbers.            *)

Byte == [0..7 -> BOOLEAN]

AccessBytes == [b6 : Byte, b7 : Byte, b8 : Byte]

(* faulty variant: the inverted copy of C3 is not written *)
EncodeNoInverse(cfg) ==
  [b6 |-> [i \in 0..7 |-> IF i < 4 THEN ~cfg[i].c1 ELSE ~cfg[i - 4].c2],
   b7 |-> [i \in 0..7 |-> IF i < 4 THEN FALSE ELSE cfg[i - 4].c1],
   b8 |-> [i \in 0..7 |-> IF i < 4 THEN cfg[i].c2 ELSE cfg[i - 4].c3]]

Encode(cfg) ==
  [b6 |-> [i \in 0..7 |-> IF i < 4 THEN ~cfg[i].c1 ELSE ~cfg[i - 4].c2],
   b7 |-> [i \in 0..7 |-> IF i < 4 THEN ~cfg[i].c3 ELSE cfg[i - 4].c1],
   b8 |-> [i \in 0..7 |-> IF i < 4 THEN cfg[i].c2 ELSE cfg[i - 4].c3]]

Decode(ab) ==
  [i \in 0..3 |-> [c1 |-> ab.b7[4 + i], c2 |-> ab.b8[i], c3 |-> ab.b8[4 + i]]]

Verify(ab) ==
  \A i \in 0..3 : /\ ab.b7[4 + i] # ab.b6[i]
                  /\ ab.b8[i]     # ab.b6[4 + i]
                  /\ ab.b8[4 + i] # ab.b7[i]

-----------------------------------------------------------------------------
(* SectorAccessConfig::factoryDefault and sectorModeToConfig.              *)

Uniform(d, t) == [i \in 0..3 |-> IF i < 3 THEN Cond(d) ELSE Cond(t)]

FactoryConfig == Uniform(0, 1)

SectorModes == {"TRANSPORT", "READ_ONLY_AB", "READ_AB_WRITE_B",
                "VALUE_BLOCK", "KEY_B_ONLY", "FROZEN"}

SectorModeToConfig(mode) ==
  CASE mode = "TRANSPORT"       -> Uniform(0, 1)
    [] mode = "READ_ONLY_AB"    -> Uniform(2, 2)
    [] mode = "READ_AB_WRITE_B" -> Uniform(4, 4)
    [] mode = "VALUE_BLOCK"     -> Uniform(6, 1)
    [] mode = "KEY_B_ONLY"      -> Uniform(3, 3)
    [] mode = "FROZEN"          -> Uniform(7, 6)
=============================================================================
