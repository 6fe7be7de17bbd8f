-------------------------- MODULE ClassicalCiphers --------------------------
(***************************************************************************)
(* The byte ciphers that need no library: Caesar and affine, which look    *)
(* every byte up in tables made of a multiplier and an offset, and XOR     *)
(* with a key of four bytes.  Arithmetic is modulo 256; an unsigned        *)
(* difference wraps at a multiple of it, so modulo 256 it is the           *)
(* difference of the integers.                                             *)
(***************************************************************************)
EXTENDS Integers, Sequences, Totals

M == 256
Bytes == 0 .. M - 1

\* What egcd makes of the result for b and a % b.
Back(a, b, r) == <<r[1], r[3], r[2] - (a \div b) * r[3]>>

\* egcd(a, b) is Egcd[b][a]: <<g, x, y>> with a * x + b * y = g.  C++ division
\* is of non-negative numbers here.
Egcd[b \in 0 .. M] ==
  [a \in 0 .. M |-> IF b = 0 THEN <<a, 1, 0>> ELSE Back(a, b, Egcd[a % b][b])]

\* invMod256: 0 when there is no inverse.
InvMod(a) ==
  LET r == Egcd[M][a % M]
  IN  IF r[1] # 1 THEN 0 ELSE r[2] % M

\* A multiplier that is even is made odd.
MadeOdd(a) == IF a % 2 = 0 THEN a + 1 ELSE a

\* The keys that the constructors make: a multiplier, an offset, an inverse.
CaesarShift(shift) == [a |-> 1, b |-> shift, inv |-> 1]

FaultyCaesar(a, shift) ==
  LET inv == InvMod(a)
      ua == IF inv = 0 /\ a # 0 THEN MadeOdd(a) ELSE a
  IN  IF ua = 0 THEN CaesarShift(shift)
      ELSE [a |-> ua, b |-> shift, inv |-> inv]

Caesar(a, shift) ==
  LET ua == IF InvMod(a) = 0 /\ a # 0 THEN MadeOdd(a) ELSE a
  IN  IF ua = 0 THEN CaesarShift(shift)
      ELSE [a |-> ua, b |-> shift, inv |-> InvMod(ua)]

ShiftFromKey(key) ==
  IF key = <<>> THEN 1 ELSE IF Sum(key) % M = 0 THEN 1 ELSE Sum(key) % M

Affine(a, b) ==
  LET odd == IF InvMod(a) = 0 THEN MadeOdd(a) ELSE a
  IN  [a |-> odd, b |-> b, inv |-> InvMod(odd)]

\* The multiplier is the low byte of the sum and the offset the next one.
AffineFromKey(key) ==
  IF key = <<>> THEN Affine(1, 0) ELSE Affine(MadeOdd(Sum(key) % M), (Sum(key) \div M) % M)

Encrypt(k, data) == [i \in DOMAIN data |-> (k.a * data[i] + k.b) % M]
Decrypt(k, data) == [i \in DOMAIN data |-> (k.inv * ((data[i] - k.b) % M)) % M]

\* The exclusive or of two bytes: a bit is set when it is in one of them.
Xor(x, y) ==
  LET Bit(w) == w * ((x \div w + y \div w) % 2)
  IN  Bit(1) + Bit(2) + Bit(4) + Bit(8) + Bit(16) + Bit(32) + Bit(64) + Bit(128)

XorTransform(key, data) == [i \in DOMAIN data |-> Xor(data[i], key[((i - 1) % 4) + 1])]

-----------------------------------------------------------------------------
(* Properties of one key, stated for the keys a run enumerates.            *)

EveryByte == [i \in 1 .. M |-> i - 1]

\* Whatever multiplier and offset a program asks for, even ones without an
\* inverse, what is encrypted is decrypted.
Inverts(k) == Decrypt(k, Encrypt(k, EveryByte)) = EveryByte

CiphersInvertOn(a, b) ==
  /\ Inverts(Caesar(a, b)) /\ Inverts(Affine(a, b))
  /\ Inverts(CaesarShift(ShiftFromKey(<<a, b>>))) /\ Inverts(AffineFromKey(<<a, b>>))
  /\ LET key == <<a, b, b, a>> IN XorTransform(key, XorTransform(key, EveryByte)) = EveryByte
=============================================================================
