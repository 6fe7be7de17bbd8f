--------------------------- MODULE MifareTopology ---------------------------
(***************************************************************************)
(* The block and sector arithmetic of CardLayoutTopology                   *)
(* (Card/Card/CardModel/CardTopology.cpp), the place the sector view of    *)
(* CardMemoryLayout's union gives a trailer, and the private copies of the *)
(* arithmetic in AccessControl.cpp.  Block and sector numbers are natural  *)
(* numbers: the callers validate or compute them from loops that start at  *)
(* zero.                                                                   *)
(***************************************************************************)
EXTENDS Integers

CardTypes == {"1K", "4K", "Ultralight", "DESFire"}

Classic == {"1K", "4K"}

TotalBlocks(ct) == CASE ct = "4K" -> 256
                     [] ct = "Ultralight" -> 4
                     [] ct = "DESFire" -> 0
                     [] ct = "1K" -> 64

TotalMemoryBytes(ct) == CASE ct = "4K" -> 4096
                          [] ct = "Ultralight" -> 64
                          [] ct = "DESFire" -> 0
                          [] ct = "1K" -> 1024

SectorCount(ct) == CASE ct = "4K" -> 40
                     [] ct = "Ultralight" -> 1
                     [] ct = "DESFire" -> 0
                     [] ct = "1K" -> 16

BlocksPerSector(ct, s) == CASE ct = "DESFire" -> 0
                            [] ct \in {"1K", "Ultralight"} -> 4
                            [] ct = "4K" -> IF s < 32 THEN 4 ELSE 16

FirstBlockOfSector(ct, s) ==
  CASE ct = "Ultralight" -> 0
    [] ct = "DESFire" -> -1
    [] ct = "1K" -> s * 4
    [] ct = "4K" -> IF s < 32 THEN s * 4 ELSE 128 + (s - 32) * 16

LastBlockOfSector(ct, s) == FirstBlockOfSector(ct, s) + BlocksPerSector(ct, s) - 1

TrailerBlockOfSector(ct, s) ==
  IF ct \in Classic THEN LastBlockOfSector(ct, s) ELSE -1

SectorFromBlock(ct, b) ==
  CASE ct = "Ultralight" -> 0
    [] ct = "DESFire" -> -1
    [] ct = "1K" -> b \div 4
    [] ct = "4K" -> IF b < 128 THEN b \div 4 ELSE 32 + (b - 128) \div 16

BlockIndexInSector(ct, b) == b - FirstBlockOfSector(ct, SectorFromBlock(ct, b))

IsManufacturerBlock(b) == b = 0

IsTrailerBlock(ct, b) ==
  ct \in Classic /\ b = TrailerBlockOfSector(ct, SectorFromBlock(ct, b))

IsDataBlock(ct, b) == ~IsManufacturerBlock(b) /\ ~IsTrailerBlock(ct, b)

ValidBlocks(ct) == 0..(TotalBlocks(ct) - 1)

ValidSectors(ct) == 0..(SectorCount(ct) - 1)

-----------------------------------------------------------------------------
(* AccessControl's own copies, for Classic cards                           *)

SectorOf(b, is4K) == IF ~is4K \/ b < 128 THEN b \div 4 ELSE 32 + (b - 128) \div 16

BlockInSector(b, is4K) ==
  LET s == SectorOf(b, is4K)
  IN  IF ~is4K \/ b < 128 THEN b - s * 4 ELSE b - (128 + (s - 32) * 16)

(* faulty variant: the extended sectors are a union member of their own *)
TrailerOffsetOverlaid(ct, s) ==
  IF ct = "4K" /\ s >= 32 THEN (s - 32) * 256 + 15 * 16 ELSE s * 64 + 3 * 16

(* The first byte of a sector's trailer in the union's sector view: the    *)
(* normal sectors are arrays of 4 blocks of 16 bytes, the extended ones,   *)
(* behind the 32 normal ones, arrays of 16.                                *)
TrailerOffset(ct, s) ==
  IF ct = "4K" /\ s >= 32 THEN 32 * 64 + (s - 32) * 256 + 15 * 16
                          ELSE s * 64 + 3 * 16
=============================================================================
