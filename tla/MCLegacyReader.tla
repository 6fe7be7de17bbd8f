--------------------------- MODULE MCLegacyReader ---------------------------
(* One thread, a card that comes and goes, sectors 0 to 2.                 *)
EXTENDS LegacyReader
CONSTANTS c1
=============================================================================
