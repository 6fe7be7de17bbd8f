------------------------------ MODULE MCDesfire ------------------------------
(* An instance of Desfire for TLC: an application whose second key is      *)
(* longer than the cipher the host knows for it, and the card's own keys.  *)
EXTENDS Desfire, TLC

CONSTANTS app, picc, k1, k2, badkey, nokey, garbled

MCCardKeys ==
  (picc :> (0 :> [key |-> k1, type |-> "TwoDES"] @@ 1 :> [key |-> k2, type |-> "TwoDES"]))
  @@ (app :> (0 :> [key |-> k1, type |-> "TwoDES"] @@ 1 :> [key |-> k2, type |-> "ThreeDES"]))
=============================================================================
