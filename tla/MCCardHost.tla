----------------------------- MODULE MCCardHost -----------------------------
(* A Classic card of two sectors and a clock of five readings.             *)
EXTENDS CardHost
=============================================================================
