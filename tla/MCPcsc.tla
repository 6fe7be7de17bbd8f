------------------------------- MODULE MCPcsc -------------------------------
(* Two objects and one reader that sees two cards.                         *)
EXTENDS Pcsc
=============================================================================
