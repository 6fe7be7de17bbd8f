--------------------------- MODULE SecureMessaging ---------------------------
(***************************************************************************)
(* Commands and answers under a DESFire session key.  Each end computes a  *)
(* CMAC over every command and every answer and keeps it as its IV; in MAC *)
(* mode it also travels, cut to 8 bytes, and the host verifies the card's. *)
(* The CMAC is external: a value is known by what went into it.  The card, *)
(* external too, does the host's computations on what it has received.     *)
(***************************************************************************)
EXTENDS Integers, Sequences

CONSTANTS
  NoIV,     \* an IV before the first command
  Garbled   \* bytes that are not the card's

Modes == {"Plain", "MAC", "Full"}

\* calculateCMAC: the value, which becomes the IV.  The IV it replaces does not
\* go into it.
Cmac(key, input) == <<key, input>>

\* Every other byte of it.
Truncate(mac) == <<"mac", mac>>

FaultyWrapSecured(key, iv, ins, data, mode) ==
  LET mac == Cmac(key, <<ins>> \o data) IN
  [iv |-> IF mode = "MAC" THEN mac ELSE iv, ins |-> ins, data |-> data,
   mac |-> IF mode = "MAC" THEN Truncate(mac) ELSE <<>>]

\* DesfireSecureMessaging::wrapCommand: the new IV and the command as it is
\* sent.  Full is treated as Plain.
WrapSecured(key, iv, ins, data, mode) ==
  LET mac == Cmac(key, <<ins>> \o data) IN
  [iv |-> mac, ins |-> ins, data |-> data, mac |-> IF mode = "MAC" THEN Truncate(mac) ELSE <<>>]

\* unwrapResponse: the IV is replaced before the CMAC is compared, and an empty
\* answer leaves it.  An answer too short for a CMAC is not verified.
UnwrapResponse(key, iv, data, mac, status, mode) ==
  LET verified == mode = "MAC" /\ mac # <<>>
      new == Cmac(key, Append(data, status))
  IN  IF verified
      THEN [iv |-> new, how |-> IF mac = Truncate(new) THEN "ok" ELSE "threw",
            data |-> IF mac = Truncate(new) THEN data ELSE <<>>]
      ELSE [iv |-> IF data # <<>> THEN new ELSE iv, how |-> "ok", data |-> data]

\* The card's side of an exchange: its IV after the command, its answer, and
\* its IV after that.
CardAnswers(key, command, data, status, mode) ==
  LET heard == Cmac(key, <<command.ins>> \o command.data)
      new == Cmac(key, Append(data, status))
  IN  [iv |-> IF mode = "MAC" \/ data # <<>> THEN new ELSE heard,
       data |-> data, mac |-> IF mode = "MAC" THEN Truncate(new) ELSE <<>>]

\* One exchange from any pair of IVs: the answer arrives, arrives garbled or
\* cut before its CMAC, or is lost.
Exchange(key, hostIV, ins, data, answer, status, mode, link) ==
  LET sent == WrapSecured(key, hostIV, ins, data, mode)
      card == CardAnswers(key, sent, answer, status, mode)
      got == IF link = "garbled" THEN Garbled ELSE answer
      mac == IF link = "cut" THEN <<>> ELSE card.mac
  IN  IF link = "lost" THEN [host |-> sent.iv, card |-> card.iv, how |-> "lost", data |-> <<>>]
      ELSE LET r == UnwrapResponse(key, sent.iv, got, mac, status, mode)
           IN  [host |-> r.iv, card |-> card.iv, how |-> r.how, data |-> r.data]

-----------------------------------------------------------------------------
(* Property of two exchanges, stated for those a run enumerates.           *)

\* Whatever a first exchange left behind, lost or garbled, a second one whose
\* answer arrives returns the card's data and ends with equal IVs: the IV of
\* either end depends on the last message alone.  In MAC mode no garbled
\* answer is returned as data, unless it has lost its CMAC.
RecoversAfter(key, first, second) ==
  LET Do(iv, x) == Exchange(key, iv, x.ins, x.data, x.answer, x.status, x.mode, x.link)
      one == Do(NoIV, first)
      two == Do(one.host, second)
  IN  /\ second.link = "arrives" => two.how = "ok" /\ two.data = second.answer /\ two.host = two.card
      /\ second.link = "garbled" /\ second.mode = "MAC" => two.how = "threw" /\ two.data = <<>>
=============================================================================
