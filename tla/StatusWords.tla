----------------------------- MODULE StatusWords -----------------------------
(***************************************************************************)
(* What the program makes of the two status bytes at the end of an answer: *)
(* the predicates of StatusWord, the category of StatusWordHandler, the    *)
(* error kind of PcscError, the verdicts of PcscCommands for the reader's  *)
(* commands and of DesfireCommands for the card's.  The layers were        *)
(* written apart and each has its own list.                                *)
(***************************************************************************)
EXTENDS Integers, Sequences

StatusByte == 0 .. 255
StatusWord == StatusByte \X StatusByte

\* The conditions StatusWord names, with the statuses that meet them.
IsSuccess(sw) == sw \in {<<144, 0>>, <<145, 0>>}      \* 90 00, 91 00
IsAuthSentinel(sw) == sw = <<99, 0>>                  \* 63 00
IsWrongLE(sw) == sw[1] = 108                          \* 6C xx

\* The other conditions are one status each.
Named ==
  {<<"WrongLength", 103, 0>>, <<"SecurityError", 105, 130>>, <<"AuthBlocked", 105, 131>>,
   <<"FileNotFound", 106, 130>>, <<"IncorrectP1P2", 106, 134>>,
   <<"INSNotSupported", 109, 0>>, <<"CLANotSupported", 110, 0>>}

\* typeOf.
Category(sw) ==
  CASE IsSuccess(sw) -> "Success"
    [] IsAuthSentinel(sw) -> "AuthSentinel"
    [] IsWrongLE(sw) -> "WrongLE"
    [] \E n \in Named : sw = <<n[2], n[3]>> -> (CHOOSE n \in Named : sw = <<n[2], n[3]>>)[1]
    [] OTHER -> "Unknown"

FaultyKind(sw) ==
  CASE IsSuccess(sw) -> "Success"
    [] IsAuthSentinel(sw) -> "AuthRequired"
    [] sw = <<103, 0>> -> "WrongLength"
    [] sw = <<105, 130>> -> "SecurityNotSatisfied"
    [] sw = <<106, 130>> -> "FileNotFound"
    [] sw = <<106, 134>> -> "IncorrectParameters"
    [] sw = <<109, 0>> -> "InsNotSupported"
    [] sw = <<110, 0>> -> "ClaNotSupported"
    [] OTHER -> "none"

\* fromStatusWord: a status it does not list has no kind, which is how an
\* error says that it is none.
Kind(sw) ==
  CASE IsSuccess(sw) -> "Success"
    [] IsAuthSentinel(sw) -> "AuthRequired"
    [] sw = <<105, 131>> -> "AuthBlocked"
    [] sw = <<105, 130>> -> "SecurityNotSatisfied"
    [] sw = <<103, 0>> -> "WrongLength"
    [] sw = <<106, 130>> -> "FileNotFound"
    [] sw = <<106, 134>> -> "IncorrectParameters"
    [] sw = <<109, 0>> -> "InsNotSupported"
    [] sw = <<110, 0>> -> "ClaNotSupported"
    [] OTHER -> "none"

Ok == [ok |-> TRUE]
Err(kind) == [ok |-> FALSE, kind |-> kind]

\* evaluateRead, evaluateWrite, evaluateLoadKey and evaluateAuth come to the
\* same: an error with a kind is returned before the kind can be replaced by
\* ReadFailed, LoadKeyFailed and so on, and one without is not an IoError or
\* AuthError to be replaced.
Evaluate(sw) == IF IsSuccess(sw) THEN Ok ELSE Err(Kind(sw))

-----------------------------------------------------------------------------
(* DESFire answers.                                                        *)

StatusOf(response) == SubSeq(response, Len(response) - 1, Len(response))
IsOK(response) == Len(response) >= 2 /\ StatusOf(response) = <<145, 0>>
HasMore(response) == Len(response) >= 2 /\ StatusOf(response) = <<145, 175>>
ExtractData(response) == IF Len(response) < 2 THEN <<>> ELSE SubSeq(response, 1, Len(response) - 2)

\* evaluateResponse: an error is told by its second byte alone.
EvaluateResponse(response) ==
  IF Len(response) < 2 THEN Err("ResponseTooShort")
  ELSE IF StatusOf(response) \in {<<145, 0>>, <<145, 175>>} THEN Ok
  ELSE LET sw2 == StatusOf(response)[2] IN
       CASE sw2 = 174 -> Err("AuthMismatch")
         [] sw2 = 157 -> Err("PermissionDenied")
         [] sw2 = 160 -> Err("AppNotFound")
         [] sw2 = 240 -> Err("FileNotFound")
         [] OTHER -> Err("Generic")

-----------------------------------------------------------------------------
(* Properties of one status word, stated for every one.                    *)

\* The kind that goes with a category: 6C xx is a category of its own and is
\* missing from the kinds.
KindOfCategory ==
  [Success |-> "Success", AuthSentinel |-> "AuthRequired", WrongLength |-> "WrongLength",
   SecurityError |-> "SecurityNotSatisfied", AuthBlocked |-> "AuthBlocked",
   FileNotFound |-> "FileNotFound", IncorrectP1P2 |-> "IncorrectParameters",
   INSNotSupported |-> "InsNotSupported", CLANotSupported |-> "ClaNotSupported",
   WrongLE |-> "none", Unknown |-> "none"]

\* The statuses on which the two layers differ: 90 00 ends a reader's command
\* but no DESFire command, 91 AF announces more of a DESFire answer and is an
\* error without a kind to the reader's commands.
Contested == {<<144, 0>>, <<145, 175>>}

\* The error kind is that of the category, and none for 6C xx although that has
\* a category; a DESFire answer, with data or without, is ok exactly when it is
\* whole or announces more, its data are what stands before the status; and the
\* verdict on it is the one of the reader's commands but for two statuses.
StatusLayersFitOn(sw) ==
  /\ Kind(sw) = KindOfCategory[Category(sw)]
  /\ \A data \in {<<>>, <<sw[2]>>} :
       LET response == data \o sw IN
       /\ EvaluateResponse(response).ok <=> IsOK(response) \/ HasMore(response)
       /\ ExtractData(response) = data
       /\ EvaluateResponse(response).ok # Evaluate(sw).ok <=> sw \in Contested
=============================================================================
