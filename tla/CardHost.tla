------------------------------ MODULE CardHost ------------------------------
(***************************************************************************)
(* What CardInterface remembers of a card between exchanges: the           *)
(* authentication sessions of AuthenticationState, which expire against    *)
(* the system clock, and the key table of KeyManagement.  Nothing here     *)
(* talks to a card: the record is kept by the calls of a program, in any   *)
(* order, while the clock runs, or is set back by an administrator.        *)
(*                                                                         *)
(* A DESFire CardInterface has neither object and is not modelled here; an *)
(* Ultralight one has both but authenticates nothing.                      *)
(***************************************************************************)
EXTENDS Integers, FiniteSets

CONSTANTS
  Kind,        \* "classic" or "ultralight"
  MaxSector,   \* 16 in a 1K card, 40 in a 4K card
  Slots,       \* reader slots a key is registered for, a set of numbers
  Keys,        \* key values
  ZeroKey,     \* the key of six zeros, which the table refuses
  NoKey,       \* no entry of the table
  NoSession,   \* no entry of sessions_
  Timeouts,    \* session timeouts
  MaxClock     \* bound on the clock

ASSUME KindAssumption == Kind \in {"classic", "ultralight"}
ASSUME SizeAssumption == MaxSector \in Nat \ {0} /\ MaxClock \in Nat
ASSUME TimeoutAssumption == Timeouts \subseteq Nat /\ Timeouts # {}
ASSUME KeyAssumption == ZeroKey \in Keys /\ NoKey \notin Keys /\ Slots \subseteq Nat

VARIABLES
  sessions,        \* sessions_: sector -> session
  cachingEnabled,  \* cachingEnabled_
  defaultTimeout,  \* defaultTimeout_
  clock,           \* system_clock::now()
  table,           \* keys_: key type and slot -> key
  shown            \* sector -> key of the last authentication not yet undone

vars == <<sessions, cachingEnabled, defaultTimeout, clock, table, shown>>

Sectors == 0 .. MaxSector - 1
KeyTypes == {"A", "B"}
Session == [keyUsed : KeyTypes, authTime : Int, timeout : Nat]

ASSUME SessionAssumption == NoSession \notin Session

None == [s \in Sectors |-> NoSession]

Init ==
  /\ sessions = None /\ cachingEnabled = TRUE
  /\ defaultTimeout \in Timeouts
  /\ clock = 0
  /\ table = [kt \in KeyTypes |-> [sl \in Slots |-> NoKey]]
  /\ shown = [s \in Sectors |-> "none"]

\* isExpired: a session lives up to and including its timeout.
IsExpired(x) == clock - x.authTime > x.timeout

\* getSession and the listings over sessions_ do not look at cachingEnabled_;
\* isAuthenticated does.
GetSession(s) ==
  IF sessions[s] = NoSession \/ IsExpired(sessions[s]) THEN NoSession ELSE sessions[s]
IsAuthenticated(s) ==
  cachingEnabled /\ sessions[s] # NoSession /\ ~IsExpired(sessions[s])
IsAuthenticatedWith(s, kt) == IsAuthenticated(s) /\ sessions[s].keyUsed = kt
GetAuthenticatedSectors ==
  {s \in Sectors : sessions[s] # NoSession /\ ~IsExpired(sessions[s])}
CountAuthenticated == Cardinality(GetAuthenticatedSectors)
GetTimeRemaining(s) ==
  IF sessions[s] = NoSession THEN 0
  ELSE LET left == sessions[s].timeout - (clock - sessions[s].authTime)
       IN  IF left < 0 THEN 0 ELSE left

-----------------------------------------------------------------------------
(* Sessions.                                                               *)

\* CardInterface::authenticate, which has nothing to do for an Ultralight
\* card; markAuthenticated stores the session only while caching is enabled.
Authenticate(s, kt) ==
  /\ Kind = "classic"
  /\ sessions' = IF cachingEnabled
                 THEN [sessions EXCEPT ![s] = [keyUsed |-> kt, authTime |-> clock,
                                               timeout |-> defaultTimeout]]
                 ELSE sessions
  /\ shown' = [shown EXCEPT ![s] = kt]
  /\ UNCHANGED <<cachingEnabled, defaultTimeout, clock, table>>

FaultyDeauthenticate(s) ==
  /\ sessions' = sessions
  /\ shown' = [shown EXCEPT ![s] = "none"]
  /\ UNCHANGED <<cachingEnabled, defaultTimeout, clock, table>>

\* deauthenticate, that is invalidate.
Deauthenticate(s) ==
  /\ sessions' = [sessions EXCEPT ![s] = NoSession]
  /\ shown' = [shown EXCEPT ![s] = "none"]
  /\ UNCHANGED <<cachingEnabled, defaultTimeout, clock, table>>

ClearAuthentication ==
  /\ sessions' = None
  /\ shown' = [s \in Sectors |-> "none"]
  /\ UNCHANGED <<cachingEnabled, defaultTimeout, clock, table>>

FaultyEnableCaching(enable) ==
  /\ cachingEnabled' = enable
  /\ UNCHANGED <<sessions, shown, defaultTimeout, clock, table>>

\* Caching that is disabled forgets every session.
EnableCaching(enable) ==
  /\ cachingEnabled' = enable
  /\ sessions' = IF enable THEN sessions ELSE None
  /\ shown' = IF enable THEN shown ELSE [s \in Sectors |-> "none"]
  /\ UNCHANGED <<defaultTimeout, clock, table>>

FaultySetDefaultTimeout(t) ==
  /\ defaultTimeout' = t
  /\ sessions' = [s \in Sectors |-> IF sessions[s] = NoSession THEN NoSession
                                    ELSE [sessions[s] EXCEPT !.timeout = t]]
  /\ UNCHANGED <<cachingEnabled, clock, table, shown>>

\* The default counts for the sessions made from now on.
SetDefaultTimeout(t) ==
  /\ defaultTimeout' = t
  /\ UNCHANGED <<sessions, cachingEnabled, clock, table, shown>>

\* setSectorTimeout and refresh restart the session that is stored, expired
\* or not.
SetSectorTimeout(s, t) ==
  /\ sessions[s] # NoSession
  /\ sessions' = [sessions EXCEPT ![s].timeout = t, ![s].authTime = clock]
  /\ UNCHANGED <<cachingEnabled, defaultTimeout, clock, table, shown>>

Refresh(s) ==
  /\ sessions[s] # NoSession
  /\ sessions' = [sessions EXCEPT ![s].authTime = clock]
  /\ UNCHANGED <<cachingEnabled, defaultTimeout, clock, table, shown>>

RemoveExpiredSessions ==
  /\ sessions' = [s \in Sectors |-> GetSession(s)]
  /\ UNCHANGED <<cachingEnabled, defaultTimeout, clock, table, shown>>

-----------------------------------------------------------------------------
(* Keys.                                                                   *)

HasKey(kt, slot) == table[kt][slot] # NoKey
GetSlots(kt) == {slot \in Slots : HasKey(kt, slot)}
HasKeyType(kt) == GetSlots(kt) # {}
GetKey(kt, slot) == table[kt][slot]  \* throws when there is none

\* The lowest slot in use.
GetDefaultSlot(kt) == CHOOSE slot \in GetSlots(kt) : \A other \in GetSlots(kt) : slot <= other
GetDefaultKey(kt) == table[kt][GetDefaultSlot(kt)]

\* A key of zeros is refused with an exception; any other replaces what the
\* slot held.
RegisterKey(kt, key, slot) ==
  /\ key # ZeroKey
  /\ table' = [table EXCEPT ![kt][slot] = key]
  /\ UNCHANGED <<sessions, cachingEnabled, defaultTimeout, clock, shown>>

ClearKeys(kts) ==
  /\ table' = [kt \in KeyTypes |-> IF kt \in kts THEN [sl \in Slots |-> NoKey] ELSE table[kt]]
  /\ UNCHANGED <<sessions, cachingEnabled, defaultTimeout, clock, shown>>

-----------------------------------------------------------------------------
(* The clock: it runs, and it may be set back.                             *)
Tick == clock < MaxClock /\ clock' = clock + 1
SetBack == clock' \in 0 .. clock - 1
ClockMoves ==
  /\ Tick \/ SetBack
  /\ UNCHANGED <<sessions, cachingEnabled, defaultTimeout, table, shown>>

SessionStep(s) ==
  \/ \E kt \in KeyTypes : Authenticate(s, kt)
  \/ Deauthenticate(s) \/ Refresh(s)
  \/ \E t \in Timeouts : SetSectorTimeout(s, t)

KeyStep ==
  \/ \E kt \in KeyTypes, key \in Keys, slot \in Slots : RegisterKey(kt, key, slot)
  \/ \E kts \in SUBSET KeyTypes \ {{}} : ClearKeys(kts)

Next ==
  \/ \E s \in Sectors : SessionStep(s)
  \/ ClearAuthentication \/ RemoveExpiredSessions
  \/ \E enable \in BOOLEAN : EnableCaching(enable)
  \/ \E t \in Timeouts : SetDefaultTimeout(t)
  \/ KeyStep
  \/ ClockMoves

Spec == Init /\ [][Next]_vars

-----------------------------------------------------------------------------
(* Properties.                                                             *)

TypeOK ==
  /\ sessions \in [Sectors -> Session \cup {NoSession}]
  /\ cachingEnabled \in BOOLEAN
  /\ defaultTimeout \in Nat /\ clock \in Int
  /\ table \in [KeyTypes -> [Slots -> Keys \cup {NoKey}]]
  /\ shown \in [Sectors -> KeyTypes \cup {"none"}]

\* The three ways to ask whether a sector is authenticated give one answer,
\* though only one of them looks at the caching flag, and a sector with time
\* left is authenticated.  A key type that has a key has a default one, which is
\* that of its lowest slot and never the key of zeros.
QueriesAgree ==
  /\ \A s \in Sectors :
       /\ IsAuthenticated(s) <=> GetSession(s) # NoSession
       /\ IsAuthenticated(s) <=> s \in GetAuthenticatedSectors
       /\ GetTimeRemaining(s) > 0 => IsAuthenticated(s)
  /\ \A kt \in KeyTypes : HasKeyType(kt) =>
       /\ GetDefaultKey(kt) \in Keys \ {ZeroKey}
       /\ \A slot \in GetSlots(kt) : GetDefaultSlot(kt) <= slot

\* A sector reported as authenticated with a key was authenticated with that
\* key, and neither that sector nor everything was given up since.
LiveMeansAuthenticated ==
  \A s \in Sectors, kt \in KeyTypes : IsAuthenticatedWith(s, kt) => shown[s] = kt

\* A sector whose session has run out, or that has none, becomes authenticated
\* only by a new authentication, by an explicit refresh or new timeout of the
\* session, or by a clock set back.
RevivedOnlyByCall ==
  [][\A s \in Sectors :
       (~IsAuthenticated(s) /\ IsAuthenticated(s)') =>
         \/ clock' < clock
         \/ sessions'[s] # sessions[s] /\ sessions'[s].authTime = clock]_vars

=============================================================================
