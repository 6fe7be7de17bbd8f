--------------------------- MODULE CardHost_proofs ---------------------------
(***************************************************************************)
(* The host's record of sessions and keys, for every number of sectors and *)
(* slots, every timeout and however the clock is set.  The invariant that  *)
(* carries the proofs says what enableCaching, markAuthenticated and       *)
(* registerKey see to: no sessions while caching is off, sessions only     *)
(* under the key the program used last, and no key of zeros.               *)
(***************************************************************************)
EXTENDS CardHost, TLAPS, WellFoundedInduction

NoCacheNoSession == ~ cachingEnabled => sessions = None
SessionsShown == \A s \in Sectors : sessions[s] # NoSession => shown[s] = sessions[s].keyUsed
NoZeroKey == \A kt \in KeyTypes, slot \in Slots : table[kt][slot] # ZeroKey

IInv == TypeOK /\ NoCacheNoSession /\ SessionsShown /\ NoZeroKey

(* A sector's session after a step, by the call that made the step. *)
LEMMA SessionTypes ==
  /\ \A kt \in KeyTypes, t \in Nat, c \in Int : [keyUsed |-> kt, authTime |-> c, timeout |-> t] \in Session
  /\ \A x \in Session, t \in Nat, c \in Int :
       /\ [x EXCEPT !.authTime = c] \in Session
       /\ [x EXCEPT !.timeout = t, !.authTime = c] \in Session
       /\ [x EXCEPT !.authTime = c].keyUsed = x.keyUsed
       /\ [x EXCEPT !.timeout = t, !.authTime = c].keyUsed = x.keyUsed
       /\ x # NoSession
  BY SessionAssumption DEF Session

LEMMA InitInv == Init => IInv
<1> SUFFICES ASSUME Init PROVE IInv
  OBVIOUS
<1>1. TypeOK
  BY TimeoutAssumption DEF Init, TypeOK, None
<1>2. NoCacheNoSession /\ SessionsShown
  BY DEF Init, NoCacheNoSession, SessionsShown, None
<1>3. NoZeroKey
  BY KeyAssumption DEF Init, NoZeroKey
<1> QED
  BY <1>1, <1>2, <1>3 DEF IInv

(* Calls that give sessions up, or keep them. *)
LEMMA GivenUp ==
  ASSUME IInv, UNCHANGED table, cachingEnabled' \in BOOLEAN, clock' \in Int, defaultTimeout' \in Nat,
         sessions' = [s \in Sectors |-> sessions'[s]],
         shown' \in [Sectors -> KeyTypes \cup {"none"}],
         \A s \in Sectors : \/ sessions'[s] = NoSession
                            \/ sessions'[s] = sessions[s] /\ shown'[s] = shown[s],
         ~ cachingEnabled' => ~ cachingEnabled \/ sessions' = None
  PROVE  IInv'
<1>1. TypeOK'
  <2>1. \A s \in Sectors : sessions'[s] \in Session \cup {NoSession}
    BY DEF IInv, TypeOK
  <2> QED
    BY <2>1 DEF IInv, TypeOK
<1>2. NoCacheNoSession'
  <2>1. ASSUME ~ cachingEnabled' PROVE sessions' = None
    <3>1. CASE sessions' = None
      BY <3>1
    <3>2. CASE ~ cachingEnabled
      <4>1. \A s \in Sectors : sessions'[s] = NoSession
        BY <3>2 DEF None, IInv, NoCacheNoSession
      <4> QED
        BY <4>1 DEF None
    <3> QED
      BY <2>1, <3>1, <3>2
  <2> QED
    BY <2>1 DEF NoCacheNoSession, None
<1>3. SessionsShown'
  BY DEF IInv, SessionsShown
<1>4. NoZeroKey'
  BY DEF IInv, NoZeroKey
<1> QED
  BY <1>1, <1>2, <1>3, <1>4 DEF IInv

LEMMA AuthenticateInv ==
  ASSUME IInv, NEW s \in Sectors, NEW kt \in KeyTypes, Authenticate(s, kt)
  PROVE  IInv'
<1> DEFINE x == [keyUsed |-> kt, authTime |-> clock, timeout |-> defaultTimeout]
<1>1. x \in Session
  BY SessionTypes DEF IInv, TypeOK
<1>2. sessions' = IF cachingEnabled THEN [sessions EXCEPT ![s] = x] ELSE sessions
  BY DEF Authenticate
<1>3. x.keyUsed = kt
  OBVIOUS
<1> HIDE DEF x
<1>4. TypeOK'
  BY <1>1, <1>2 DEF IInv, TypeOK, Authenticate
<1>5. NoCacheNoSession'
  BY <1>2 DEF IInv, NoCacheNoSession, Authenticate, None
<1>6. SessionsShown'
  <2>1. CASE cachingEnabled
    BY <1>2, <1>3, <2>1 DEF IInv, TypeOK, SessionsShown, Authenticate
  <2>2. CASE ~ cachingEnabled
    BY <1>2, <2>2 DEF IInv, NoCacheNoSession, SessionsShown, Authenticate, None
  <2> QED
    BY <2>1, <2>2
<1>7. NoZeroKey'
  BY DEF IInv, NoZeroKey, Authenticate
<1> QED
  BY <1>4, <1>5, <1>6, <1>7 DEF IInv

(* setSectorTimeout and refresh replace a session by one of the same key. *)
LEMMA RestartInv ==
  ASSUME IInv, NEW s \in Sectors, NEW x \in Session, sessions[s] # NoSession,
         x.keyUsed = sessions[s].keyUsed, sessions' = [sessions EXCEPT ![s] = x],
         UNCHANGED <<cachingEnabled, defaultTimeout, clock, table, shown>>
  PROVE  IInv'
<1>1. TypeOK'
  BY DEF IInv, TypeOK
<1>2. NoCacheNoSession'
  BY DEF IInv, NoCacheNoSession, None
<1>3. SessionsShown' /\ NoZeroKey'
  BY DEF IInv, TypeOK, SessionsShown, NoZeroKey
<1> QED
  BY <1>1, <1>2, <1>3 DEF IInv

LEMMA KeysInv ==
  ASSUME IInv, KeyStep
  PROVE  IInv'
<1>1. TypeOK' /\ NoZeroKey'
  <2>1. ASSUME NEW kt \in KeyTypes, NEW key \in Keys, NEW slot \in Slots, RegisterKey(kt, key, slot)
        PROVE  TypeOK' /\ NoZeroKey'
    BY <2>1 DEF IInv, TypeOK, NoZeroKey, RegisterKey
  <2>2. ASSUME NEW kts \in SUBSET KeyTypes, ClearKeys(kts)
        PROVE  TypeOK' /\ NoZeroKey'
    BY <2>2, KeyAssumption DEF IInv, TypeOK, NoZeroKey, ClearKeys
  <2> QED
    BY <2>1, <2>2 DEF KeyStep
<1>2. UNCHANGED <<sessions, cachingEnabled, shown>>
  BY DEF KeyStep, RegisterKey, ClearKeys
<1>3. NoCacheNoSession' /\ SessionsShown'
  BY <1>2 DEF IInv, NoCacheNoSession, SessionsShown, None
<1> QED
  BY <1>1, <1>3 DEF IInv

LEMMA NextInv == IInv /\ [Next]_vars => IInv'
<1> SUFFICES ASSUME IInv, [Next]_vars PROVE IInv'
  OBVIOUS
<1>1. /\ sessions \in [Sectors -> Session \cup {NoSession}]
      /\ clock \in Int /\ defaultTimeout \in Nat /\ cachingEnabled \in BOOLEAN
      /\ shown \in [Sectors -> KeyTypes \cup {"none"}]
  BY DEF IInv, TypeOK
<1>2. sessions = [s \in Sectors |-> sessions[s]]
  BY <1>1
<1>3. ASSUME NEW s \in Sectors, SessionStep(s) PROVE IInv'
  <2>1. ASSUME Deauthenticate(s) PROVE IInv'
    BY <1>1, <2>1, GivenUp DEF Deauthenticate
  <2>2. ASSUME Refresh(s) PROVE IInv'
    BY <1>1, <2>2, RestartInv, SessionTypes DEF Refresh
  <2>3. ASSUME NEW t \in Timeouts, SetSectorTimeout(s, t) PROVE IInv'
    <3> DEFINE x == [sessions[s] EXCEPT !.timeout = t, !.authTime = clock]
    <3>1. sessions[s] \in Session /\ t \in Nat /\ clock \in Int
      BY <1>1, <2>3, TimeoutAssumption DEF SetSectorTimeout
    <3>2. x \in Session /\ x.keyUsed = sessions[s].keyUsed
      BY <3>1, SessionTypes
    <3>3. sessions' = [sessions EXCEPT ![s] = x]
      BY <1>1, <2>3, <3>1 DEF SetSectorTimeout, Session
    <3> HIDE DEF x
    <3> QED
      BY <2>3, <3>1, <3>2, <3>3, RestartInv, SessionAssumption DEF SetSectorTimeout
  <2> QED
    BY <1>3, <2>1, <2>2, <2>3, AuthenticateInv DEF SessionStep
<1>4. ASSUME ClearAuthentication PROVE IInv'
  BY <1>1, <1>4, GivenUp DEF ClearAuthentication, None
<1>5. ASSUME RemoveExpiredSessions PROVE IInv'
  BY <1>1, <1>5, GivenUp DEF RemoveExpiredSessions, GetSession
<1>6. ASSUME NEW enable \in BOOLEAN, EnableCaching(enable) PROVE IInv'
  <2>1. CASE enable
    BY <1>1, <1>2, <1>6, <2>1, GivenUp DEF EnableCaching
  <2>2. CASE ~ enable
    BY <1>1, <1>6, <2>2, GivenUp DEF EnableCaching, None
  <2> QED
    BY <2>1, <2>2
<1>7. ASSUME NEW t \in Timeouts, SetDefaultTimeout(t) PROVE IInv'
  BY <1>1, <1>2, <1>7, GivenUp, TimeoutAssumption DEF SetDefaultTimeout
<1>8. ASSUME ClockMoves PROVE IInv'
  <2>1. clock' \in Int
    BY <1>1, <1>8 DEF ClockMoves, Tick, SetBack
  <2> QED
    BY <1>1, <1>2, <1>8, <2>1, GivenUp DEF ClockMoves
<1>9. CASE UNCHANGED vars
  BY <1>1, <1>2, <1>9, GivenUp DEF vars
<1> QED
  BY <1>3, <1>4, <1>5, <1>6, <1>7, <1>8, <1>9, KeysInv DEF Next

LEMMA Invariance == Spec => []IInv
  BY InitInv, NextInv, PTL DEF Spec

(* Sessions, keys and clock have their types whatever the calls. *)
THEOREM TypeCorrect == Spec => []TypeOK
<1>1. IInv => TypeOK
  BY DEF IInv
<1> QED
  BY <1>1, Invariance, PTL

(* A nonempty set of slots has a lowest one. *)
LEMMA LowestSlot ==
  ASSUME NEW S, S \subseteq Nat, S # {}
  PROVE  \E slot \in S : \A other \in S : slot <= other
<1>1. PICK slot \in S : \A other \in S : ~ (<<other, slot>> \in OpToRel(<, Nat))
  BY WFMin, NatLessThanWellFounded
<1>2. \A other \in S : ~ (other < slot)
  BY <1>1 DEF OpToRel
<1> QED
  BY <1>2

(* isAuthenticated, which looks at the caching flag, and getSession and    *)
(* the listings, which do not, give one answer; and the default key of a   *)
(* type that has keys is the one of its lowest slot.                       *)
THEOREM AnswersAgree == Spec => []QueriesAgree
<1>1. ASSUME IInv, NEW s \in Sectors
      PROVE  /\ IsAuthenticated(s) <=> GetSession(s) # NoSession
             /\ IsAuthenticated(s) <=> s \in GetAuthenticatedSectors
             /\ GetTimeRemaining(s) > 0 => IsAuthenticated(s)
  <2>1. ~ cachingEnabled => sessions[s] = NoSession
    BY <1>1 DEF IInv, NoCacheNoSession, None
  <2>2. /\ IsAuthenticated(s) <=> GetSession(s) # NoSession
        /\ IsAuthenticated(s) <=> s \in GetAuthenticatedSectors
    BY <2>1 DEF IsAuthenticated, GetSession, GetAuthenticatedSectors
  <2>3. GetTimeRemaining(s) > 0 => IsAuthenticated(s)
    <3>1. CASE sessions[s] = NoSession
      BY <3>1 DEF GetTimeRemaining
    <3>2. CASE sessions[s] # NoSession
      <4>1. sessions[s].timeout \in Nat /\ sessions[s].authTime \in Int /\ clock \in Int
        BY <1>1, <3>2 DEF IInv, TypeOK, Session
      <4> QED
        BY <2>1, <3>2, <4>1 DEF GetTimeRemaining, IsAuthenticated, IsExpired
    <3> QED
      BY <3>1, <3>2
  <2> QED
    BY <2>2, <2>3
<1>2. ASSUME IInv, NEW kt \in KeyTypes, HasKeyType(kt)
      PROVE  /\ GetDefaultKey(kt) \in Keys \ {ZeroKey}
             /\ \A slot \in GetSlots(kt) : GetDefaultSlot(kt) <= slot
  <2>1. GetSlots(kt) # {} /\ GetSlots(kt) \subseteq Nat
    BY <1>2, KeyAssumption DEF HasKeyType, GetSlots
  <2>2. /\ GetDefaultSlot(kt) \in GetSlots(kt)
        /\ \A slot \in GetSlots(kt) : GetDefaultSlot(kt) <= slot
    BY <2>1, LowestSlot DEF GetDefaultSlot
  <2>3. GetDefaultKey(kt) \in Keys \ {ZeroKey}
    BY <1>2, <2>2 DEF GetDefaultKey, GetSlots, HasKey, IInv, TypeOK, NoZeroKey
  <2> QED
    BY <2>2, <2>3
<1>3. IInv => QueriesAgree
  BY <1>1, <1>2 DEF QueriesAgree
<1> QED
  BY <1>3, Invariance, PTL

(* A sector reported as authenticated with a key was authenticated with    *)
(* it, and not given up since.                                             *)
THEOREM LiveWereAuthenticated == Spec => []LiveMeansAuthenticated
<1>1. IInv => LiveMeansAuthenticated
  BY DEF IInv, SessionsShown, LiveMeansAuthenticated, IsAuthenticatedWith, IsAuthenticated
<1> QED
  BY <1>1, Invariance, PTL

(* No call revives a session that has run out, or makes one out of         *)
(* nothing, but an authentication, refresh and setSectorTimeout; enabling  *)
(* the cache again does not.                                               *)
THEOREM RevivalNeedsACall == Spec => RevivedOnlyByCall
<1> DEFINE Revival(s) == (~ IsAuthenticated(s) /\ IsAuthenticated(s)') =>
              \/ clock' < clock
              \/ sessions'[s] # sessions[s] /\ sessions'[s].authTime = clock
<1>1. ASSUME IInv, [Next]_vars, NEW s \in Sectors PROVE Revival(s)
  <2> SUFFICES ASSUME ~ IsAuthenticated(s), IsAuthenticated(s)', ~ (clock' < clock)
               PROVE  sessions'[s] # sessions[s] /\ sessions'[s].authTime = clock
    OBVIOUS
  <2>1. /\ sessions \in [Sectors -> Session \cup {NoSession}]
        /\ clock \in Int
        /\ ~ cachingEnabled => sessions[s] = NoSession
    BY <1>1 DEF IInv, TypeOK, NoCacheNoSession, None
  <2>2. cachingEnabled' /\ sessions'[s] # NoSession /\ ~ (clock' - sessions'[s].authTime > sessions'[s].timeout)
    BY DEF IsAuthenticated, IsExpired
  <2>3. sessions'[s] # sessions[s]
    <3>1. SUFFICES ASSUME sessions'[s] = sessions[s] PROVE FALSE
      OBVIOUS
    <3>2. cachingEnabled /\ sessions[s] \in Session
      BY <2>1, <2>2, <3>1
    <3>3. clock - sessions[s].authTime > sessions[s].timeout
      BY <2>2, <3>1, <3>2 DEF IsAuthenticated, IsExpired
    <3>4. clock' \in Int
      BY <1>1, NextInv DEF IInv, TypeOK
    <3> QED
      BY <2>1, <2>2, <3>1, <3>2, <3>3, <3>4 DEF Session
  <2>4. PICK r \in Sectors : SessionStep(r)
    BY <1>1, <2>2, <2>3 DEF Next, vars, ClearAuthentication, RemoveExpiredSessions, GetSession, EnableCaching,
      SetDefaultTimeout, KeyStep, RegisterKey, ClearKeys, ClockMoves, None
  <2>5. r = s
    BY <2>1, <2>3, <2>4 DEF SessionStep, Authenticate, Deauthenticate, Refresh, SetSectorTimeout
  <2>6. CASE \E kt \in KeyTypes : Authenticate(s, kt)
    BY <2>1, <2>3, <2>6 DEF Authenticate
  <2>7. CASE Deauthenticate(s)
    BY <2>1, <2>2, <2>7 DEF Deauthenticate
  <2>8. CASE Refresh(s) \/ \E t \in Timeouts : SetSectorTimeout(s, t)
    <3>1. sessions[s] \in Session
      BY <2>1, <2>8 DEF Refresh, SetSectorTimeout
    <3> QED
      BY <2>1, <2>3, <2>8, <3>1 DEF Refresh, SetSectorTimeout, Session
  <2> QED
    BY <2>3, <2>4, <2>5, <2>6, <2>7, <2>8 DEF SessionStep
<1>2. IInv /\ [Next]_vars => [\A s \in Sectors : Revival(s)]_vars
  BY <1>1
<1>3. RevivedOnlyByCall <=> [][\A s \in Sectors : Revival(s)]_vars
  BY DEF RevivedOnlyByCall
<1> HIDE DEF Revival
<1> QED
  BY <1>2, <1>3, Invariance, PTL DEF Spec
=============================================================================
