---------------------------- MODULE Logger_proofs ----------------------------
(***************************************************************************)
(* The logger under any number of threads.  The mutex invariant is         *)
(* inductive with the types; that the macros obey the settings needs to    *)
(* know that what the tests a thread has passed have found is among what   *)
(* was seen since its call began, and so is what the settings say now.     *)
(***************************************************************************)
EXTENDS Logger, TLAPS

(* A thread that is in a call has a request. *)
InCall == \A t \in Threads : pc[t] # "idle" => req[t] \in Requests

(* What the settings say now, and what the tests behind a macro have found, *)
(* is among what the call has seen.                                        *)
Found(t) ==
  /\ pc[t] # "idle" => Say(level, types, cats, Type(t), Category(t)) \subseteq seen[t]
  /\ req[t][3] = "macro" =>
       /\ pc[t] \in {"category", "direct"} => "asked" \in seen[t]
       /\ pc[t] = "direct" => "category" \in seen[t]
Tested == \A t \in Threads : Found(t)

IInv == TypeOK /\ LinesWhole /\ InCall /\ Tested

LEMMA InitInv == Init => IInv
<1> SUFFICES ASSUME Init PROVE IInv
  OBVIOUS
<1>1. TypeOK
  BY LevelAssumption DEF Init, TypeOK, Levels, Entry
<1>2. LinesWhole
  BY ThreadAssumption DEF Init, LinesWhole
<1>3. InCall /\ Tested
  BY DEF Init, InCall, Tested, Found
<1> QED
  BY <1>1, <1>2, <1>3 DEF IInv

(* With the mutex free nobody writes and the last line has ended. *)
LEMMA FreeLine ==
  ASSUME TypeOK, LinesWhole, Free
  PROVE  line = <<>> /\ \A t \in Threads : pc[t] # "write"
<1>1. \A t \in Threads : pc[t] # "write"
  BY ThreadAssumption DEF LinesWhole, Free
<1>2. line \in Seq(Threads) /\ Len(line) \in Nat /\ \A i \in 1 .. Len(line) : line[i] \in Threads
  BY DEF TypeOK
<1>3. Len(line) = 0
  BY <1>2, ThreadAssumption DEF LinesWhole, Free
<1> QED
  BY <1>1, <1>2, <1>3

LEMMA FlagType == \A enable \in BOOLEAN : Flag(enable) \in Entry
  BY DEF Flag, Entry

(* Every change of the settings is one to settings of their types. *)
LEMMA ConfigureChanges ==
  ASSUME TypeOK, Configure
  PROVE  \E l \in Levels, tys \in [Types -> Entry], cs \in [Categories -> Entry] : Change(l, tys, cs)
<1> DEFINE Changes == \E l \in Levels, tys \in [Types -> Entry], cs \in [Categories -> Entry] : Change(l, tys, cs)
<1>0. level \in Levels /\ types \in [Types -> Entry] /\ cats \in [Categories -> Entry]
  BY DEF TypeOK
<1>1. ASSUME NEW l \in Levels, SetLogLevel(l) PROVE Changes
  BY <1>0, <1>1 DEF SetLogLevel
<1>2. ASSUME NEW ty \in Types, ToggleLogType(ty) PROVE Changes
  <2>1. [types EXCEPT ![ty] = Flag(types[ty] = "off")] \in [Types -> Entry]
    BY <1>0, FlagType
  <2> QED
    BY <1>0, <1>2, <2>1 DEF ToggleLogType
<1>3. ASSUME NEW ty \in Types, NEW enable \in BOOLEAN, EnableLogType(ty, enable) PROVE Changes
  <2>1. [types EXCEPT ![ty] = Flag(enable)] \in [Types -> Entry]
    BY <1>0, FlagType
  <2> QED
    BY <1>0, <1>3, <2>1 DEF EnableLogType
<1>4. ASSUME NEW c \in Categories, NEW enable \in BOOLEAN, EnableCategory(c, enable) PROVE Changes
  <2>1. [cats EXCEPT ![c] = Flag(enable)] \in [Categories -> Entry]
    BY <1>0, FlagType
  <2> QED
    BY <1>0, <1>4, <2>1 DEF EnableCategory
<1>5. ASSUME NEW enable \in BOOLEAN, SetAllLogTypes(enable) \/ SetAllCategories(enable) PROVE Changes
  <2>1. /\ [ty \in Types |-> Flag(enable)] \in [Types -> Entry]
        /\ [c \in Categories |-> Flag(enable)] \in [Categories -> Entry]
    BY FlagType
  <2> QED
    BY <1>0, <1>5, <2>1 DEF SetAllLogTypes, SetAllCategories
<1>6. ASSUME ResetToDefaults PROVE Changes
  <2>1. /\ MaxLevel \in Levels
        /\ [ty \in Types |-> "on"] \in [Types -> Entry]
        /\ [c \in Categories |-> "on"] \in [Categories -> Entry]
    BY LevelAssumption DEF Levels, Entry
  <2> QED
    BY <1>6, <2>1 DEF ResetToDefaults
<1> HIDE DEF Changes
<1>7. Changes
  BY <1>1, <1>2, <1>3, <1>4, <1>5, <1>6 DEF Configure
<1> QED
  BY <1>7 DEF Changes

(* A change of the settings holds the mutex and adds to what is seen. *)
LEMMA ConfigureInv ==
  ASSUME IInv, Configure
  PROVE  IInv'
<1>0. PICK l \in Levels, tys \in [Types -> Entry], cs \in [Categories -> Entry] : Change(l, tys, cs)
  BY ConfigureChanges DEF IInv
<1>1. /\ level' = l /\ types' = tys /\ cats' = cs
      /\ UNCHANGED <<holder, line, pc, req>>
      /\ seen' = [t \in Threads |-> IF pc[t] = "idle" THEN {}
                    ELSE seen[t] \cup Say(l, tys, cs, Type(t), Category(t))]
  BY <1>0 DEF Change
<1>2. TypeOK'
  <2>1. \A ty, c : Say(l, tys, cs, ty, c) \subseteq Sayings
    BY DEF Say
  <2>2. \A t \in Threads : seen[t] \subseteq Sayings
    BY DEF IInv, TypeOK
  <2>3. seen' \in [Threads -> SUBSET Sayings]
    BY <1>1, <2>1, <2>2
  <2> QED
    BY <1>1, <2>3 DEF IInv, TypeOK
<1>3. LinesWhole' /\ InCall'
  BY <1>1 DEF IInv, LinesWhole, InCall
<1>4. Tested'
  <2> SUFFICES ASSUME NEW t \in Threads PROVE Found(t)'
    BY DEF Tested
  <2>1. pc'[t] # "idle" => seen'[t] = seen[t] \cup Say(l, tys, cs, Type(t), Category(t))
    BY <1>1
  <2>2. Say(level, types, cats, Type(t), Category(t))' = Say(l, tys, cs, Type(t), Category(t))
    BY <1>1 DEF Say, Asked, Wanted, Type, Category
  <2>3. Found(t)
    BY DEF IInv, Tested
  <2> QED
    BY <1>1, <2>1, <2>2, <2>3 DEF Found
<1> QED
  BY <1>2, <1>3, <1>4 DEF IInv

(* A thread that ends its call outside the mutex. *)
LEMMA EndsInv ==
  ASSUME IInv, NEW t \in Threads, pc[t] # "write", Ends(t), UNCHANGED <<settings, holder, line>>
  PROVE  IInv'
<1>1. pc' = [pc EXCEPT ![t] = "idle"] /\ req' = [req EXCEPT ![t] = <<>>] /\ seen' = [seen EXCEPT ![t] = {}]
      /\ UNCHANGED <<level, types, cats, holder, line>>
  BY DEF Ends, Goes, settings
<1>2. TypeOK'
  BY <1>1 DEF IInv, TypeOK
<1>3. LinesWhole' /\ InCall'
  BY <1>1 DEF IInv, TypeOK, LinesWhole, InCall
<1>4. Tested'
  BY <1>1 DEF IInv, TypeOK, Tested, Found, Say, Asked, Wanted, Type, Category
<1> QED
  BY <1>2, <1>3, <1>4 DEF IInv

(* A thread that goes on in its call, outside the mutex. *)
LEMMA GoesInv ==
  ASSUME IInv, NEW t \in Threads, NEW next \in {"category", "direct", "print", "threw"},
         pc[t] \notin {"idle", "write"}, Goes(t, next), UNCHANGED <<req, seen, settings, holder, line>>,
         req[t][3] = "macro" =>
           /\ next \in {"category", "direct"} => "asked" \in seen[t]
           /\ next = "direct" => "category" \in seen[t]
  PROVE  IInv'
<1>1. pc' = [pc EXCEPT ![t] = next] /\ UNCHANGED <<level, types, cats, holder, line, req, seen>>
  BY DEF Goes, settings
<1>2. TypeOK'
  BY <1>1 DEF IInv, TypeOK
<1>3. LinesWhole' /\ InCall'
  BY <1>1 DEF IInv, TypeOK, LinesWhole, InCall
<1>4. Tested'
  BY <1>1 DEF IInv, TypeOK, Tested, Found, Say, Asked, Wanted, Type, Category
<1> QED
  BY <1>2, <1>3, <1>4 DEF IInv

LEMMA CallInv ==
  ASSUME IInv, NEW t \in Threads, NEW ty \in Types, NEW c \in Categories, Call(t, ty, c)
  PROVE  IInv'
<1>1. PICK start \in {"macro", "direct"} :
        pc' = [pc EXCEPT ![t] = start] /\ req' = [req EXCEPT ![t] = <<ty, c, start>>]
  BY DEF Call, Goes
<1>2. seen' = [seen EXCEPT ![t] = Say(level, types, cats, ty, c)] /\ pc[t] = "idle" /\ UNCHANGED <<level, types, cats, holder, line>>
  BY DEF Call, settings
<1>3. <<ty, c, start>> \in Requests
  BY DEF Requests
<1>4. TypeOK'
  <2>1. Say(level, types, cats, ty, c) \subseteq Sayings
    BY DEF Say
  <2> QED
    BY <1>1, <1>2, <1>3, <2>1 DEF IInv, TypeOK
<1>5. LinesWhole' /\ InCall'
  BY <1>1, <1>2, <1>3 DEF IInv, TypeOK, LinesWhole, InCall
<1>6. Tested'
  <2> SUFFICES ASSUME NEW u \in Threads PROVE Found(u)'
    BY DEF Tested
  <2>1. CASE u = t
    <3>1. pc'[t] \in {"macro", "direct"} /\ seen'[t] = Say(level, types, cats, ty, c)
      BY <1>1, <1>2 DEF IInv, TypeOK
    <3>2. Type(t)' = ty /\ Category(t)' = c /\ req'[t][3] = start /\ pc'[t] = start
      BY <1>1 DEF IInv, TypeOK, Type, Category
    <3>3. Say(level, types, cats, Type(t), Category(t))' = Say(level, types, cats, ty, c)
      BY <1>2, <3>2 DEF Say, Asked, Wanted
    <3> QED
      BY <2>1, <3>1, <3>2, <3>3 DEF Found
  <2>2. CASE u # t
    BY <1>1, <1>2, <2>2 DEF IInv, TypeOK, Tested, Found, Say, Asked, Wanted, Type, Category
  <2> QED
    BY <2>1, <2>2
<1> QED
  BY <1>4, <1>5, <1>6 DEF IInv

LEMMA Numbers ==
  /\ \A l \in Levels : l \in Int
  /\ \A ty \in Types : ty \in Int /\ LevelOf(ty) \in Int
<1>1. \A l \in Levels : l \in Int
  BY LevelAssumption DEF Levels
<1>2. \A ty \in Types : ty \in Int
  BY LevelAssumption
<1> QED
  BY <1>1, <1>2 DEF LevelOf

LEMMA RequestParts ==
  ASSUME NEW t \in Threads, req[t] \in Requests
  PROVE  Type(t) \in Types /\ Category(t) \in Categories
<1>1. PICK ty \in Types, c \in Categories, start \in {"macro", "direct"} : req[t] = <<ty, c, start>>
  BY DEF Requests
<1> QED
  BY <1>1 DEF Type, Category

(* The tests and the filter, each under its own hold of the mutex. *)
LEMMA TestsInv ==
  ASSUME IInv, NEW t \in Threads, TypeTest(t) \/ CategoryTest(t) \/ Filter(t) \/ Catch(t)
  PROVE  IInv'
<1>1. req[t] \in Requests \cup {<<>>} /\ level \in Levels /\ types \in [Types -> Entry]
  BY DEF IInv, TypeOK
<1>2. CASE TypeTest(t)
  <2>0. pc[t] = "macro" /\ UNCHANGED <<settings, holder, line>> /\ req[t] \in Requests
    BY <1>2 DEF TypeTest, IInv, InCall
  <2>1. Type(t) \in Types /\ level \in Int /\ LevelOf(Type(t)) \in Int
    BY <1>1, <2>0, Numbers, RequestParts
  <2>2. CASE Ends(t)
    BY <2>0, <2>2, EndsInv
  <2>3. CASE Goes(t, "threw") /\ UNCHANGED <<req, seen>>
    BY <2>0, <2>3, GoesInv
  <2>4. CASE Goes(t, "category") /\ UNCHANGED <<req, seen>> /\ ~ (level < LevelOf(Type(t))) /\ types[Type(t)] = "on"
    <3>1. "asked" \in Say(level, types, cats, Type(t), Category(t))
      BY <2>1, <2>4 DEF Say, Sayings, Asked
    <3>2. "asked" \in seen[t]
      BY <2>0, <3>1 DEF IInv, Tested, Found
    <3> QED
      BY <2>0, <2>4, <3>2, GoesInv
  <2>5. types[Type(t)] \in {"absent", "on", "off"}
    BY <1>1, <2>1 DEF Entry
  <2> QED
    BY <1>2, <2>2, <2>3, <2>4, <2>5 DEF TypeTest
<1>3. CASE CategoryTest(t)
  <2>0. pc[t] = "category" /\ UNCHANGED <<settings, holder, line>>
    BY <1>3 DEF CategoryTest
  <2>1. CASE Ends(t)
    BY <2>0, <2>1, EndsInv
  <2>2. CASE Goes(t, "direct") /\ UNCHANGED <<req, seen>> /\ cats[Category(t)] = "on"
    <3>1. "category" \in Say(level, types, cats, Type(t), Category(t))
      BY <2>2 DEF Say, Sayings
    <3>2. /\ "category" \in seen[t]
          /\ req[t][3] = "macro" => "asked" \in seen[t]
      BY <2>0, <3>1 DEF IInv, Tested, Found
    <3> QED
      BY <2>0, <2>2, <3>2, GoesInv
  <2> QED
    BY <1>3, <2>1, <2>2 DEF CategoryTest
<1>4. CASE Filter(t)
  <2>0. pc[t] = "direct" /\ UNCHANGED <<settings, holder, line>>
    BY <1>4 DEF Filter
  <2>1. CASE Ends(t)
    BY <2>0, <2>1, EndsInv
  <2>2. CASE Goes(t, "print") /\ UNCHANGED <<req, seen>>
    BY <2>0, <2>2, GoesInv
  <2> QED
    BY <1>4, <2>1, <2>2 DEF Filter
<1>5. CASE Catch(t)
  BY <1>5, EndsInv DEF Catch
<1> QED
  BY <1>2, <1>3, <1>4, <1>5

(* The three steps that hold the mutex. *)
LEMMA PrintInv ==
  ASSUME IInv, NEW t \in Threads, Lock(t) \/ Write(t) \/ EndLine(t)
  PROVE  IInv'
<1>1. CASE Lock(t)
  <2>1. pc[t] = "print" /\ pc' = [pc EXCEPT ![t] = "write"] /\ holder' = t
        /\ UNCHANGED <<level, types, cats, line, req, seen>>
    BY <1>1 DEF Lock, Goes, settings
  <2>2. line = <<>> /\ \A u \in Threads : pc[u] # "write"
    BY <1>1, FreeLine DEF Lock, IInv
  <2>3. TypeOK'
    BY <2>1 DEF IInv, TypeOK
  <2>4. LinesWhole'
    BY <2>1, <2>2 DEF IInv, TypeOK, LinesWhole
  <2>5. InCall' /\ Tested'
    BY <2>1 DEF IInv, TypeOK, InCall, Tested, Found, Say, Asked, Wanted, Type, Category
  <2> QED
    BY <2>3, <2>4, <2>5 DEF IInv
<1>2. CASE Write(t)
  <2>1. pc[t] = "write" /\ line' = Append(line, t) /\ UNCHANGED <<level, types, cats, holder, pc, req, seen>>
    BY <1>2 DEF Write, settings
  <2>2. line \in Seq(Threads) /\ holder = t
    BY <2>1 DEF IInv, TypeOK, LinesWhole
  <2>3. TypeOK'
    BY <2>1, <2>2 DEF IInv, TypeOK
  <2>4. \A i \in 1 .. Len(line') : line'[i] = holder'
    BY <2>1, <2>2 DEF IInv, LinesWhole
  <2>5. LinesWhole'
    BY <2>1, <2>4 DEF IInv, LinesWhole
  <2>6. InCall' /\ Tested'
    BY <2>1 DEF IInv, InCall, Tested, Found, Say, Asked, Wanted, Type, Category
  <2> QED
    BY <2>3, <2>5, <2>6 DEF IInv
<1>3. CASE EndLine(t)
  <2>1. pc[t] = "write" /\ pc' = [pc EXCEPT ![t] = "idle"] /\ req' = [req EXCEPT ![t] = <<>>]
        /\ seen' = [seen EXCEPT ![t] = {}] /\ holder' = Nobody /\ line' = <<>> /\ UNCHANGED <<level, types, cats>>
    BY <1>3 DEF EndLine, Ends, Goes, settings
  <2>2. TypeOK'
    BY <2>1 DEF IInv, TypeOK
  <2>3. LinesWhole'
    BY <2>1, ThreadAssumption DEF IInv, TypeOK, LinesWhole
  <2>4. InCall' /\ Tested'
    BY <2>1 DEF IInv, TypeOK, InCall, Tested, Found, Say, Asked, Wanted, Type, Category
  <2> QED
    BY <2>2, <2>3, <2>4 DEF IInv
<1> QED
  BY <1>1, <1>2, <1>3

LEMMA NextInv == IInv /\ [Next]_vars => IInv'
<1> SUFFICES ASSUME IInv, [Next]_vars PROVE IInv'
  OBVIOUS
<1>1. CASE UNCHANGED vars
  BY <1>1 DEF vars, IInv, TypeOK, LinesWhole, InCall, Tested, Found, Say, Asked, Wanted, Type, Category
<1>2. ASSUME NEW t \in Threads, Step(t) PROVE IInv'
  BY <1>2, CallInv, TestsInv, PrintInv DEF Step
<1> QED
  BY <1>1, <1>2, ConfigureInv DEF Next

LEMMA Invariance == Spec => []IInv
  BY InitInv, NextInv, PTL DEF Spec

(* The settings, the threads and the stream have their types. *)
THEOREM TypeCorrect == Spec => []TypeOK
<1>1. IInv => TypeOK
  BY DEF IInv
<1> QED
  BY <1>1, Invariance, PTL

(* However many threads log, and whatever they change meanwhile, a line is *)
(* written by one of them from its first piece to its last.                *)
THEOREM LinesComeOutWhole == Spec => []LinesWhole
<1>1. IInv => LinesWhole
  BY DEF IInv
<1> QED
  BY <1>1, Invariance, PTL

(* A macro prints a line only if level and type asked for it at some       *)
(* moment of the call and its category did at some moment, and drops it    *)
(* only if at some moment it was not wanted: whoever changes the settings  *)
(* between its three holds of the mutex, and however often.                *)
THEOREM MacrosObey == Spec => SettingsObeyed
<1> DEFINE Obeying == \A t \in Threads : pc[t] # "idle" => Obeys(t)
<1>1. ASSUME IInv, [Next]_vars, NEW t \in Threads, pc[t] # "idle", req[t][3] = "macro"
      PROVE  /\ pc'[t] = "print" /\ pc[t] # "print" => {"asked", "category"} \subseteq seen[t]
             /\ pc'[t] = "idle" /\ pc[t] \in {"macro", "category", "direct"} => "unwanted" \in seen[t]
  <2>1. /\ Type(t) \in Types /\ Category(t) \in Categories
        /\ level \in Int /\ Type(t) \in Int
    BY <1>1, Numbers, RequestParts DEF IInv, TypeOK, InCall
  <2>2. /\ pc[t] = "direct" => "asked" \in seen[t] /\ "category" \in seen[t]
        /\ ~ Wanted(level, types, cats, Type(t), Category(t)) => "unwanted" \in seen[t]
    BY <1>1 DEF IInv, Tested, Found, Say, Sayings
  <2>3. pc \in [Threads -> {"idle", "macro", "category", "direct", "print", "write", "threw"}]
    BY <1>1 DEF IInv, TypeOK
  <2>4. CASE pc'[t] = pc[t]
    BY <2>4
  <2>5. CASE TypeTest(t)
    <3>1. level < LevelOf(Type(t)) => ~ Wanted(level, types, cats, Type(t), Category(t))
      BY <2>1, Numbers DEF Wanted, Asked
    <3>2. types[Type(t)] = "off" => ~ Wanted(level, types, cats, Type(t), Category(t))
      BY DEF Wanted, Asked
    <3> QED
      BY <2>2, <2>3, <2>5, <3>1, <3>2 DEF TypeTest, Ends, Goes
  <2>6. CASE CategoryTest(t)
    BY <2>2, <2>3, <2>6 DEF CategoryTest, Ends, Goes, Wanted
  <2>7. CASE Filter(t)
    <3>1. ~ ShouldLog(Type(t), Category(t)) => ~ Wanted(level, types, cats, Type(t), Category(t))
      BY <2>1 DEF ShouldLog, Wanted, Asked, LevelOf
    <3> QED
      BY <2>2, <2>3, <2>7, <3>1 DEF Filter, Ends, Goes
  <2>8. CASE Lock(t) \/ Write(t) \/ EndLine(t) \/ Catch(t)
    BY <2>3, <2>8 DEF Lock, Write, EndLine, Catch, Ends, Goes
  <2>9. pc'[t] # pc[t] => Step(t)
    <3>1. ASSUME NEW u \in Threads, u # t, Step(u) PROVE pc'[t] = pc[t]
      BY <2>3, <3>1 DEF Step, Call, TypeTest, CategoryTest, Filter, Lock, Write, EndLine, Catch, Ends, Goes
    <3>2. Configure => pc' = pc
      BY DEF Configure, SetLogLevel, ToggleLogType, EnableLogType, EnableCategory, SetAllLogTypes,
             SetAllCategories, ResetToDefaults, Change
    <3> QED
      BY <1>1, <3>1, <3>2 DEF Next, vars
  <2>10. \A ty \in Types, c \in Categories : ~ Call(t, ty, c)
    BY <1>1 DEF Call
  <2> QED
    BY <2>4, <2>5, <2>6, <2>7, <2>8, <2>9, <2>10 DEF Step
<1>2. IInv /\ [Next]_vars => [Obeying]_vars
  BY <1>1 DEF Obeys
<1>3. SettingsObeyed <=> [][Obeying]_vars
  BY DEF SettingsObeyed
<1> HIDE DEF Obeying
<1> QED
  BY <1>2, <1>3, Invariance, PTL DEF Spec
=============================================================================
