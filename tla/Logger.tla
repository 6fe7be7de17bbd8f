------------------------------- MODULE Logger -------------------------------
(***************************************************************************)
(* The logger every module of the program writes to (Log, a singleton).    *)
(* Its settings are a level and two maps, one entry per log type and one   *)
(* per category; the instance that getInstance makes starts with both maps *)
(* empty.  One mutex guards the settings and the output stream, and a line *)
(* is logged under four separate holds of it: the macro reads the type and *)
(* the level, then the category, log() reads all three again, and prints.  *)
(* Any thread may change the settings between two of them.                 *)
(***************************************************************************)
EXTENDS Integers, Sequences

CONSTANTS
  Threads,     \* the threads that log
  Nobody,      \* the mutex is free
  Types,       \* log types in use: Error 0, Warning 1, Info 2, Debug 3
  Categories,  \* log categories in use
  MaxLevel     \* LogLevel::Debug; 0 is Off

ASSUME LevelAssumption == MaxLevel \in Nat /\ Types \subseteq 0 .. MaxLevel - 1
ASSUME ThreadAssumption == Nobody \notin Threads

VARIABLES
  level,    \* m_logLevel
  types,    \* m_enabledLogTypes
  cats,     \* m_enabledCategories
  holder,   \* the thread that holds m_mutex
  line,     \* the pieces written to the stream since the last end of line
  pc,       \* where each thread is in its call
  req,      \* the type and category it logs, and whether a macro does
  seen      \* history: what the settings have said of each thread's line since
            \* its call began

vars == <<level, types, cats, holder, line, pc, req, seen>>
settings == <<level, types, cats>>

Entry == {"absent", "on", "off"}
Levels == 0 .. MaxLevel

\* getInstance: the constructor it uses fills neither map.
Init ==
  /\ level = MaxLevel
  /\ types = [ty \in Types |-> "absent"]
  /\ cats = [c \in Categories |-> "absent"]
  /\ holder = Nobody /\ line = <<>>
  /\ pc = [t \in Threads |-> "idle"]
  /\ req = [t \in Threads |-> <<>>]
  /\ seen = [t \in Threads |-> {}]

Free == holder = Nobody
Flag(enable) == IF enable THEN "on" ELSE "off"

Type(t) == req[t][1]
Category(t) == req[t][2]

\* The level that a type needs.
LevelOf(ty) == ty + 1

\* What the settings l, tys, cs say of a line: that its level and type are
\* asked for, that its category is, that the line as a whole is not wanted.
Asked(l, tys, ty) == l >= LevelOf(ty) /\ tys[ty] = "on"
Wanted(l, tys, cs, ty, c) == Asked(l, tys, ty) /\ cs[c] = "on"

Sayings == {"asked", "category", "unwanted"}
Say(l, tys, cs, ty, c) ==
  {m \in Sayings : /\ m = "asked" => Asked(l, tys, ty)
                   /\ m = "category" => cs[c] = "on"
                   /\ m = "unwanted" => ~ Wanted(l, tys, cs, ty, c)}

-----------------------------------------------------------------------------
(* Settings.  Each call holds the mutex for all it does.                   *)

Change(l, tys, cs) ==
  /\ Free
  /\ level' = l /\ types' = tys /\ cats' = cs
  /\ seen' = [t \in Threads |-> IF pc[t] = "idle" THEN {}
                ELSE seen[t] \cup Say(l, tys, cs, Type(t), Category(t))]
  /\ UNCHANGED <<holder, line, pc, req>>

SetLogLevel(l) == Change(l, types, cats)

EnableLogType(ty, enable) == Change(level, [types EXCEPT ![ty] = Flag(enable)], cats)

\* A type that has no entry is left without one.
ToggleLogType(ty) ==
  /\ types[ty] # "absent"
  /\ Change(level, [types EXCEPT ![ty] = Flag(types[ty] = "off")], cats)

SetAllLogTypes(enable) == Change(level, [ty \in Types |-> Flag(enable)], cats)

EnableCategory(c, enable) == Change(level, types, [cats EXCEPT ![c] = Flag(enable)])

SetAllCategories(enable) == Change(level, types, [c \in Categories |-> Flag(enable)])

ResetToDefaults ==
  Change(MaxLevel, [ty \in Types |-> "on"], [c \in Categories |-> "on"])

Configure ==
  \/ \E l \in Levels : SetLogLevel(l)
  \/ \E ty \in Types : ToggleLogType(ty) \/ \E enable \in BOOLEAN : EnableLogType(ty, enable)
  \/ \E c \in Categories, enable \in BOOLEAN : EnableCategory(c, enable)
  \/ \E enable \in BOOLEAN : SetAllLogTypes(enable) \/ SetAllCategories(enable)
  \/ ResetToDefaults

-----------------------------------------------------------------------------
(* A line.                                                                 *)

Goes(t, next) == pc' = [pc EXCEPT ![t] = next]
Ends(t) ==
  /\ Goes(t, "idle")
  /\ req' = [req EXCEPT ![t] = <<>>]
  /\ seen' = [seen EXCEPT ![t] = {}]

\* A macro begins with the tests, a direct call of debug() or error() with
\* the filter of log().
Call(t, ty, c) ==
  /\ pc[t] = "idle"
  /\ \E start \in {"macro", "direct"} :
       /\ Goes(t, start)
       /\ req' = [req EXCEPT ![t] = <<ty, c, start>>]
  /\ seen' = [seen EXCEPT ![t] = Say(level, types, cats, ty, c)]
  /\ UNCHANGED <<settings, holder, line>>

FaultyTypeTest(t) ==
  /\ pc[t] = "macro" /\ Free
  /\ IF types[Type(t)] = "on"
     THEN Goes(t, "category") /\ UNCHANGED <<req, seen>>
     ELSE Ends(t)
  /\ UNCHANGED <<settings, holder, line>>

\* isDebugEnabled and its like: at() throws for a type without an entry, but
\* only once the level has been found high enough.
TypeTest(t) ==
  /\ pc[t] = "macro" /\ Free
  /\ IF level < LevelOf(Type(t)) THEN Ends(t)
     ELSE CASE types[Type(t)] = "absent" -> Goes(t, "threw") /\ UNCHANGED <<req, seen>>
            [] types[Type(t)] = "off" -> Ends(t)
            [] OTHER -> Goes(t, "category") /\ UNCHANGED <<req, seen>>
  /\ UNCHANGED <<settings, holder, line>>

\* isCategoryEnabled, the second half of isDebugEnabledForCategory: a category
\* without an entry is disabled.
CategoryTest(t) ==
  /\ pc[t] = "category" /\ Free
  /\ IF cats[Category(t)] = "on"
     THEN Goes(t, "direct") /\ UNCHANGED <<req, seen>>
     ELSE Ends(t)
  /\ UNCHANGED <<settings, holder, line>>

\* The filter of log(): an absent entry counts as enabled here, and the level
\* is compared with the number of the type, which is one less than its level.
ShouldLog(ty, c) == level >= ty /\ types[ty] # "off" /\ cats[c] # "off"

Filter(t) ==
  /\ pc[t] = "direct" /\ Free
  /\ IF ShouldLog(Type(t), Category(t)) THEN Goes(t, "print") /\ UNCHANGED <<req, seen>> ELSE Ends(t)
  /\ UNCHANGED <<settings, holder, line>>

FaultyLock(t) ==
  /\ pc[t] = "print" /\ holder # t
  /\ holder' = t
  /\ Goes(t, "write")
  /\ UNCHANGED <<settings, line, req, seen>>

Lock(t) ==
  /\ pc[t] = "print" /\ Free
  /\ holder' = t
  /\ Goes(t, "write")
  /\ UNCHANGED <<settings, line, req, seen>>

\* The pieces of a line go to the stream one by one; two stand for them all.
Write(t) ==
  /\ pc[t] = "write" /\ Len(line) < 2
  /\ line' = Append(line, t)
  /\ UNCHANGED <<settings, holder, pc, req, seen>>

EndLine(t) ==
  /\ pc[t] = "write" /\ Len(line) = 2
  /\ line' = <<>>
  /\ holder' = Nobody
  /\ Ends(t)
  /\ UNCHANGED settings

\* The exception of at() leaves the macro; its caller goes on elsewhere.
Catch(t) ==
  /\ pc[t] = "threw"
  /\ Ends(t)
  /\ UNCHANGED <<settings, holder, line>>

Step(t) ==
  \/ \E ty \in Types, c \in Categories : Call(t, ty, c)
  \/ TypeTest(t) \/ CategoryTest(t) \/ Filter(t)
  \/ Lock(t) \/ Write(t) \/ EndLine(t) \/ Catch(t)

Next == Configure \/ \E t \in Threads : Step(t)

Spec == Init /\ [][Next]_vars

-----------------------------------------------------------------------------
(* Properties.                                                             *)

Requests == Types \X Categories \X {"macro", "direct"}

\* The settings are in their ranges.
TypeOK ==
  /\ level \in Levels
  /\ types \in [Types -> Entry] /\ cats \in [Categories -> Entry]
  /\ holder \in Threads \cup {Nobody} /\ seen \in [Threads -> SUBSET Sayings]
  /\ line \in Seq(Threads)
  /\ pc \in [Threads -> {"idle", "macro", "category", "direct", "print", "write", "threw"}]
  /\ req \in [Threads -> Requests \cup {<<>>}]

\* Lines come out whole: what stands on the unfinished line was all written by
\* the thread that holds the mutex, and only that thread is writing.
LinesWhole ==
  /\ \A i \in 1 .. Len(line) : line[i] = holder
  /\ \A t \in Threads : pc[t] = "write" <=> holder = t

\* The macros obey the settings, although a call looks at them in three holds
\* of the mutex between which any thread may change them: a line is printed only
\* if at some moment of the call level and type asked for it together, and at
\* some moment its category did; it is dropped only if at some moment of the
\* call it was not wanted. Without a change every moment is the same one. (With
\* one a line may be printed that no single moment asked for as a whole.)
Obeys(t) ==
  req[t][3] = "macro" =>
    /\ pc'[t] = "print" /\ pc[t] # "print" => {"asked", "category"} \subseteq seen[t]
    /\ pc'[t] = "idle" /\ pc[t] \in {"macro", "category", "direct"} => "unwanted" \in seen[t]
SettingsObeyed == [][\A t \in Threads : pc[t] # "idle" => Obeys(t)]_vars

=============================================================================
