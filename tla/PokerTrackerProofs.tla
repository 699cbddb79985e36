------------------------- MODULE PokerTrackerProofs -------------------------
(* Theorems about PokerTracker, for any number of chairs, players and      *)
(* statistics.                                                             *)
EXTENDS PokerTracker, TLAPS

\* Who may be named, or have statistics, in chair c.
Own(c) == (InDB \cup {Nobody}) \cap sat[c]

\* The history of a chair: it begins with nobody, and its present player is in it.
History == \A c \in Chair : Nobody \in sat[c] /\ captured[c] \in sat[c]

\* While a statistic is queried the loop has not passed the last one, and the query
\* is about a player of this chair, known to the data base or still to be found.
Querying ==
  /\ pc \in {"ask", "query"} => stat \in Stat
  /\ pc = "find" => query \in sat[chair]
  /\ pc = "query" => query \in Own(chair)

\* Nobody else has a name or a statistic.
Known ==
  /\ \A c \in Chair : name[c] \in Own(c)
  /\ \A c \in Chair, i \in Stat : stats[c][i] \in Own(c)

IInv == TypeOK /\ History /\ Querying /\ Known

LEMMA CounterTypes ==
  1 \in Counter /\ UpdateEvery \in Counter /\ Counter \subseteq Nat
BY ConstantsAssumption DEF ConstantsAssumption, Counter

LEMMA StatTypes ==
  1 \in Chair /\ 1 \in 1 .. (NStats + 1) /\ Stat \subseteq 1 .. (NStats + 1)
  /\ Unknown \in [Stat -> Somebody] /\ InDB \subseteq Somebody /\ Nobody \in Somebody
BY ConstantsAssumption DEF ConstantsAssumption, Chair, Stat, Unknown, Somebody

LEMMA InitTypes == Init => IInv
<1> SUFFICES ASSUME Init PROVE IInv
  OBVIOUS
<1>1. seat \in [Chair -> Somebody] /\ name \in [Chair -> Somebody]
      /\ captured \in [Chair -> Somebody]
  BY StatTypes DEF Init
<1>2. skipped \in [Chair -> Counter] /\ stats \in [Chair -> [Stat -> Somebody]]
  BY CounterTypes, StatTypes DEF Init
<1>3. sat \in [Chair -> SUBSET Somebody] /\ History /\ Known
  BY StatTypes DEF Init, History, Known, Own, Unknown
<1>4. events \in 0 .. MaxEvents
  BY ConstantsAssumption DEF Init, ConstantsAssumption
<1> QED
  BY <1>1, <1>2, <1>3, <1>4, CounterTypes, StatTypes DEF Init, IInv, TypeOK, Querying

-----------------------------------------------------------------------------
(* The heartbeat thread                                                    *)

LEMMA ClearTypes ==
  ASSUME IInv, NEW C, Clear(C), UNCHANGED sat
  PROVE  /\ name' \in [Chair -> Somebody]
         /\ skipped' \in [Chair -> Counter]
         /\ stats' \in [Chair -> [Stat -> Somebody]]
         /\ Known'
<1>1. name' \in [Chair -> Somebody] /\ \A c \in Chair : name'[c] \in Own(c)'
  BY StatTypes DEF Clear, IInv, TypeOK, History, Known, Own
<1>2. skipped' \in [Chair -> Counter]
  BY CounterTypes DEF Clear, IInv, TypeOK
<1>3. stats' \in [Chair -> [Stat -> Somebody]]
  BY StatTypes DEF Clear, IInv, TypeOK
<1>4. \A c \in Chair, i \in Stat : stats'[c][i] \in Own(c)'
  BY DEF Clear, IInv, History, Known, Own, Unknown
<1> QED
  BY <1>1, <1>2, <1>3, <1>4 DEF Known

LEMMA LookUpTypes ==
  ASSUME IInv, LookUp \/ UNCHANGED <<data, checked>>, UNCHANGED sat
  PROVE  /\ name' \in [Chair -> Somebody]
         /\ skipped' \in [Chair -> Counter]
         /\ stats' \in [Chair -> [Stat -> Somebody]]
         /\ checked' \in BOOLEAN
         /\ Known'
<1>1. CASE LookUp
  <2>1. Clear({c \in Chair : ~checked /\ CheckIfNameHasChanged(c)}) /\ checked' = TRUE
    BY <1>1 DEF LookUp
  <2> QED
    BY <2>1, ClearTypes
<1>2. CASE UNCHANGED <<data, checked>>
  BY <1>2 DEF data, IInv, TypeOK, Known, Own
<1> QED
  BY <1>1, <1>2

LEMMA HeartbeatTypes ==
  ASSUME IInv, Heartbeat
  PROVE  IInv'
<1> USE DEF data, database, sweep
<1>1. CASE Scrape
  <2>1. seat' \in [Chair -> Somebody] /\ events' \in 0 .. MaxEvents
    BY <1>1, ConstantsAssumption DEF Scrape, IInv, TypeOK, ConstantsAssumption
  <2> QED
    BY <1>1, <2>1 DEF Scrape, IInv, TypeOK, History, Querying, Known, Own
<1>2. CASE EvaluateAll
  <2>1. (LookUp \/ UNCHANGED <<data, checked>>) /\ UNCHANGED sat
    BY <1>2 DEF EvaluateAll
  <2> QED
    BY <1>2, <2>1, LookUpTypes DEF EvaluateAll, IInv, TypeOK, History, Querying, Own
<1>3. CASE CaptureState
  <2>1. sat' \in [Chair -> SUBSET Somebody]
    BY <1>3 DEF CaptureState, IInv, TypeOK
  <2>2. History' /\ \A c \in Chair : sat[c] \subseteq sat'[c]
    BY <1>3 DEF CaptureState, IInv, TypeOK, History
  <2>3. Querying' /\ Known'
    BY <1>3, <2>2 DEF CaptureState, IInv, TypeOK, Querying, Known, Own
  <2> QED
    BY <1>3, <2>1, <2>2, <2>3 DEF CaptureState, IInv, TypeOK
<1>4. CASE DoAutoplayer
  <2>1. (LookUp \/ UNCHANGED <<data, checked>>) /\ UNCHANGED sat
    BY <1>4 DEF DoAutoplayer
  <2> QED
    BY <1>4, <2>1, LookUpTypes DEF DoAutoplayer, IInv, TypeOK, History, Querying, Own
<1>5. CASE ClearAllStats
  <2>1. Clear(Chair) /\ UNCHANGED sat
    BY <1>5 DEF ClearAllStats
  <2>2. events' \in 0 .. MaxEvents
    BY <1>5, ConstantsAssumption DEF ClearAllStats, IInv, TypeOK, ConstantsAssumption
  <2> QED
    BY <1>5, <2>1, <2>2, ClearTypes DEF ClearAllStats, IInv, TypeOK, History, Querying, Own
<1> QED
  BY <1>1, <1>2, <1>3, <1>4, <1>5 DEF Heartbeat

-----------------------------------------------------------------------------
(* The PokerTracker thread                                                 *)

LEMMA NextChairTypes ==
  ASSUME chair \in Chair, NextChair
  PROVE  chair' \in Chair /\ pc' \in {"name", "top"}
BY ConstantsAssumption DEF NextChair, Chair, ConstantsAssumption

LEMMA ThreadTypes ==
  ASSUME IInv, PokertrackerThreadFunction
  PROVE  IInv'
<1> USE DEF lookups, data, database, sweep
<1>0. chair \in Chair
  BY DEF IInv, TypeOK
<1>1. CASE Connect
  BY <1>1 DEF Connect, IInv, TypeOK, History, Querying, Known, Own
<1>2. CASE BeginSweep
  BY <1>2, StatTypes DEF BeginSweep, IInv, TypeOK, History, Querying, Known, Own
<1>3. CASE CheckIfNameExistsInDB
  <2>1. chair' \in Chair /\ pc' \in {"name", "top", "skip", "find"} /\ query' \in Somebody
    BY <1>0, <1>3, NextChairTypes DEF CheckIfNameExistsInDB, IInv, TypeOK
  <2>2. pc' = "find" => query' \in sat[chair] /\ chair' = chair
    BY <1>0, <1>3, NextChairTypes DEF CheckIfNameExistsInDB, IInv, History
  <2> QED
    BY <1>3, <2>1, <2>2 DEF CheckIfNameExistsInDB, IInv, TypeOK, History, Querying, Known, Own
<1>4. CASE FindName
  <2>1. chair' \in Chair /\ pc' \in {"name", "top", "skip"} /\ query' \in Somebody
    BY <1>0, <1>4, NextChairTypes, StatTypes DEF FindName
  <2>2. name' \in [Chair -> Somebody] /\ \A c \in Chair : name'[c] \in Own(c)
    BY <1>0, <1>4, StatTypes DEF FindName, IInv, TypeOK, History, Querying, Known, Own
  <2> QED
    BY <1>4, <2>1, <2>2 DEF FindName, IInv, TypeOK, History, Querying, Known, Own
<1>5. CASE SkipUpdateForChair
  BY <1>5, StatTypes DEF SkipUpdateForChair, IInv, TypeOK, History, Querying, Known, Own
<1>6. CASE GetStat
  <2>1. stat \in 1 .. (NStats + 1) /\ NStats \in Nat
    BY ConstantsAssumption DEF IInv, TypeOK, ConstantsAssumption
  <2>2. CASE stat > NStats /\ pc' = "recalc" /\ UNCHANGED <<chair, stat>>
    BY <1>6, <2>2 DEF GetStat, IInv, TypeOK, History, Querying, Known, Own
  <2>3. CASE NextChair /\ UNCHANGED stat
    BY <1>0, <1>6, <2>3, NextChairTypes DEF GetStat, IInv, TypeOK, History, Querying, Known, Own
  <2>4. CASE stat <= NStats /\ pc' = "ask" /\ UNCHANGED <<stat, chair>>
    <3>1. stat' \in Stat
      BY <2>1, <2>4 DEF Stat
    <3> QED
      BY <1>6, <2>4, <3>1 DEF GetStat, IInv, TypeOK, History, Querying, Known, Own
  <2>5. CASE stat <= NStats /\ stat' = stat + 1 /\ UNCHANGED <<pc, chair>>
    <3>1. stat' \in 1 .. (NStats + 1) /\ pc' = "stat"
      BY <1>6, <2>1, <2>5 DEF GetStat
    <3> QED
      BY <1>6, <2>5, <3>1 DEF GetStat, IInv, TypeOK, History, Querying, Known, Own
  <2> QED
    BY <1>6, <2>2, <2>3, <2>4, <2>5 DEF GetStat
<1>7. CASE UpdateStat
  <2>1. stat \in Stat /\ query \in Own(chair)
    BY <1>7 DEF UpdateStat, IInv, Querying
  <2>2. stat' \in 1 .. (NStats + 1)
    BY <1>7, <2>1, ConstantsAssumption DEF UpdateStat, Stat, ConstantsAssumption
  <2>3. stats' \in [Chair -> [Stat -> Somebody]]
    BY <1>7, <2>1, StatTypes DEF UpdateStat, IInv, TypeOK, Own
  <2>4. \A c \in Chair, i \in Stat : stats'[c][i] \in Own(c)
    BY <1>7, <2>1 DEF UpdateStat, IInv, TypeOK, Known
  <2> QED
    BY <1>7, <2>2, <2>3, <2>4, StatTypes DEF UpdateStat, IInv, TypeOK, History, Querying, Known, Own
<1>8. CASE CompareSkippedUpdates
  <2>1. chair' \in Chair /\ pc' \in {"name", "top", "increment"} /\ loaded' \in Counter
        /\ skipped' \in [Chair -> Counter]
    BY <1>0, <1>8, NextChairTypes, CounterTypes DEF CompareSkippedUpdates, IInv, TypeOK
  <2> QED
    BY <1>8, <2>1 DEF CompareSkippedUpdates, IInv, TypeOK, History, Querying, Known, Own
<1>9. CASE IncrementSkippedUpdates
  <2>1. chair' \in Chair /\ pc' \in {"name", "top"} /\ loaded' \in Counter
    BY <1>0, <1>9, NextChairTypes, CounterTypes DEF IncrementSkippedUpdates
  <2>2. skipped' \in [Chair -> Counter]
    BY <1>0, <1>9 DEF IncrementSkippedUpdates, IInv, TypeOK
  <2> QED
    BY <1>9, <2>1, <2>2 DEF IncrementSkippedUpdates, IInv, TypeOK, History, Querying, Known, Own
<1>10. CASE GetQuery
  <2>1. stat \in Stat
    BY <1>10 DEF GetQuery, IInv, Querying
  <2>2. stat' \in 1 .. (NStats + 1) /\ (pc' = "query" => stat' \in Stat)
    BY <1>10, <2>1, ConstantsAssumption DEF GetQuery, Stat, ConstantsAssumption
  <2>3. query' \in Somebody /\ (pc' = "query" => query' \in Own(chair))
    BY <1>0, <1>10 DEF GetQuery, IInv, TypeOK, Known
  <2>4. pc' \in {"stat", "query"}
    BY <1>10 DEF GetQuery
  <2> QED
    BY <1>10, <2>2, <2>3, <2>4 DEF GetQuery, IInv, TypeOK, History, Querying, Known, Own
<1> QED
  BY <1>1, <1>2, <1>3, <1>4, <1>5, <1>6, <1>7, <1>8, <1>9, <1>10
  DEF PokertrackerThreadFunction

LEMMA StepTypes == IInv /\ [Next]_vars => IInv'
<1>1. ASSUME IInv, LoseConnection PROVE IInv'
  BY <1>1 DEF LoseConnection, lookups, data, sweep, IInv, TypeOK, History, Querying, Known, Own
<1>2. ASSUME IInv, UNCHANGED vars PROVE IInv'
  BY <1>2 DEF vars, lookups, data, database, sweep, IInv, TypeOK, History, Querying, Known, Own
<1> QED
  BY <1>1, <1>2, HeartbeatTypes, ThreadTypes DEF Next

LEMMA Inductive == Spec => []IInv
BY InitTypes, StepTypes, PTL DEF Spec

\* Every variable keeps its type; the counter of skipped updates stays between one
\* and the values above its limit, although both threads write it.
THEOREM TypeCorrect == Spec => []TypeOK
<1>1. IInv => TypeOK
  BY DEF IInv
<1> QED
  BY <1>1, Inductive, PTL

\* However the two threads interleave, although the heartbeat may rename and clear a
\* chair between any two steps of a query and the answer is stored whoever sits there
\* by then, a statistic is one of a player in the data base who has sat in this chair
\* (CPokerTrackerThread.cpp:394).
THEOREM StatsStayInTheirChair == Spec => []StatsOfThisChair
<1>1. IInv => StatsOfThisChair
  BY DEF IInv, Known, Own, StatsOfThisChair
<1> QED
  BY <1>1, Inductive, PTL
=============================================================================
