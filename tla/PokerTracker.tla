---------------------------- MODULE PokerTracker ----------------------------
(***************************************************************************)
(* The statistics of the opponents: the PokerTracker thread                *)
(* (CPokerTrackerThread) queries them from a data base, chair by chair and *)
(* statistic by statistic, while the heartbeat thread looks them up        *)
(* (CSymbolEnginePokerTracker) and clears those of players who have left.  *)
(* Both work on the same data without a lock.                              *)
(*                                                                         *)
(* A statistic is reduced to the player it is about, and a query to the    *)
(* name it contains.  The program is connected to a table, and the chairs  *)
(* are those of the opponents.                                             *)
(***************************************************************************)
EXTENDS Integers, FiniteSets

CONSTANTS NChairs,
          Player,
          InDB,         \* those the data base knows
          Regulars,     \* those with more than k_min_hands_for_slower_updates
          NStats,
          Hands,        \* the statistic pt_hands
          Advanced,     \* the positional and advanced statistics
          UpdateEvery,  \* k_advanced_stat_update_every
          MaxEvents,    \* bound on the changes of seats, connections and rush hands
          Nobody        \* no (good) name, no data, kUndefined

Chair == 1 .. NChairs
Stat  == 1 .. NStats
Somebody == Player \cup {Nobody}

ASSUME ConstantsAssumption ==
  /\ NChairs \in Nat \ {0} /\ NStats \in Nat \ {0}
  /\ Nobody \notin Player
  /\ InDB \subseteq Player /\ Regulars \subseteq InDB
  /\ Hands \in Stat /\ Advanced \subseteq Stat \ {Hands}
  /\ UpdateEvery \in Nat \ {0, 1} /\ MaxEvents \in Nat

VARIABLES
  seat,        \* the names that have been scraped
  captured,    \* the names in the last state of p_game_state
  sat,         \* history: the names each chair has ever been captured with
  heartbeat,   \* pc of the heartbeat thread
  events,      \* the number of those changes
  checked,     \* check_for_identity_of_players_executed_this_heartbeat
  name,        \* of _player_data; Nobody: not found
  skipped,     \* ... and skipped_updates
  stats,       \* of the DLL with the queries
  connected,   \* _connected
  status,      \* PQstatus(_pgconn) == CONNECTION_OK
  pc,          \* of the PokerTracker thread
  chair, stat, \* its loops
  query,       \* the name in the query that is being executed
  loaded       \* skipped_updates, as it was when it was compared

lookups  == <<seat, captured, sat, heartbeat, events, checked>>
data     == <<name, skipped, stats>>
database == <<connected, status>>
sweep    == <<chair, stat, query, loaded>>
vars     == <<lookups, data, database, pc, sweep>>

\* All values greater than UpdateEvery are alike.
Counter == 1 .. (UpdateEvery + 1)

TypeOK ==
  /\ seat \in [Chair -> Somebody] /\ captured \in [Chair -> Somebody]
  /\ sat \in [Chair -> SUBSET Somebody]
  /\ heartbeat \in {"scrape", "evaluate", "capture", "act"}
  /\ checked \in BOOLEAN /\ events \in 0 .. MaxEvents
  /\ name \in [Chair -> Somebody]
  /\ skipped \in [Chair -> Counter]
  /\ stats \in [Chair -> [Stat -> Somebody]]
  /\ connected \in BOOLEAN /\ status \in BOOLEAN
  /\ pc \in {"top", "name", "find", "skip", "stat", "ask", "query", "recalc", "increment"}
  /\ chair \in Chair
  /\ stat \in 1 .. (NStats + 1)
  /\ query \in Somebody
  /\ loaded \in Counter

Unknown == [i \in Stat |-> Nobody]

Init ==
  /\ seat = [c \in Chair |-> Nobody] /\ captured = seat
  /\ sat = [c \in Chair |-> {Nobody}]
  /\ heartbeat = "scrape" /\ checked = FALSE /\ events = 0
  /\ name = [c \in Chair |-> Nobody]
  /\ skipped = [c \in Chair |-> UpdateEvery]
  /\ stats = [c \in Chair |-> Unknown]
  /\ connected = FALSE /\ status = FALSE
  /\ pc = "top" /\ chair = 1 /\ stat = 1 /\ query = Nobody /\ loaded = 1

-----------------------------------------------------------------------------
(* The heartbeat thread                                                    *)

\* Players come and go, and a name may be hidden for a while.
Scrape ==
  /\ heartbeat = "scrape" /\ heartbeat' = "evaluate"
  /\ \/ UNCHANGED <<seat, events>>
     \/ /\ events < MaxEvents /\ events' = events + 1
        /\ \E c \in Chair, p \in Somebody : seat' = [seat EXCEPT ![c] = p]
  /\ checked' = FALSE
  /\ UNCHANGED <<captured, sat, data, database, pc, sweep>>

CheckIfNameHasChanged(c) == captured[c] # Nobody /\ name[c] # captured[c]

\* ClearSeatStats of the chairs in C.
Clear(C) ==
  /\ name'    = [c \in Chair |-> IF c \in C THEN Nobody ELSE name[c]]
  /\ skipped' = [c \in Chair |-> IF c \in C THEN UpdateEvery ELSE skipped[c]]
  /\ stats'   = [c \in Chair |-> IF c \in C THEN Unknown ELSE stats[c]]

\* The first pt_ symbol in a heartbeat clears what is about players who have left.
LookUp ==
  /\ Clear({c \in Chair : ~checked /\ CheckIfNameHasChanged(c)})
  /\ checked' = TRUE

\* The symbol engines may use such symbols before CaptureState, the autoplayer
\* after it, both or none of them.
EvaluateAll ==
  /\ heartbeat = "evaluate" /\ heartbeat' = "capture"
  /\ LookUp \/ UNCHANGED <<data, checked>>
  /\ UNCHANGED <<seat, captured, sat, events, database, pc, sweep>>

CaptureState ==
  /\ heartbeat = "capture" /\ heartbeat' = "act"
  /\ captured' = seat
  /\ sat' = [c \in Chair |-> sat[c] \cup {seat[c]}]
  /\ UNCHANGED <<seat, events, checked, data, database, pc, sweep>>

DoAutoplayer ==
  /\ heartbeat = "act" /\ heartbeat' = "scrape"
  /\ LookUp \/ UNCHANGED <<data, checked>>
  /\ UNCHANGED <<seat, captured, sat, events, database, pc, sweep>>

\* A new connection to a table, or a hand at a rush table.
ClearAllStats ==
  /\ heartbeat = "evaluate" /\ events < MaxEvents
  /\ Clear(Chair)
  /\ events' = events + 1
  /\ UNCHANGED <<seat, captured, sat, heartbeat, checked, database, pc, sweep>>

-----------------------------------------------------------------------------
(* The PokerTracker thread                                                 *)

\* Nobody reconnects after the server has closed the connection.
LoseConnection ==
  /\ status /\ status' = FALSE
  /\ UNCHANGED <<lookups, data, connected, pc, sweep>>

\* An iteration of the thread: connect if that has not been done, and then go
\* through the chairs.
Connect ==
  /\ pc = "top" /\ ~connected
  /\ \/ connected' = TRUE /\ status' = TRUE
     \/ UNCHANGED database
  /\ UNCHANGED <<lookups, data, pc, sweep>>

BeginSweep ==
  /\ pc = "top" /\ connected /\ status
  /\ pc' = "name" /\ chair' = 1
  /\ UNCHANGED <<lookups, data, database, stat, query, loaded>>

NextChair ==
  IF chair < NChairs THEN chair' = chair + 1 /\ pc' = "name"
                     ELSE chair' = 1 /\ pc' = "top"

CheckIfNameExistsInDB ==
  /\ pc = "name"
  /\ \/ captured[chair] = Nobody /\ NextChair /\ UNCHANGED query
     \/ /\ captured[chair] # Nobody /\ name[chair] = captured[chair]
        /\ pc' = "skip" /\ UNCHANGED <<chair, query>>
     \/ /\ CheckIfNameHasChanged(chair)
        /\ query' = captured[chair] /\ pc' = "find" /\ UNCHANGED chair
  /\ UNCHANGED <<lookups, data, database, stat, loaded>>

\* SetPlayerName takes the new name, or none, and leaves the statistics alone.
FindName ==
  /\ pc = "find" /\ query' = Nobody
  /\ \/ /\ query \in InDB /\ status
        /\ name' = [name EXCEPT ![chair] = query]
        /\ pc' = "skip" /\ UNCHANGED chair
     \/ /\ ~(query \in InDB /\ status)
        /\ name' = [name EXCEPT ![chair] = Nobody]
        /\ NextChair
  /\ UNCHANGED <<lookups, skipped, stats, database, stat, loaded>>

UpdateAllStats == skipped[chair] = UpdateEvery

\* Players with many hands are updated every UpdateEvery sweeps.
SkipUpdateForChair ==
  /\ pc = "skip"
  /\ pc' = IF stats[chair][Hands] \in Regulars /\ ~UpdateAllStats THEN "recalc" ELSE "stat"
  /\ stat' = 1
  /\ UNCHANGED <<lookups, data, database, chair, query, loaded>>

\* Mutant: only the first sweep is a complete one.
GetStatOnce ==
  /\ pc = "stat"
  /\ \/ stat > NStats /\ pc' = "recalc" /\ UNCHANGED <<chair, stat>>
     \/ /\ stat <= NStats
        /\ name[chair] = Nobody \/ CheckIfNameHasChanged(chair)
        /\ NextChair /\ UNCHANGED stat
     \/ /\ stat <= NStats
        /\ ~(name[chair] = Nobody \/ CheckIfNameHasChanged(chair))
        /\ IF stats[chair][stat] = Nobody THEN pc' = "ask" /\ UNCHANGED stat
                                         ELSE stat' = stat + 1 /\ UNCHANGED pc
        /\ UNCHANGED chair
  /\ UNCHANGED <<lookups, data, database, query, loaded>>

GetStat ==
  /\ pc = "stat"
  /\ \/ stat > NStats /\ pc' = "recalc" /\ UNCHANGED <<chair, stat>>
     \/ /\ stat <= NStats
        /\ name[chair] = Nobody \/ CheckIfNameHasChanged(chair)
        /\ NextChair /\ UNCHANGED stat
     \/ /\ stat <= NStats
        /\ ~(name[chair] = Nobody \/ CheckIfNameHasChanged(chair))
        /\ IF stat \in Advanced => UpdateAllStats
           THEN pc' = "ask" /\ UNCHANGED stat
           ELSE stat' = stat + 1 /\ UNCHANGED pc
        /\ UNCHANGED chair
  /\ UNCHANGED <<lookups, data, database, query, loaded>>

\* The name for the query is read after it has been compared: nobody's, if the
\* heartbeat has cleared the chair in between.
GetQuery ==
  /\ pc = "ask"
  /\ IF status THEN query' = name[chair] /\ pc' = "query" /\ UNCHANGED stat
               ELSE stat' = stat + 1 /\ pc' = "stat" /\ UNCHANGED query
  /\ UNCHANGED <<lookups, data, database, chair, loaded>>

\* Mutant: off by one chair.
UpdateStatOfNextChair ==
  /\ pc = "query" /\ pc' = "stat"
  /\ stats' = IF status THEN [stats EXCEPT ![(chair % NChairs) + 1][stat] = query] ELSE stats
  /\ query' = Nobody /\ stat' = stat + 1
  /\ UNCHANGED <<lookups, name, skipped, database, chair, loaded>>

\* The answer is stored in the chair, whoever sits there now.
UpdateStat ==
  /\ pc = "query" /\ pc' = "stat"
  /\ stats' = IF status THEN [stats EXCEPT ![chair][stat] = query] ELSE stats
  /\ query' = Nobody /\ stat' = stat + 1
  /\ UNCHANGED <<lookups, name, skipped, database, chair, loaded>>

\* Mutant: the counter starts again with zero.
CompareResettingToZero ==
  /\ pc = "recalc"
  /\ IF UpdateAllStats
     THEN skipped' = [skipped EXCEPT ![chair] = 0] /\ NextChair /\ UNCHANGED loaded
     ELSE pc' = "increment" /\ loaded' = skipped[chair] /\ UNCHANGED <<skipped, chair>>
  /\ UNCHANGED <<lookups, name, stats, database, stat, query>>

\* RecalcSkippedUpdates compares the counter, ...
CompareSkippedUpdates ==
  /\ pc = "recalc"
  /\ IF UpdateAllStats
     THEN skipped' = [skipped EXCEPT ![chair] = 1] /\ NextChair /\ UNCHANGED loaded
     ELSE pc' = "increment" /\ loaded' = skipped[chair] /\ UNCHANGED <<skipped, chair>>
  /\ UNCHANGED <<lookups, name, stats, database, stat, query>>

\* ... and increments what it has compared, or reads it again, as the compiler
\* likes.
IncrementSkippedUpdates ==
  /\ pc = "increment"
  /\ \E old \in {loaded, skipped[chair]} :
       skipped' = [skipped EXCEPT ![chair] = IF old + 1 \in Counter THEN old + 1 ELSE old]
  /\ loaded' = 1 /\ NextChair
  /\ UNCHANGED <<lookups, name, stats, database, stat, query>>

-----------------------------------------------------------------------------
PokertrackerThreadFunction ==
  \/ Connect \/ BeginSweep \/ CheckIfNameExistsInDB \/ FindName
  \/ SkipUpdateForChair \/ GetStat \/ GetQuery \/ UpdateStat
  \/ CompareSkippedUpdates \/ IncrementSkippedUpdates

Heartbeat == Scrape \/ EvaluateAll \/ CaptureState \/ DoAutoplayer \/ ClearAllStats

Next == Heartbeat \/ PokertrackerThreadFunction \/ LoseConnection

Spec == Init /\ [][Next]_vars

\* The thread runs on, and the heartbeat may stop anywhere.
FairSpec == Spec /\ WF_vars(PokertrackerThreadFunction)

-----------------------------------------------------------------------------
(* Properties                                                              *)

\* A player who stays gets all statistics, and they are his own: those of players
\* before him in that chair, answers that came too late, and the pauses for
\* players with many hands do not last, as long as the connection does and the
\* counter is not incremented beyond its limit (CPokerTrackerThread.cpp:588).
StatsCatchUp ==
  \A c \in Chair, p \in InDB :
    <>[](captured[c] = p /\ connected /\ status /\ skipped[c] <= UpdateEvery)
      => <>[](\A i \in Stat : stats[c][i] = p)

\* A statistic never gets from one chair to another: it is about a player in the
\* data base who has sat in this chair, however late his answer is stored, and
\* although the heartbeat changes names and clears chairs between any two steps of
\* the thread (CPokerTrackerThread.cpp:394).
StatsOfThisChair ==
  \A c \in Chair, i \in Stat :
    stats[c][i] # Nobody => stats[c][i] \in InDB \cap sat[c]

\* After the first look-up in a heartbeat a chair has no statistics of a player who
\* has left, except for one answer that came too late (CPokerTrackerThread.cpp:691).
StatsOfThePlayer ==
  \A c \in Chair :
    checked /\ name[c] # Nobody /\ name[c] = captured[c]
      => Cardinality({i \in Stat : stats[c][i] \notin {Nobody, name[c]}}) <= 1
=============================================================================
