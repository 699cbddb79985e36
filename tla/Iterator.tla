------------------------------ MODULE Iterator ------------------------------
(***************************************************************************)
(* The iterator thread (CIteratorThread) that simulates the probability to *)
(* win, the heartbeat thread that restarts the simulation in my turn       *)
(* (CSymbolEnginePrwin, CSymbolEngineAutoplayer), and the GUI thread that  *)
(* stops both at the end of the program (StopThreads).  Nothing of what    *)
(* the threads share is protected by a lock.                               *)
(*                                                                         *)
(* The cards are reduced to the number of the turn they belong to, the     *)
(* counters _win, _tie and _los to the number of simulations with the      *)
(* cards of each turn that they contain.                                   *)
(***************************************************************************)
EXTENDS Integers

CONSTANTS MaxTurns,      \* bound on the turns
          Iterations,    \* values of f$prwin_number_of_iterations
          Interval,      \* simulations between two looks at the stop event
          MaxRecalcs     \* bound on the calls of cmd$recalc by a DLL

NoCards == 0
Cards   == NoCards .. MaxTurns
NoResult == [c \in Cards |-> 0]

ASSUME ConstantsAssumption ==
  /\ MaxTurns \in Nat /\ MaxRecalcs \in Nat
  /\ Iterations \subseteq Nat
  /\ Interval \in Nat \ {0}

VARIABLES
  turn,          \* the turn whose cards are on the table
  buttons,       \* does the last scrape show the buttons of my turn?
  gap,           \* history: did the scrape before this turn show none?
  myturnbits, last_myturnbits,  \* of CSymbolEngineAutoplayer: are there any?
  recalcs,
  heartbeat,     \* pc of the heartbeat thread
  required, calculated,         \* _iterations_required, _iterations_calculated
  cards,         \* the turn of _plCards and _comCards
  counted,       \* _win + _tie + _los
  prwin,         \* the counters that _prwin, _prtie and _prlos are taken from
  iterator,      \* pc of the iterator thread
  drawn,         \* the cards of the simulation in progress
  old_counted, old_calculated,  \* what an increment has read
  overlap,       \* history: did the restart run beside a computation?
  gui,           \* pc of the GUI thread, as far as it stops the program
  stop_thread, wait_thread      \* the events

table  == <<turn, buttons, gap>>
bits   == <<myturnbits, last_myturnbits>>
shared == <<required, calculated, cards, counted, prwin>>
registers == <<old_counted, old_calculated>>
thread == <<iterator, drawn, registers>>
exit   == <<gui, stop_thread, wait_thread>>
vars   == <<table, bits, recalcs, heartbeat, shared, thread, overlap, exit>>

Restarting == {"iterations", "clear", "cards", "reset"}
Computing  == {"loop", "simulated", "count", "display", "advance", "finish"}

TypeOK ==
  /\ turn \in Cards /\ buttons \in BOOLEAN /\ gap \in BOOLEAN
  /\ myturnbits \in BOOLEAN /\ last_myturnbits \in BOOLEAN
  /\ recalcs \in 0 .. MaxRecalcs
  /\ heartbeat \in {"scrape", "bits", "dll", "ended"} \cup Restarting
  /\ required \in Iterations \cup {0} /\ calculated \in Nat
  /\ cards \in Cards
  /\ counted \in [Cards -> Nat] /\ prwin \in [Cards -> Nat]
  /\ iterator \in {"check", "asleep", "ended"} \cup Computing
  /\ drawn \in Cards
  /\ old_counted \in [Cards -> Nat] /\ old_calculated \in Nat
  /\ overlap \in BOOLEAN
  /\ gui \in {"running", "heartbeat", "iterator", "freed", "deleted"}
  /\ stop_thread \in BOOLEAN /\ wait_thread \in BOOLEAN

Init ==
  /\ turn = 0 /\ buttons = FALSE /\ gap = TRUE
  /\ myturnbits = FALSE /\ last_myturnbits = FALSE
  /\ recalcs = 0
  /\ heartbeat = "scrape"
  /\ required = 0 /\ calculated = 0 /\ cards = NoCards
  /\ counted = NoResult /\ prwin = NoResult
  /\ iterator = "check" /\ drawn = NoCards
  /\ old_counted = NoResult /\ old_calculated = 0
  /\ overlap = FALSE
  /\ gui = "running" /\ stop_thread = FALSE /\ wait_thread = FALSE

IteratorThreadComplete == calculated >= required

-----------------------------------------------------------------------------
(* The heartbeat thread                                                    *)

\* It is my turn still, or again, or the turn is over; the next turn may follow
\* so soon that no scrape shows a table without buttons.
TableMovesOn ==
  \/ UNCHANGED table
  \/ /\ buttons
     /\ buttons' = FALSE /\ gap' = TRUE
     /\ UNCHANGED turn
  \/ /\ turn < MaxTurns
     /\ turn' = turn + 1
     /\ buttons' = TRUE /\ gap' = ~buttons

\* Mutant: the restart is bound to the first heartbeat that sees the buttons
\* while the bits of the last heartbeat have been the same.
ScrapeForgettingTheTurn ==
  /\ heartbeat = "scrape"
  /\ gui = "running"
  /\ TableMovesOn
  /\ heartbeat' = IF buttons' /\ ~myturnbits /\ last_myturnbits THEN "iterations" ELSE "bits"
  /\ overlap' = IF heartbeat' = "iterations" THEN iterator \in Computing ELSE overlap
  /\ UNCHANGED <<bits, recalcs, shared, thread, exit>>

\* ResetOnMyTurn, in which IsFirstHeartbeatOfMyTurn still looks at the bits of the
\* last heartbeat: the restart belongs to the second heartbeat of a turn.
Scrape ==
  /\ heartbeat = "scrape"
  /\ gui = "running"
  /\ TableMovesOn
  /\ heartbeat' = IF buttons' /\ myturnbits /\ ~last_myturnbits THEN "iterations"
                                                             ELSE "bits"
  /\ overlap' = IF heartbeat' = "iterations" THEN iterator \in Computing ELSE overlap
  /\ UNCHANGED <<bits, recalcs, shared, thread, exit>>

\* RestartPrWinComputations, step by step.
Overlaps == overlap' = (overlap \/ iterator \in Computing)

InitNumberOfIterations ==
  /\ heartbeat = "iterations" /\ heartbeat' = "clear"
  /\ required' \in Iterations
  /\ Overlaps
  /\ UNCHANGED <<table, bits, recalcs, calculated, cards, counted, prwin, thread, exit>>

\* Mutant: the counters of the last computation are kept.
ClearCardsOnly ==
  /\ heartbeat = "clear" /\ heartbeat' = "cards"
  /\ cards' = NoCards
  /\ Overlaps
  /\ UNCHANGED <<table, bits, recalcs, required, calculated, counted, prwin, thread, exit>>

ClearCardsAndCounters ==
  /\ heartbeat = "clear" /\ heartbeat' = "cards"
  /\ cards' = NoCards /\ counted' = NoResult
  /\ Overlaps
  /\ UNCHANGED <<table, bits, recalcs, required, calculated, prwin, thread, exit>>

SetCards ==
  /\ heartbeat = "cards" /\ heartbeat' = "reset"
  /\ cards' = turn
  /\ Overlaps
  /\ UNCHANGED <<table, bits, recalcs, required, calculated, counted, prwin, thread, exit>>

\* Mutant: the number of iterations is reset to kUndefined.
ResetToUndefined ==
  /\ heartbeat = "reset" /\ heartbeat' = "bits"
  /\ calculated' = -1 /\ prwin' = NoResult
  /\ Overlaps
  /\ UNCHANGED <<table, bits, recalcs, required, cards, counted, thread, exit>>

\* Mutant: the probabilities stay until there are new ones.
ResetIterationsOnly ==
  /\ heartbeat = "reset" /\ heartbeat' = "bits"
  /\ calculated' = 0
  /\ Overlaps
  /\ UNCHANGED <<table, bits, recalcs, required, cards, counted, prwin, thread, exit>>

\* Only now is a finished computation no longer complete.
ResetIteratorVars ==
  /\ heartbeat = "reset" /\ heartbeat' = "bits"
  /\ calculated' = 0 /\ prwin' = NoResult
  /\ Overlaps
  /\ UNCHANGED <<table, bits, recalcs, required, cards, counted, thread, exit>>

\* ResetOnHeartbeat of CSymbolEngineAutoplayer.
CalculateMyTurnBits ==
  /\ heartbeat = "bits" /\ heartbeat' = "dll"
  /\ last_myturnbits' = myturnbits
  /\ myturnbits' = buttons
  /\ UNCHANGED <<table, recalcs, shared, thread, overlap, exit>>

\* A DLL may ask for a restart, whatever the iterator thread does.
QueryDll ==
  /\ heartbeat = "dll"
  /\ \/ heartbeat' = "scrape" /\ UNCHANGED <<recalcs, overlap>>
     \/ /\ recalcs < MaxRecalcs
        /\ recalcs' = recalcs + 1
        /\ heartbeat' = "iterations" /\ overlap' = (iterator \in Computing)
  /\ UNCHANGED <<table, bits, shared, thread, exit>>

-----------------------------------------------------------------------------
(* The iterator thread                                                     *)

\* The handle of the event is closed when the object has been deleted, and then
\* the wait fails at once.
StopSignalled == stop_thread /\ gui # "freed"

End == iterator' = "ended" /\ wait_thread' = TRUE

\* Mutant: only the end of a computation sets the event.
CheckStopSilently ==
  /\ iterator = "check"
  /\ iterator' = IF StopSignalled THEN "ended" ELSE "asleep"
  /\ UNCHANGED <<table, bits, recalcs, heartbeat, shared, drawn, registers, overlap, exit>>

CheckStop ==
  /\ iterator = "check"
  /\ IF StopSignalled THEN End ELSE iterator' = "asleep" /\ UNCHANGED wait_thread
  /\ UNCHANGED <<table, bits, recalcs, heartbeat, shared, drawn, registers, overlap, gui,
                 stop_thread>>

\* Sleep(500), and nothing to do without a turn or an open computation.
Wake ==
  /\ iterator = "asleep"
  /\ IF ~myturnbits \/ IteratorThreadComplete
     THEN iterator' = "check" /\ UNCHANGED <<calculated, overlap>>
     ELSE /\ iterator' = "loop" /\ calculated' = 0
          /\ overlap' = (overlap \/ heartbeat \in Restarting)
  /\ UNCHANGED <<table, bits, recalcs, heartbeat, required, cards, counted, prwin, drawn,
                 registers, exit>>

Simulate ==
  /\ iterator = "loop"
  /\ \/ /\ IteratorThreadComplete
        /\ iterator' = "finish" /\ UNCHANGED <<drawn, wait_thread>>
     \/ /\ ~IteratorThreadComplete
        /\ calculated > 0 /\ calculated % Interval = 0 /\ StopSignalled
        /\ End /\ UNCHANGED drawn
     \/ /\ ~IteratorThreadComplete
        /\ ~(calculated > 0 /\ calculated % Interval = 0 /\ StopSignalled)
        /\ iterator' = "simulated" /\ drawn' = cards
        /\ UNCHANGED wait_thread
  /\ UNCHANGED <<table, bits, recalcs, heartbeat, shared, registers, overlap, gui,
                 stop_thread>>

\* An increment reads and writes: what the heartbeat writes between is lost.
ReadCounter ==
  /\ iterator = "simulated" /\ iterator' = "count"
  /\ old_counted' = counted
  /\ UNCHANGED <<table, bits, recalcs, heartbeat, shared, drawn, old_calculated,
                 overlap, exit>>

WriteCounter ==
  /\ iterator = "count" /\ iterator' = "display"
  /\ counted' = [old_counted EXCEPT ![drawn] = @ + 1]
  /\ drawn' = NoCards /\ old_counted' = NoResult
  /\ UNCHANGED <<table, bits, recalcs, heartbeat, required, calculated, cards, prwin,
                 old_calculated, overlap, exit>>

UpdateIteratorVarsForDisplay ==
  prwin' = IF \/ IteratorThreadComplete
              \/ calculated >= Interval /\ calculated % Interval = 0
           THEN counted ELSE prwin

ReadCalculated ==
  /\ iterator = "display" /\ iterator' = "advance"
  /\ UpdateIteratorVarsForDisplay
  /\ old_calculated' = calculated
  /\ UNCHANGED <<table, bits, recalcs, heartbeat, required, calculated, cards, counted,
                 drawn, old_counted, overlap, exit>>

WriteCalculated ==
  /\ iterator = "advance" /\ iterator' = "loop"
  /\ calculated' = old_calculated + 1
  /\ old_calculated' = 0
  /\ UNCHANGED <<table, bits, recalcs, heartbeat, required, cards, counted, prwin, drawn,
                 old_counted, overlap, exit>>

\* The event that says that the thread has ended is set here, too.
FinishComputation ==
  /\ iterator = "finish" /\ iterator' = "check"
  /\ IF IteratorThreadComplete
     THEN UpdateIteratorVarsForDisplay /\ UNCHANGED calculated
     ELSE prwin' = NoResult /\ calculated' = 0
  /\ wait_thread' = TRUE
  /\ UNCHANGED <<table, bits, recalcs, heartbeat, required, cards, counted, drawn,
                 registers, overlap, gui, stop_thread>>

-----------------------------------------------------------------------------
(* The end of the program                                                  *)

DestroyWindow ==
  /\ gui = "running" /\ gui' = "heartbeat"
  /\ UNCHANGED <<table, bits, recalcs, heartbeat, shared, thread, overlap, stop_thread,
                 wait_thread>>

\* ~CHeartbeatThread waits until the heartbeat is over.
EndHeartbeat ==
  /\ gui = "heartbeat" /\ heartbeat = "scrape"
  /\ heartbeat' = "ended" /\ gui' = "iterator" /\ stop_thread' = TRUE
  /\ UNCHANGED <<table, bits, recalcs, shared, thread, overlap, wait_thread>>

\* ~CIteratorThread waits for the event, which nobody resets; that the wait ends
\* after 60 seconds is left out.
DeleteIterator ==
  /\ gui = "iterator" /\ wait_thread
  /\ gui' = "freed"
  /\ UNCHANGED <<table, bits, recalcs, heartbeat, shared, thread, overlap, stop_thread,
                 wait_thread>>

DeleteAllSingletons ==
  /\ gui = "freed" /\ gui' = "deleted"
  /\ UNCHANGED <<table, bits, recalcs, heartbeat, shared, thread, overlap, stop_thread,
                 wait_thread>>

-----------------------------------------------------------------------------
Heartbeat ==
  \/ Scrape \/ InitNumberOfIterations \/ ClearCardsAndCounters \/ SetCards
  \/ ResetIteratorVars \/ CalculateMyTurnBits \/ QueryDll

IteratorThreadFunction ==
  /\ gui # "deleted"
  /\ \/ CheckStop \/ Wake \/ Simulate \/ ReadCounter \/ WriteCounter
     \/ ReadCalculated \/ WriteCalculated \/ FinishComputation

StopThreads == EndHeartbeat \/ DeleteIterator \/ DeleteAllSingletons

Next == Heartbeat \/ IteratorThreadFunction \/ DestroyWindow \/ StopThreads

Spec == Init /\ [][Next]_vars

\* All threads run on; the user need never end the program.
FairSpec == /\ Spec
            /\ WF_vars(Heartbeat)
            /\ WF_vars(IteratorThreadFunction)
            /\ WF_vars(StopThreads)

-----------------------------------------------------------------------------
(* Properties                                                              *)

\* A restart that no computation overlaps is enough to get the probabilities for
\* the cards of this turn, from all required simulations and from no other one,
\* although the threads share everything without a lock (CIteratorThread.cpp:128).
PureResult ==
  /\ ~overlap
  /\ heartbeat \notin Restarting
  /\ iterator \notin Computing
  /\ IteratorThreadComplete
  => /\ prwin = counted
     /\ counted = [c \in Cards |-> IF c = cards THEN required ELSE 0]

\* The heartbeat may read prwin at any time, when nothing has been simulated, after any
\* interval, or at the end: without such an overlap it never sees a simulation with the
\* cards of an earlier turn, nor more than were asked for (CIteratorThread.cpp:270, 283).
OnlyTheseCardsShown ==
  ~overlap /\ heartbeat \notin Restarting
  => /\ \A c \in Cards \ {cards} : prwin[c] = 0
     /\ prwin[cards] <= required

\* A turn that lasts gets a complete simulation with its own cards, if the table
\* has been seen without buttons before it, even when the computation of the turn
\* before goes on into it (CIteratorThread.cpp:136).
TurnGetsPrwin ==
  \A t \in Cards \ {NoCards} :
    <>[](turn = t /\ buttons /\ gap /\ gui = "running")
      => <>[](cards = t /\ IteratorThreadComplete /\ iterator \notin Computing)

\* The program does end, and not by a timeout: the iterator thread answers the
\* request to stop in every state of its computation (CIteratorThread.cpp:115).
ProgramEnds == gui = "heartbeat" ~> gui = "deleted"
=============================================================================
