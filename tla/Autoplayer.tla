----------------------------- MODULE Autoplayer -----------------------------
(***************************************************************************)
(* The autoplayer: in every heartbeat an instance of OpenHoldem scrapes    *)
(* its table (CHeartbeatThread::ScrapeEvaluateAct), decides if the view is *)
(* stable enough to act on it (CSymbolEngineAutoplayer with the counter    *)
(* of CStableFramesCounter), and runs CAutoplayer::DoAutoplayer: popups,   *)
(* then the secondary formulas (sit in, close, rebuy, ...), then the       *)
(* primary ones (raise, call, fold, ...).  All instances share one mouse   *)
(* and one keyboard, which a system-wide mutex (CMyMutex) protects.        *)
(* Every instance has two threads: a click on a flag of the toolbar makes  *)
(* the GUI thread evaluate all symbols too, with the last scrape and in    *)
(* the middle of whatever the heartbeat thread does.                       *)
(*                                                                         *)
(* A scrape is reduced to what the counter compares (`table': cards, bets, *)
(* balances, dealer and action buttons) and to whether an i86-button is    *)
(* visible (`popup').  What the formulas of the bot say is open, within    *)
(* SecondaryFormulas and PrimaryFormulas.                                  *)
(***************************************************************************)
EXTENDS Integers

CONSTANTS Instance,           \* the OpenHoldem processes of one machine
          Table,              \* what a scrape may show of a table
          MyTurn,             \* two or more action buttons and the user's cards
          NoTable,            \* nothing saved yet
          Nobody,             \* "no instance owns the mutex"
          FrameDelay,         \* preferences.frame_delay()
          Delays,             \* f$delay, as a number of additional frames
          HeartbeatsToPause,  \* heartbeats between secondary formulas
          MaxStable,          \* bound on the number of stable frames counted
          SecondaryFormulas,  \* may AnySecondaryFormulaTrue() be so?
          PrimaryFormulas,    \* may AnyPrimaryFormulaTrue() be so?
          Simulated,          \* instances connected to an offline simulation
          Disturbances        \* which things may get in the way

AllDisturbances ==
  {"dll_wait", "flags", "iterator", "popup", "reconnect", "slow", "toggle"}

ASSUME ConstantsAssumption ==
  /\ MyTurn \subseteq Table
  /\ NoTable \notin Table
  /\ Nobody \notin Instance
  /\ FrameDelay \in Nat
  /\ Delays \subseteq Nat /\ Delays # {}
  /\ HeartbeatsToPause \in Nat \ {0}
  /\ MaxStable \in Nat
  /\ \A d \in Delays : FrameDelay + d <= MaxStable
  /\ SecondaryFormulas \subseteq BOOLEAN
  /\ PrimaryFormulas \subseteq BOOLEAN
  /\ Simulated \subseteq Instance
  /\ Disturbances \subseteq AllDisturbances

VARIABLES
  mouse_mutex,          \* the instance that owns the named mutex
  engaged,              \* CAutoplayer::_autoplayer_engaged
  needs_finish,         \* action_sequence_needs_to_be_finished
  heartbeat_counter,    \* modulo HeartbeatsToPause
  userchair_confirmed,
  table, popup,         \* the current scrape
  saved,                \* the last known state of CStableFramesCounter
  is_reset,             \* CStableFramesCounter::_isReset
  stable_frames,        \* CStableFramesCounter::_NumberOfStableFrames
  isfinalanswer,
  executed_secondary,   \* executed_secondary_function of this heartbeat
  pc,                   \* what the heartbeat thread does next
  gui,                  \* what the GUI thread does next
  seen,                 \* history: in how many heartbeats the last view of a
                        \* turn was counted since the last primary or i86 click
  flagged               \* history: a flag was clicked since the heartbeat
                        \* thread began to count anew

perceived == <<table, popup, heartbeat_counter, userchair_confirmed, saved,
               isfinalanswer>>
history == <<seen, flagged>>
vars == <<mouse_mutex, engaged, needs_finish, perceived, is_reset,
          stable_frames, executed_secondary, pc, gui, history>>

\* The steps of CalculateFinalAnswer, in the order of the code.
Calculation == {"check", "update", "compare"}
\* The steps in which an instance owns the mutex and clicks.
Acting == {"act_i86", "act_secondary", "act_primary"}
Steps  == Calculation \cup Acting \cup
  {"sleep", "evaluate", "decide", "i86", "secondary", "lock_i86",
   "lock_secondary", "primary", "lock_primary", "finish"}
Secondary == {"none", "button", "close"}

TypeOK ==
  /\ mouse_mutex \in Instance \cup {Nobody}
  /\ engaged \in [Instance -> BOOLEAN]
  /\ needs_finish \in [Instance -> BOOLEAN]
  /\ heartbeat_counter \in [Instance -> 0 .. (HeartbeatsToPause - 1)]
  /\ userchair_confirmed \in [Instance -> BOOLEAN]
  /\ table \in [Instance -> Table \cup {NoTable}]
  /\ popup \in [Instance -> BOOLEAN]
  /\ saved \in [Instance -> Table \cup {NoTable}]
  /\ is_reset \in [Instance -> BOOLEAN]
  /\ stable_frames \in [Instance -> 0 .. MaxStable]
  /\ isfinalanswer \in [Instance -> BOOLEAN]
  /\ executed_secondary \in [Instance -> Secondary]
  /\ pc \in [Instance -> Steps]
  /\ gui \in [Instance -> Calculation \cup {"loop"}]
  /\ seen \in [Instance -> [view  : Table \cup {NoTable},
                            times : 0 .. (MaxStable + 1)]]
  /\ flagged \in [Instance -> BOOLEAN]

Init ==
  /\ mouse_mutex = Nobody
  /\ engaged \in [Instance -> BOOLEAN]
  /\ needs_finish = [i \in Instance |-> FALSE]
  /\ heartbeat_counter = [i \in Instance |-> 0]
  /\ userchair_confirmed = [i \in Instance |-> FALSE]
  /\ table = [i \in Instance |-> NoTable]
  /\ popup = [i \in Instance |-> FALSE]
  /\ saved = [i \in Instance |-> NoTable]
  /\ is_reset = [i \in Instance |-> TRUE]
  /\ stable_frames = [i \in Instance |-> 0]
  /\ isfinalanswer = [i \in Instance |-> FALSE]
  /\ executed_secondary = [i \in Instance |-> "none"]
  /\ pc = [i \in Instance |-> "sleep"]
  /\ gui = [i \in Instance |-> "loop"]
  /\ seen = [i \in Instance |-> [view |-> NoTable, times |-> 0]]
  /\ flagged = [i \in Instance |-> FALSE]

Capped(n, bound) == IF n < bound THEN n ELSE bound

Go(i, step) == pc' = [pc EXCEPT ![i] = step]

-----------------------------------------------------------------------------
(* Scrape and evaluate                                                     *)

\* Mutant: counts from 1 to HeartbeatsToPause.
CountHeartbeatFromOne(i) ==
  heartbeat_counter' = [heartbeat_counter EXCEPT ![i] =
                          (heartbeat_counter[i] % HeartbeatsToPause) + 1]

CountHeartbeat(i) ==
  heartbeat_counter' = [heartbeat_counter EXCEPT ![i] =
                          (heartbeat_counter[i] + 1) % HeartbeatsToPause]

\* CLazyScraper::DoScrape
Scrape(i) ==
  /\ pc[i] = "sleep"
  /\ CountHeartbeat(i)
  /\ \E t \in Table : table' = [table EXCEPT ![i] = t]
  /\ \E p \in BOOLEAN :
       /\ p => "popup" \in Disturbances
       /\ popup' = [popup EXCEPT ![i] = p]
  /\ Go(i, "evaluate")
  /\ UNCHANGED <<mouse_mutex, engaged, needs_finish, userchair_confirmed, saved,
                 isfinalanswer, is_reset, stable_frames, executed_secondary,
                 gui, history>>

\* EvaluateAll up to the first assignment of CalculateFinalAnswer: among the
\* engines CSymbolEngineUserchair comes before CSymbolEngineAutoplayer, so the
\* chair is known as soon as a scrape shows the user's cards and buttons.
EvaluateAll(i) ==
  /\ userchair_confirmed' = [userchair_confirmed EXCEPT ![i] =
                               userchair_confirmed[i] \/ table[i] \in MyTurn]
  /\ isfinalanswer' = [isfinalanswer EXCEPT ![i] = TRUE]

\* The first frame after a reset is remembered; an equal one counts; another
\* one resets the counter but is not remembered itself.
UpdateNumberOfStableFrames(i) ==
  \/ /\ is_reset[i]
     /\ saved' = [saved EXCEPT ![i] = table[i]]
     /\ is_reset' = [is_reset EXCEPT ![i] = FALSE]
     /\ stable_frames' = [stable_frames EXCEPT ![i] = 0]
  \/ /\ ~is_reset[i]
     /\ table[i] = saved[i]
     /\ stable_frames' = [stable_frames EXCEPT ![i] =
                            Capped(stable_frames[i] + 1, MaxStable)]
     /\ UNCHANGED <<saved, is_reset>>
  \/ /\ ~is_reset[i]
     /\ table[i] # saved[i]
     /\ is_reset' = [is_reset EXCEPT ![i] = TRUE]
     /\ stable_frames' = [stable_frames EXCEPT ![i] = 0]
     /\ UNCHANGED saved

\* Reasons against a final answer: the iterator still works, too few buttons, no
\* cards.
CheckFactors(i) ==
  /\ \E iterator_working \in BOOLEAN :
       /\ iterator_working => "iterator" \in Disturbances
       /\ isfinalanswer' = [isfinalanswer EXCEPT ![i] =
            isfinalanswer[i] /\ ~iterator_working /\ table[i] \in MyTurn]
  /\ UNCHANGED <<saved, is_reset, stable_frames>>

\* The test reads the member again, whatever the other thread made of it.
UpdateIfFinal(i) ==
  /\ IF isfinalanswer[i] THEN UpdateNumberOfStableFrames(i)
                         ELSE UNCHANGED <<saved, is_reset, stable_frames>>
  /\ UNCHANGED isfinalanswer

CompareFrames(i) ==
  /\ \E delay \in Delays :
       isfinalanswer' = [isfinalanswer EXCEPT ![i] =
         isfinalanswer[i] /\ stable_frames[i] >= FrameDelay + delay]
  /\ UNCHANGED <<saved, is_reset, stable_frames>>

\* The rest of CalculateFinalAnswer, for the thread that is at `step'.
CalculateFinalAnswer(i, step) ==
  \/ step = "check"   /\ CheckFactors(i)
  \/ step = "update"  /\ UpdateIfFinal(i)
  \/ step = "compare" /\ CompareFrames(i)

AfterStep(step, last) ==
  CASE step = "check"   -> "update"
    [] step = "update"  -> "compare"
    [] step = "compare" -> last

\* What an observer remembers of the heartbeats in which the counter is updated,
\* and if the GUI thread had its hands in this count.
Watch(i) ==
  /\ seen' = [seen EXCEPT ![i] =
       [view  |-> table[i],
        times |-> IF table[i] = seen[i].view
                  THEN Capped(seen[i].times + 1, MaxStable + 1) ELSE 1]]
  /\ flagged' = [flagged EXCEPT ![i] =
       flagged[i] /\ ~(is_reset[i] /\ gui[i] = "loop" /\ table[i] \in MyTurn)]

\* After a click the observer starts to count anew.
ForgetViews(i) ==
  seen' = [seen EXCEPT ![i] = [view |-> seen[i].view, times |-> 0]]

EvaluateInHeartbeat(i) ==
  /\ pc[i] = "evaluate"
  /\ EvaluateAll(i)
  /\ Go(i, "check")
  /\ UNCHANGED <<mouse_mutex, engaged, needs_finish, table, popup,
                 heartbeat_counter, saved, is_reset, stable_frames,
                 executed_secondary, gui, history>>

CalculateInHeartbeat(i) ==
  /\ pc[i] \in Calculation
  /\ CalculateFinalAnswer(i, pc[i])
  /\ IF pc[i] = "update" /\ isfinalanswer[i] THEN Watch(i) ELSE UNCHANGED history
  /\ Go(i, AfterStep(pc[i], "decide"))
  /\ UNCHANGED <<mouse_mutex, engaged, needs_finish, table, popup,
                 heartbeat_counter, userchair_confirmed, executed_secondary, gui>>

\* Only an engaged autoplayer acts, and only if no user-DLL says dll$iswait.
CallAutoplayer(i) ==
  /\ pc[i] = "decide"
  /\ engaged[i]
  /\ Go(i, "i86")
  /\ UNCHANGED <<mouse_mutex, engaged, needs_finish, perceived, is_reset,
                 stable_frames, executed_secondary, gui, history>>

SkipAutoplayer(i) ==
  /\ pc[i] = "decide"
  /\ ~engaged[i] \/ ("dll_wait" \in Disturbances /\ table[i] \in MyTurn)
  /\ Go(i, "sleep")
  /\ UNCHANGED <<mouse_mutex, engaged, needs_finish, perceived, is_reset,
                 stable_frames, executed_secondary, gui, history>>

-----------------------------------------------------------------------------
(* CMyMutex: the constructor waits for up to 4 seconds                     *)

Lock(i, from, to) ==
  /\ pc[i] = from
  /\ mouse_mutex = Nobody
  /\ mouse_mutex' = i
  /\ Go(i, to)

\* Only if somebody is "slow" and keeps the mutex that long: another instance, or
\* a process that Instance leaves out, and then the mutex is nobody's here.
LockTimesOut(i, from, to) ==
  /\ "slow" \in Disturbances
  /\ pc[i] = from
  /\ Go(i, to)
  /\ UNCHANGED <<mouse_mutex, engaged, needs_finish, perceived, is_reset,
                 stable_frames, executed_secondary, gui, history>>

\* GetCursorPos, GetFocus; a sequence is assumed to be executed from here on.
PrepareActionSequence(i) == needs_finish' = [needs_finish EXCEPT ![i] = TRUE]

\* "avoid multiple-clicks within a short frame of time"
ResetStableFrames(i) ==
  /\ is_reset' = [is_reset EXCEPT ![i] = TRUE]
  /\ stable_frames' = [stable_frames EXCEPT ![i] = 0]

\* Mutant: the counter is not reset after an action.
FinishWithoutReset(i) ==
  /\ needs_finish' = [needs_finish EXCEPT ![i] = FALSE]
  /\ UNCHANGED <<is_reset, stable_frames>>

\* Also restores focus and cursor (offline simulations) or presses Tab (replay).
FinishActionSequenceIfNecessary(i) ==
  /\ needs_finish' = [needs_finish EXCEPT ![i] = FALSE]
  /\ IF needs_finish[i] THEN ResetStableFrames(i)
                        ELSE UNCHANGED <<is_reset, stable_frames>>

-----------------------------------------------------------------------------
(* DoAutoplayer: i86-buttons, which usually belong to popups               *)

LookForPopup(i) ==
  /\ pc[i] = "i86"
  /\ Go(i, IF popup[i] THEN "lock_i86" ELSE "secondary")
  /\ UNCHANGED <<mouse_mutex, engaged, needs_finish, perceived, is_reset,
                 stable_frames, executed_secondary, gui, history>>

LockForI86(i) ==
  /\ Lock(i, "lock_i86", "act_i86")
  /\ UNCHANGED <<engaged, needs_finish, perceived, is_reset, stable_frames,
                 executed_secondary, gui, history>>

\* The mutex of ClickI86ButtonIfAvailable ends before the flag is set.
ClickI86Button(i) ==
  /\ pc[i] = "act_i86"
  /\ mouse_mutex' = Nobody
  /\ needs_finish' = [needs_finish EXCEPT ![i] = TRUE]
  /\ ForgetViews(i)
  /\ Go(i, "finish")
  /\ UNCHANGED <<engaged, perceived, is_reset, stable_frames, executed_secondary,
                 gui, flagged>>

-----------------------------------------------------------------------------
(* DoAutoplayer: secondary formulas                                        *)

\* Mutant: integer division makes the pause 0 heartbeats.
EveryHeartbeat(i) == TRUE

TimeToHandleSecondaryFormulas(i) == heartbeat_counter[i] = 0

HandleSecondaryFormulas(i) ==
  /\ pc[i] = "secondary"
  /\ \E any_true \in SecondaryFormulas :
       Go(i, IF TimeToHandleSecondaryFormulas(i) /\ any_true
             THEN "lock_secondary" ELSE "primary")
  /\ UNCHANGED <<mouse_mutex, engaged, needs_finish, perceived, is_reset,
                 stable_frames, executed_secondary, gui, history>>

LockForSecondary(i) ==
  /\ Lock(i, "lock_secondary", "act_secondary")
  /\ PrepareActionSequence(i)
  /\ UNCHANGED <<engaged, perceived, is_reset, stable_frames,
                 executed_secondary, gui, history>>

\* Clicks, or finds nothing that can be clicked.  The function returns false in
\* both cases, and so DoAutoplayer goes on to the primary formulas.
ExecuteSecondaryFormulas(i) ==
  /\ pc[i] = "act_secondary"
  /\ \/ /\ \E f \in Secondary \ {"none"} :
             executed_secondary' = [executed_secondary EXCEPT ![i] = f]
        /\ FinishActionSequenceIfNecessary(i)
     \/ UNCHANGED <<executed_secondary, needs_finish, is_reset, stable_frames>>
  /\ mouse_mutex' = Nobody
  /\ Go(i, "primary")
  /\ UNCHANGED <<engaged, perceived, gui, history>>

-----------------------------------------------------------------------------
(* DoAutoplayer: primary formulas                                          *)

HandlePrimaryFormulas(i) ==
  /\ pc[i] = "primary"
  /\ \E any_true \in PrimaryFormulas :
       Go(i, IF userchair_confirmed[i] /\ isfinalanswer[i] /\ any_true
             THEN "lock_primary" ELSE "finish")
  /\ UNCHANGED <<mouse_mutex, engaged, needs_finish, perceived, is_reset,
                 stable_frames, executed_secondary, gui, history>>

LockForPrimary(i) ==
  /\ Lock(i, "lock_primary", "act_primary")
  /\ PrepareActionSequence(i)
  /\ UNCHANGED <<engaged, perceived, is_reset, stable_frames,
                 executed_secondary, gui, history>>

\* Allin, betpot, betsize, raise, call, check or fold: whatever gets clicked.
ExecutePrimaryFormulas(i) ==
  /\ pc[i] = "act_primary"
  /\ mouse_mutex' = Nobody
  /\ ForgetViews(i)
  /\ Go(i, "finish")
  /\ UNCHANGED <<engaged, needs_finish, perceived, is_reset, stable_frames,
                 executed_secondary, gui, flagged>>

\* AutoPlayerCleanupAndFinalization, without the mutex
Finish(i) ==
  /\ pc[i] = "finish"
  /\ FinishActionSequenceIfNecessary(i)
  /\ executed_secondary' = [executed_secondary EXCEPT ![i] = "none"]
  /\ Go(i, "sleep")
  /\ UNCHANGED <<mouse_mutex, engaged, perceived, gui, history>>

DoAutoplayer(i) ==
  \/ LookForPopup(i) \/ LockForI86(i) \/ ClickI86Button(i)
  \/ LockTimesOut(i, "lock_i86", "secondary")
  \/ HandleSecondaryFormulas(i) \/ LockForSecondary(i)
  \/ LockTimesOut(i, "lock_secondary", "primary")
  \/ ExecuteSecondaryFormulas(i)
  \/ HandlePrimaryFormulas(i) \/ LockForPrimary(i)
  \/ LockTimesOut(i, "lock_primary", "finish")
  \/ ExecutePrimaryFormulas(i) \/ Finish(i)

Heartbeat(i) ==
  \/ Scrape(i) \/ EvaluateInHeartbeat(i) \/ CalculateInHeartbeat(i)
  \/ CallAutoplayer(i) \/ SkipAutoplayer(i)
  \/ DoAutoplayer(i)

-----------------------------------------------------------------------------
(* The rest of the program                                                 *)

\* The button of the toolbar, pressed by the user at any time: the GUI thread
\* does not wait for the heartbeat.
OnAutoplayer(i) ==
  /\ "toggle" \in Disturbances
  /\ gui[i] = "loop"
  /\ engaged' = [engaged EXCEPT ![i] = ~engaged[i]]
  /\ UNCHANGED <<mouse_mutex, needs_finish, perceived, is_reset, stable_frames,
                 executed_secondary, pc, gui, history>>

\* A flag is clicked: the GUI thread calls EvaluateAll at once, and so the frame
\* counter is updated with a scrape that was counted already, or with one that
\* the heartbeat thread is only about to count.
OnClickedFlags(i) ==
  /\ "flags" \in Disturbances
  /\ gui[i] = "loop"
  /\ EvaluateAll(i)
  /\ gui' = [gui EXCEPT ![i] = "check"]
  /\ flagged' = [flagged EXCEPT ![i] = TRUE]
  /\ UNCHANGED <<mouse_mutex, engaged, needs_finish, table, popup,
                 heartbeat_counter, saved, is_reset, stable_frames,
                 executed_secondary, pc, seen>>

CalculateInGUI(i) ==
  /\ gui[i] \in Calculation
  /\ CalculateFinalAnswer(i, gui[i])
  /\ gui' = [gui EXCEPT ![i] = AfterStep(gui[i], "loop")]
  /\ UNCHANGED <<mouse_mutex, engaged, needs_finish, table, popup,
                 heartbeat_counter, userchair_confirmed, executed_secondary,
                 pc, history>>

GUIThread(i) == OnAutoplayer(i) \/ OnClickedFlags(i) \/ CalculateInGUI(i)

\* The auto-connector leaves the table and finds another one: the symbol
\* engines are reset, the counter of stable frames is not.
Reconnect(i) ==
  /\ "reconnect" \in Disturbances
  /\ pc[i] = "sleep"
  /\ engaged' \in {[engaged EXCEPT ![i] = e] : e \in BOOLEAN}
  /\ heartbeat_counter' \in {[heartbeat_counter EXCEPT ![i] = c] :
                               c \in 0 .. (HeartbeatsToPause - 1)}
  /\ userchair_confirmed' = [userchair_confirmed EXCEPT ![i] = FALSE]
  /\ isfinalanswer' = [isfinalanswer EXCEPT ![i] = FALSE]
  /\ UNCHANGED <<mouse_mutex, needs_finish, table, popup, saved, is_reset,
                 stable_frames, executed_secondary, pc, gui, history>>

Next == \E i \in Instance : Heartbeat(i) \/ GUIThread(i) \/ Reconnect(i)

Spec == Init /\ [][Next]_vars

\* The heartbeat thread never stops, and a thread that waits for the mutex gets
\* it: Windows serves the waiting threads in the order of their arrival.
Fairness ==
  \A i \in Instance :
    /\ WF_vars(Heartbeat(i))
    /\ SF_vars(LockForI86(i) \/ LockForSecondary(i) \/ LockForPrimary(i))

FairSpec == Spec /\ Fairness

-----------------------------------------------------------------------------
(* Properties                                                              *)

\* The view of the scrape was counted in enough heartbeats.
SeenLongEnough(i) ==
  /\ table[i] \in MyTurn
  /\ seen[i].view = table[i] /\ seen[i].times > FrameDelay

\* A primary action is taken only in the user's turn and when the view it is
\* based on was counted in more than FrameDelay heartbeats, all of them after the
\* last primary action: no decision on a view that is still changing, and never
\* two clicks for one view within FrameDelay heartbeats (CalculateFinalAnswer with
\* UpdateNumberOfStableFrames; the reset in FinishActionSequenceIfNecessary).
\* A click on a flag shortens this time, by a count or by the final answer that
\* the GUI thread assumes for a moment, but only in the count it falls into: once
\* the heartbeat thread starts to count anew, the promise holds again.
ActsOnStableView ==
  \A i \in Instance : pc[i] = "act_primary" => flagged[i] \/ SeenLongEnough(i)

\* If the table waits for the user and does not change, the instance acts again
\* and again until it does, even if a secondary formula is true all the time
\* and its clicks reset the counter of stable frames: the pause between
\* secondary formulas leaves room for the primary ones, as the comment in
\* TimeToHandleSecondaryFormulas (CAutoplayer.cpp:121-124) wants it.
PrimaryNotBlocked ==
  \A i \in Instance, t \in MyTurn :
    <>[](engaged[i] /\ table[i] = t /\ ~popup[i]) => []<>(pc[i] = "act_primary")

\* Claim: the counter of stable frames is updated "once per heartbeat"
\* (CSymbolEngineAutoplayer.cpp:127-128), and so clicks on flags do no harm.
FlagsDoNoHarm == \A i \in Instance : pc[i] = "act_primary" => SeenLongEnough(i)

\* Claim: "CloseWindow is 'final'", nothing else is done in that heartbeat
\* (CAutoplayer.cpp:318-320).
CloseIsFinal ==
  \A i \in Instance :
    pc[i] \in {"lock_primary", "act_primary"} => executed_secondary[i] # "close"

\* Cursor and focus are restored in offline simulations.
UsesMouse(i) ==
  pc[i] \in Acting \/ (pc[i] = "finish" /\ needs_finish[i] /\ i \in Simulated)

\* Claim: the mutex ensures "exclusive access to the keyboard and the mouse"
\* (Documentation, AvoidRaceConditions).
ExclusiveInput ==
  \A i, j \in Instance : UsesMouse(i) /\ UsesMouse(j) => i = j

-----------------------------------------------------------------------------
(* The inductive invariant behind ActsOnStableView                         *)

\* Only the owner of the mutex clicks.
MutexProtects == \A i \in Instance : pc[i] \in Acting <=> mouse_mutex = i

\* A heartbeat starts without an unfinished sequence, and a primary sequence
\* is never forgotten.
SequencesFinish ==
  \A i \in Instance :
    /\ needs_finish[i] => pc[i] \in {"act_secondary", "primary", "lock_primary",
                                     "act_primary", "finish"}
    /\ pc[i] = "act_primary" => needs_finish[i]

\* An evaluation of the GUI thread belongs to a click on a flag.
ClicksAreRecorded == \A i \in Instance : gui[i] # "loop" => flagged[i]

\* Without flags the counter never counts more frames than were seen.  Between a
\* click and the end of its sequence it does, but then the counter will be reset.
CountsOnlySeenFrames ==
  \A i \in Instance :
    \/ flagged[i] \/ is_reset[i] \/ (pc[i] = "finish" /\ needs_finish[i])
    \/ seen[i].view = saved[i] /\ stable_frames[i] < seen[i].times

\* Without flags a final answer is one about a frame of the turn, from the check
\* to the action, and about a frame that was counted, from the update on.
FinalAnswerIsStable ==
  \A i \in Instance :
    \/ flagged[i]
    \/ /\ isfinalanswer[i]
            /\ pc[i] \notin {"sleep", "evaluate", "check", "finish"} =>
         table[i] \in MyTurn
       /\ isfinalanswer[i] /\ pc[i] = "compare" =>
            /\ seen[i].view = table[i]
            /\ stable_frames[i] < seen[i].times
       /\ isfinalanswer[i]
            /\ pc[i] \notin Calculation \cup {"sleep", "evaluate", "finish"} =>
         seen[i].view = table[i] /\ seen[i].times > FrameDelay
       /\ pc[i] \in {"lock_primary", "act_primary"} => isfinalanswer[i]

Consistent ==
  /\ MutexProtects /\ SequencesFinish /\ ClicksAreRecorded
  /\ CountsOnlySeenFrames /\ FinalAnswerIsStable

IInv == TypeOK /\ Consistent
=============================================================================
