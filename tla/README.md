# A TLA+ development of OpenHoldem

OpenHoldem is a Windows program that plays poker at online casinos: it finds a
poker table, attaches to its window, reads ("scrapes") the table several times
a minute, evaluates the formulas of a bot and clicks the buttons of the casino.
Several OpenHoldem processes run on one machine, one per table, and share the
mouse, the keyboard and a piece of memory. Every process has several threads.

This directory holds TLA+ models of that program (`src/OpenHoldem`), TLC
configurations that check them on small instances, and theorems about them with
proofs for TLAPS. Line numbers are those of the files under `src/OpenHoldem`
unless another directory is named.

Contents

1. The system: components, state, interaction, what is hard
2. The modules and how they correspond to the code
3. The runs: what each one checks and shows
4. Bounds, and why they are enough
5. Fairness, and why the code justifies it
6. What is proved, and along which argument
7. Where the program and its documentation disagree
8. What is not modelled, and why
9. The plan

## 1. The system

### Threads and processes

| actor | where | what it does |
|---|---|---|
| heartbeat thread | `CHeartbeatThread.cpp` | endless loop: reload tablemaps, then either scrape-evaluate-act on the attached table or try to connect, then sleep |
| GUI thread | `MainFrm.cpp`, `OpenHoldem.cpp` | message loop: timers (window still there?), toolbar buttons, messages of a table hopper, dialogs, start and end of the program |
| iterator thread | `CIteratorThread.cpp` | Monte-Carlo simulation for prwin, in small portions, restarted in each new hand situation |
| PokerTracker thread | `CPokerTrackerThread.cpp` | queries a database for the statistics of the players |
| other processes | `CSharedMem.cpp`, `CMyMutex.cpp`, `CSessionCounter.cpp` | more instances of the same program |
| hopper | `COpenHoldemHopperCommunication.cpp` | an external program that tells instances to connect, to disconnect, ... |
| casino, user, clock | outside | windows that open and close; buttons pressed at any time |

### Components

For each component: its state, its operations, with whom it interacts, what is
hard about it, and what makes it correct. `PROJECT.json` lists the same
components with the share of each that is modelled.

**Auto-connector and shared memory** (`CAutoConnector`, `CSharedMem`,
`CSessionCounter`, `CTableMapLoader`).
State: the attached window of the process, the candidates of the enumeration of
windows, the shared array of attached windows (one slot per session ID), the
shared time of the last failed attempt, a system-wide mutex, the named mutex
behind every session ID.
Operations: `Connect`, `Disconnect`, `SelectTableMapAndWindow`, `Fail...`,
`MarkPokerWindowAsAttached` and `...UnAttached`, `PokerWindowAttached`.
Interaction: the heartbeat connects and disconnects; so does the GUI thread
(timer, hopper, end of the program); other processes do the same at the same
time; both operations send messages to the window of the GUI thread.
Hard: three kinds of locks (mutex, messages that wait for an answer, timeouts of
two sorts), two threads per process, a crash at any step, handles of windows that
Windows uses again.
Correct if: no table gets two instances; the shared slot of a process tells the
truth; a table that is open gets an instance; clean-up happens.

**Heartbeat thread** (`CHeartbeatThread`). State: the phase of its loop, the
critical section of the update. Operations: `HeartbeatThreadFunction`,
`ScrapeEvaluateAct`, `AutoConnect`. It calls everything below. Hard: the window
may close, or the GUI thread may disconnect, between its test and its use.

**Start, end and death of the program** (`COpenHoldem`, `Singletons`,
`CMainFrame::DestroyWindow`). Singletons are built and destroyed in a fixed
order; threads are told to stop and waited for with a timeout. Hard: session IDs
run out; destructors change shared memory without the mutex; a crash leaves
marks behind.

**Autoplayer** (`CAutoplayer`). State: engaged or not, "sequence needs to be
finished", the secondary function of this heartbeat. Operations: `DoAutoplayer`
(popups, secondary formulas, primary formulas, clean-up), `EngageAutoplayer`,
`FinishActionSequenceIfNecessary`. Interaction: mouse mutex shared with all
processes; stable frames; toolbar. Hard: up to four seconds pass between the
decision and the click; secondary formulas compete with primary ones; early
returns. Correct if: it acts only on a view that is stable, never twice on the
same one, and does act in the end.

**Stable frames and final answer** (`CStableFramesCounter`,
`CSymbolEngineAutoplayer`). State: the last known table, a flag, a counter.
Correct if: `isfinalanswer` means what its name says.

**Casino interface** (`CCasinoInterface`, `CAutoplayerButton`, `CBetsizeInputBox`,
`CAllinSlider`, the mouse and keyboard DLLs). State: none of its own; it works on the
box, the slider and the buttons of the table and on the input focus. Operations:
`DoAllin`, `DoBetPot`, `DoSwag` and `EnterBetsize`, which call each other, and
`ClickButton`. Interaction: the autoplayer calls it while it holds the mouse, the
symbol engine for the history gets the action. Hard: sequences of clicks and keys that
the loss of the input focus interrupts at any step; an attempt that failed is followed
by another one. Correct if: a turn gets at most one action, a bet has the size that was
meant, the history knows what happened, and a failure does not end in nothing.

**Scraper and table state** (`CScraper`, `CLazyScraper`, `CTableState`,
`CPlayer`). State: two bitmaps per region, the table as it was read. Hard: the
bitmaps are created by `Connect` and deleted by `Disconnect`, on any thread.

**Symbol engines and their container** (`CEngineContainer`,
`CVirtualSymbolEngine` and its many subclasses). State: values of symbols that
live for a connection, a hand, a betting round, a turn or a heartbeat.
Operations: `EvaluateAll` calls the handreset detector and the `ResetOn...` and
`UpdateOn...` methods of every engine in the order in which they were created.
Hard: an engine that runs early uses values that a later engine computed in the
previous heartbeat.

**Handreset, betting rounds and history** (`CHandresetDetector`,
`CBetroundCalculator`, `CSymbolEngineHistory`, `CSymbolEngineTableLimits`). From
frames that change item by item, decide when a new hand begins. Correct if:
every hand is noticed before the bot acts in it, once, and what the bot
remembers of its actions belongs to this hand.

**Functions, caches and formula evaluation** (`CFunction`,
`CFunctionCollection`, `CParseTreeNode`, `CAutoplayerFunctions`,
`CSymbolEngineMemorySymbols`). State: the cached result of every function, the
recursion depth, the memory symbols, the decision of an OpenPPL profile, a critical
section for all functions. Operations: `Evaluate`, `EvaluateAll`, `SetAutoplayerFunctions`
and `CalcPrimaryFormulas`, `ClearCache`, the button Calc and the debug tab of the
editor. Hard: functions are evaluated in the middle of `EvaluateAll`, and by the GUI
thread at any time; the caches are cleared at four places; a recursion that is too
deep sends messages with the lock in hand. Correct if: a decision is made on values of
the last scrape, and the stack stays bounded.

**Formula parser** (`CFormulaParser`, `CTokenizer`, `CParseTreeRotator`).
Sequential: builds right-associative trees and rotates them by precedence; patches the
edges of when-conditions in. Correct if: a tree is what the manual says of precedence
and associativity, and a function is evaluated from top to bottom.

**Iterator thread** (`CIteratorThread`). State: the cards, the counters of wins, ties
and losses, the number of iterations done and required, the results shown. Operations:
the loop of the thread, `RestartPrWinComputations` by the heartbeat, `StopThreads` by
the GUI thread. Hard: everything is shared and nothing is locked; events for the end.
Correct if: a complete result is one for the cards of this turn and of the required
iterations, every turn gets one, and the thread can be stopped.

**PokerTracker thread** (`CPokerTrackerThread`, `CSymbolEnginePokerTracker`). State: the
names and the statistics of each chair, the connection to the data base, counters of
skipped updates. Operations: a sweep over chairs and statistics; look-ups and clearing
by the heartbeat. Hard: players change while their statistics are queried. Correct if:
statistics are those of the player in the chair, in the end and while they are used.

**Chairs, raisers, limits and blinds; bet sizes** (`CSymbolEngineChairs`,
`...RaisersCallers`, `...TableLimits`, `CBlindGuesser`, `SwagAdjustment`,
`Betpot`). Sequential computations with boundary cases.

**Toolbar and flags** (`CFlagsToolbar`), **popup handler, table positioner,
titles, tablemaps, hand history and replay frames, dialogs, card evaluation,
other programs of the repository**: see section 8.

## 2. The modules and how they correspond to the code

| module | what it is |
|---|---|
| `TableService` | abstract specification: a table is played by at most one instance |
| `AutoConnector` | the auto-connector of several processes with two threads each; implements `TableService` |
| `MCAutoConnector` | small instances of it for TLC |
| `AutoConnectorProofs` | theorems and proofs about `AutoConnector` |
| `Autoplayer` | scrape, stable frames, final answer and `DoAutoplayer` of several instances that share the mouse, with clicks on flags |
| `MCAutoplayer` | small instances of it for TLC |
| `AutoplayerProofs` | theorems and proofs about `Autoplayer` |
| `HandState` | what the program knows of a hand: handreset detector, betting round, history, locked blinds, engines one heartbeat behind |
| `MCHandState` | small instances of it for TLC |
| `HandStateProofs` | theorems and proofs about `HandState`: types and stable frames; hands are detected, and what the bot remembers belongs to the hand |
| `Formulas` | the functions of a bot, evaluated and cached by two threads between the steps of `EvaluateAll` and of the autoplayer |
| `MCFormulas` | a small bot with a recursion for TLC |
| `FormulasProofs` | theorems and proofs about `Formulas` |
| `PlayerTurn` | abstract specification: a turn gives the table one action, and the history the same |
| `BetSequence` | the input that executes a primary action, with lost focus; implements `PlayerTurn` |
| `MCBetSequence` | small tables, tablemaps and decisions for TLC |
| `BetSequenceProofs` | theorems and proofs about `BetSequence` |
| `Iterator` | the iterator thread, its restart by the heartbeat, and its end |
| `MCIterator` | small instance for TLC |
| `IteratorProofs` | theorems and proofs about `Iterator` |
| `PokerTracker` | the PokerTracker thread and the heartbeat that looks up what it has queried |
| `MCPokerTracker` | small instance for TLC |
| `PokerTrackerProofs` | theorems and proofs about `PokerTracker` |
| `WhenConditions` | the graph of when-conditions of an OpenPPL function: built in a loop, patched in a second one, rotated, evaluated |
| `WhenConditionsProofs` | theorems and proofs about `WhenConditions` |
| `Parser` | extends it by texts and trees: parsing, rotation by priority and values of expressions, with reference definitions |
| `MCParser` | texts for TLC |

`PROJECT.json` maps every definition that models code to the lines it stands for.

### AutoConnector

| variable | in the code |
|---|---|
| `attached_poker_windows` | the shared array of `CSharedMem`, indexed by session ID |
| `failed_recently` | `TimeLastFailedAttemptToConnect()` is less than a second ago |
| `autoconnector_mutex` | `_autoconnector_mutex` of `CAutoConnector`, a named mutex of Windows; its value is the thread that owns it |
| `session_id` | `CSessionCounter::_session_id` |
| `attached_hwnd` | `CAutoConnector::_attached_hwnd` |
| `g_tlist`, `selected` | the candidates of `EnumProcTopLevelWindowList` and the chosen one |
| `hwnd_check_timer` | `HWND_CHECK_TIMER` of `CMainFrame` runs |
| `bitmaps` | between `CScraper::CreateBitmaps` and `DeleteBitmaps` |
| `open` | the windows for which `IsWindow` holds |
| `pc` | the next step of each thread |

`Connect` and `Disconnect` are split where another thread or another process can
see a difference: at the lock, at every write to shared memory, at every message
to the GUI thread, at the unlock, and between the unlock and the clean-up that
follows it. Everything between two such points is one action. The same steps are
used by both threads, as in the code. `HeartbeatLoop` is the heartbeat thread,
`GuiLoop` the messages the GUI thread handles, `LifecycleStep` constructors,
destructors and crashes.

A message that the heartbeat thread sends to a window of the GUI thread returns
when the GUI thread is back in its message loop (`Answers`). That is how Windows
implements `SendMessage` across threads and is what the toolbar functions of MFC
do. It is the only part of the operating system besides `IsWindow`, the named
mutex and the death of a process that the module models.

`TableService` is implemented with `serving <- attached_hwnd`.

### Autoplayer

A scrape is an element of `Table`: it stands for everything that
`CStableFramesCounter` compares. `MyTurn` are the scrapes with two or more action
buttons and cards of the user. `Scrape` is one `DoScrape`, `EvaluateAll` what the
autoplayer depends on before `CalculateFinalAnswer`: the chair of the user.
`CalculateFinalAnswer` takes three steps, as two threads may be in it at once, with the same
members and without a lock: the heartbeat thread (`CalculateInHeartbeat`), and the GUI
thread after a click on a flag (`OnClickedFlags`, `CalculateInGUI`), at any time, the time
of a scrape or of `DoAutoplayer` included. `_isfinalanswer` is TRUE first and revoked later,
and each thread reads what the other one wrote. `UpdateNumberOfStableFrames` is one step;
what two threads inside of it do to each other falls under the exception of
`ActsOnStableView` like every other effect of a click. `DoAutoplayer` is split at every lock, click and unlock. What formulas say is
nondeterministic, because the properties hold for every bot.

`seen` is a history variable: how often, since the last click, the view was seen
in heartbeats that updated the counter. It is written next to the code's own counter but
computed from the frames alone; `ActsOnStableView` compares the code's decision with it.
`flagged` remembers a click on a flag until the heartbeat thread starts to count anew
(after an action or another view) while the GUI thread has nothing to evaluate. In between
the bot may act on any number of frames (`FlagsDoNoHarm`, section 7).

### HandState

| variable | in the code |
|---|---|
| `table`, `before` | what the casino has to show now, and had at the last heartbeat |
| `shown` | `p_table_state`, the last scrape |
| `engines` | the symbols that the detector asks the engines for: `userchair`, `dealerchair`, `bblind`, `nopponentsplaying`, `pot` |
| `locked` | `tablelimit_locked_for_current_hand.bblind` |
| `last`, `fired`, `stale_balance` | the values for comparison and the bit vectors of `CHandresetDetector`; the balances it never stores |
| `betround`, `actions` | `_betround`, `_autoplayer_actions` |
| `saved`, `frames` | `CStableFramesCounter` |

One `Heartbeat` is one `DoScrape` and one `EvaluateAll`. The order inside is that
of `CEngineContainer::EvaluateAll`: betting round, detector (with the values that
the engines calculated one heartbeat ago, but the cards and the common cards of
this scrape), table limits, the resets on a handreset, the engines. The casino
moves between heartbeats, and a scrape may still show the old value of every item
in `LateItems`. `OnClickedFlags` is the evaluation that the GUI thread makes without
a scrape. Chips are small numbers: what the code compares are a pot of the blinds
and a larger one, and no bet, a small and a big blind. The cards of a hand are a pair,
`CardsOf[h]`, not the same in consecutive hands, though one of the two may be. A casino that
draws them one by one ("card" in `LateItems`) may show one of this hand and one of the last;
`ScrapePlayerCards` drops the second one behind an empty place, and takes identical cards for
backs. The detector compares the two places one by one, and fires if both have changed.
`handresets`, `acted`, `mistaken` and `scrapes` are history variables; nothing in the model's
behaviour depends on them. `mistaken` says that the bot has acted in this hand on other cards
than those of the hand. So is `evaluations`, the number of evaluations of the current
hand, but for one thing: a new hand begins when it is not zero, because a hand lasts
longer than the time between two heartbeats.

### Formulas

| variable | in the code |
|---|---|
| `cache`, `fixed` | `CFunction::_cached_result`, and whether `SetValue` wrote it |
| `recursion_depth` | the static variable of `CFunction` |
| `critsec`, `engaging` | the critical sections of `CFunctionCollection` and of `CAutoplayer` |
| `stack` | the evaluations the owner of the first one is in |
| `early`, `late` | the symbols of the engines that run before and after `f$delay` |
| `pc`, `todo` | the step of each thread and the functions it has still to evaluate |

A value is reduced to its age: how many scrapes ago the one it was computed from was
made. An evaluation reads operand after operand, and may end after any of them, as a
condition or a short-circuited operator does. `ThreadStep(t)` is what both threads do
(a click on a flag makes the GUI thread run `EvaluateAll`), `HeartbeatStep` the rest of
the heartbeat in the order of `ScrapeEvaluateAct`, `GuiWork` and the three user actions
the editor, the debug tab and the autoplayer button. Engines are calculated in one step
each, early or late. Left out: Apply in the editor, which replaces functions that are
in use, the dump of a bot, and the message loop inside a message box.

### BetSequence

`ExecutePrimaryFormulas` begins with any of the sets of functions in `Decisions`; what
follows is the code's: `DoAllin`, `DoBetPot` with one betpot after the other, `DoSwag`,
and `ExecuteRaiseCallCheckFold`. `EnterBetsize` has a step for selecting, deleting, typing
and confirming, and `LoseFocus` may happen between any two inputs, even between the
moment a DLL brings the table to the foreground and its click. A window that has taken the
focus may give it back at any time (`GiveBackFocus`): `TableLostFocus`, which the code asks
between the inputs, sees the foreground window of the moment and nothing of what happened
before. A text that was selected may not be so any more. `unnoticed` is a history variable: the focus was given back
while this amount was entered, or this button was pressed. Amounts are names: which
bet was meant, and what the box contains. `to_allin` says which amounts
`ChangeBetsizeToAllin` and `AdjustedBetsize` turn into all-in. `placed` is what the
table got, with the amount and the amount that was meant; it is a history variable, as
is `registered`, the last action of this turn in the history of the bot. A click that
another window got is registered all the same, as in the code.

`PlayerTurn` is what the rest of the bot may rely on: a decision is executed (`Decide`), the
table receives an action (`Receive`) unless it has received one, and what is registered
(`Finish`) is that action, or one that missed the table; only then the next decision of the
same turn is made. `BetSequence` implements it with `received <- ActionOf(placed[1])` (the
history knows a betpot as a betsize) and `booked <- registered`. That the turn ends when the
table has received something is what buttons that vanish, and otherwise the reset of the
stable frames in `Autoplayer`, make true.

### Iterator

| variable | in the code |
|---|---|
| `myturnbits`, `last_myturnbits` | of `CSymbolEngineAutoplayer` |
| `required`, `calculated` | `_iterations_required`, `_iterations_calculated` |
| `cards` | the turn of which `_plCards` and `_comCards` are |
| `counted`, `prwin` | `_win`, `_tie` and `_los`; `_prwin`, `_prtie` and `_prlos` |
| `stop_thread`, `wait_thread` | the events |

The counters are reduced to how many simulations with the cards of each turn they
contain. Every increment is a read and a write, and `RestartPrWinComputations` is four
steps, so that the two threads interleave as they do in the program. `TableMovesOn` is the
table between two scrapes. `overlap` and `gap` are history variables: did a restart and
a computation run side by side; did a scrape without buttons precede the turn.
`wait_thread` is set after every computation and never reset, as in the code. Left out:
the minute after which the wait gives up, a chair of the user that is not known, and
the division by zero iterations.

### PokerTracker

`_player_data` is `name` and `skipped`, the array of the DLL with the queries is `stats`.
A statistic is reduced to the player it is about. The sweep has a step before and after
everything that takes time: comparing the name, finding it, deciding to skip, each
statistic with its query, the counter of skipped updates, which both threads write. The
heartbeat clears chairs at its first look-up, if there is one, in `EvaluateAll` or in the
autoplayer, and captures the names in between. `connected` stays set when the server
closes the connection (`status`), as `_connected` does. `sat` is a history variable: the
names a chair has been captured with. Left out: the chair of the user,
queries that fail one at a time, the fuzzy search for names, the end of the thread.

### WhenConditions and Parser

| variable | in the code |
|---|---|
| `whens` | the `CParseTreeNode`s of the when-conditions in the order of the text; `then` and `else` are the edges `_second_sibbling` and `_third_sibbling` to others of them, `conclusion` what else `_second_sibbling` may point to |
| `last_open` | `last_when_condition_was_open_ended` of the first loop |
| `last`, `current` | `last_open_ended_when_condition` and `current_when_condition` of the second loop; `current` is also where an evaluation is |
| `pending`, `visits` | the recursion of `CParseTreeRotator::Rotate` over when-conditions, and how often it has been at each |
| `error` | history: `CParseErrors::Error` has shown a message; the program keeps nothing of it |
| `asked`, `held`, `decision`, `set` | history: what the evaluation has evaluated, what of it held, which action was its result, which user variables it has set |
| `text`, `at` | the text of the function and the next token |
| `tree`, `nodes`, `symbols` | the body of an OH-script function, the condition and the action of each when-condition, which symbols are true |

`WhenConditions` is the part about the graph: one action per round of the two loops, per
when-condition that the rotator comes to and per when-condition that is evaluated. It has
no constants, no bound and no recursive operator, thus its theorems are about functions of
any length; a condition there is true or false when it is evaluated. `Parser` extends it:
the same actions, with the tokens that make them possible and the trees that are built,
rotated and evaluated in them. Each of its steps is one of `WhenConditions` with more conjuncts,
so what is proved there holds here. A text is the sequence of its lexemes, a tree is a
sequence; `ParseExpression` and the functions it calls and the rotator are translated
function by function. Next to them stand reference definitions: the tree a reader of the
manual would build from precedence and associativity, and what is a formula at all; what
an evaluation from top to bottom comes to is stated by `ConditionsInOrder`. "bitcount"
stands for the backtick. Left out: numbers, lists, comments, headers of functions, texts
of errors, arithmetic. Functions with errors are rotated and evaluated like all others:
`CParseErrors::Error` shows a message and sets nothing (`CParseErrors.cpp:23`), so the test of the
autoplayer (`CAutoplayer.cpp:369`) always succeeds, and `CFunction::Evaluate` has none.

## 3. The runs

| run | expected | what it shows |
|---|---|---|
| `connector_safety` | pass | `TypeOK`, `SharedMemoryAgrees`, `MarkedOnce`, `ServiceSpec` with everything that may happen: tables open and close, handles are reused, hoppers, changed tablemaps, exits and crashes at every step |
| `connector_progress` | pass | `TableGetsServed`: an open table does not wait forever for a free instance |
| `connector_cleanup` | violation | `CleanUpCompletes`: the GUI thread waits for the mutex, its owner for the GUI thread |
| `autoplayer_safety` | pass | `TypeOK`, `ActsOnStableView` with popups, reconnects, a busy iterator, a waiting DLL, lock timeouts, clicks on flags |
| `autoplayer_progress` | pass | `PrimaryNotBlocked`: constant secondary formulas leave room for primary ones if the pause is long enough |
| `hand_safety` | pass | `TypeOK`, `EveryHandDetected`, `ActionsOfThisHand`, `BlindOfThisHand`, `BlindsStayLocked` with the default frame delay of 2, two levels of the blinds, dealer and number of the hand drawn a heartbeat late, cards drawn late together or one by one, a reconnection, clicks on flags |
| `formulas_safety` | pass | `TypeOK`, `StackBounded`, `PrimaryFresh`, `ValuesRecent`: a bot with a function that calls itself, OpenPPL decisions and backups; editor, debug tab, flags and autoplayer button at any time |
| `bets_safety` | pass | `TypeOK`, `AtMostOneAction`, `BetsAsMeant`, `ActionRegistered`, `ActsIfPossible`, `SequenceEnds`, `SequenceAdvances`, `TurnSpec`: another window may come to the foreground before every input, and go again |
| `iterator_safety` | pass | `TypeOK`, `PureResult`, `OnlyTheseCardsShown`, `TurnGetsPrwin`, `ProgramEnds`: restarts, turns that end and follow each other, a DLL that restarts, the end of the program |
| `tracker_progress` | pass | `TypeOK`, `StatsOfThisChair`: an answer that comes too late stays in the chair it was asked for; `StatsCatchUp`: who stays gets all statistics, and his own |
| `tracker_stats` | violation | `StatsOfThePlayer`: the thread takes the name of a new player before a look-up notices the change, and the old statistics stay |
| `parser_trees` | pass | `TypeOK`, `AcceptsFormulas`, `TreeFollowsPrecedence`, `RotatedOnce`, `ConditionsInOrder` for all texts of the instance, right or wrong |

Every property of a passing run has a mutant in `PROJECT.json`: a plausible bug
in the code, such as a loop that starts at one or a forgotten reset, for which
TLC finds the property violated.

How to run them: `tlc -config connector_safety.cfg MCAutoConnector`, and so on (the module is
named in `PROJECT.json`); `tlapm AutoConnectorProofs.tla`, and the same for
`AutoplayerProofs`, `HandStateProofs`, `FormulasProofs`, `BetSequenceProofs`, `IteratorProofs`,
`PokerTrackerProofs` and `WhenConditionsProofs`. Deadlock is checked except where the system may stop: in
`connector_cleanup` and `formulas_safety` two threads of a process may wait for each other,
which is what `CleanUpCompletes` and `StopsOnRecursion` are about; in `bets_safety` the
turn ends, in `iterator_safety` the program, and in `parser_trees` a single
expression that has been rotated.

## 4. Bounds

`connector_*`: two processes, two windows, two session IDs. Two processes are
enough for every conflict between processes, since each property relates at
most two of them, and two threads each are all the threads there are; two
windows let one process take a second table while the other takes its first;
with as many session IDs as processes an ID is taken over after a crash. The
proofs cover all other numbers. `connector_progress` leaves out the hopper and
changed tablemaps: they make instances disconnect at will, and a table that a
user takes an instance away from is not one the program neglects. It also leaves
out the end of a table while an instance is attached to it ("close"), because
that leads into the deadlock of `connector_cleanup`: as long as that one exists,
no progress property can hold in its presence.

`autoplayer_safety`: one instance with its two threads; the others only matter as somebody
who keeps the mouse, which "slow" stands for (two instances with flags have too many states;
the theorems are about any number). Two views of a turn, and one of somebody else's; a
frame delay of 2, so that there are counts of one frame too few. 403611 distinct states.
`autoplayer_progress`: two instances that compete for the mouse, and one view; no flags, as
a user who clicks at the right moment in every turn could revoke every final answer. `MaxStable` caps the counter of stable frames, at
the largest value that any comparison needs. `HeartbeatsToPause` is what the
code computes from the preference `scrape_delay`; the heartbeat counter, which
only matters modulo that number, is kept modulo it.

`hand_*`: one hand that begins while the bot watches, or one reconnection, after the
first hand. The detector remembers one heartbeat of values and two of signs, so the
second hand meets everything the first one can leave behind, but for a view that looks
like one of two hands ago (section 6); what the very first
hand leaves is in `Init` together with what an uninitialised detector may hold.
Three chairs, two levels of the blinds, one number of opponents. The casino shows the
number of the hand, as cards that come one by one are not a sign the detector can rely on
(section 7). The first card of a hand is the second one of the next, so that in between the
user may seem to hold a pair, or cards of two hands. The theorems of section 6
hold for more hands, chairs, levels and opponents, and also for casinos that do not show the
number, if both cards change and are drawn together.
An item is at most one heartbeat late: with two, the signs need not fall into the
detector's window. `MaxActions` and `MaxHandresets` cap counters that are compared with 0
and 1 only; `MaxEvaluations` is the number of heartbeats the detector looks at.
573050 distinct states.
`FlagClicks` says when the user clicks on flags: "quiet", when the last heartbeat
showed everything there is to see and nothing has changed since, or "busy"; the passing run needs "quiet", because
every click takes one of the three heartbeats from the detector. With a frame delay
of 1 `EveryHandDetected` still holds in this instance, but `ActionsOfThisHand` does not.

`formulas_safety`: four functions are enough for a function evaluated late and cached
early (`f$delay`), one that calls itself through another, and a primary formula that is
all-in and one that is not. The recursion passes its limit of 3 (instead of 100) at
once. An age of 3 is never reached where the properties allow 2. 337516 distinct states.

`bets_safety`: two betpot functions (first and next), five decisions (of OpenPPL with its
backups and of OH-script without), five layouts and five tablemaps, chosen so that every
method to select, to delete and to confirm, double clicks, buttons that fill the box,
and every missing button occur; what is turned into all-in is any set. Other windows come
and go without a bound. 968180 distinct states.

`iterator_safety`: two turns, since a result may only be mixed with that of the turn
before; zero or two iterations, as one could not be half counted; a look at the event
after each; one restart by a DLL at any heartbeat. 434481 distinct states.

`tracker_*`: two chairs and two players, who may even sit in both; three statistics:
the number of hands, a basic and an advanced one; an update of all every second sweep
instead of every fifth; three changes of seats, hands of a rush table or connections,
enough for a player to be replaced twice in one chair. 507981 distinct states.

`parser_trees`: all texts of up to four lexemes out of nine, all expressions with up to three
operators, conditions and brackets, since a rotation concerns two operators and their
parent; all functions of up to four when-conditions, enough for two open-ended ones
with others below each. 669721 distinct states.

## 5. Fairness

`AutoConnector`: Windows schedules every runnable thread (WF of the steps of a
thread); an infinite wait for the mutex is served in the order of arrival (SF of
`LockDisconnect`); an attempt of 500 ms that is repeated forever does not fail
forever (SF of `LockConnect`, and SF of beginning an attempt while the mutex is
free: the attempt is not always made at the wrong moment); a process that is
ending ends. Nothing is assumed of the user, the casino, the hopper or crashes.

`Autoplayer`: the heartbeat thread does not stop (WF), and a thread that waits
for the mouse gets it (SF). The runs that use it exclude owners that keep the
mouse for more than four seconds.

`BetSequence`: the sequence goes on (WF), whatever window has the focus.

`Iterator`: the three threads run on (WF of each); nobody has to end the program.

`PokerTracker`: the thread runs on (WF). The heartbeat may stop, as it does when the table
closes, and nobody has to look anything up.

`Formulas` states `FairSpec` for `StopsOnRecursion` only (section 7): each thread gets a lock
that is free again and again (SF).

All of this is fairness of the scheduler, not of the program: nothing the program has to
decide by itself is assumed.

## 6. What is proved

TLAPS checks these theorems for every value of the constants that satisfies
`ConstantsAssumption` of the module (distinct markers, non-empty bounds; nothing about
their size).

`AutoConnectorProofs`

* `TypeCorrect`: `Spec => []TypeOK`.
* `InductiveInvariant`: `Spec => []IInv`. `MarkedOnce` and `SharedMemoryAgrees` are not
  inductive. What they need is: session IDs are distinct (`SessionsDistinct`), a
  thread is inside `Connect` or `Disconnect` exactly when it owns the mutex
  (`MutexProtects`), a window that is about to be marked is marked by nobody
  (`SelectedUnmarked`), and the slot of a process is its window, or the selected
  one between the two writes of `Connect`, or anything between the two writes of
  `Disconnect` (`SlotFollows`). One lemma per action that writes the shared memory,
  the mutex or the window; `QuietStepConsistent` for those that only move a thread.
* `WindowsMarkedOnce`, `SharedMemoryTellsTheTruth`: the invariants of the run.
* `ImplementsService`: `Spec => ServiceSpec`, a step of `AttachTable` is `Serve`, the
  steps that forget the window are `Leave`, all others stutter.

`AutoplayerProofs`

* `TypeCorrect`, `InductiveInvariant`: the mutex protects the clicks, sequences get
  finished, and in a count without a click on a flag the counter never counts more frames
  than were seen (`CountsOnlySeenFrames`), and a final answer stays true until it is used
  (`FinalAnswerIsStable`). An evaluation by the GUI thread belongs to a click
  (`ClicksAreRecorded`), so all that it does to the counter and the answer happens in a
  count that is marked.
* `StableViews`: `Spec => []ActsOnStableView`.
* `ClicksAreExclusive`: two instances never both click with the mutex.

`HandStateProofs`

* `TypeCorrect`: one lemma per part of `EvaluateAll`, so that heartbeats and clicks on
  flags share them.
* `FramesCountHeartbeats`: if nobody clicks on flags, `Spec => []FramesAreHeartbeats`.
  Without the hypothesis TLC refutes it (section 7).

The following, for any number of hands, opponents and levels of the blinds, with or
without the number of the hand, with any items drawn late, need the hypotheses of
`UsualSession`: the cards of a hand, and what a casino shows of them while it draws them one
by one, were never seen in an earlier hand of the session (`CardsDiffer`); there are three
chairs or more or else (heads-up) the dealer is drawn in time (`DealersDiffer`); the frame
delay is two or more (the default is two); flags are clicked when all is quiet; and beside the
dealer there is another sign of each hand: the casino shows its number, or
(`SignOfCards`) both cards differ from those of the two hands before in their places, and are
drawn together

* `HandsAreDetected`: `Spec => []EveryHandDetected`.
* `HistoryOfThisHand`, `BlindIsOfThisHand`, `BlindsAreKept`: `ActionsOfThisHand`,
  `BlindOfThisHand` and `BlindsStayLocked`, if moreover the level is never drawn late. The first
  one is about hands in which the bot has not acted on cards that were not those of the hand
  (`mistaken`): a casino that draws the cards late lets it act once more on the last ones
  when the hand has begun already, and the history keeps that action (section 7).
* The argument counts the evaluations of a hand. The bot acts on a view after three of them:
  one saves the view, two confirm it (`FramesOfHand` in `SignsCome`), as frames counted in
  an earlier hand show other cards. In those three the dealer and the number of the hand, or
  else the cards of the user, have both arrived at the detector, the dealer through the engines
  one evaluation later, and have both fired (`FirstSigns`, `SecondSigns`, `ThirdSigns`); the detector looks at three
  heartbeats, thus either the hand has been reset before, or it is now.
* `Detection`, the inductive invariant: all cards and dealers the program knows are those of
  this hand or of an earlier one, and of the last hand until the new one has been seen
  (`KnownCards`, `KnownNumbers`, `KnownDealers`); what was scraped is the table, now or a heartbeat ago
  (`ViewsFollow`), and the engines follow the scrape (`EnginesFollow`); handresets and
  evaluations are counted truly (`Counted`); and for each number of evaluations which signs
  have been stored and which are still to come (`SignsCome`).
* `History`, on top of it, is for the other way to go wrong, a second reset of the same hand:
  after the first evaluations what the detector stores follows the table within the hand,
  so that pots grow, opponents fold and the small blind does not come back (`LastFollows`,
  `NothingFires`), a single late method finds no second one (`FewSigns`), and the actions are
  those of this hand once it has been reset (`ActionsFollow`). `BlindKnown` and `BlindsKept` say
  the same of the blinds.
* Every hypothesis is needed; TLC finds counterexamples in small instances without it. Neither
  number nor both cards: the dealer fires alone (section 7). Cards
  that come back, every second hand at two chairs or every third at three: neither a handreset nor a new connection
  resets `CStableFramesCounter`, and frames counted in the old hand count for the new one.
  A late dealer at two chairs: a hand seen only while its dealer is late leaves the dealer of
  the hand after it unchanged, and the other sign fires alone; a dealer drawn in time makes any two
  successive hands differ even there (`DealersKnown`, `OldDealer`). A frame delay of one: the bot acts while a sign is
  still to come, which may reset the hand once more and erase the action. A click on a flag while the table changes takes
  one of the three heartbeats. A level drawn late: the old one gets locked (section 7), and at a casino without hand
  numbers it is a late second sign that erases an action.

`FormulasProofs`, for any functions that call each other in any way

* `TypeCorrect`; `StackIsBounded`; `PrimaryIsFresh`; `ValuesAreRecent`.
* The inductive invariant: only the thread that owns the critical section evaluates
  (`LockInv`); the depth is never less than the length of the stack, although the error
  path counts it up a second time (`DepthInv`); what a thread has still to evaluate is
  what its step needs (`WorkInv`); the ages of early and late engines at each step of the
  heartbeat (`EnginesInv`); and from them the ages that cached values and unfinished
  evaluations may have (`ValuesInv`). A value that is too old would need an engine that
  is, or a cache that survived one of the clearings.

`BetSequenceProofs`, for any tablemaps, layouts, decisions and list of betpot functions

* `TypeCorrect`; `OneAction`; `NoWrongBet`; `HistoryIsTrue`; `NeverIdle`: the invariants
  of the run.
* The inductive invariant: nothing has been placed while another attempt is still
  possible (`PlacedInv`); the amount is the one of the attempt (`AmountInv`); the box
  contains what the step of `EnterBetsize` supposes, unless the focus was lost; then either
  it is still lost at the next look, and the box is not confirmed, or it was given back in
  between (`Undisturbed`, `BoxInv`), which `BetsAsMeant` excepts; what an attempt returns agrees with what the table got
  (`ResultInv`).
* `AttemptsRunOut`: `Spec => SequenceAdvances`. It is the safety half of `SequenceEnds`: every step
  of a sequence lowers `Rank`, a natural number, in which an attempt that is left weighs more
  than all the steps of another (`AttemptsLeft`, `StepsLeft`). All-in inside of `DoBetPot` and `DoSwag`
  is part of their attempt, which is why it does not start another round; the loop of
  `DoBetPot` runs in an attempt of its own (`LoopInv`), and `betpot` only grows in it. What
  is left to fairness is that the steps are taken.
* `ImplementsTurn`: `Spec => TurnSpec`. From the invariant before and after the step it needs
  no more than the shape of each action (`SequenceShape`): a step that places something
  leads to `return` and is `Receive`, and the value to be registered is the one received
  because `ActionRegistered` holds afterwards; a step that does both is `Finish`.

`IteratorProofs`, for any number of turns and any numbers of iterations

* `TypeCorrect`; `PureWithoutOverlap`: `Spec => []PureResult`; `OthersNeverShown`:
  `Spec => []OnlyTheseCardsShown`.
* The inductive invariant holds as long as no computation has run beside the restart: a
  restart finds the thread outside of its loop (`Separate`) and has cleared the counters
  when it says so (`Prepared`); within the loop the counters contain what has been
  calculated, with the cards of this turn (`Counting`); outside of it they contain a
  complete result, or nothing (`Resting`), which is what a restart that is forgotten, or a
  counter that is not cleared, would break; and what is shown is a part of this
  computation (`Shown`), which the intermediate results after each interval are, too.

`PokerTrackerProofs`, for any chairs, players and statistics

* `TypeCorrect`; `StatsStayInTheirChair`: `Spec => []StatsOfThisChair`, a statistic is one
  of a player in the data base who has sat in this chair. Needed for it: the loop has not
  passed the last statistic while a query is executed; the name that is searched, read from
  the captured state, has sat in the chair of the loop (`History`), and the name in a query,
  which is read again after it was compared, is nobody's or one of this chair (`Querying`);
  so is the name the data base has confirmed, whoever was captured since then (`Known`).

`WhenConditionsProofs`, for any number of when-conditions, with any kinds of actions

* `TypeCorrect`, whose part about edges is the one of interest: they lead to later
  when-conditions; `EveryConditionRotatedOnce`: `Spec => []RotatedOnce`; `EvaluationFollowsText`:
  `Spec => []ConditionsInOrder`.
* The inductive invariant has three parts. The graph: the edges of the first loop go from
  each when-condition to the next one (`Chain`), the second loop has patched the else-edges
  of the open-ended ones before `last`, each to the next open-ended one, and has passed no
  other (`Patching`, `Patched`). A last when-condition whose action could not be parsed
  counts as open-ended there (`TakenForOpen`): that is wrong, and the evaluation comes to it
  out of order (section 7), which is why `ConditionsInOrder` excepts functions that end like
  this (`EndsBroken`). A broken action anywhere else does no harm, as its when-condition has an
  edge by then (`EdgesInOrder`). The rotator: where it still has to go is one when-condition at most,
  all before it have been visited, and none after it (`Rotating`); following the else-edge
  of an open-ended one would break it. The evaluation: at every step, what was evaluated
  and set is what a reader from top to bottom would have come to (`InOrder`), and
  where it goes next is his next turn (`Evaluating`). An else-edge that skips
  when-conditions skips those that are not in force.

Only model-checked: the liveness properties (`TableGetsServed`, `PrimaryNotBlocked`,
`SequenceEnds`, `TurnGetsPrwin`, `ProgramEnds`, `StatsCatchUp`), since fairness and ENABLED are
beyond the prover; and `AcceptsFormulas` and `TreeFollowsPrecedence` of `Parser`, which are about
what recursive definitions compute.

## 7. Where the program and its documentation disagree

Two are runs that TLC finds violated; `PROJECT.json` quotes the lines.

* `connector_cleanup`: `Disconnect` on the GUI thread deadlocks with the heartbeat thread of
  the same process (`CAutoConnector.cpp:357`), and with it goes the mutex of all processes.
* `tracker_stats`: `GetStatsForChair` relies on the next look-up to clear the statistics of a
  player who has left, but the next sweep may take the new name first
  (`CPokerTrackerThread.cpp:249`); then nobody clears them.

Other definitions of the modules state what one would expect, too, and TLC refutes them
when they are added to a configuration of the module, with its constants unless others
are named:

* `ScrapesIntoBitmaps` (`connector_safety`): the clean-up after the unlock of `Disconnect`
  (`CAutoConnector.cpp:389`) hits the connection that the other thread has made in between.
* `PrimaryNotBlocked` (`autoplayer_progress`) when `HeartbeatsToPause` is not greater than `FrameDelay`:
  the pause between secondary formulas (`CAutoplayer.cpp:125`) does not keep them from
  blocking the primary ones when the scrape delay is 1.5 seconds or more.
* `FlagsDoNoHarm` (`autoplayer_safety`): the counter "should therefore only get called once per
  heartbeat" (`CSymbolEngineAutoplayer.cpp:127`), but a click on a flag makes the GUI thread
  call it too, and it sets `_isfinalanswer` before it checks anything (`:130`): the autoplayer
  of the heartbeat thread may read it in this moment and act on a first frame.
* `CloseIsFinal` (`autoplayer_progress`): after `CloseWindow` the same heartbeat goes on to the primary
  formulas (`CAutoplayer.cpp:355`).
* `ExclusiveInput` (`autoplayer_progress`, `Simulated = {i1}`): the mutex does not cover the restoration of the cursor
  (`CAutoplayer.cpp:493`).
* `EveryHandDetected` (`hand_safety`, `HandNumbers = FALSE`, `LateItems = {"dealer", "card"}`): the card
  method needs both cards to change in the same heartbeat (`CHandresetDetector.cpp:130`); cards drawn one
  by one, or one card that is the same in the next hand (drawn together, `CardsOf[h] = <<h + 1, 9>>`),
  give no sign, the dealer fires alone, and the bot plays the hand as if it were the last one.
* `MistakesForgotten` (`hand_safety`, `LateItems = {"dealer", "cards"}`, `CardsOf[h] = <<h + 1, 9>>`): when the
  bot has acted in a new hand on the cards of the last one, which are still shown, the action may
  stay in the history of the new hand.
* `OneResetPerHand` (`hand_safety`): late signs reset a hand, and count it in `handsplayed`,
  again (`CHandresetDetector.cpp:84`).
* `BlindOfThisHand` (`hand_safety`, `LateItems = {"level"}`): "IsMzTurn guarantees stable input" says a
  comment (`CSymbolEngineTableLimits.cpp:216`), but nothing compares the level with that of the
  heartbeat before; the blinds get locked at the first sight of buttons, and stay locked.
* `FramesAreHeartbeats` (`hand_safety`): a click on a flag (`CFlagsToolbar.cpp:178`) counts the same
  scrape twice as a stable frame.
* `DecisionKept` (`formulas_safety`): the timer of the debug tab clears the caches, and with them
  what OpenPPL has decided, before the autoplayer reads it (`CFunctionCollection.cpp:288`).
* `DepthBalanced` (`formulas_safety`): the error path of the recursion check counts the depth up
  once more (`CFunction.cpp:66`); after enough of them every evaluation is one too deep.
* `StopsOnRecursion` (`formulas_safety`, `FairSpec`): a recursion that is too deep stops the
  autoplayer (`CFunction.cpp:60`) with the lock of the functions in hand, and waits for a
  GUI thread that may wait for this lock.

* `LooksSuffice` (`bets_safety`): "Check for stolen focus, and thus misswag" (`CCasinoInterface.cpp:302`)
  looks at the foreground window of the moment; a window that takes some of the keys and has
  gone before the next look leads to a bet of another amount.
* `RaisesDefault` (`bets_safety`): when `EnterBetsize` has failed, `f$rais` clicks the raise button with
  what is left in the box (`CAutoplayer.cpp:258`), a bet nobody meant; `BetsAsMeant` is about
  amounts that were entered.
* `BrokenToo` (`parser_trees`): in `WHEN a WHEN b Fold Force WHEN c RaiseTo Force` the last action is
  an error, and its when-condition looks open-ended to the second loop (`CFormulaParser.cpp:730`):
  if `a` does not hold it is evaluated nevertheless. "Invalid formula, Can't autoplay", says a
  comment (`CAutoplayer.cpp:371`), but that branch is never taken, as nobody sets `_is_error`
  (`CParseErrors.cpp:23`).

Smaller facts met while modelling, that no definition states:

* stable frames need not be "in a row" (`autoplayer.html:31`), as heartbeats in which the user
  cannot act do not reset the counter; memory symbols are evaluated more often than
  "exactly once per my turn" (`CAutoplayerFunctions.cpp:75`); "at least one action button"
  (`how_oh_works.html:230`) are two in the code;
* the destructor of the iterator thread does not wait for its end, since the event it waits
  for is set after every computation: the singletons the thread uses are deleted while it
  may still run (`Singletons.cpp:202` says they are not), and the assertion that it does
  not work (`CIteratorThread.cpp:138`) may fail;
* the intermediate results of the iterator thread are taken before the iteration is counted
  (`CIteratorThread.cpp:256`): the three probabilities are 1001 simulations divided by 1000;
* after a restart, and until the thread wakes up, it does not count as working: a final
  answer may be given with `prwin` zero (`CSymbolEngineAutoplayer.cpp:132`); the restart belongs to
  the second heartbeat of a turn, and a turn without a scrape before it gets none;
* `(a]` is accepted, since a switch falls through (`CFormulaParser.cpp:207`); `-2 ** 2` is
  `(-2) ** 2` (`CTokenizer.cpp:318`, unlike `oh_script_syntax.html:96`); `a ^^ b` is computed as
  `a != b` (unlike `oh_script_syntax.html:738`); `ln` is documented and no token;
  `~CParseTreeNode` (`CParseTreeNode.cpp:42`) may delete a node twice;
* the index `round - 1` in `CSymbolEngineHistory.cpp:219`; the counter of replay frames in
  `CSymbolEngineReplayFrameController.cpp:78`; `OnResetFlagMessage`, which sets the flag
  (`COpenHoldemHopperCommunication.cpp:98`).

## 8. What is not modelled, and why

* Recognition of pixels and text, window titles, geometry of tables, files of
  tablemaps, logs, dialogs, preferences: data and input/output without control that the
  properties could tell apart.
* Card evaluation (pokereval, versus, ICM): numerical code over decks of cards, mostly a
  vendored library, and by far the largest part of the sources. So is the XML-RPC library.
* The raisers and callers, the chip amounts, the limits locked for a session, the blind
  guesser and the adjustment of betsizes: sequential arithmetic on one scrape, each step
  of which a unit test reaches. One dependence between heartbeats in it is listed as a
  hazard (`CSymbolEngineChipAmounts.cpp:219`).
* `CSharedMem`'s check that all processes use the same mutex name, and its list of
  process IDs: the models assume one name. Two instances that start together may both
  find the name unset (`CSharedMem.cpp:206`).
* Start-up without a session ID: the process ends itself; what its other constructors do
  until then is outside of the models.
* The hand history and the replay frames: files written for the user.
* The other programs of the repository (OpenScrape, OHReplay, ManualMode, ...): tools
  for set-up and tests on which the bot does not depend.
* In the modules: what section 2 names under "left out".

## 9. The plan

The order was that of importance: first what several actors can do to each other, then
what a long sequence of frames can do to the state of a hand, then sequential
computations.

| module | models | properties | theorems |
|---|---|---|---|
| `TableService`, `AutoConnector` | attaching to tables | service, shared memory, progress, clean-up | types, invariant, refinement |
| `Autoplayer` | the cadence of acting | stable views, progress | types, invariant |
| `HandState` | handreset detector, betting rounds, history, locked blinds, against frames that change item by item | every hand detected before the bot acts in it; memory of actions and blinds belongs to the hand | types, stable frames, all properties of the run |
| `Formulas` | caches, recursion, order of engines, two threads | fresh values, bounded stack | types, all invariants |
| `PlayerTurn`, `BetSequence` | clicks and keys of a primary action with lost focus | one action, of the size meant, registered; one turn; the sequence ends | types, all invariants, variant, refinement |
| `Iterator` | prwin with restart, stop and end | pure results, shown at any time, progress, end | types, both invariants |
| `PokerTracker` | statistics of players who come and go | they catch up, in their chair | types, statistics stay in their chair |
| `WhenConditions` | when-conditions: patched, rotated, evaluated | edges lead forward, rotated once, evaluated in order | types, both invariants |
| `Parser` | texts, trees, rotation | against reference definitions | none: recursive |

What is left, in the order of what it would add: the fields of `HandState` for turn and
river with `prevaction`; the composition of `BetSequence` with the retry in the next
heartbeat of `Autoplayer`; Apply in the formula editor while functions are in use; the end of
the PokerTracker thread; and the limits of a session against frames that change.
