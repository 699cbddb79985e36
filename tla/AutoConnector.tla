---------------------------- MODULE AutoConnector ----------------------------
(***************************************************************************)
(* The auto-connector: several OpenHoldem processes look for poker tables  *)
(* and attach to them, at most one process per table.  Processes share an  *)
(* array of attached windows (CSharedMem), the time of the last failed     *)
(* attempt and a named mutex.  Every process has two threads that connect  *)
(* and disconnect: the heartbeat thread (CHeartbeatThread) and the GUI     *)
(* thread (the HWND-check timer of CMainFrame, messages of a hopper, and   *)
(* the start and the end of the program).                                  *)
(*                                                                         *)
(* A call that sends a window message from the heartbeat thread to the     *)
(* main window returns only once the GUI thread is back in its message     *)
(* loop (SendMessage of Windows): see Answers.                             *)
(***************************************************************************)
EXTENDS Integers

CONSTANTS Instance,       \* the OpenHoldem processes of one machine
          Window,         \* handles of windows that match a tablemap
          NoWindow,       \* the HWND NULL
          MaxSessionIds,  \* MAX_SESSION_IDS
          Nobody,         \* "no thread owns the mutex"
          Events          \* which things from outside may happen

AllEvents == {"close", "crash", "exit", "hopper", "reuse", "tablemap"}

ASSUME ConstantsAssumption ==
  /\ NoWindow \notin Window
  /\ MaxSessionIds \in Nat \ {0}
  /\ Nobody \notin Instance \X {"heartbeat", "gui"}
  /\ Events \subseteq AllEvents

Thread    == Instance \X {"heartbeat", "gui"}
SessionId == 0 .. (MaxSessionIds - 1)
NoSession == -1

Heartbeat(i) == <<i, "heartbeat">>
Gui(i)       == <<i, "gui">>

VARIABLES
  open,                    \* the table windows that exist: IsWindow(w)
  attached_poker_windows,  \* shared: the window marked by each session ID
  failed_recently,         \* shared: an attempt failed within the last second
  autoconnector_mutex,     \* shared: the thread that owns the named mutex
  session_id,              \* CSessionCounter, per process
  attached_hwnd,           \* CAutoConnector::_attached_hwnd, per process
  g_tlist,                 \* the candidates found by EnumWindows, per process
  selected,                \* g_tlist[SelectedItem].hwnd, per process
  hwnd_check_timer,        \* is HWND_CHECK_TIMER running?
  bitmaps,                 \* do the bitmaps of the scraper exist?
  pc                       \* what each thread does next

shared == <<attached_poker_windows, failed_recently, autoconnector_mutex>>
vars == <<open, shared, session_id, attached_hwnd, g_tlist, selected,
          hwnd_check_timer, bitmaps, pc>>

\* Steps of Connect() after its lock, and of Disconnect() after its lock:
\* the owner of the mutex is at one of them.
InConnect    == {"select", "popups", "mark", "attach", "buttons", "engage",
                 "unlock_connect"}
InDisconnect == {"quiet", "killtimer", "unmark", "unlock_disconnect"}
Critical     == InConnect \cup InDisconnect
Outside      == {"idle", "verify", "lock_connect", "lock_disconnect",
                 "cleanup", "title"}
Lifecycle    == {"down", "start", "stopping", "exit_sharedmem", "exit_session"}

TypeOK ==
  /\ open \subseteq Window
  /\ attached_poker_windows \in [SessionId -> Window \cup {NoWindow}]
  /\ failed_recently \in BOOLEAN
  /\ autoconnector_mutex \in Thread \cup {Nobody}
  /\ session_id \in [Instance -> SessionId \cup {NoSession}]
  /\ attached_hwnd \in [Instance -> Window \cup {NoWindow}]
  /\ g_tlist \in [Instance -> SUBSET Window]
  /\ selected \in [Instance -> Window \cup {NoWindow}]
  /\ hwnd_check_timer \in [Instance -> BOOLEAN]
  /\ bitmaps \in [Instance -> BOOLEAN]
  /\ pc \in [Thread -> Critical \cup Outside \cup Lifecycle]

Init ==
  /\ open = {}
  /\ attached_poker_windows = [s \in SessionId |-> NoWindow]
  /\ failed_recently = FALSE
  /\ autoconnector_mutex = Nobody
  /\ session_id = [i \in Instance |-> NoSession]
  /\ attached_hwnd = [i \in Instance |-> NoWindow]
  /\ g_tlist = [i \in Instance |-> {}]
  /\ selected = [i \in Instance |-> NoWindow]
  /\ hwnd_check_timer = [i \in Instance |-> FALSE]
  /\ bitmaps = [i \in Instance |-> FALSE]
  /\ pc = [t \in Thread |-> "down"]

Go(t, step) == pc' = [pc EXCEPT ![t] = step]

IsWindow(w)    == w \in open
IsConnected(i) == IsWindow(attached_hwnd[i])

\* The singletons of process i exist; after ~CAutoConnector they do not, and
\* a heartbeat thread that outlived the wait of StopThreads() is done for.
Alive(i) == pc[Gui(i)] \notin {"down", "start", "exit_sharedmem", "exit_session"}

\* A message that thread t sends to the main window gets processed: at once if
\* t is the GUI thread, else when the GUI thread waits for messages.
Answers(t) == t[2] = "gui" \/ pc[Gui(t[1])] = "idle"

-----------------------------------------------------------------------------
(* Shared memory                                                           *)

\* Mutant: the loop over the array starts at 1.
PokerWindowAttachedFromOne(w) ==
  \E s \in SessionId \ {0} : attached_poker_windows[s] = w

PokerWindowAttached(w) == \E s \in SessionId : attached_poker_windows[s] = w

AnyWindowAttached == \E s \in SessionId : attached_poker_windows[s] # NoWindow

MarkPokerWindowAsAttached(i, w) ==
  attached_poker_windows' = [attached_poker_windows EXCEPT ![session_id[i]] = w]

MarkPokerWindowAsUnAttached(i) == MarkPokerWindowAsAttached(i, NoWindow)

-----------------------------------------------------------------------------
(* CAutoConnector::Connect, by thread t of instance t[1]                   *)

\* Mutant: goes on when Lock(500) failed.
BeginConnectUnlocked(t, targets) ==
  /\ autoconnector_mutex' = t
  /\ g_tlist' = [g_tlist EXCEPT ![t[1]] =
                   {w \in open \cap targets : ~PokerWindowAttached(w)}]
  /\ Go(t, "select")
  /\ UNCHANGED <<open, attached_poker_windows, failed_recently, session_id,
                 attached_hwnd, selected, hwnd_check_timer, bitmaps>>

\* Lock(500) succeeds; the enumeration keeps the windows of `targets' that are
\* on the screen, match a tablemap and are not marked by any instance.
BeginConnect(t, targets) ==
  /\ autoconnector_mutex = Nobody
  /\ autoconnector_mutex' = t
  /\ g_tlist' = [g_tlist EXCEPT ![t[1]] =
                   {w \in open \cap targets : ~PokerWindowAttached(w)}]
  /\ Go(t, "select")
  /\ UNCHANGED <<open, attached_poker_windows, failed_recently, session_id,
                 attached_hwnd, selected, hwnd_check_timer, bitmaps>>

\* FailedToConnectBecauseNoWindowInList and ...AllTablesAlreadyServed: remember
\* the time; a free instance handles popups if any window is attached.
FailToConnect(t) ==
  /\ failed_recently' = TRUE
  /\ Go(t, IF AnyWindowAttached THEN "popups" ELSE "unlock_connect")
  /\ UNCHANGED <<selected>>

SelectTableMapAndWindow(t) ==
  LET unserved == {w \in g_tlist[t[1]] : ~PokerWindowAttached(w)} IN
  /\ pc[t] = "select"
  /\ \/ unserved = {} /\ FailToConnect(t)
     \/ \E w \in unserved :
          /\ selected' = [selected EXCEPT ![t[1]] = w]
          /\ Go(t, "mark")
          /\ UNCHANGED failed_recently
  /\ UNCHANGED <<open, attached_poker_windows, autoconnector_mutex, session_id,
                 attached_hwnd, g_tlist, hwnd_check_timer, bitmaps>>

HandleAllPopups(t) ==
  /\ pc[t] = "popups"
  /\ Go(t, "unlock_connect")
  /\ UNCHANGED <<open, shared, session_id, attached_hwnd, g_tlist, selected,
                 hwnd_check_timer, bitmaps>>

MarkTable(t) ==
  /\ pc[t] = "mark"
  /\ MarkPokerWindowAsAttached(t[1], selected[t[1]])
  /\ Go(t, "attach")
  /\ UNCHANGED <<open, failed_recently, autoconnector_mutex, session_id,
                 attached_hwnd, g_tlist, selected, hwnd_check_timer, bitmaps>>

\* set_attached_hwnd, LoadTablemap, CreateBitmaps, the resets of table state
\* and symbol engines, and the scraper DLL.
AttachTable(t) ==
  /\ pc[t] = "attach"
  /\ attached_hwnd' = [attached_hwnd EXCEPT ![t[1]] = selected[t[1]]]
  /\ bitmaps' = [bitmaps EXCEPT ![t[1]] = TRUE]
  /\ Go(t, "buttons")
  /\ UNCHANGED <<open, shared, session_id, g_tlist, selected, hwnd_check_timer>>

\* ResetButtonsOnConnect (messages to the toolbar), then StartTimer.
ResetButtonsOnConnect(t) ==
  /\ pc[t] = "buttons"
  /\ Answers(t)
  /\ hwnd_check_timer' = [hwnd_check_timer EXCEPT ![t[1]] = TRUE]
  /\ Go(t, "engage")
  /\ UNCHANGED <<open, shared, session_id, attached_hwnd, g_tlist, selected, bitmaps>>

\* EngageAutoPlayerUponConnectionIfNeeded presses the toolbar button.
EngageAutoPlayerUponConnection(t) ==
  /\ pc[t] = "engage"
  /\ IsConnected(t[1]) => Answers(t)
  /\ Go(t, "unlock_connect")
  /\ UNCHANGED <<open, shared, session_id, attached_hwnd, g_tlist, selected,
                 hwnd_check_timer, bitmaps>>

\* Mutant: a failed attempt returns early and keeps the mutex.
UnlockConnectForgotten(t) ==
  /\ pc[t] = "unlock_connect"
  /\ autoconnector_mutex' = IF IsConnected(t[1]) THEN Nobody ELSE t
  /\ g_tlist' = [g_tlist EXCEPT ![t[1]] = {}]
  /\ selected' = [selected EXCEPT ![t[1]] = NoWindow]
  /\ Go(t, "idle")
  /\ UNCHANGED <<open, attached_poker_windows, failed_recently, session_id,
                 attached_hwnd, hwnd_check_timer, bitmaps>>

\* The locals of Connect() end here: g_tlist is cleared when it is used next.
UnlockConnect(t) ==
  /\ pc[t] = "unlock_connect"
  /\ autoconnector_mutex' = Nobody
  /\ g_tlist' = [g_tlist EXCEPT ![t[1]] = {}]
  /\ selected' = [selected EXCEPT ![t[1]] = NoWindow]
  /\ Go(t, "idle")
  /\ UNCHANGED <<open, attached_poker_windows, failed_recently, session_id,
                 attached_hwnd, hwnd_check_timer, bitmaps>>

Connect(t) ==
  \/ SelectTableMapAndWindow(t) \/ HandleAllPopups(t) \/ MarkTable(t)
  \/ AttachTable(t) \/ ResetButtonsOnConnect(t)
  \/ EngageAutoPlayerUponConnection(t) \/ UnlockConnect(t)

-----------------------------------------------------------------------------
(* CAutoConnector::Disconnect, by thread t of instance t[1]                *)

\* Lock(INFINITE)
LockDisconnect(t) ==
  /\ pc[t] = "lock_disconnect"
  /\ autoconnector_mutex = Nobody
  /\ autoconnector_mutex' = t
  /\ Go(t, "quiet")
  /\ UNCHANGED <<open, attached_poker_windows, failed_recently, session_id,
                 attached_hwnd, g_tlist, selected, hwnd_check_timer, bitmaps>>

\* EngageAutoplayer(false) sets the toolbar; then the window is forgotten.
ForgetTable(t) ==
  /\ pc[t] = "quiet"
  /\ Answers(t)
  /\ attached_hwnd' = [attached_hwnd EXCEPT ![t[1]] = NoWindow]
  /\ Go(t, "killtimer")
  /\ UNCHANGED <<open, shared, session_id, g_tlist, selected, hwnd_check_timer, bitmaps>>

KillTimer(t) ==
  /\ pc[t] = "killtimer"
  /\ hwnd_check_timer' = [hwnd_check_timer EXCEPT ![t[1]] = FALSE]
  /\ Go(t, "unmark")
  /\ UNCHANGED <<open, shared, session_id, attached_hwnd, g_tlist, selected, bitmaps>>

\* ResetButtonsOnDisconnect (messages to the toolbar), then the shared memory.
UnmarkTable(t) ==
  /\ pc[t] = "unmark"
  /\ Answers(t)
  /\ MarkPokerWindowAsUnAttached(t[1])
  /\ Go(t, "unlock_disconnect")
  /\ UNCHANGED <<open, failed_recently, autoconnector_mutex, session_id,
                 attached_hwnd, g_tlist, selected, hwnd_check_timer, bitmaps>>

UnlockDisconnect(t) ==
  /\ pc[t] = "unlock_disconnect"
  /\ autoconnector_mutex' = Nobody
  /\ Go(t, "cleanup")
  /\ UNCHANGED <<open, attached_poker_windows, failed_recently, session_id,
                 attached_hwnd, g_tlist, selected, hwnd_check_timer, bitmaps>>

\* Already without the mutex: DeleteBitmaps and the resets ...
CleanUp(t) ==
  /\ pc[t] = "cleanup"
  /\ bitmaps' = [bitmaps EXCEPT ![t[1]] = FALSE]
  /\ Go(t, "title")
  /\ UNCHANGED <<open, shared, session_id, attached_hwnd, g_tlist, selected, hwnd_check_timer>>

\* ... and the title of the main window.
UpdateTitle(t) ==
  /\ pc[t] = "title"
  /\ Answers(t)
  /\ Go(t, "idle")
  /\ UNCHANGED <<open, shared, session_id, attached_hwnd, g_tlist, selected,
                 hwnd_check_timer, bitmaps>>

Disconnect(t) ==
  \/ LockDisconnect(t) \/ ForgetTable(t) \/ KillTimer(t) \/ UnmarkTable(t)
  \/ UnlockDisconnect(t) \/ CleanUp(t) \/ UpdateTitle(t)

-----------------------------------------------------------------------------
(* CHeartbeatThread::HeartbeatThreadFunction of instance i                 *)

HeartbeatGoes(i, from, to) ==
  /\ pc[Heartbeat(i)] = from
  /\ Go(Heartbeat(i), to)
  /\ UNCHANGED <<open, shared, session_id, attached_hwnd, g_tlist, selected,
                 hwnd_check_timer, bitmaps>>

\* ReloadAllTablemapsIfChanged disconnects if the scraper folder changed.
ReloadTablemaps(i) ==
  /\ "tablemap" \in Events
  /\ HeartbeatGoes(i, "idle", "lock_disconnect")

\* The loop tests IsConnected(), then IsWindow() of the handle once more.
SeeConnected(i) == IsConnected(i) /\ HeartbeatGoes(i, "idle", "verify")

\* ScrapeEvaluateAct: here only that it updates the title of the window.
ScrapeEvaluateAct(i) ==
  /\ IsWindow(attached_hwnd[i])
  /\ Answers(Heartbeat(i))
  /\ HeartbeatGoes(i, "verify", "idle")

\* EngageAutoplayer(false), which sets the toolbar, and Disconnect().
TableDisappeared(i) ==
  /\ ~IsWindow(attached_hwnd[i])
  /\ Answers(Heartbeat(i))
  /\ HeartbeatGoes(i, "verify", "lock_disconnect")

\* Not connected, and nobody failed to connect during the last second.
AutoConnect(i) ==
  /\ ~IsConnected(i)
  /\ ~failed_recently
  /\ HeartbeatGoes(i, "idle", "lock_connect")

LockConnect(i) ==
  /\ pc[Heartbeat(i)] = "lock_connect"
  /\ BeginConnect(Heartbeat(i), Window)

\* Lock(500) gives up while another thread owns the mutex.
LockConnectTimesOut(i) ==
  /\ autoconnector_mutex # Nobody
  /\ HeartbeatGoes(i, "lock_connect", "idle")

HeartbeatLoop(i) ==
  \/ ReloadTablemaps(i) \/ SeeConnected(i) \/ ScrapeEvaluateAct(i)
  \/ TableDisappeared(i) \/ AutoConnect(i) \/ LockConnect(i)
  \/ LockConnectTimesOut(i)

-----------------------------------------------------------------------------
(* The message loop of the GUI thread of instance i                        *)

GuiGoes(i, from, to) ==
  /\ pc[Gui(i)] = from
  /\ Go(Gui(i), to)
  /\ UNCHANGED <<open, shared, session_id, attached_hwnd, g_tlist, selected,
                 hwnd_check_timer, bitmaps>>

\* CMainFrame::OnTimer with HWND_CHECK_TIMER: the table disappeared.
CheckHwnd(i) ==
  /\ hwnd_check_timer[i]
  /\ ~IsWindow(attached_hwnd[i])
  /\ GuiGoes(i, "idle", "lock_disconnect")

\* OnConnectMessage: Connect(w), whatever the instance is attached to.  When
\* the lock cannot be had within 500 ms nothing happens.
OnConnectMessage(i) ==
  /\ "hopper" \in Events
  /\ pc[Gui(i)] = "idle"
  /\ \E w \in Window : BeginConnect(Gui(i), {w})

OnDisconnectMessage(i) ==
  /\ "hopper" \in Events
  /\ GuiGoes(i, "idle", "lock_disconnect")

GuiLoop(i) == CheckHwnd(i) \/ OnConnectMessage(i) \/ OnDisconnectMessage(i)

-----------------------------------------------------------------------------
(* Start, end and death of instance i                                      *)

\* Mutant: the IDs are counted from 1 to MAX_SESSION_IDS.
TakeSessionIdFromOne(i) ==
  LET free == {s \in 1 .. MaxSessionIds : \A j \in Instance : session_id[j] # s} IN
  /\ pc[Gui(i)] = "down"
  /\ \E s \in free :
       /\ \A r \in free : s <= r
       /\ session_id' = [session_id EXCEPT ![i] = s]
  /\ Go(Gui(i), "start")
  /\ UNCHANGED <<open, shared, attached_hwnd, g_tlist, selected, hwnd_check_timer, bitmaps>>

\* CSessionCounter: the first ID whose named mutex did not exist before.  When
\* all are taken the program gives up.
TakeSessionId(i) ==
  LET free == {s \in SessionId : \A j \in Instance : session_id[j] # s} IN
  /\ pc[Gui(i)] = "down"
  /\ \E s \in free :
       /\ \A r \in free : s <= r
       /\ session_id' = [session_id EXCEPT ![i] = s]
  /\ Go(Gui(i), "start")
  /\ UNCHANGED <<open, shared, attached_hwnd, g_tlist, selected, hwnd_check_timer, bitmaps>>

\* Mutant: a new process trusts the slot of its session ID to be empty.
StartUpWithoutReset(i) ==
  /\ pc[Gui(i)] = "start"
  /\ pc' = [pc EXCEPT ![Gui(i)] = "idle", ![Heartbeat(i)] = "idle"]
  /\ UNCHANGED <<open, shared, session_id, attached_hwnd, g_tlist, selected,
                 hwnd_check_timer, bitmaps>>

\* The constructors of CSharedMem and CAutoConnector, then the heartbeat.
StartUp(i) ==
  /\ pc[Gui(i)] = "start"
  /\ MarkPokerWindowAsUnAttached(i)
  /\ pc' = [pc EXCEPT ![Gui(i)] = "idle", ![Heartbeat(i)] = "idle"]
  /\ UNCHANGED <<open, failed_recently, autoconnector_mutex, session_id,
                 attached_hwnd, g_tlist, selected, hwnd_check_timer, bitmaps>>

\* CMainFrame::DestroyWindow: StopThreads() signals the heartbeat and waits.
StopThreads(i) ==
  /\ "exit" \in Events
  /\ GuiGoes(i, "idle", "stopping")

HeartbeatStops(i) ==
  /\ pc[Gui(i)] = "stopping"
  /\ HeartbeatGoes(i, "idle", "down")

\* The heartbeat stopped or the wait timed out.  The destructor of
\* CAutoConnector does not take the mutex; it only releases its own lock.
DeleteAutoConnector(i) ==
  /\ pc[Gui(i)] = "stopping"
  /\ MarkPokerWindowAsUnAttached(i)
  /\ attached_hwnd' = [attached_hwnd EXCEPT ![i] = NoWindow]
  /\ Go(Gui(i), "exit_sharedmem")
  /\ UNCHANGED <<open, failed_recently, autoconnector_mutex, session_id,
                 g_tlist, selected, hwnd_check_timer, bitmaps>>

DeleteSharedMem(i) ==
  /\ pc[Gui(i)] = "exit_sharedmem"
  /\ MarkPokerWindowAsUnAttached(i)
  /\ Go(Gui(i), "exit_session")
  /\ UNCHANGED <<open, failed_recently, autoconnector_mutex, session_id,
                 attached_hwnd, g_tlist, selected, hwnd_check_timer, bitmaps>>

\* The process is gone: Windows closes its handles and abandons its mutexes,
\* which the next waiter then gets.  Nothing cleans its slot; only with the last
\* process does the shared section itself go.
IsLastProcess(i) == \A j \in Instance \ {i} : pc[Gui(j)] = "down"

ProcessEnds(i) ==
  /\ session_id' = [session_id EXCEPT ![i] = NoSession]
  /\ attached_hwnd' = [attached_hwnd EXCEPT ![i] = NoWindow]
  /\ autoconnector_mutex' = IF autoconnector_mutex \in {Heartbeat(i), Gui(i)}
                            THEN Nobody ELSE autoconnector_mutex
  /\ g_tlist' = [g_tlist EXCEPT ![i] = {}]
  /\ selected' = [selected EXCEPT ![i] = NoWindow]
  /\ hwnd_check_timer' = [hwnd_check_timer EXCEPT ![i] = FALSE]
  /\ bitmaps' = [bitmaps EXCEPT ![i] = FALSE]
  /\ pc' = [pc EXCEPT ![Gui(i)] = "down", ![Heartbeat(i)] = "down"]
  /\ \/ ~IsLastProcess(i) /\ UNCHANGED <<attached_poker_windows, failed_recently>>
     \/ /\ IsLastProcess(i)
        /\ attached_poker_windows' = [s \in SessionId |-> NoWindow]
        /\ failed_recently' = FALSE
  /\ UNCHANGED open

DeleteSessionCounter(i) == pc[Gui(i)] = "exit_session" /\ ProcessEnds(i)

Crash(i) ==
  /\ "crash" \in Events
  /\ pc[Gui(i)] # "down"
  /\ ProcessEnds(i)

LifecycleStep(i) ==
  \/ TakeSessionId(i) \/ StartUp(i) \/ StopThreads(i) \/ HeartbeatStops(i)
  \/ DeleteAutoConnector(i) \/ DeleteSharedMem(i) \/ DeleteSessionCounter(i)
  \/ Crash(i)

-----------------------------------------------------------------------------
(* The casino's windows and the clock                                      *)

\* Windows gives the handle of a closed window to a new one, but hardly ever
\* while a process still refers to the closed one ("reuse").
OpenTable(w) ==
  /\ w \notin open
  /\ \/ "reuse" \in Events
     \/ \A i \in Instance : w \notin g_tlist[i] \cup {attached_hwnd[i], selected[i]}
  /\ open' = open \cup {w}
  /\ UNCHANGED <<shared, session_id, attached_hwnd, g_tlist, selected,
                 hwnd_check_timer, bitmaps, pc>>

CloseTable(w) ==
  /\ "close" \in Events
  /\ w \in open
  /\ open' = open \ {w}
  /\ UNCHANGED <<shared, session_id, attached_hwnd, g_tlist, selected,
                 hwnd_check_timer, bitmaps, pc>>

\* More than one second since the last failed attempt.
SecondPasses ==
  /\ failed_recently
  /\ failed_recently' = FALSE
  /\ UNCHANGED <<open, attached_poker_windows, autoconnector_mutex, session_id,
                 attached_hwnd, g_tlist, selected, hwnd_check_timer, bitmaps, pc>>

ThreadStep(t) == Alive(t[1]) /\ (Connect(t) \/ Disconnect(t))

InstanceStep(i) ==
  \/ ThreadStep(Heartbeat(i)) \/ ThreadStep(Gui(i))
  \/ Alive(i) /\ (HeartbeatLoop(i) \/ GuiLoop(i))
  \/ LifecycleStep(i)

Next ==
  \/ \E i \in Instance : InstanceStep(i)
  \/ \E w \in Window : OpenTable(w) \/ CloseTable(w)
  \/ SecondPasses

Spec == Init /\ [][Next]_vars

-----------------------------------------------------------------------------
(* Safety                                                                  *)

\* Instance i is up and none of its threads is inside Connect or Disconnect.
Settled(i) ==
  /\ pc[Gui(i)] \in Outside \cup {"stopping"}
  /\ autoconnector_mutex \notin {Heartbeat(i), Gui(i)}

\* The shared memory tells the truth about every settled instance: its slot
\* holds the window it is attached to, or NULL if it is attached to none.  The
\* other instances, the popup handler and the table positioner rely on it; the
\* slot is written before _attached_hwnd in Connect and after it in Disconnect,
\* by either thread, and without the mutex when a process starts or ends.
SharedMemoryAgrees ==
  \A i \in Instance :
    Settled(i) => attached_poker_windows[session_id[i]] = attached_hwnd[i]

\* No window is marked under two session IDs, whatever became of the processes
\* that marked it.
MarkedOnce ==
  \A s, r \in SessionId :
    attached_poker_windows[s] = attached_poker_windows[r] =>
      s = r \/ attached_poker_windows[s] = NoWindow

\* "Release mutex as soon as possible, after critical work is done"
\* (CAutoConnector.cpp:384): what Disconnect does after that does not touch the
\* connection another thread makes.  A heartbeat that is about to scrape a table
\* has the bitmaps it scrapes into.
ScrapesIntoBitmaps ==
  \A i \in Instance :
    Settled(i) /\ pc[Heartbeat(i)] = "verify" /\ IsConnected(i) => bitmaps[i]

\* The promise of the auto-connector, see TableService.
Service == INSTANCE TableService WITH serving <- attached_hwnd
ServiceSpec == Service!Spec

\* What makes SharedMemoryAgrees, MarkedOnce and ServiceSpec true, in a form
\* that every step preserves.

\* A process holds a session ID while it exists, no two hold the same; a
\* process that is not up, or is past ~CAutoConnector, plays no table.
SessionsDistinct ==
  /\ \A i \in Instance : pc[Gui(i)] = "down" <=> session_id[i] = NoSession
  /\ \A i, j \in Instance :
       session_id[i] = session_id[j] => i = j \/ session_id[i] = NoSession
  /\ \A i \in Instance : pc[Gui(i)] \in {"down", "start"} => pc[Heartbeat(i)] = "down"
  /\ \A i \in Instance : ~Alive(i) => attached_hwnd[i] = NoWindow

\* The mutex protects what it is meant to protect.
MutexProtects == \A t \in Thread : pc[t] \in Critical <=> autoconnector_mutex = t

\* The owner that is going to mark a window chose one nobody has marked.
SelectedUnmarked ==
  /\ \A t \in Thread : pc[t] = "mark" => ~PokerWindowAttached(selected[t[1]])
  /\ \A t \in Thread : pc[t] \in {"mark", "attach"} => selected[t[1]] \in Window

\* The slot of process i, in every state of its threads.
SlotFollows(i) ==
  LET slot == attached_poker_windows[session_id[i]] IN
  /\ \A t \in {Heartbeat(i), Gui(i)} :
       /\ pc[t] = "attach" => slot = selected[i]
       /\ pc[t] \in {"killtimer", "unmark"} => attached_hwnd[i] = NoWindow
  /\ (\A t \in {Heartbeat(i), Gui(i)} : pc[t] \notin {"attach", "killtimer", "unmark"}) =>
       slot = attached_hwnd[i]

Consistent ==
  /\ SessionsDistinct
  /\ MutexProtects
  /\ SelectedUnmarked
  /\ MarkedOnce
  /\ \A i \in Instance : Alive(i) => SlotFollows(i)

\* The inductive invariant.
IInv == TypeOK /\ Consistent

-----------------------------------------------------------------------------
(* Fairness and progress                                                   *)

\* Windows schedules every thread; the mutex goes to its waiters in the order
\* they came; a heartbeat that tries again and again, and waits for 500 ms each
\* time, does not find the mutex taken at every one of its attempts;
\* a program that was asked to end does not stop halfway; seconds pass.  What
\* users, casinos and hoppers do is not fair.
Fairness ==
  /\ \A t \in Thread : /\ WF_vars(ThreadStep(t))
                       /\ SF_vars(Alive(t[1]) /\ LockDisconnect(t))
  /\ \A i \in Instance :
       /\ WF_vars(Alive(i) /\ (SeeConnected(i) \/ ScrapeEvaluateAct(i)
                               \/ TableDisappeared(i) \/ AutoConnect(i)
                               \/ LockConnectTimesOut(i)))
       /\ SF_vars(Alive(i) /\ autoconnector_mutex = Nobody /\ AutoConnect(i))
       /\ SF_vars(Alive(i) /\ LockConnect(i))
       /\ WF_vars(Alive(i) /\ CheckHwnd(i))
       /\ WF_vars(StartUp(i))
       /\ WF_vars(DeleteAutoConnector(i) \/ DeleteSharedMem(i) \/ DeleteSessionCounter(i))
  /\ WF_vars(SecondPasses)

FairSpec == Spec /\ Fairness

Free(i)   == pc[Gui(i)] = "idle" /\ attached_hwnd[i] = NoWindow
Served(w) == \E i \in Instance : attached_hwnd[i] = w

\* Window w is marked under a session ID whose process died: nobody unmarks it
\* before another process takes that session ID.
MarkedByDeadProcess(w) ==
  \E s \in SessionId :
    /\ attached_poker_windows[s] = w
    /\ \A i \in Instance : session_id[i] = s => pc[Gui(i)] = "start"

\* An open table does not wait forever for an instance that is up and has
\* nothing to do, although the instances block each other with the mutex and
\* with the one-second pause after anybody's failure, and although any of them
\* may be ended or die at any step, the owner of the mutex included.  Only a
\* mark that a dead process left behind keeps everybody away.
TableGetsServed ==
  \A w \in Window, i \in Instance :
    (w \in open /\ Free(i)) ~>
      (Served(w) \/ MarkedByDeadProcess(w) \/ w \notin open \/ ~Free(i))

\* "Wait for mutex - "forever" if necessary, as we have to clean up"
\* (CAutoConnector.cpp:354): the GUI thread that noticed the end of its table
\* gets the mutex, cleans up and returns to its message loop.
CleanUpCompletes ==
  \A i \in Instance :
    pc[Gui(i)] = "lock_disconnect" ~> pc[Gui(i)] \in {"idle", "down"}
=============================================================================
