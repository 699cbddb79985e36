------------------------ MODULE AutoConnectorProofs ------------------------
(* Proofs about AutoConnector: IInv is an invariant for any number of     *)
(* processes, windows and session IDs, and so is what follows from it.      *)
EXTENDS AutoConnector, TLAPS

\* A thread is the heartbeat or the GUI thread of one process.
LEMMA ThreadIsOneOfTwo ==
  ASSUME NEW t \in Thread
  PROVE  /\ t[1] \in Instance
         /\ t = Heartbeat(t[1]) \/ t = Gui(t[1])
BY DEF Thread, Heartbeat, Gui

\* The two threads of a process, and those of two processes, are different.
LEMMA ThreadsAreDistinct ==
  ASSUME NEW i \in Instance, NEW j \in Instance
  PROVE  /\ Heartbeat(i) \in Thread /\ Gui(i) \in Thread
         /\ Heartbeat(i)[1] = i /\ Gui(i)[1] = i
         /\ Heartbeat(i)[2] = "heartbeat" /\ Gui(i)[2] = "gui"
         /\ Heartbeat(i) # Gui(j)
         /\ Heartbeat(i) = Heartbeat(j) => i = j
         /\ Gui(i) = Gui(j) => i = j
BY DEF Thread, Heartbeat, Gui

\* The types hold at the beginning.
LEMMA InitTypeOK == Init => TypeOK
BY DEF Init, TypeOK, Lifecycle

\* The mutex is owned by a thread, or by nobody.
LEMMA NobodyIsNoThread == Nobody \notin Thread
BY ConstantsAssumption DEF Thread

\* What Connect() does keeps the types.
LEMMA ConnectTypeOK ==
  ASSUME TypeOK, NEW t \in Thread, Connect(t)
  PROVE  TypeOK'
<1> USE DEF shared
<1>0. t[1] \in Instance
  BY ThreadIsOneOfTwo
<1>1. CASE SelectTableMapAndWindow(t)
  BY <1>0, <1>1 DEF TypeOK, SelectTableMapAndWindow, FailToConnect, Go, Critical, InConnect
<1>2. CASE HandleAllPopups(t)
  BY <1>0, <1>2 DEF TypeOK, HandleAllPopups, Go, Critical, InConnect
<1>3. CASE MarkTable(t)
  BY <1>0, <1>3 DEF TypeOK, MarkTable, MarkPokerWindowAsAttached, Go, Critical, InConnect
<1>4. CASE AttachTable(t)
  BY <1>0, <1>4 DEF TypeOK, AttachTable, Go, Critical, InConnect
<1>5. CASE ResetButtonsOnConnect(t)
  BY <1>0, <1>5 DEF TypeOK, ResetButtonsOnConnect, Go, Critical, InConnect
<1>6. CASE EngageAutoPlayerUponConnection(t)
  BY <1>0, <1>6 DEF TypeOK, EngageAutoPlayerUponConnection, Go, Critical, InConnect
<1>7. CASE UnlockConnect(t)
  BY <1>0, <1>7 DEF TypeOK, UnlockConnect, Go, Outside
<1> QED
  BY <1>1, <1>2, <1>3, <1>4, <1>5, <1>6, <1>7 DEF Connect

\* What Disconnect() does keeps the types.
LEMMA DisconnectTypeOK ==
  ASSUME TypeOK, NEW t \in Thread, Disconnect(t)
  PROVE  TypeOK'
<1> USE DEF shared
<1>0. t[1] \in Instance
  BY ThreadIsOneOfTwo
<1>1. CASE LockDisconnect(t)
  BY <1>1 DEF TypeOK, LockDisconnect, Go, Critical, InDisconnect
<1>2. CASE ForgetTable(t)
  BY <1>0, <1>2 DEF TypeOK, ForgetTable, Go, Critical, InDisconnect
<1>3. CASE KillTimer(t)
  BY <1>0, <1>3 DEF TypeOK, KillTimer, Go, Critical, InDisconnect
<1>4. CASE UnmarkTable(t)
  BY <1>0, <1>4 DEF TypeOK, UnmarkTable, MarkPokerWindowAsUnAttached,
     MarkPokerWindowAsAttached, Go, Critical, InDisconnect
<1>5. CASE UnlockDisconnect(t)
  BY <1>5 DEF TypeOK, UnlockDisconnect, Go, Outside
<1>6. CASE CleanUp(t)
  BY <1>0, <1>6 DEF TypeOK, CleanUp, Go, Outside
<1>7. CASE UpdateTitle(t)
  BY <1>7 DEF TypeOK, UpdateTitle, Go, Outside
<1> QED
  BY <1>1, <1>2, <1>3, <1>4, <1>5, <1>6, <1>7 DEF Disconnect

\* A thread of its own accord takes the mutex to connect.
LEMMA BeginConnectTypeOK ==
  ASSUME TypeOK, NEW t \in Thread, NEW targets, BeginConnect(t, targets)
  PROVE  TypeOK'
<1> t[1] \in Instance
  BY ThreadIsOneOfTwo
<1> QED
  BY DEF TypeOK, BeginConnect, Go, Critical, InConnect

\* The two loops keep the types.
LEMMA LoopsTypeOK ==
  ASSUME TypeOK, NEW i \in Instance, HeartbeatLoop(i) \/ GuiLoop(i)
  PROVE  TypeOK'
<1> USE ThreadsAreDistinct DEF shared
<1>1. CASE LockConnect(i)
  BY <1>1, BeginConnectTypeOK DEF LockConnect
<1>2. CASE OnConnectMessage(i)
  BY <1>2, BeginConnectTypeOK DEF OnConnectMessage
<1>3. ASSUME NEW from, NEW to \in Outside, HeartbeatGoes(i, from, to)
      PROVE  TypeOK'
  BY <1>3 DEF TypeOK, HeartbeatGoes, Go
<1>4. ASSUME NEW from, NEW to \in Outside, GuiGoes(i, from, to)
      PROVE  TypeOK'
  BY <1>4 DEF TypeOK, GuiGoes, Go
<1>5. CASE HeartbeatLoop(i) /\ ~LockConnect(i)
  BY <1>3, <1>5 DEF HeartbeatLoop, ReloadTablemaps, SeeConnected,
     ScrapeEvaluateAct, TableDisappeared, AutoConnect, LockConnectTimesOut, Outside
<1>6. CASE GuiLoop(i) /\ ~OnConnectMessage(i)
  BY <1>4, <1>6 DEF GuiLoop, CheckHwnd, OnDisconnectMessage, Outside
<1> QED
  BY <1>1, <1>2, <1>5, <1>6 DEF GuiLoop

\* Start, end and death keep the types.
LEMMA LifecycleTypeOK ==
  ASSUME TypeOK, NEW i \in Instance, LifecycleStep(i)
  PROVE  TypeOK'
<1> USE ThreadsAreDistinct DEF shared, MarkPokerWindowAsUnAttached,
     MarkPokerWindowAsAttached
<1>1. CASE TakeSessionId(i)
  BY <1>1 DEF TypeOK, TakeSessionId, Go, Lifecycle
<1>2. CASE StartUp(i)
  BY <1>2 DEF TypeOK, StartUp, Outside
<1>3. CASE StopThreads(i)
  BY <1>3 DEF TypeOK, StopThreads, GuiGoes, Go, Lifecycle
<1>4. CASE HeartbeatStops(i)
  BY <1>4 DEF TypeOK, HeartbeatStops, HeartbeatGoes, Go, Lifecycle
<1>5. CASE DeleteAutoConnector(i)
  BY <1>5 DEF TypeOK, DeleteAutoConnector, Go, Lifecycle
<1>6. CASE DeleteSharedMem(i)
  BY <1>6 DEF TypeOK, DeleteSharedMem, Go, Lifecycle
<1>7. CASE ProcessEnds(i)
  <2>1. \/ UNCHANGED <<attached_poker_windows, failed_recently>>
        \/ /\ attached_poker_windows' = [s \in SessionId |-> NoWindow]
           /\ failed_recently' = FALSE
    BY <1>7, Zenon DEF ProcessEnds
  <2>2. attached_poker_windows' \in [SessionId -> Window \cup {NoWindow}]
    BY <2>1 DEF TypeOK
  <2>3. failed_recently' \in BOOLEAN
    BY <2>1 DEF TypeOK
  <2>4. /\ open' = open
        /\ session_id' = [session_id EXCEPT ![i] = NoSession]
        /\ attached_hwnd' = [attached_hwnd EXCEPT ![i] = NoWindow]
        /\ autoconnector_mutex' \in {Nobody, autoconnector_mutex}
        /\ g_tlist' = [g_tlist EXCEPT ![i] = {}]
        /\ selected' = [selected EXCEPT ![i] = NoWindow]
        /\ hwnd_check_timer' = [hwnd_check_timer EXCEPT ![i] = FALSE]
        /\ bitmaps' = [bitmaps EXCEPT ![i] = FALSE]
        /\ pc' = [pc EXCEPT ![Gui(i)] = "down", ![Heartbeat(i)] = "down"]
    BY <1>7 DEF ProcessEnds
  <2> QED
    BY <2>2, <2>3, <2>4 DEF TypeOK, Lifecycle
<1> QED
  BY <1>1, <1>2, <1>3, <1>4, <1>5, <1>6, <1>7 DEF LifecycleStep, DeleteSessionCounter, Crash

\* Every step keeps the types.
LEMMA NextTypeOK == TypeOK /\ [Next]_vars => TypeOK'
<1> SUFFICES ASSUME TypeOK, [Next]_vars
             PROVE  TypeOK'
  OBVIOUS
<1>1. ASSUME NEW i \in Instance, InstanceStep(i)
      PROVE  TypeOK'
  BY <1>1, ThreadsAreDistinct, ConnectTypeOK, DisconnectTypeOK, LoopsTypeOK, LifecycleTypeOK
  DEF InstanceStep, ThreadStep
<1>2. CASE \E w \in Window : OpenTable(w) \/ CloseTable(w)
  BY <1>2 DEF TypeOK, OpenTable, CloseTable, shared
<1>3. CASE SecondPasses
  BY <1>3 DEF TypeOK, SecondPasses
<1>4. CASE UNCHANGED vars
  BY <1>4 DEF TypeOK, vars, shared
<1> QED
  BY <1>1, <1>2, <1>3, <1>4 DEF Next

\* Every variable always has its type, for any number of processes, windows
\* and session IDs.
THEOREM TypeCorrect == Spec => []TypeOK
BY InitTypeOK, NextTypeOK, PTL DEF Spec
-----------------------------------------------------------------------------
(* The inductive invariant.  Steps that write the shared memory, the mutex  *)
(* or the attached window get a lemma each; the others only move a thread.  *)

\* No process is up: nothing is marked, owned or attached.
LEMMA InitConsistent == Init => Consistent
BY NobodyIsNoThread, ThreadsAreDistinct
DEF Init, Consistent, SessionsDistinct, MutexProtects, SelectedUnmarked, MarkedOnce,
    SlotFollows, Alive, Critical, InConnect, InDisconnect, PokerWindowAttached

\* A thread moves, not into or out of a step at which the slot and the attached
\* window of its process differ, and not into or out of the mutex.
LEMMA QuietStepConsistent ==
  ASSUME IInv, NEW t \in Thread, NEW to \in Critical \cup Outside,
         Go(t, to), Alive(t[1]),
         pc[t] \in Critical \cup Outside,
         pc[t] \in Critical <=> to \in Critical,
         pc[t] \notin {"attach", "killtimer", "unmark"},
         to \notin {"mark", "attach", "killtimer", "unmark"},
         UNCHANGED <<attached_poker_windows, autoconnector_mutex, session_id,
                     attached_hwnd, selected>>
  PROVE  Consistent'
<1> USE DEF IInv, Consistent, TypeOK, Go, Outside, Critical, InConnect, InDisconnect
<1>0. t[1] \in Instance /\ (t = Heartbeat(t[1]) \/ t = Gui(t[1]))
  BY ThreadIsOneOfTwo
<1>a. \A j \in Instance : Alive(j)' <=> Alive(j)
  BY <1>0, ThreadsAreDistinct DEF Alive
<1>1. SessionsDistinct'
  BY <1>0, <1>a, ThreadsAreDistinct DEF SessionsDistinct, Alive
<1>2. MutexProtects'
  BY DEF MutexProtects
<1>3. SelectedUnmarked'
  BY <1>0 DEF SelectedUnmarked, PokerWindowAttached
<1>4. MarkedOnce'
  BY DEF MarkedOnce
<1>5. ASSUME NEW i \in Instance, Alive(i)'
      PROVE  SlotFollows(i)'
  BY <1>0, <1>5, <1>a, ThreadsAreDistinct DEF SlotFollows
<1> QED
  BY <1>1, <1>2, <1>3, <1>4, <1>5

\* The owner marks a window that it found unmarked when it chose it.
LEMMA MarkTableConsistent ==
  ASSUME IInv, NEW t \in Thread, Alive(t[1]), MarkTable(t)
  PROVE  Consistent'
<1> USE DEF shared, IInv, Consistent, TypeOK, Go, Critical, InConnect, InDisconnect
<1>0. t[1] \in Instance /\ (t = Heartbeat(t[1]) \/ t = Gui(t[1]))
  BY ThreadIsOneOfTwo
<1>a. \A j \in Instance : Alive(j)' <=> Alive(j)
  BY <1>0, ThreadsAreDistinct DEF MarkTable, MarkPokerWindowAsAttached, Alive
<1>1. SessionsDistinct'
  BY <1>0, <1>a, ThreadsAreDistinct DEF MarkTable, MarkPokerWindowAsAttached,
     SessionsDistinct, Alive
<1>2. MutexProtects'
  BY NobodyIsNoThread DEF MarkTable, MarkPokerWindowAsAttached, MutexProtects
<1>3. SelectedUnmarked'
  BY <1>0 DEF MarkTable, MarkPokerWindowAsAttached, SelectedUnmarked, MutexProtects,
     PokerWindowAttached
<1>4. MarkedOnce'
  BY <1>0, ConstantsAssumption DEF MarkTable, MarkPokerWindowAsAttached, MarkedOnce,
     SelectedUnmarked, PokerWindowAttached
<1>5. ASSUME NEW i \in Instance, Alive(i)'
      PROVE  SlotFollows(i)'
  BY <1>0, <1>5, <1>a, ThreadsAreDistinct
  DEF MarkTable, MarkPokerWindowAsAttached, SlotFollows, SessionsDistinct,
       MutexProtects, Alive
<1> QED
  BY <1>1, <1>2, <1>3, <1>4, <1>5

\* The slot already holds the window that gets attached.
LEMMA AttachTableConsistent ==
  ASSUME IInv, NEW t \in Thread, Alive(t[1]), AttachTable(t)
  PROVE  Consistent'
<1> USE DEF shared, IInv, Consistent, TypeOK, Go, Critical, InConnect, InDisconnect
<1>0. t[1] \in Instance /\ (t = Heartbeat(t[1]) \/ t = Gui(t[1]))
  BY ThreadIsOneOfTwo
<1>a. \A j \in Instance : Alive(j)' <=> Alive(j)
  BY <1>0, ThreadsAreDistinct DEF AttachTable, Alive
<1>1. SessionsDistinct'
  BY <1>0, <1>a, ThreadsAreDistinct DEF AttachTable, SessionsDistinct, Alive
<1>2. MutexProtects'
  BY NobodyIsNoThread DEF AttachTable, MutexProtects
<1>3. SelectedUnmarked'
  BY <1>0 DEF AttachTable, SelectedUnmarked, MutexProtects, PokerWindowAttached
<1>4. MarkedOnce'
  BY <1>0, ConstantsAssumption DEF AttachTable, MarkedOnce, SelectedUnmarked,
     PokerWindowAttached
<1>5. ASSUME NEW i \in Instance, Alive(i)'
      PROVE  SlotFollows(i)'
  BY <1>0, <1>5, <1>a, ThreadsAreDistinct
  DEF AttachTable, SlotFollows, SessionsDistinct, MutexProtects, Alive
<1> QED
  BY <1>1, <1>2, <1>3, <1>4, <1>5

\* Connect() gives the mutex back and keeps the invariant.
LEMMA UnlockConnectConsistent ==
  ASSUME IInv, NEW t \in Thread, Alive(t[1]), UnlockConnect(t)
  PROVE  Consistent'
<1> USE DEF shared, IInv, Consistent, TypeOK, Go, Critical, InConnect, InDisconnect
<1>0. t[1] \in Instance /\ (t = Heartbeat(t[1]) \/ t = Gui(t[1]))
  BY ThreadIsOneOfTwo
<1>a. \A j \in Instance : Alive(j)' <=> Alive(j)
  BY <1>0, ThreadsAreDistinct DEF UnlockConnect, Alive
<1>1. SessionsDistinct'
  BY <1>0, <1>a, ThreadsAreDistinct DEF UnlockConnect, SessionsDistinct, Alive
<1>2. MutexProtects'
  BY NobodyIsNoThread DEF UnlockConnect, MutexProtects
<1>3. SelectedUnmarked'
  BY <1>0 DEF UnlockConnect, SelectedUnmarked, MutexProtects, PokerWindowAttached
<1>4. MarkedOnce'
  BY <1>0, ConstantsAssumption DEF UnlockConnect, MarkedOnce, SelectedUnmarked,
     PokerWindowAttached
<1>5. ASSUME NEW i \in Instance, Alive(i)'
      PROVE  SlotFollows(i)'
  BY <1>0, <1>5, <1>a, ThreadsAreDistinct
  DEF UnlockConnect, SlotFollows, SessionsDistinct, MutexProtects, Alive
<1> QED
  BY <1>1, <1>2, <1>3, <1>4, <1>5

\* The chosen window is unmarked and stays so: nobody else owns the mutex.
LEMMA SelectTableMapAndWindowConsistent ==
  ASSUME IInv, NEW t \in Thread, Alive(t[1]), SelectTableMapAndWindow(t)
  PROVE  Consistent'
<1> USE DEF shared, IInv, Consistent, TypeOK, Go, Critical, InConnect, InDisconnect
<1>0. t[1] \in Instance /\ (t = Heartbeat(t[1]) \/ t = Gui(t[1]))
  BY ThreadIsOneOfTwo
<1>a. \A j \in Instance : Alive(j)' <=> Alive(j)
  BY <1>0, ThreadsAreDistinct DEF SelectTableMapAndWindow, FailToConnect, Alive
<1>1. SessionsDistinct'
  BY <1>0, <1>a, ThreadsAreDistinct DEF SelectTableMapAndWindow, FailToConnect,
     SessionsDistinct, Alive
<1>2. MutexProtects'
  BY NobodyIsNoThread DEF SelectTableMapAndWindow, FailToConnect, MutexProtects
<1>3. SelectedUnmarked'
  BY <1>0 DEF SelectTableMapAndWindow, FailToConnect, SelectedUnmarked, MutexProtects,
     PokerWindowAttached
<1>4. MarkedOnce'
  BY <1>0, ConstantsAssumption DEF SelectTableMapAndWindow, FailToConnect, MarkedOnce,
     SelectedUnmarked, PokerWindowAttached
<1>5. ASSUME NEW i \in Instance, Alive(i)'
      PROVE  SlotFollows(i)'
  BY <1>0, <1>5, <1>a, ThreadsAreDistinct
  DEF SelectTableMapAndWindow, FailToConnect, SlotFollows, SessionsDistinct,
       MutexProtects, Alive
<1> QED
  BY <1>1, <1>2, <1>3, <1>4, <1>5

\* Disconnect() takes the mutex and keeps the invariant.
LEMMA LockDisconnectConsistent ==
  ASSUME IInv, NEW t \in Thread, Alive(t[1]), LockDisconnect(t)
  PROVE  Consistent'
<1> USE DEF shared, IInv, Consistent, TypeOK, Go, Critical, InConnect, InDisconnect
<1>0. t[1] \in Instance /\ (t = Heartbeat(t[1]) \/ t = Gui(t[1]))
  BY ThreadIsOneOfTwo
<1>a. \A j \in Instance : Alive(j)' <=> Alive(j)
  BY <1>0, ThreadsAreDistinct DEF LockDisconnect, Alive
<1>1. SessionsDistinct'
  BY <1>0, <1>a, ThreadsAreDistinct DEF LockDisconnect, SessionsDistinct, Alive
<1>2. MutexProtects'
  BY NobodyIsNoThread DEF LockDisconnect, MutexProtects
<1>3. SelectedUnmarked'
  BY <1>0 DEF LockDisconnect, SelectedUnmarked, MutexProtects, PokerWindowAttached
<1>4. MarkedOnce'
  BY <1>0, ConstantsAssumption DEF LockDisconnect, MarkedOnce, SelectedUnmarked,
     PokerWindowAttached
<1>5. ASSUME NEW i \in Instance, Alive(i)'
      PROVE  SlotFollows(i)'
  BY <1>0, <1>5, <1>a, ThreadsAreDistinct
  DEF LockDisconnect, SlotFollows, SessionsDistinct, MutexProtects, Alive
<1> QED
  BY <1>1, <1>2, <1>3, <1>4, <1>5

\* From here to UnmarkTable the slot still holds the window that was attached.
LEMMA ForgetTableConsistent ==
  ASSUME IInv, NEW t \in Thread, Alive(t[1]), ForgetTable(t)
  PROVE  Consistent'
<1> USE DEF shared, IInv, Consistent, TypeOK, Go, Critical, InConnect, InDisconnect
<1>0. t[1] \in Instance /\ (t = Heartbeat(t[1]) \/ t = Gui(t[1]))
  BY ThreadIsOneOfTwo
<1>a. \A j \in Instance : Alive(j)' <=> Alive(j)
  BY <1>0, ThreadsAreDistinct DEF ForgetTable, Alive
<1>1. SessionsDistinct'
  BY <1>0, <1>a, ThreadsAreDistinct DEF ForgetTable, SessionsDistinct, Alive
<1>2. MutexProtects'
  BY NobodyIsNoThread DEF ForgetTable, MutexProtects
<1>3. SelectedUnmarked'
  BY <1>0 DEF ForgetTable, SelectedUnmarked, MutexProtects, PokerWindowAttached
<1>4. MarkedOnce'
  BY <1>0, ConstantsAssumption DEF ForgetTable, MarkedOnce, SelectedUnmarked,
     PokerWindowAttached
<1>5. ASSUME NEW i \in Instance, Alive(i)'
      PROVE  SlotFollows(i)'
  BY <1>0, <1>5, <1>a, ThreadsAreDistinct
  DEF ForgetTable, SlotFollows, SessionsDistinct, MutexProtects, Alive
<1> QED
  BY <1>1, <1>2, <1>3, <1>4, <1>5

\* Disconnect() kills the timer and keeps the invariant.
LEMMA KillTimerConsistent ==
  ASSUME IInv, NEW t \in Thread, Alive(t[1]), KillTimer(t)
  PROVE  Consistent'
<1> USE DEF shared, IInv, Consistent, TypeOK, Go, Critical, InConnect, InDisconnect
<1>0. t[1] \in Instance /\ (t = Heartbeat(t[1]) \/ t = Gui(t[1]))
  BY ThreadIsOneOfTwo
<1>a. \A j \in Instance : Alive(j)' <=> Alive(j)
  BY <1>0, ThreadsAreDistinct DEF KillTimer, Alive
<1>1. SessionsDistinct'
  BY <1>0, <1>a, ThreadsAreDistinct DEF KillTimer, SessionsDistinct, Alive
<1>2. MutexProtects'
  BY NobodyIsNoThread DEF KillTimer, MutexProtects
<1>3. SelectedUnmarked'
  BY <1>0 DEF KillTimer, SelectedUnmarked, MutexProtects, PokerWindowAttached
<1>4. MarkedOnce'
  BY <1>0, ConstantsAssumption DEF KillTimer, MarkedOnce, SelectedUnmarked,
     PokerWindowAttached
<1>5. ASSUME NEW i \in Instance, Alive(i)'
      PROVE  SlotFollows(i)'
  BY <1>0, <1>5, <1>a, ThreadsAreDistinct
  DEF KillTimer, SlotFollows, SessionsDistinct, MutexProtects, Alive
<1> QED
  BY <1>1, <1>2, <1>3, <1>4, <1>5

\* Disconnect() frees the slot of the instance and keeps the invariant.
LEMMA UnmarkTableConsistent ==
  ASSUME IInv, NEW t \in Thread, Alive(t[1]), UnmarkTable(t)
  PROVE  Consistent'
<1> USE DEF shared, IInv, Consistent, TypeOK, Go, Critical, InConnect, InDisconnect
<1>0. t[1] \in Instance /\ (t = Heartbeat(t[1]) \/ t = Gui(t[1]))
  BY ThreadIsOneOfTwo
<1>a. \A j \in Instance : Alive(j)' <=> Alive(j)
  BY <1>0, ThreadsAreDistinct DEF UnmarkTable, MarkPokerWindowAsUnAttached,
     MarkPokerWindowAsAttached, Alive
<1>1. SessionsDistinct'
  BY <1>0, <1>a, ThreadsAreDistinct DEF UnmarkTable, MarkPokerWindowAsUnAttached,
     MarkPokerWindowAsAttached, SessionsDistinct, Alive
<1>2. MutexProtects'
  BY NobodyIsNoThread DEF UnmarkTable, MarkPokerWindowAsUnAttached,
     MarkPokerWindowAsAttached, MutexProtects
<1>3. SelectedUnmarked'
  BY <1>0 DEF UnmarkTable, MarkPokerWindowAsUnAttached, MarkPokerWindowAsAttached,
     SelectedUnmarked, MutexProtects, PokerWindowAttached
<1>4. MarkedOnce'
  BY <1>0, ConstantsAssumption DEF UnmarkTable, MarkPokerWindowAsUnAttached,
     MarkPokerWindowAsAttached, MarkedOnce, SelectedUnmarked, PokerWindowAttached
<1>5. ASSUME NEW i \in Instance, Alive(i)'
      PROVE  SlotFollows(i)'
  BY <1>0, <1>5, <1>a, ThreadsAreDistinct
  DEF UnmarkTable, MarkPokerWindowAsUnAttached, MarkPokerWindowAsAttached, SlotFollows,
       SessionsDistinct, MutexProtects, Alive
<1> QED
  BY <1>1, <1>2, <1>3, <1>4, <1>5

\* Disconnect() gives the mutex back and keeps the invariant.
LEMMA UnlockDisconnectConsistent ==
  ASSUME IInv, NEW t \in Thread, Alive(t[1]), UnlockDisconnect(t)
  PROVE  Consistent'
<1> USE DEF shared, IInv, Consistent, TypeOK, Go, Critical, InConnect, InDisconnect
<1>0. t[1] \in Instance /\ (t = Heartbeat(t[1]) \/ t = Gui(t[1]))
  BY ThreadIsOneOfTwo
<1>a. \A j \in Instance : Alive(j)' <=> Alive(j)
  BY <1>0, ThreadsAreDistinct DEF UnlockDisconnect, Alive
<1>1. SessionsDistinct'
  BY <1>0, <1>a, ThreadsAreDistinct DEF UnlockDisconnect, SessionsDistinct, Alive
<1>2. MutexProtects'
  BY NobodyIsNoThread DEF UnlockDisconnect, MutexProtects
<1>3. SelectedUnmarked'
  BY <1>0 DEF UnlockDisconnect, SelectedUnmarked, MutexProtects, PokerWindowAttached
<1>4. MarkedOnce'
  BY <1>0, ConstantsAssumption DEF UnlockDisconnect, MarkedOnce, SelectedUnmarked,
     PokerWindowAttached
<1>5. ASSUME NEW i \in Instance, Alive(i)'
      PROVE  SlotFollows(i)'
  BY <1>0, <1>5, <1>a, ThreadsAreDistinct
  DEF UnlockDisconnect, SlotFollows, SessionsDistinct, MutexProtects, Alive
<1> QED
  BY <1>1, <1>2, <1>3, <1>4, <1>5

\* Connect() keeps the invariant.
LEMMA ConnectConsistent ==
  ASSUME IInv, NEW t \in Thread, Alive(t[1]), Connect(t)
  PROVE  Consistent'
<1>1. CASE HandleAllPopups(t) \/ ResetButtonsOnConnect(t) \/ EngageAutoPlayerUponConnection(t)
  BY <1>1, QuietStepConsistent
  DEF HandleAllPopups, ResetButtonsOnConnect, EngageAutoPlayerUponConnection,
      Critical, InConnect, InDisconnect, Outside, shared
<1> QED
  BY <1>1, SelectTableMapAndWindowConsistent, MarkTableConsistent, AttachTableConsistent,
     UnlockConnectConsistent DEF Connect

\* Disconnect() keeps the invariant.
LEMMA DisconnectConsistent ==
  ASSUME IInv, NEW t \in Thread, Alive(t[1]), Disconnect(t)
  PROVE  Consistent'
<1>1. CASE CleanUp(t) \/ UpdateTitle(t)
  BY <1>1, QuietStepConsistent
  DEF CleanUp, UpdateTitle, Critical, InConnect, InDisconnect, Outside, shared
<1> QED
  BY <1>1, LockDisconnectConsistent, ForgetTableConsistent, KillTimerConsistent,
     UnmarkTableConsistent, UnlockDisconnectConsistent DEF Disconnect

\* Connect() starts: the new owner of the mutex is at no special step.
LEMMA BeginConnectConsistent ==
  ASSUME IInv, NEW t \in Thread, NEW targets, Alive(t[1]),
         pc[t] \in Outside, BeginConnect(t, targets)
  PROVE  Consistent'
<1> USE DEF shared, IInv, Consistent, TypeOK, Go, Outside, Critical, InConnect,
     InDisconnect,
        BeginConnect
<1>0. t[1] \in Instance /\ (t = Heartbeat(t[1]) \/ t = Gui(t[1]))
  BY ThreadIsOneOfTwo
<1>a. \A j \in Instance : Alive(j)' <=> Alive(j)
  BY <1>0, ThreadsAreDistinct DEF Alive
<1>1. SessionsDistinct'
  BY <1>0, <1>a, ThreadsAreDistinct DEF SessionsDistinct, Alive
<1>2. MutexProtects'
  BY NobodyIsNoThread DEF MutexProtects
<1>3. SelectedUnmarked'
  BY <1>0 DEF SelectedUnmarked, PokerWindowAttached
<1>4. MarkedOnce'
  BY DEF MarkedOnce
<1>5. ASSUME NEW i \in Instance, Alive(i)'
      PROVE  SlotFollows(i)'
  BY <1>0, <1>5, <1>a, ThreadsAreDistinct DEF SlotFollows
<1> QED
  BY <1>1, <1>2, <1>3, <1>4, <1>5

\* The two message loops only move a thread, or start Connect().
LEMMA LoopsConsistent ==
  ASSUME IInv, NEW i \in Instance, Alive(i), HeartbeatLoop(i) \/ GuiLoop(i)
  PROVE  Consistent'
<1> USE ThreadsAreDistinct
<1>1. CASE LockConnect(i)
  BY <1>1, BeginConnectConsistent DEF LockConnect, Outside
<1>2. CASE OnConnectMessage(i)
  BY <1>2, BeginConnectConsistent DEF OnConnectMessage, Outside
<1>3. ASSUME NEW from \in Outside, NEW to \in Outside, HeartbeatGoes(i, from, to)
      PROVE  Consistent'
  BY <1>3, QuietStepConsistent
  DEF HeartbeatGoes, Outside, Critical, InConnect, InDisconnect, shared
<1>4. ASSUME NEW from \in Outside, NEW to \in Outside, GuiGoes(i, from, to)
      PROVE  Consistent'
  BY <1>4, QuietStepConsistent
  DEF GuiGoes, Outside, Critical, InConnect, InDisconnect, shared
<1>5. CASE HeartbeatLoop(i) /\ ~LockConnect(i)
  BY <1>3, <1>5 DEF HeartbeatLoop, ReloadTablemaps, SeeConnected,
     ScrapeEvaluateAct, TableDisappeared, AutoConnect, LockConnectTimesOut, Outside
<1>6. CASE GuiLoop(i) /\ ~OnConnectMessage(i)
  BY <1>4, <1>6 DEF GuiLoop, CheckHwnd, OnDisconnectMessage, Outside
<1> QED
  BY <1>1, <1>2, <1>5, <1>6 DEF GuiLoop

\* To empty a slot marks no window.
LEMMA UnmarkMarksNothing ==
  ASSUME TypeOK, NEW i \in Instance, MarkPokerWindowAsUnAttached(i),
         NEW w \in Window, PokerWindowAttached(w)'
  PROVE  PokerWindowAttached(w)
BY ConstantsAssumption
DEF TypeOK, MarkPokerWindowAsUnAttached, MarkPokerWindowAsAttached, PokerWindowAttached

\* The new session ID is nobody's.
LEMMA TakeSessionIdConsistent ==
  ASSUME IInv, NEW i \in Instance, TakeSessionId(i)
  PROVE  Consistent'
<1> USE ThreadsAreDistinct
    DEF shared, IInv, Consistent, TypeOK, Go, Critical, InConnect, InDisconnect,
         TakeSessionId
<1>a. \A j \in Instance : Alive(j)' <=> Alive(j)
  BY DEF Alive
<1>1. SessionsDistinct'
  BY <1>a DEF SessionsDistinct, Alive, NoSession, SessionId
<1>2. MutexProtects'
  BY NobodyIsNoThread DEF MutexProtects
<1>3. SelectedUnmarked'
  BY ThreadIsOneOfTwo DEF SelectedUnmarked, PokerWindowAttached
<1>4. MarkedOnce'
  BY DEF MarkedOnce
<1>5. ASSUME NEW j \in Instance, Alive(j)'
      PROVE  SlotFollows(j)'
  BY <1>5, <1>a DEF SlotFollows, SessionsDistinct, Alive
<1> QED
  BY <1>1, <1>2, <1>3, <1>4, <1>5

\* The slot of a new process is emptied before its threads run.
LEMMA StartUpConsistent ==
  ASSUME IInv, NEW i \in Instance, StartUp(i)
  PROVE  Consistent'
<1> USE ThreadsAreDistinct
    DEF shared, IInv, Consistent, TypeOK, Go, Critical, InConnect, InDisconnect,
         StartUp, MarkPokerWindowAsUnAttached, MarkPokerWindowAsAttached
<1>a. \A j \in Instance : Alive(j)' <=> Alive(j) \/ j = i
  BY DEF Alive
<1>1. SessionsDistinct'
  BY <1>a DEF SessionsDistinct, Alive, NoSession, SessionId
<1>2. MutexProtects'
  <2>1. pc[Heartbeat(i)] = "down"
    BY DEF SessionsDistinct
  <2> QED
    BY <2>1 DEF MutexProtects
<1>3. SelectedUnmarked'
  <2>1. ASSUME NEW t \in Thread, pc'[t] \in {"mark", "attach"}
        PROVE  pc[t] = pc'[t] /\ selected' = selected
    BY <2>1
  <2>2. \A w \in Window : PokerWindowAttached(w)' => PokerWindowAttached(w)
    BY UnmarkMarksNothing
  <2> QED
    BY <2>1, <2>2, ThreadIsOneOfTwo DEF SelectedUnmarked
<1>4. MarkedOnce'
  BY DEF MarkedOnce
<1>5. ASSUME NEW j \in Instance, Alive(j)'
      PROVE  SlotFollows(j)'
  BY <1>5, <1>a DEF SlotFollows, SessionsDistinct, Alive
<1> QED
  BY <1>1, <1>2, <1>3, <1>4, <1>5

\* The GUI thread leaves its message loop.
LEMMA StopThreadsConsistent ==
  ASSUME IInv, NEW i \in Instance, StopThreads(i)
  PROVE  Consistent'
<1> USE ThreadsAreDistinct
    DEF shared, IInv, Consistent, TypeOK, Go, Critical, InConnect, InDisconnect,
         StopThreads, GuiGoes
<1>a. \A j \in Instance : Alive(j)' <=> Alive(j)
  BY DEF Alive
<1>1. SessionsDistinct'
  BY <1>a DEF SessionsDistinct, Alive, NoSession, SessionId
<1>2. MutexProtects'
  BY NobodyIsNoThread DEF MutexProtects
<1>3. SelectedUnmarked'
  BY ThreadIsOneOfTwo DEF SelectedUnmarked, PokerWindowAttached
<1>4. MarkedOnce'
  BY DEF MarkedOnce
<1>5. ASSUME NEW j \in Instance, Alive(j)'
      PROVE  SlotFollows(j)'
  BY <1>5, <1>a DEF SlotFollows, SessionsDistinct, Alive
<1> QED
  BY <1>1, <1>2, <1>3, <1>4, <1>5

\* The heartbeat ends without the mutex.
LEMMA HeartbeatStopsConsistent ==
  ASSUME IInv, NEW i \in Instance, HeartbeatStops(i)
  PROVE  Consistent'
<1> USE ThreadsAreDistinct
    DEF shared, IInv, Consistent, TypeOK, Go, Critical, InConnect, InDisconnect,
         HeartbeatStops, HeartbeatGoes
<1>a. \A j \in Instance : Alive(j)' <=> Alive(j)
  BY DEF Alive
<1>1. SessionsDistinct'
  BY <1>a DEF SessionsDistinct, Alive, NoSession, SessionId
<1>2. MutexProtects'
  BY NobodyIsNoThread DEF MutexProtects
<1>3. SelectedUnmarked'
  BY ThreadIsOneOfTwo DEF SelectedUnmarked, PokerWindowAttached
<1>4. MarkedOnce'
  BY DEF MarkedOnce
<1>5. ASSUME NEW j \in Instance, Alive(j)'
      PROVE  SlotFollows(j)'
  BY <1>5, <1>a DEF SlotFollows, SessionsDistinct, Alive
<1> QED
  BY <1>1, <1>2, <1>3, <1>4, <1>5

\* The slot is emptied without the mutex; the process plays no more.
LEMMA DeleteAutoConnectorConsistent ==
  ASSUME IInv, NEW i \in Instance, DeleteAutoConnector(i)
  PROVE  Consistent'
<1> USE ThreadsAreDistinct
    DEF shared, IInv, Consistent, TypeOK, Go, Critical, InConnect, InDisconnect,
         DeleteAutoConnector, MarkPokerWindowAsUnAttached, MarkPokerWindowAsAttached
<1>a. \A j \in Instance : Alive(j)' <=> Alive(j) /\ j # i
  BY DEF Alive
<1>1. SessionsDistinct'
  BY <1>a DEF SessionsDistinct, Alive, NoSession, SessionId
<1>2. MutexProtects'
  BY NobodyIsNoThread DEF MutexProtects
<1>3. SelectedUnmarked'
  <2>1. ASSUME NEW t \in Thread, pc'[t] \in {"mark", "attach"}
        PROVE  pc[t] = pc'[t] /\ selected' = selected
    BY <2>1
  <2>2. \A w \in Window : PokerWindowAttached(w)' => PokerWindowAttached(w)
    BY UnmarkMarksNothing
  <2> QED
    BY <2>1, <2>2, ThreadIsOneOfTwo DEF SelectedUnmarked
<1>4. MarkedOnce'
  BY DEF MarkedOnce
<1>5. ASSUME NEW j \in Instance, Alive(j)'
      PROVE  SlotFollows(j)'
  BY <1>5, <1>a DEF SlotFollows, SessionsDistinct, Alive
<1> QED
  BY <1>1, <1>2, <1>3, <1>4, <1>5

\* The slot is emptied once more.
LEMMA DeleteSharedMemConsistent ==
  ASSUME IInv, NEW i \in Instance, DeleteSharedMem(i)
  PROVE  Consistent'
<1> USE ThreadsAreDistinct
    DEF shared, IInv, Consistent, TypeOK, Go, Critical, InConnect, InDisconnect,
         DeleteSharedMem, MarkPokerWindowAsUnAttached, MarkPokerWindowAsAttached
<1>a. \A j \in Instance : Alive(j)' <=> Alive(j)
  BY DEF Alive
<1>1. SessionsDistinct'
  BY <1>a DEF SessionsDistinct, Alive, NoSession, SessionId
<1>2. MutexProtects'
  BY NobodyIsNoThread DEF MutexProtects
<1>3. SelectedUnmarked'
  <2>1. ASSUME NEW t \in Thread, pc'[t] \in {"mark", "attach"}
        PROVE  pc[t] = pc'[t] /\ selected' = selected
    BY <2>1
  <2>2. \A w \in Window : PokerWindowAttached(w)' => PokerWindowAttached(w)
    BY UnmarkMarksNothing
  <2> QED
    BY <2>1, <2>2, ThreadIsOneOfTwo DEF SelectedUnmarked
<1>4. MarkedOnce'
  BY DEF MarkedOnce
<1>5. ASSUME NEW j \in Instance, Alive(j)'
      PROVE  SlotFollows(j)'
  BY <1>5, <1>a DEF SlotFollows, SessionsDistinct, Alive
<1> QED
  BY <1>1, <1>2, <1>3, <1>4, <1>5

\* A dead process leaves its slot behind, unless it was the last process.
LEMMA ProcessEndsConsistent ==
  ASSUME IInv, NEW i \in Instance, pc[Gui(i)] # "down", ProcessEnds(i)
  PROVE  Consistent'
<1> USE ThreadsAreDistinct
    DEF shared, IInv, Consistent, TypeOK, Go, Critical, InConnect, InDisconnect, ProcessEnds
<1>a. \A j \in Instance : Alive(j)' <=> Alive(j) /\ j # i
  BY DEF Alive
<1>b. \/ attached_poker_windows' = attached_poker_windows
      \/ /\ attached_poker_windows' = [s \in SessionId |-> NoWindow]
         /\ \A j \in Instance \ {i} : pc[Gui(j)] = "down"
  BY DEF IsLastProcess
<1>1. SessionsDistinct'
  BY <1>a DEF SessionsDistinct, Alive, NoSession, SessionId
<1>2. MutexProtects'
  BY NobodyIsNoThread DEF MutexProtects
<1>3. SelectedUnmarked'
  <2>1. ASSUME NEW t \in Thread, pc'[t] \in {"mark", "attach"}
        PROVE  pc[t] = pc'[t] /\ selected'[t[1]] = selected[t[1]] /\ t[1] \in Instance \ {i}
    BY <2>1, ThreadIsOneOfTwo
  <2>2. \A w \in Window : PokerWindowAttached(w)' => PokerWindowAttached(w)
    BY <1>b, ConstantsAssumption DEF PokerWindowAttached, ConstantsAssumption
  <2> QED
    BY <2>1, <2>2 DEF SelectedUnmarked
<1>4. MarkedOnce'
  BY <1>b DEF MarkedOnce
<1>5. ASSUME NEW j \in Instance, Alive(j)'
      PROVE  SlotFollows(j)'
  <2>1. pc[Gui(j)] # "down" /\ j # i
    BY <1>5, <1>a DEF Alive
  <2>2. attached_poker_windows' = attached_poker_windows
    BY <2>1, <1>b
  <2> QED
    BY <1>5, <1>a, <2>1, <2>2 DEF SlotFollows, SessionsDistinct, Alive
<1> QED
  BY <1>1, <1>2, <1>3, <1>4, <1>5

\* Every step keeps the invariant.
LEMMA NextConsistent ==
  ASSUME IInv, [Next]_vars
  PROVE  Consistent'
<1>1. ASSUME NEW i \in Instance, LifecycleStep(i)
      PROVE  Consistent'
  <2>1. CASE DeleteSessionCounter(i) \/ Crash(i)
    BY <2>1, ProcessEndsConsistent DEF DeleteSessionCounter, Crash
  <2> QED
    BY <1>1, <2>1, TakeSessionIdConsistent, StartUpConsistent, StopThreadsConsistent,
       HeartbeatStopsConsistent, DeleteAutoConnectorConsistent, DeleteSharedMemConsistent
    DEF LifecycleStep
<1>2. ASSUME NEW i \in Instance, InstanceStep(i)
      PROVE  Consistent'
  BY <1>1, <1>2, ThreadsAreDistinct, ConnectConsistent, DisconnectConsistent,
     LoopsConsistent
  DEF InstanceStep, ThreadStep
<1>3. CASE UNCHANGED <<attached_poker_windows, autoconnector_mutex, session_id,
                       attached_hwnd, selected, pc>>
  BY <1>3 DEF IInv, Consistent, SessionsDistinct, MutexProtects, SelectedUnmarked,
     MarkedOnce, SlotFollows, Alive, PokerWindowAttached
<1> QED
  BY <1>2, <1>3 DEF Next, OpenTable, CloseTable, SecondPasses, vars, shared

\* The inductive invariant holds, for any number of processes, windows and
\* session IDs.
THEOREM InductiveInvariant == Spec => []IInv
<1>1. Init => IInv
  BY InitTypeOK, InitConsistent DEF IInv
<1>2. IInv /\ [Next]_vars => IInv'
  BY NextTypeOK, NextConsistent DEF IInv
<1> QED
  BY <1>1, <1>2, PTL DEF Spec

\* No window is ever marked under two session IDs.
THEOREM WindowsMarkedOnce == Spec => []MarkedOnce
<1>1. IInv => MarkedOnce
  BY DEF IInv, Consistent
<1> QED
  BY <1>1, InductiveInvariant, PTL

\* The shared memory tells the truth about every settled process.
THEOREM SharedMemoryTellsTheTruth == Spec => []SharedMemoryAgrees
<1>1. ASSUME IInv, NEW i \in Instance, Settled(i)
      PROVE  attached_poker_windows[session_id[i]] = attached_hwnd[i]
  <2>1. Alive(i)
    BY <1>1 DEF Settled, Alive, Outside
  <2>2. pc[Heartbeat(i)] \notin Critical /\ pc[Gui(i)] \notin Critical
    BY <1>1, ThreadsAreDistinct DEF Settled, IInv, Consistent, MutexProtects
  <2> QED
    BY <1>1, <2>1, <2>2 DEF IInv, Consistent, SlotFollows, Critical, InConnect, InDisconnect
<1>2. IInv => SharedMemoryAgrees
  BY <1>1 DEF SharedMemoryAgrees
<1> QED
  BY <1>2, InductiveInvariant, PTL

-----------------------------------------------------------------------------
(* AutoConnector implements TableService.                                  *)

\* The window that gets attached is attached to no other process: the slots
\* of the others hold what they are attached to, because none of their threads
\* owns the mutex, and the slot of the process itself holds the new window.
LEMMA AttachTableServes ==
  ASSUME IInv, NEW t \in Thread, Alive(t[1]), AttachTable(t)
  PROVE  [Service!Next]_attached_hwnd
<1> USE DEF IInv, TypeOK
<1> DEFINE i == t[1]
           w == selected[i]
<1>0. i \in Instance /\ (t = Heartbeat(i) \/ t = Gui(i))
  BY ThreadIsOneOfTwo
<1>1. pc[t] = "attach" /\ attached_hwnd' = [attached_hwnd EXCEPT ![i] = w]
  BY DEF AttachTable
<1>2. w \in Window
  BY <1>1 DEF Consistent, SelectedUnmarked
<1>3. attached_poker_windows[session_id[i]] = w
  BY <1>0, <1>1 DEF Consistent, SlotFollows
<1>4. ASSUME NEW j \in Instance, j # i, attached_hwnd[j] = w
      PROVE  FALSE
  <2>1. Alive(j)
    BY <1>2, <1>4, ConstantsAssumption DEF Consistent, SessionsDistinct
  <2>2. pc[Heartbeat(j)] \notin Critical /\ pc[Gui(j)] \notin Critical
    BY <1>0, <1>1, <1>4, ThreadsAreDistinct
    DEF Consistent, MutexProtects, Critical, InConnect
  <2>3. attached_poker_windows[session_id[j]] = w
    BY <1>4, <2>1, <2>2 DEF Consistent, SlotFollows, Critical, InConnect, InDisconnect
  <2>4. session_id[i] \in SessionId /\ session_id[j] \in SessionId /\ session_id[i] # session_id[j]
    BY <1>0, <1>4, <2>1 DEF Consistent, SessionsDistinct, Alive
  <2> QED
    BY <1>2, <1>3, <2>3, <2>4, ConstantsAssumption DEF Consistent, MarkedOnce
<1>5. CASE attached_hwnd[i] = w
  BY <1>0, <1>1, <1>5
<1>6. CASE attached_hwnd[i] # w
  BY <1>0, <1>1, <1>2, <1>4, <1>6 DEF Service!Next, Service!Serve
<1> QED
  BY <1>5, <1>6

\* A process that forgets its table, exits or dies leaves the table.
LEMMA ForgettingLeaves ==
  ASSUME TypeOK, NEW i \in Instance,
         attached_hwnd' = [attached_hwnd EXCEPT ![i] = NoWindow]
  PROVE  [Service!Next]_attached_hwnd
<1>1. CASE attached_hwnd[i] = NoWindow
  BY <1>1 DEF TypeOK
<1>2. CASE attached_hwnd[i] # NoWindow
  BY <1>2 DEF Service!Next, Service!Leave
<1> QED
  BY <1>1, <1>2

\* The detailed specification implements the abstract one: a poker table is
\* played by at most one process, whatever the threads, the casino and the
\* crashes do.
THEOREM ImplementsService == Spec => ServiceSpec
<1>1. Init => Service!Init
  BY DEF Init, Service!Init
<1>2. ASSUME IInv, [Next]_vars
      PROVE  [Service!Next]_attached_hwnd
  <2> TypeOK
    BY <1>2 DEF IInv
  <2>1. ASSUME NEW t \in Thread, ThreadStep(t)
        PROVE  [Service!Next]_attached_hwnd
    <3>1. CASE AttachTable(t)
      BY <1>2, <2>1, <3>1, AttachTableServes DEF ThreadStep
    <3>2. CASE ForgetTable(t)
      BY <3>2, ForgettingLeaves, ThreadIsOneOfTwo DEF ForgetTable
    <3>3. CASE UNCHANGED attached_hwnd
      BY <3>3
    <3> QED
      BY <2>1, <3>1, <3>2, <3>3
      DEF ThreadStep, Connect, Disconnect, SelectTableMapAndWindow, HandleAllPopups,
           MarkTable,
          ResetButtonsOnConnect, EngageAutoPlayerUponConnection, UnlockConnect,
               LockDisconnect,
          KillTimer, UnmarkTable, UnlockDisconnect, CleanUp, UpdateTitle
  <2>2. ASSUME NEW i \in Instance, HeartbeatLoop(i) \/ GuiLoop(i)
        PROVE  UNCHANGED attached_hwnd
    BY <2>2 DEF HeartbeatLoop, GuiLoop, ReloadTablemaps, SeeConnected, ScrapeEvaluateAct,
       TableDisappeared, AutoConnect, LockConnect, LockConnectTimesOut, CheckHwnd,
       OnConnectMessage, OnDisconnectMessage, BeginConnect, HeartbeatGoes, GuiGoes
  <2>3. ASSUME NEW i \in Instance, LifecycleStep(i)
        PROVE  [Service!Next]_attached_hwnd
    <3>1. CASE DeleteAutoConnector(i) \/ DeleteSessionCounter(i) \/ Crash(i)
      BY <3>1, ForgettingLeaves DEF DeleteAutoConnector, DeleteSessionCounter, Crash,
         ProcessEnds
    <3> QED
      BY <2>3, <3>1 DEF LifecycleStep, TakeSessionId, StartUp, StopThreads, HeartbeatStops,
         DeleteSharedMem, HeartbeatGoes, GuiGoes
  <2>4. ASSUME NEW i \in Instance, InstanceStep(i)
        PROVE  [Service!Next]_attached_hwnd
    BY <2>1, <2>2, <2>3, <2>4, ThreadsAreDistinct DEF InstanceStep
  <2> QED
    BY <1>2, <2>4 DEF Next, OpenTable, CloseTable, SecondPasses, vars, shared
<1>3. QED
  BY <1>1, <1>2, InductiveInvariant, PTL DEF Spec, ServiceSpec, Service!Spec
=============================================================================
