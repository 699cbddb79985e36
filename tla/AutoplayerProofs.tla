-------------------------- MODULE AutoplayerProofs --------------------------
(* Proofs about Autoplayer: IInv is an invariant, and with it what the     *)
(* module promises about clicks, for any number of instances and views,    *)
(* any frame delay and any delays that the formulas of the bot ask for.    *)
EXTENDS Autoplayer, TLAPS

\* A capped count is a count, it does not shrink and it respects the bound.
LEMMA CappedCount ==
  ASSUME NEW n \in Nat, NEW bound \in Nat
  PROVE  /\ Capped(n, bound) \in 0 .. bound
         /\ n <= bound => Capped(n, bound) = n
         /\ Capped(n, bound) <= n
BY DEF Capped

\* The types hold at the beginning.
LEMMA InitTypeOK == Init => TypeOK
BY ConstantsAssumption
DEF ConstantsAssumption, Init, TypeOK, Steps, Acting, Calculation, Secondary

\* The counter keeps its types.
LEMMA UpdateTypeOK ==
  ASSUME TypeOK, NEW i \in Instance, UpdateNumberOfStableFrames(i)
  PROVE  /\ saved' \in [Instance -> Table \cup {NoTable}]
         /\ is_reset' \in [Instance -> BOOLEAN]
         /\ stable_frames' \in [Instance -> 0 .. MaxStable]
<1>1. 0 \in 0 .. MaxStable /\ MaxStable \in Nat
  BY ConstantsAssumption DEF ConstantsAssumption
<1>2. /\ saved \in [Instance -> Table \cup {NoTable}]
      /\ is_reset \in [Instance -> BOOLEAN]
      /\ stable_frames \in [Instance -> 0 .. MaxStable]
      /\ table[i] \in Table \cup {NoTable}
  BY DEF TypeOK
<1>3. Capped(stable_frames[i] + 1, MaxStable) \in 0 .. MaxStable
  BY <1>1, <1>2, CappedCount
<1>4. saved' = [saved EXCEPT ![i] = table[i]] \/ saved' = saved
  BY DEF UpdateNumberOfStableFrames
<1>5. \E b \in BOOLEAN : is_reset' = [is_reset EXCEPT ![i] = b] \/ is_reset' = is_reset
  BY DEF UpdateNumberOfStableFrames
<1>6. \E n \in 0 .. MaxStable : stable_frames' = [stable_frames EXCEPT ![i] = n]
  BY <1>1, <1>3 DEF UpdateNumberOfStableFrames
<1> QED
  BY <1>2, <1>4, <1>5, <1>6

\* The steps of an evaluation keep the types, whichever thread takes them.
LEMMA CalculateTypeOK ==
  ASSUME TypeOK, NEW i \in Instance, NEW step, CalculateFinalAnswer(i, step)
  PROVE  /\ saved' \in [Instance -> Table \cup {NoTable}]
         /\ is_reset' \in [Instance -> BOOLEAN]
         /\ stable_frames' \in [Instance -> 0 .. MaxStable]
         /\ isfinalanswer' \in [Instance -> BOOLEAN]
<1>1. CASE CheckFactors(i)
  BY <1>1 DEF TypeOK, CheckFactors
<1>2. CASE UpdateIfFinal(i)
  <2>1. isfinalanswer' \in [Instance -> BOOLEAN]
    BY <1>2 DEF TypeOK, UpdateIfFinal
  <2>2. CASE UpdateNumberOfStableFrames(i)
    BY <2>1, <2>2, UpdateTypeOK
  <2>3. CASE UNCHANGED <<saved, is_reset, stable_frames>>
    BY <2>1, <2>3 DEF TypeOK
  <2> QED
    BY <1>2, <2>2, <2>3 DEF UpdateIfFinal
<1>3. CASE CompareFrames(i)
  BY <1>3 DEF TypeOK, CompareFrames
<1> QED
  BY <1>1, <1>2, <1>3 DEF CalculateFinalAnswer

\* What the observer remembers has its types.
LEMMA WatchTypeOK ==
  ASSUME TypeOK, NEW i \in Instance, Watch(i)
  PROVE  /\ seen' \in [Instance -> [view  : Table \cup {NoTable},
                                    times : 0 .. (MaxStable + 1)]]
         /\ flagged' \in [Instance -> BOOLEAN]
<1> USE ConstantsAssumption DEF ConstantsAssumption
<1>1. seen[i].times + 1 \in Nat /\ MaxStable + 1 \in Nat /\ 1 \in 0 .. (MaxStable + 1)
  BY DEF TypeOK
<1>2. Capped(seen[i].times + 1, MaxStable + 1) \in 0 .. (MaxStable + 1)
  BY <1>1, CappedCount
<1>3. \E n \in 0 .. (MaxStable + 1) :
        seen' = [seen EXCEPT ![i] = [view |-> table[i], times |-> n]]
  BY <1>1, <1>2 DEF Watch
<1>4. table[i] \in Table \cup {NoTable}
  BY DEF TypeOK
<1>5. seen \in [Instance -> [view  : Table \cup {NoTable},
                             times : 0 .. (MaxStable + 1)]]
  BY DEF TypeOK
<1>6. flagged' \in [Instance -> BOOLEAN]
  BY DEF TypeOK, Watch
<1> QED
  BY <1>3, <1>4, <1>5, <1>6

\* The heartbeat's scrape and evaluation keep the types.
LEMMA HeartbeatTypeOK ==
  ASSUME TypeOK, NEW i \in Instance,
         Scrape(i) \/ EvaluateInHeartbeat(i) \/ CalculateInHeartbeat(i)
  PROVE  TypeOK'
<1> USE DEF Go, Steps, Calculation, history
<1>1. CASE Scrape(i)
  <2>1. heartbeat_counter' \in [Instance -> 0 .. (HeartbeatsToPause - 1)]
    BY <1>1, ConstantsAssumption DEF ConstantsAssumption, TypeOK, Scrape, CountHeartbeat
  <2>2. table' \in [Instance -> Table \cup {NoTable}]
    BY <1>1 DEF TypeOK, Scrape
  <2>3. popup' \in [Instance -> BOOLEAN] /\ pc' \in [Instance -> Steps]
    BY <1>1 DEF TypeOK, Scrape
  <2> QED
    BY <1>1, <2>1, <2>2, <2>3 DEF TypeOK, Scrape
<1>2. CASE EvaluateInHeartbeat(i)
  BY <1>2 DEF TypeOK, EvaluateInHeartbeat, EvaluateAll
<1>3. CASE CalculateInHeartbeat(i)
  <2>1. pc' \in [Instance -> Steps]
    BY <1>3 DEF TypeOK, CalculateInHeartbeat, AfterStep
  <2>2. /\ seen' \in [Instance -> [view  : Table \cup {NoTable},
                                   times : 0 .. (MaxStable + 1)]]
        /\ flagged' \in [Instance -> BOOLEAN]
    <3>1. CASE Watch(i)
      BY <3>1, WatchTypeOK
    <3>2. CASE UNCHANGED history
      BY <3>2 DEF TypeOK
    <3> QED
      BY <1>3, <3>1, <3>2 DEF CalculateInHeartbeat
  <2> QED
    BY <1>3, <2>1, <2>2, CalculateTypeOK DEF TypeOK, CalculateInHeartbeat
<1> QED
  BY <1>1, <1>2, <1>3

\* The steps of the GUI thread keep the types.
LEMMA GUITypeOK ==
  ASSUME TypeOK, NEW i \in Instance, GUIThread(i)
  PROVE  TypeOK'
<1>1. CASE OnAutoplayer(i)
  BY <1>1 DEF TypeOK, OnAutoplayer, perceived, history
<1>2. CASE OnClickedFlags(i)
  BY <1>2 DEF TypeOK, OnClickedFlags, EvaluateAll, Calculation
<1>3. CASE CalculateInGUI(i)
  <2>1. gui' \in [Instance -> Calculation \cup {"loop"}]
    BY <1>3 DEF TypeOK, CalculateInGUI, AfterStep, Calculation
  <2> QED
    BY <1>3, <2>1, CalculateTypeOK DEF TypeOK, CalculateInGUI, history
<1> QED
  BY <1>1, <1>2, <1>3 DEF GUIThread

\* The end of an action sequence keeps the types.
LEMMA FinishTypeOK ==
  ASSUME TypeOK, NEW i \in Instance, FinishActionSequenceIfNecessary(i)
  PROVE  /\ needs_finish' \in [Instance -> BOOLEAN]
         /\ is_reset' \in [Instance -> BOOLEAN]
         /\ stable_frames' \in [Instance -> 0 .. MaxStable]
<1>1. 0 \in 0 .. MaxStable
  BY ConstantsAssumption DEF ConstantsAssumption
<1>2. CASE ResetStableFrames(i)
  BY <1>1, <1>2 DEF TypeOK, FinishActionSequenceIfNecessary, ResetStableFrames
<1>3. CASE UNCHANGED <<is_reset, stable_frames>>
  BY <1>3 DEF TypeOK, FinishActionSequenceIfNecessary
<1> QED
  BY <1>2, <1>3 DEF FinishActionSequenceIfNecessary

\* The steps of the autoplayer keep the types.
LEMMA DoAutoplayerTypeOK ==
  ASSUME TypeOK, NEW i \in Instance, DoAutoplayer(i)
  PROVE  TypeOK'
<1> USE ConstantsAssumption DEF ConstantsAssumption, TypeOK, perceived, history, Go,
        Steps, Acting
<1>1. CASE LookForPopup(i)
  BY <1>1 DEF LookForPopup
<1>2. CASE LockForI86(i)
  BY <1>2 DEF LockForI86, Lock
<1>3. CASE ClickI86Button(i)
  BY <1>3 DEF ClickI86Button, ForgetViews
<1>4. ASSUME NEW from, NEW to \in Steps, LockTimesOut(i, from, to)
      PROVE  TypeOK'
  BY <1>4 DEF LockTimesOut
<1>5. CASE HandleSecondaryFormulas(i)
  BY <1>5 DEF HandleSecondaryFormulas
<1>6. CASE LockForSecondary(i)
  BY <1>6 DEF LockForSecondary, Lock, PrepareActionSequence
<1>7. CASE ExecuteSecondaryFormulas(i)
  <2>1. CASE FinishActionSequenceIfNecessary(i)
    <3>1. executed_secondary' \in [Instance -> Secondary]
      BY <1>7 DEF ExecuteSecondaryFormulas
    <3> QED
      BY <1>7, <2>1, <3>1, FinishTypeOK DEF ExecuteSecondaryFormulas
  <2>2. CASE UNCHANGED <<executed_secondary, needs_finish, is_reset, stable_frames>>
    BY <1>7, <2>2 DEF ExecuteSecondaryFormulas
  <2> QED
    BY <1>7, <2>1, <2>2 DEF ExecuteSecondaryFormulas
<1>8. CASE HandlePrimaryFormulas(i)
  BY <1>8 DEF HandlePrimaryFormulas
<1>9. CASE LockForPrimary(i)
  BY <1>9 DEF LockForPrimary, Lock, PrepareActionSequence
<1>10. CASE ExecutePrimaryFormulas(i)
  BY <1>10 DEF ExecutePrimaryFormulas, ForgetViews
<1>11. CASE Finish(i)
  BY <1>11, FinishTypeOK DEF Finish, Secondary
<1> QED
  BY <1>1, <1>2, <1>3, <1>4, <1>5, <1>6, <1>7, <1>8, <1>9, <1>10, <1>11 DEF DoAutoplayer

\* Every step keeps the types.
LEMMA NextTypeOK == TypeOK /\ [Next]_vars => TypeOK'
<1> SUFFICES ASSUME TypeOK, [Next]_vars PROVE TypeOK'
  OBVIOUS
<1>1. CASE UNCHANGED vars
  BY <1>1 DEF TypeOK, vars, perceived, history
<1>2. ASSUME NEW i \in Instance, CallAutoplayer(i) \/ SkipAutoplayer(i)
      PROVE  TypeOK'
  BY <1>2 DEF TypeOK, CallAutoplayer, SkipAutoplayer, perceived, history, Go, Steps
<1>3. ASSUME NEW i \in Instance, Reconnect(i) PROVE TypeOK'
  <2>1. /\ engaged' \in [Instance -> BOOLEAN]
        /\ heartbeat_counter' \in [Instance -> 0 .. (HeartbeatsToPause - 1)]
    BY <1>3 DEF TypeOK, Reconnect
  <2> QED
    BY <1>3, <2>1 DEF TypeOK, Reconnect, history
<1> QED
  BY <1>1, <1>2, <1>3, HeartbeatTypeOK, DoAutoplayerTypeOK, GUITypeOK DEF Next, Heartbeat

\* All variables keep their types (CAutoplayer, CStableFramesCounter), for any
\* constants.
THEOREM TypeCorrect == Spec => []TypeOK
<1>1. Init => TypeOK
  BY InitTypeOK
<1>2. TypeOK /\ [Next]_vars => TypeOK'
  BY NextTypeOK
<1> QED
  BY <1>1, <1>2, PTL DEF Spec

-----------------------------------------------------------------------------
(* The inductive invariant                                                 *)

\* Consistent is a statement about every instance on its own: about its mutex and
\* its action sequence, ...
SequenceConsistent(i) ==
  /\ pc[i] \in Acting <=> mouse_mutex = i
  /\ needs_finish[i] => pc[i] \in {"act_secondary", "primary", "lock_primary",
                                   "act_primary", "finish"}
  /\ pc[i] = "act_primary" => needs_finish[i]
  /\ gui[i] # "loop" => flagged[i]

\* ... and about its counter and its final answer, if no flag was clicked.
CountConsistent(i) ==
  /\ \/ is_reset[i]
     \/ pc[i] = "finish" /\ needs_finish[i]
     \/ seen[i].view = saved[i] /\ stable_frames[i] < seen[i].times
  /\ isfinalanswer[i] /\ pc[i] \notin {"sleep", "evaluate", "check", "finish"} =>
       table[i] \in MyTurn
  /\ isfinalanswer[i] /\ pc[i] = "compare" =>
       seen[i].view = table[i] /\ stable_frames[i] < seen[i].times
  /\ isfinalanswer[i] /\ pc[i] \notin Calculation \cup {"sleep", "evaluate", "finish"} =>
       seen[i].view = table[i] /\ seen[i].times > FrameDelay
  /\ pc[i] \in {"lock_primary", "act_primary"} => isfinalanswer[i]

InstanceConsistent(i) ==
  SequenceConsistent(i) /\ (flagged[i] \/ CountConsistent(i))

\* The parts of Consistent, instance by instance.
LEMMA ConsistentForEach == Consistent <=> \A i \in Instance : InstanceConsistent(i)
BY DEF Consistent, InstanceConsistent, SequenceConsistent, CountConsistent,
   MutexProtects, SequencesFinish, ClicksAreRecorded, CountsOnlySeenFrames,
   FinalAnswerIsStable

\* The same in the next state.
LEMMA ConsistentForEachNext ==
  Consistent' <=> \A i \in Instance : InstanceConsistent(i)'
BY DEF Consistent, InstanceConsistent, SequenceConsistent, CountConsistent,
   MutexProtects, SequencesFinish, ClicksAreRecorded, CountsOnlySeenFrames,
   FinalAnswerIsStable

\* What instance j relies on.
OwnState(j) == <<needs_finish[j], table[j], saved[j], is_reset[j],
                 stable_frames[j], isfinalanswer[j], pc[j], gui[j], seen[j],
                 flagged[j]>>

\* An instance is not disturbed by a step of another one, which may only take
\* the mutex when it is free or give back its own.
LEMMA OthersUndisturbed ==
  ASSUME NEW i \in Instance, NEW j \in Instance, i # j, InstanceConsistent(j),
         UNCHANGED OwnState(j),
         UNCHANGED mouse_mutex
           \/ (mouse_mutex \in {i, Nobody} /\ mouse_mutex' \in {i, Nobody})
  PROVE  InstanceConsistent(j)'
<1>1. mouse_mutex' = j <=> mouse_mutex = j
  BY ConstantsAssumption DEF ConstantsAssumption
<1> QED
  BY <1>1 DEF InstanceConsistent, SequenceConsistent, CountConsistent, OwnState

\* A step of instance i keeps Consistent if it keeps it for i and leaves the
\* other instances and their mutex alone.
LEMMA OneInstanceSteps ==
  ASSUME IInv, NEW i \in Instance, InstanceConsistent(i)',
         \A j \in Instance : i # j => UNCHANGED OwnState(j),
         UNCHANGED mouse_mutex
           \/ (mouse_mutex \in {i, Nobody} /\ mouse_mutex' \in {i, Nobody})
  PROVE  Consistent'
<1> SUFFICES ASSUME NEW j \in Instance, i # j PROVE InstanceConsistent(j)'
  BY ConsistentForEachNext
<1>1. InstanceConsistent(j)
  BY ConsistentForEach DEF IInv
<1> QED
  BY <1>1, OthersUndisturbed

\* The steps of the autoplayer keep the invariant for the instance that takes
\* them ...
LEMMA DoAutoplayerConsistent ==
  ASSUME TypeOK, NEW i \in Instance, InstanceConsistent(i), DoAutoplayer(i)
  PROVE  InstanceConsistent(i)'
<1> USE ConstantsAssumption DEF ConstantsAssumption, TypeOK, InstanceConsistent,
        SequenceConsistent, CountConsistent, perceived, history, Go, Acting, Calculation
<1>1. CASE LookForPopup(i)
  BY <1>1 DEF LookForPopup
<1>2. CASE LockForI86(i)
  BY <1>2 DEF LockForI86, Lock
<1>3. CASE ClickI86Button(i)
  BY <1>3 DEF ClickI86Button, ForgetViews
<1>4. CASE LockTimesOut(i, "lock_i86", "secondary")
  BY <1>4 DEF LockTimesOut
<1>5. CASE HandleSecondaryFormulas(i)
  BY <1>5 DEF HandleSecondaryFormulas
<1>6. CASE LockForSecondary(i)
  BY <1>6 DEF LockForSecondary, Lock, PrepareActionSequence
<1>7. CASE LockTimesOut(i, "lock_secondary", "primary")
  BY <1>7 DEF LockTimesOut
<1>8. CASE ExecuteSecondaryFormulas(i)
  BY <1>8 DEF ExecuteSecondaryFormulas, FinishActionSequenceIfNecessary, ResetStableFrames
<1>9. CASE HandlePrimaryFormulas(i)
  BY <1>9 DEF HandlePrimaryFormulas
<1>10. CASE LockForPrimary(i)
  BY <1>10 DEF LockForPrimary, Lock, PrepareActionSequence
<1>11. CASE LockTimesOut(i, "lock_primary", "finish")
  BY <1>11 DEF LockTimesOut
<1>12. CASE ExecutePrimaryFormulas(i)
  BY <1>12 DEF ExecutePrimaryFormulas, ForgetViews
<1>13. CASE Finish(i)
  BY <1>13 DEF Finish, FinishActionSequenceIfNecessary, ResetStableFrames
<1> QED
  BY <1>1, <1>2, <1>3, <1>4, <1>5, <1>6, <1>7, <1>8, <1>9, <1>10, <1>11, <1>12, <1>13
  DEF DoAutoplayer

\* ... and leave the others alone.
LEMMA DoAutoplayerLeavesOthers ==
  ASSUME TypeOK, NEW i \in Instance, InstanceConsistent(i), DoAutoplayer(i)
  PROVE  /\ \A j \in Instance : i # j => UNCHANGED OwnState(j)
         /\ UNCHANGED mouse_mutex
              \/ (mouse_mutex \in {i, Nobody} /\ mouse_mutex' \in {i, Nobody})
<1> USE DEF TypeOK, OwnState, perceived, history, Go, FinishActionSequenceIfNecessary,
        ResetStableFrames, ForgetViews, PrepareActionSequence
<1>1. CASE LookForPopup(i) \/ HandleSecondaryFormulas(i) \/ HandlePrimaryFormulas(i)
  BY <1>1 DEF LookForPopup, HandleSecondaryFormulas, HandlePrimaryFormulas
<1>2. CASE LockForI86(i) \/ LockForSecondary(i) \/ LockForPrimary(i)
  BY <1>2 DEF LockForI86, LockForSecondary, LockForPrimary, Lock
<1>3. ASSUME NEW from, NEW to, LockTimesOut(i, from, to)
      PROVE  /\ \A j \in Instance : i # j => UNCHANGED OwnState(j)
             /\ UNCHANGED mouse_mutex
  BY <1>3 DEF LockTimesOut
<1>4. CASE ClickI86Button(i)
  BY <1>4 DEF ClickI86Button, InstanceConsistent, SequenceConsistent, Acting
<1>5. CASE ExecuteSecondaryFormulas(i)
  BY <1>5 DEF ExecuteSecondaryFormulas, InstanceConsistent, SequenceConsistent, Acting
<1>6. CASE ExecutePrimaryFormulas(i)
  BY <1>6 DEF ExecutePrimaryFormulas, InstanceConsistent, SequenceConsistent, Acting
<1>7. CASE Finish(i)
  BY <1>7 DEF Finish
<1> QED
  BY <1>1, <1>2, <1>3, <1>4, <1>5, <1>6, <1>7 DEF DoAutoplayer

\* When the heartbeat thread updates the counter, and no click on a flag falls
\* into the count, the counter counts at most the frames that were seen.
LEMMA UpdateCountsSeenFrames ==
  ASSUME TypeOK, NEW i \in Instance, InstanceConsistent(i), pc[i] = "update",
         UpdateNumberOfStableFrames(i), Watch(i), ~flagged'[i]
  PROVE  /\ seen'[i].view = table[i]
         /\ stable_frames'[i] < seen'[i].times
         /\ is_reset'[i] \/ saved'[i] = table[i]
         /\ is_reset[i] \/ ~flagged[i]
<1> USE ConstantsAssumption DEF ConstantsAssumption
<1>0. /\ stable_frames[i] \in 0 .. MaxStable /\ seen[i].times \in 0 .. (MaxStable + 1)
      /\ stable_frames[i] \in Int /\ seen[i].times \in Int /\ MaxStable \in Int
  BY DEF TypeOK
<1>1. seen'[i] = [view |-> table[i], times |-> IF table[i] = seen[i].view
                    THEN Capped(seen[i].times + 1, MaxStable + 1) ELSE 1]
  BY DEF TypeOK, Watch
<1>2. seen'[i].times >= 1
  BY <1>0, <1>1 DEF Capped
<1>3. is_reset[i] \/ ~flagged[i]
  BY DEF TypeOK, Watch
<1>4. CASE is_reset[i] \/ table[i] # saved[i]
  <2>1. stable_frames'[i] = 0
    BY <1>4 DEF TypeOK, UpdateNumberOfStableFrames
  <2>2. is_reset'[i] \/ saved'[i] = table[i]
    BY <1>4 DEF TypeOK, UpdateNumberOfStableFrames
  <2> QED
    BY <1>0, <1>1, <1>2, <1>3, <2>1, <2>2 DEF Capped
<1>5. CASE ~is_reset[i] /\ table[i] = saved[i]
  <2>1. seen[i].view = table[i] /\ stable_frames[i] < seen[i].times
    BY <1>3, <1>5 DEF InstanceConsistent, CountConsistent
  <2>2. /\ stable_frames'[i] = Capped(stable_frames[i] + 1, MaxStable)
        /\ saved'[i] = table[i]
    BY <1>5 DEF TypeOK, UpdateNumberOfStableFrames
  <2>3. seen'[i].times = Capped(seen[i].times + 1, MaxStable + 1)
    BY <1>1, <2>1
  <2> QED
    BY <1>0, <1>1, <1>3, <2>1, <2>2, <2>3 DEF Capped
<1> QED
  BY <1>4, <1>5

\* The heartbeat's evaluation keeps the invariant for the instance.
LEMMA CalculateConsistent ==
  ASSUME TypeOK, NEW i \in Instance, InstanceConsistent(i), CalculateInHeartbeat(i)
  PROVE  InstanceConsistent(i)'
<1> USE DEF Calculation
<1>1. /\ pc'[i] = AfterStep(pc[i], "decide")
      /\ UNCHANGED <<mouse_mutex, needs_finish, table, gui>>
  BY DEF TypeOK, CalculateInHeartbeat, Go
<1>2. ~needs_finish[i] /\ mouse_mutex # i
  BY DEF InstanceConsistent, SequenceConsistent, CalculateInHeartbeat, Acting
<1>3. gui[i] # "loop" => flagged'[i]
  BY DEF TypeOK, InstanceConsistent, SequenceConsistent, CalculateInHeartbeat, Watch, history
<1>4. SequenceConsistent(i)'
  BY <1>1, <1>2, <1>3 DEF SequenceConsistent, CalculateInHeartbeat, AfterStep, Acting
<1>5. CASE pc[i] = "check"
  <2>1. /\ UNCHANGED <<saved, is_reset, stable_frames, seen, flagged>>
        /\ isfinalanswer'[i] => table[i] \in MyTurn
        /\ pc'[i] = "update"
    BY <1>1, <1>5 DEF TypeOK, CalculateInHeartbeat, CalculateFinalAnswer, CheckFactors,
       history, AfterStep
  <2> QED
    BY <1>1, <1>2, <1>4, <1>5, <2>1 DEF InstanceConsistent, CountConsistent
<1>6. CASE pc[i] = "update"
  <2>1. UpdateIfFinal(i) /\ pc'[i] = "compare" /\ UNCHANGED isfinalanswer
    BY <1>1, <1>6 DEF CalculateInHeartbeat, CalculateFinalAnswer, UpdateIfFinal, AfterStep
  <2>2. CASE ~isfinalanswer[i]
    <3>1. UNCHANGED <<saved, is_reset, stable_frames, seen, flagged>>
      BY <1>6, <2>1, <2>2 DEF CalculateInHeartbeat, UpdateIfFinal, history
    <3> QED
      BY <1>1, <1>2, <1>4, <1>6, <2>1, <2>2, <3>1 DEF InstanceConsistent, CountConsistent
  <2>3. CASE isfinalanswer[i]
    <3>1. UpdateNumberOfStableFrames(i) /\ Watch(i)
      BY <1>6, <2>1, <2>3 DEF CalculateInHeartbeat, UpdateIfFinal
    <3>2. SUFFICES ASSUME ~flagged'[i] PROVE CountConsistent(i)'
      BY <1>4 DEF InstanceConsistent
    <3>3. /\ seen'[i].view = table[i]
          /\ stable_frames'[i] < seen'[i].times
          /\ is_reset'[i] \/ saved'[i] = table[i]
      BY <1>6, <3>1, <3>2, UpdateCountsSeenFrames
    <3>4. table[i] \in MyTurn
      BY <1>6, <2>3, <3>1, <3>2 DEF TypeOK, InstanceConsistent, CountConsistent, Watch
    <3> QED
      BY <1>1, <2>1, <3>3, <3>4 DEF CountConsistent
  <2> QED
    BY <2>2, <2>3
<1>7. CASE pc[i] = "compare"
  <2>1. PICK delay \in Delays :
          /\ UNCHANGED <<saved, is_reset, stable_frames, seen, flagged>>
          /\ isfinalanswer'[i] = (isfinalanswer[i] /\ stable_frames[i] >= FrameDelay + delay)
          /\ pc'[i] = "decide"
    BY <1>1, <1>7 DEF TypeOK, CalculateInHeartbeat, CalculateFinalAnswer, CompareFrames,
       history, AfterStep
  <2>2. /\ delay \in Int /\ delay >= 0 /\ FrameDelay \in Int
        /\ stable_frames[i] \in Int /\ seen[i].times \in Int
    BY ConstantsAssumption DEF ConstantsAssumption, TypeOK
  <2>3. isfinalanswer'[i] => stable_frames[i] >= FrameDelay + delay
    BY <2>1
  <2>4. isfinalanswer'[i] /\ stable_frames[i] < seen[i].times => seen[i].times > FrameDelay
    BY <2>2, <2>3
  <2> QED
    BY <1>1, <1>2, <1>4, <1>7, <2>1, <2>4 DEF InstanceConsistent, CountConsistent
<1> QED
  BY <1>5, <1>6, <1>7 DEF CalculateInHeartbeat

\* Every step keeps the invariant.
LEMMA NextConsistent == IInv /\ [Next]_vars => Consistent'
<1> SUFFICES ASSUME IInv, [Next]_vars PROVE Consistent'
  OBVIOUS
<1>0. TypeOK /\ \A i \in Instance : InstanceConsistent(i)
  BY ConsistentForEach DEF IInv
<1> DEFINE Alone(i) == /\ UNCHANGED mouse_mutex
                       /\ \A j \in Instance : i # j => UNCHANGED OwnState(j)
<1>1. CASE UNCHANGED vars
  BY <1>1 DEF IInv, Consistent, MutexProtects, SequencesFinish, ClicksAreRecorded,
     CountsOnlySeenFrames, FinalAnswerIsStable, vars, perceived, history
<1>2. ASSUME NEW i \in Instance, InstanceConsistent(i)', Alone(i) PROVE Consistent'
  BY <1>2, OneInstanceSteps
<1>3. ASSUME NEW i \in Instance, NEW step, CalculateFinalAnswer(i, step)
      PROVE  \A j \in Instance : i # j =>
               UNCHANGED <<saved[j], is_reset[j], stable_frames[j], isfinalanswer[j]>>
  BY <1>0, <1>3 DEF TypeOK, CalculateFinalAnswer, CheckFactors, UpdateIfFinal,
     UpdateNumberOfStableFrames, CompareFrames
<1>4. ASSUME NEW i \in Instance, CalculateInHeartbeat(i) PROVE Consistent'
  <2>1. Alone(i)
    BY <1>0, <1>3, <1>4 DEF TypeOK, OwnState, CalculateInHeartbeat, Watch, history, Go
  <2> QED
    BY <1>0, <1>2, <1>4, <2>1, CalculateConsistent
<1>5. ASSUME NEW i \in Instance, Scrape(i) \/ EvaluateInHeartbeat(i) PROVE Consistent'
  <2>1. InstanceConsistent(i)'
    BY <1>0, <1>5 DEF TypeOK, InstanceConsistent, SequenceConsistent, CountConsistent,
       Scrape, EvaluateInHeartbeat, EvaluateAll, history, Go, Acting, Calculation
  <2>2. Alone(i)
    BY <1>0, <1>5 DEF TypeOK, OwnState, Scrape, EvaluateInHeartbeat, EvaluateAll, history, Go
  <2> QED
    BY <1>2, <2>1, <2>2
<1>6. ASSUME NEW i \in Instance, CallAutoplayer(i) \/ SkipAutoplayer(i)
      PROVE  Consistent'
  <2>1. InstanceConsistent(i)'
    BY <1>0, <1>6 DEF TypeOK, InstanceConsistent, SequenceConsistent, CountConsistent,
       CallAutoplayer, SkipAutoplayer, perceived, history, Go, Acting, Calculation
  <2>2. Alone(i)
    BY <1>0, <1>6 DEF TypeOK, OwnState, CallAutoplayer, SkipAutoplayer, perceived, history, Go
  <2> QED
    BY <1>2, <2>1, <2>2
<1>7. ASSUME NEW i \in Instance, DoAutoplayer(i) PROVE Consistent'
  BY <1>0, <1>7, DoAutoplayerConsistent, DoAutoplayerLeavesOthers, OneInstanceSteps
<1>8. ASSUME NEW i \in Instance, OnAutoplayer(i) PROVE Consistent'
  BY <1>8 DEF IInv, Consistent, MutexProtects, SequencesFinish, ClicksAreRecorded,
     CountsOnlySeenFrames, FinalAnswerIsStable, OnAutoplayer, perceived, history
<1>9. ASSUME NEW i \in Instance, OnClickedFlags(i) \/ CalculateInGUI(i)
      PROVE  Consistent'
  <2>1. flagged'[i] /\ UNCHANGED <<pc, mouse_mutex, needs_finish>>
    BY <1>0, <1>9 DEF TypeOK, InstanceConsistent, SequenceConsistent, OnClickedFlags,
       CalculateInGUI, history, Calculation
  <2>2. InstanceConsistent(i)'
    BY <1>0, <2>1 DEF InstanceConsistent, SequenceConsistent
  <2>3. Alone(i)
    BY <1>0, <1>3, <1>9 DEF TypeOK, OwnState, OnClickedFlags, EvaluateAll, CalculateInGUI,
       history
  <2> QED
    BY <1>2, <2>2, <2>3
<1>10. ASSUME NEW i \in Instance, Reconnect(i) PROVE Consistent'
  <2>1. InstanceConsistent(i)'
    BY <1>0, <1>10 DEF TypeOK, InstanceConsistent, SequenceConsistent, CountConsistent,
       Reconnect, history, Acting, Calculation
  <2>2. Alone(i)
    BY <1>0, <1>10 DEF TypeOK, OwnState, Reconnect, history
  <2> QED
    BY <1>2, <2>1, <2>2
<1> QED
  BY <1>1, <1>4, <1>5, <1>6, <1>7, <1>8, <1>9, <1>10 DEF Next, Heartbeat, GUIThread

\* The invariant holds at the beginning.
LEMMA InitIInv == Init => IInv
<1> SUFFICES ASSUME Init PROVE Consistent
  BY InitTypeOK DEF IInv
<1> QED
  BY ConstantsAssumption DEF ConstantsAssumption, Init, Consistent, MutexProtects,
     SequencesFinish, ClicksAreRecorded, CountsOnlySeenFrames, FinalAnswerIsStable,
     Acting, Calculation

\* The inductive invariant: mutex and clicks agree, sequences are finished, and in
\* a count without a click on a flag the counter never exceeds what was seen and a
\* final answer stays valid until the click.
THEOREM InductiveInvariant == Spec => []IInv
<1>1. IInv /\ [Next]_vars => IInv'
  BY NextTypeOK, NextConsistent DEF IInv
<1> QED
  BY InitIInv, <1>1, PTL DEF Spec

\* Every primary action of every instance is taken in the user's turn and based on
\* a view that was counted in more than FrameDelay heartbeats since its last one,
\* whatever popups, secondary formulas, delays, reconnects and busy mutexes come
\* in between, unless a flag was clicked since the heartbeat thread began to count.
THEOREM StableViews == Spec => []ActsOnStableView
<1>1. IInv => ActsOnStableView
  BY DEF IInv, Consistent, FinalAnswerIsStable, ActsOnStableView, SeenLongEnough,
     Calculation
<1> QED
  BY InductiveInvariant, <1>1, PTL

\* At any time at most one instance is in the middle of its clicks: CMyMutex
\* protects the sequences themselves (but not what follows them, see
\* ExclusiveInput).
THEOREM ClicksAreExclusive ==
  Spec => [](\A i, j \in Instance : pc[i] \in Acting /\ pc[j] \in Acting => i = j)
<1>1. IInv => \A i, j \in Instance : pc[i] \in Acting /\ pc[j] \in Acting => i = j
  BY DEF IInv, Consistent, MutexProtects
<1> QED
  BY InductiveInvariant, <1>1, PTL
=============================================================================
