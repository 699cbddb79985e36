--------------------------- MODULE IteratorProofs ---------------------------
(* Theorems about Iterator and their proofs. *)
EXTENDS Iterator, TLAPS

\* k simulations with the cards c, and none with other cards.
Only(c, k) == [d \in Cards |-> IF d = c THEN k ELSE 0]

LEMMA OneMore ==
  ASSUME NEW c \in Cards, NEW k \in Nat
  PROVE  [Only(c, k) EXCEPT ![c] = @ + 1] = Only(c, k + 1)
BY DEF Only

LEMMA NothingCounted == \A c : Only(c, 0) = NoResult
BY DEF Only, NoResult

LEMMA CardsType == NoCards \in Cards /\ NoResult \in [Cards -> Nat] /\ Cards \subseteq Nat
BY ConstantsAssumption DEF ConstantsAssumption, NoCards, Cards, NoResult

-----------------------------------------------------------------------------
(* Type correctness: one lemma per thread.                                 *)

LEMMA InitType == Init => TypeOK
<1> SUFFICES ASSUME Init PROVE TypeOK
  OBVIOUS
<1>1. NoCards \in Cards /\ NoResult \in [Cards -> Nat] /\ 0 \in Cards
  BY CardsType DEF NoCards
<1>2. 0 \in 0 .. MaxRecalcs
  BY ConstantsAssumption DEF ConstantsAssumption
<1> QED
  BY <1>1, <1>2 DEF Init, TypeOK

LEMMA TableType ==
  ASSUME TypeOK, TableMovesOn
  PROVE  turn' \in Cards /\ buttons' \in BOOLEAN /\ gap' \in BOOLEAN
<1>1. CASE UNCHANGED table
  BY <1>1 DEF table, TypeOK
<1>2. CASE buttons /\ buttons' = FALSE /\ gap' = TRUE /\ UNCHANGED turn
  BY <1>2 DEF TypeOK
<1>3. CASE turn < MaxTurns /\ turn' = turn + 1 /\ buttons' = TRUE /\ gap' = ~buttons
  <2>1. turn' \in Cards
    BY <1>3, ConstantsAssumption DEF TypeOK, Cards, NoCards, ConstantsAssumption
  <2> QED
    BY <1>3, <2>1 DEF TypeOK
<1> QED
  BY <1>1, <1>2, <1>3 DEF TableMovesOn

LEMMA HeartbeatType ==
  ASSUME TypeOK, Heartbeat
  PROVE  TypeOK'
<1> USE CardsType DEF vars, table, bits, shared, thread, registers, exit, Restarting
<1>1. CASE Scrape
  <2>1. turn' \in Cards /\ buttons' \in BOOLEAN /\ gap' \in BOOLEAN
    BY <1>1, TableType DEF Scrape
  <2>2. overlap' \in BOOLEAN /\ heartbeat' \in {"iterations", "bits"}
    BY <1>1 DEF Scrape, TypeOK
  <2> QED
    BY <1>1, <2>1, <2>2 DEF Scrape, TypeOK
<1>2. CASE InitNumberOfIterations
  BY <1>2 DEF InitNumberOfIterations, Overlaps, TypeOK
<1>3. CASE ClearCardsAndCounters
  BY <1>3 DEF ClearCardsAndCounters, Overlaps, TypeOK
<1>4. CASE SetCards
  BY <1>4 DEF SetCards, Overlaps, TypeOK
<1>5. CASE ResetIteratorVars
  BY <1>5 DEF ResetIteratorVars, Overlaps, TypeOK
<1>6. CASE CalculateMyTurnBits
  BY <1>6 DEF CalculateMyTurnBits, TypeOK
<1>7. CASE heartbeat = "dll" /\ heartbeat' = "scrape"
           /\ UNCHANGED <<recalcs, overlap, table, bits, shared, thread, exit>>
  BY <1>7 DEF TypeOK
<1>8. CASE recalcs < MaxRecalcs /\ recalcs' = recalcs + 1 /\ heartbeat' = "iterations"
           /\ overlap' = (iterator \in Computing)
           /\ UNCHANGED <<table, bits, shared, thread, exit>>
  <2>1. recalcs' \in 0 .. MaxRecalcs
    BY <1>8, ConstantsAssumption DEF TypeOK, ConstantsAssumption
  <2>2. overlap' \in BOOLEAN
    BY <1>8
  <2> QED
    BY <1>8, <2>1, <2>2 DEF TypeOK
<1> QED
  BY <1>1, <1>2, <1>3, <1>4, <1>5, <1>6, <1>7, <1>8 DEF Heartbeat, QueryDll

LEMMA IteratorType ==
  ASSUME TypeOK, IteratorThreadFunction
  PROVE  TypeOK'
<1> USE CardsType DEF vars, table, bits, shared, thread, registers, exit, Computing
<1>1. CASE CheckStop
  <2>1. iterator' \in {"ended", "asleep"} /\ wait_thread' \in BOOLEAN
    BY <1>1 DEF CheckStop, End, TypeOK
  <2> QED
    BY <1>1, <2>1 DEF CheckStop, TypeOK
<1>2. CASE Wake
  BY <1>2 DEF Wake, TypeOK
<1>3. CASE Simulate
  <2>1. iterator' \in {"finish", "ended", "simulated"}
        /\ drawn' \in Cards /\ wait_thread' \in BOOLEAN
    BY <1>3 DEF Simulate, End, TypeOK
  <2> QED
    BY <1>3, <2>1 DEF Simulate, TypeOK
<1>4. CASE ReadCounter
  BY <1>4 DEF ReadCounter, TypeOK
<1>5. CASE WriteCounter
  <2>1. counted' \in [Cards -> Nat]
    BY <1>5 DEF WriteCounter, TypeOK
  <2> QED
    BY <1>5, <2>1 DEF WriteCounter, TypeOK
<1>6. CASE ReadCalculated
  <2>1. prwin' \in [Cards -> Nat]
    BY <1>6 DEF ReadCalculated, UpdateIteratorVarsForDisplay, TypeOK
  <2> QED
    BY <1>6, <2>1 DEF ReadCalculated, TypeOK
<1>7. CASE WriteCalculated
  BY <1>7 DEF WriteCalculated, TypeOK
<1>8. CASE FinishComputation
  <2>1. prwin' \in [Cards -> Nat] /\ calculated' \in Nat
    BY <1>8 DEF FinishComputation, UpdateIteratorVarsForDisplay, TypeOK
  <2> QED
    BY <1>8, <2>1 DEF FinishComputation, TypeOK
<1> QED
  BY <1>1, <1>2, <1>3, <1>4, <1>5, <1>6, <1>7, <1>8 DEF IteratorThreadFunction

LEMMA GuiType ==
  ASSUME TypeOK, DestroyWindow \/ StopThreads
  PROVE  TypeOK'
BY DEF DestroyWindow, StopThreads, EndHeartbeat, DeleteIterator, DeleteAllSingletons,
       TypeOK, vars, table, bits, shared, thread, registers, exit

LEMMA StutterType == TypeOK /\ UNCHANGED vars => TypeOK'
BY DEF TypeOK, vars, table, bits, shared, thread, registers, exit

LEMMA StepType == TypeOK /\ [Next]_vars => TypeOK'
BY HeartbeatType, IteratorType, GuiType, StutterType DEF Next

\* Every variable of the iterator and of the threads that stop and restart it
\* keeps its type, for any number of turns and iterations.
THEOREM TypeCorrect == Spec => []TypeOK
BY InitType, StepType, PTL DEF Spec

-----------------------------------------------------------------------------
(* The inductive invariant.  As long as no computation has run beside the  *)
(* restart, a restart finds the thread outside of its loop; the loop has   *)
(* counted what it has calculated; and outside of the loop there is a      *)
(* complete result, or none at all.                                        *)

Separate == heartbeat \in Restarting => iterator \notin Computing

Prepared == heartbeat \in {"cards", "reset"} => counted = NoResult

\* What the counters contain at each step of the loop.
Counting ==
  heartbeat \notin Restarting =>
    /\ iterator \in {"loop", "simulated", "count", "finish"} =>
         counted = Only(cards, calculated) /\ calculated <= required
    /\ iterator \in {"display", "advance"} => counted = Only(cards, calculated + 1)
    /\ iterator \in {"simulated", "count", "display", "advance"} => calculated < required
    /\ iterator \in {"simulated", "count"} => drawn = cards
    /\ iterator = "count" => old_counted = counted
    /\ iterator = "advance" => old_calculated = calculated
    /\ iterator = "finish" => IteratorThreadComplete

Resting ==
  heartbeat \notin Restarting /\ iterator \notin Computing =>
    \/ IteratorThreadComplete /\ prwin = counted /\ counted = Only(cards, required)
    \/ ~IteratorThreadComplete /\ (counted = NoResult \/ iterator = "ended")

\* What is shown is a part of this computation, or nothing at all.
Shown ==
  heartbeat \notin Restarting => \E k \in 0 .. required : prwin = Only(cards, k)

IInv == ~overlap => Separate /\ Prepared /\ Counting /\ Resting /\ Shown

LEMMA InitPure == Init => IInv
<1> SUFFICES ASSUME Init PROVE IInv
  OBVIOUS
<1>1. counted = Only(cards, required) /\ IteratorThreadComplete /\ prwin = counted
  BY NothingCounted DEF Init, IteratorThreadComplete
<1>2. heartbeat = "scrape" /\ iterator = "check"
  BY DEF Init
<1>3. Shown
  BY NothingCounted DEF Init, Shown
<1> QED
  BY <1>1, <1>2, <1>3 DEF IInv, Separate, Prepared, Counting, Resting, Restarting, Computing

\* The heartbeat outside of a restart changes nothing that the invariant is about.
LEMMA SameInv ==
  ASSUME IInv, UNCHANGED <<shared, thread, overlap>>,
         heartbeat \notin Restarting, heartbeat' \notin Restarting
  PROVE  IInv'
<1>1. heartbeat' \notin {"cards", "reset"}
  BY DEF Restarting
<1> QED
  BY <1>1 DEF IInv, Separate, Prepared, Counting, Resting, Shown, IteratorThreadComplete,
              Only, shared, thread, registers

\* A restart begins.
LEMMA BeginPure ==
  ASSUME heartbeat' = "iterations", overlap' = (iterator \in Computing),
         UNCHANGED iterator
  PROVE  IInv'
BY DEF IInv, Separate, Prepared, Counting, Resting, Shown, Restarting

\* A restart goes on.
LEMMA RestartPure ==
  ASSUME IInv, heartbeat \in Restarting, heartbeat' \in Restarting, Overlaps,
         UNCHANGED iterator,
         heartbeat' \in {"cards", "reset"} =>
           \/ counted' = NoResult
           \/ heartbeat \in {"cards", "reset"} /\ UNCHANGED counted
  PROVE  IInv'
BY DEF IInv, Separate, Prepared, Counting, Resting, Shown, Overlaps

LEMMA HeartbeatPure ==
  ASSUME TypeOK, IInv, Heartbeat
  PROVE  IInv'
<1> USE DEF shared, thread, registers
<1>1. CASE Scrape
  <2>1. CASE heartbeat' = "iterations"
    BY <1>1, <2>1, BeginPure DEF Scrape
  <2>2. CASE heartbeat' # "iterations"
    <3>1. heartbeat' = "bits" /\ overlap' = overlap
      BY <1>1, <2>2 DEF Scrape
    <3> QED
      BY <1>1, <3>1, SameInv DEF Scrape, Restarting
  <2> QED
    BY <2>1, <2>2
<1>2. CASE InitNumberOfIterations
  BY <1>2, RestartPure DEF InitNumberOfIterations, Restarting
<1>3. CASE ClearCardsAndCounters
  BY <1>3, RestartPure DEF ClearCardsAndCounters, Restarting
<1>4. CASE SetCards
  BY <1>4, RestartPure DEF SetCards, Restarting
<1>5. CASE ResetIteratorVars
  <2> SUFFICES ASSUME ~overlap' PROVE (Separate /\ Prepared /\ Counting /\ Resting /\ Shown)'
    BY DEF IInv
  <2>1. heartbeat' = "bits" /\ heartbeat = "reset" /\ heartbeat \in Restarting
    BY <1>5 DEF ResetIteratorVars, Restarting
  <2>2. ~overlap /\ iterator \notin Computing /\ iterator' = iterator
    BY <1>5, <2>1 DEF ResetIteratorVars, Overlaps, IInv, Separate
  <2>3. counted' = NoResult /\ prwin' = NoResult /\ calculated' = 0
    BY <1>5, <2>1, <2>2 DEF ResetIteratorVars, IInv, Prepared
  <2>4. Resting'
    <3>1. CASE required' = 0
      BY <2>3, <3>1, NothingCounted DEF Resting, IteratorThreadComplete
    <3>2. CASE required' # 0
      <4>1. required' \in Nat
        BY <1>5, ConstantsAssumption DEF ResetIteratorVars, TypeOK, ConstantsAssumption
      <4> QED
        BY <2>3, <3>2, <4>1 DEF Resting, IteratorThreadComplete
    <3> QED
      BY <3>1, <3>2
  <2>5. Shown'
    <3>1. required' \in Nat
      BY <1>5, ConstantsAssumption DEF ResetIteratorVars, TypeOK, ConstantsAssumption
    <3>2. prwin' = Only(cards', 0) /\ 0 \in 0 .. required'
      BY <2>3, <3>1, NothingCounted
    <3> QED
      BY <3>2 DEF Shown
  <2> QED
    BY <2>1, <2>2, <2>4, <2>5 DEF Separate, Prepared, Counting, Restarting, Computing
<1>6. CASE CalculateMyTurnBits
  BY <1>6, SameInv DEF CalculateMyTurnBits, Restarting
<1>7. CASE heartbeat = "dll" /\ heartbeat' = "scrape"
           /\ UNCHANGED <<recalcs, overlap, table, bits, shared, thread, exit>>
  BY <1>7, SameInv DEF Restarting
<1>8. CASE heartbeat' = "iterations" /\ overlap' = (iterator \in Computing)
           /\ UNCHANGED <<table, bits, shared, thread, exit>>
  BY <1>8, BeginPure
<1> QED
  BY <1>1, <1>2, <1>3, <1>4, <1>5, <1>6, <1>7, <1>8 DEF Heartbeat, QueryDll

\* What is shown changes only between two simulations and at the end of the loop.
LEMMA ShownByIterator ==
  ASSUME TypeOK, IInv, IteratorThreadFunction, ~overlap
  PROVE  Shown'
<1>1. UNCHANGED <<heartbeat, cards, required>>
  BY DEF IteratorThreadFunction, CheckStop, Wake, Simulate, ReadCounter, WriteCounter,
         ReadCalculated, WriteCalculated, FinishComputation, shared
<1>2. Separate /\ Counting /\ Shown
  BY DEF IInv
<1>3. required \in Nat /\ calculated \in Nat
  BY ConstantsAssumption DEF TypeOK, ConstantsAssumption
<1>4. CASE UNCHANGED prwin
  BY <1>1, <1>2, <1>4 DEF Shown, Only
<1>5. CASE ReadCalculated
  <2>1. iterator = "display" /\ iterator \in Computing /\ prwin' \in {counted, prwin}
    BY <1>5 DEF ReadCalculated, UpdateIteratorVarsForDisplay, Computing
  <2>2. counted = Only(cards, calculated + 1) /\ calculated < required
    BY <1>2, <2>1 DEF Separate, Counting
  <2>3. prwin' = counted => Shown'
    <3>1. calculated + 1 \in 0 .. required
      BY <1>3, <2>2
    <3> QED
      BY <1>1, <2>2, <3>1 DEF Shown, Only
  <2> QED
    BY <1>4, <2>1, <2>3
<1>6. CASE FinishComputation
  <2>1. iterator = "finish" /\ iterator \in Computing
    BY <1>6 DEF FinishComputation, Computing
  <2>2. counted = Only(cards, calculated) /\ calculated <= required /\ IteratorThreadComplete
    BY <1>2, <2>1 DEF Separate, Counting
  <2>3. prwin' = counted
    BY <1>6, <2>2 DEF FinishComputation, UpdateIteratorVarsForDisplay
  <2>4. calculated \in 0 .. required
    BY <1>3, <2>2
  <2> QED
    BY <1>1, <2>2, <2>3, <2>4 DEF Shown, Only
<1> QED
  BY <1>4, <1>5, <1>6 DEF IteratorThreadFunction, CheckStop, Wake, Simulate, ReadCounter,
                          WriteCounter, WriteCalculated, shared

LEMMA IteratorPure ==
  ASSUME TypeOK, IInv, IteratorThreadFunction
  PROVE  IInv'
<1> SUFFICES ASSUME ~overlap' PROVE (Separate /\ Prepared /\ Counting /\ Resting)'
  <2>1. ~overlap' => ~overlap
    BY DEF IteratorThreadFunction, CheckStop, Wake, Simulate, ReadCounter, WriteCounter,
           ReadCalculated, WriteCalculated, FinishComputation
  <2> QED
    BY <2>1, ShownByIterator DEF IInv
<1>1. UNCHANGED heartbeat
  BY DEF IteratorThreadFunction, CheckStop, Wake, Simulate, ReadCounter, WriteCounter,
         ReadCalculated, WriteCalculated, FinishComputation
<1>2. ~overlap
  BY DEF IteratorThreadFunction, CheckStop, Wake, Simulate, ReadCounter, WriteCounter,
         ReadCalculated, WriteCalculated, FinishComputation
<1>3. Separate /\ Prepared /\ Counting /\ Resting /\ Shown
  BY <1>2 DEF IInv
<1>4. required \in Nat /\ calculated \in Nat /\ cards \in Cards
  BY ConstantsAssumption DEF TypeOK, ConstantsAssumption
<1> USE DEF shared, registers
\* Outside of the loop the thread changes nothing but its pc.
<1>5. CASE CheckStop
  <2>1. iterator' \in {"ended", "asleep"} /\ iterator = "check"
        /\ iterator \notin Computing /\ iterator' \notin Computing
    BY <1>5 DEF CheckStop, End, Computing
  <2>2. UNCHANGED <<required, calculated, cards, counted, prwin>>
    BY <1>5 DEF CheckStop
  <2>3. Resting'
    BY <1>1, <1>3, <2>1, <2>2 DEF Resting, IteratorThreadComplete, Only
  <2> QED
    BY <1>1, <1>3, <2>1, <2>2, <2>3 DEF Separate, Prepared, Counting
<1>6. CASE Wake
  <2>1. CASE ~myturnbits \/ IteratorThreadComplete
    <3>1. iterator' = "check" /\ iterator = "asleep"
          /\ iterator \notin Computing /\ iterator' \notin Computing
      BY <1>6, <2>1 DEF Wake, Computing
    <3>2. UNCHANGED <<required, calculated, cards, counted, prwin>>
      BY <1>6, <2>1 DEF Wake
    <3>3. Resting'
      BY <1>1, <1>3, <3>1, <3>2 DEF Resting, IteratorThreadComplete, Only
    <3> QED
      BY <1>1, <1>3, <3>1, <3>2, <3>3 DEF Separate, Prepared, Counting
  <2>2. CASE ~(~myturnbits \/ IteratorThreadComplete)
    <3>1. iterator' = "loop" /\ calculated' = 0 /\ iterator = "asleep"
          /\ heartbeat \notin Restarting
          /\ UNCHANGED <<required, cards, counted>>
      BY <1>6, <2>2 DEF Wake
    <3>2. counted = NoResult
      BY <1>3, <2>2, <3>1 DEF Resting, Computing
    <3>3. counted' = Only(cards', calculated') /\ calculated' <= required'
      BY <1>4, <3>1, <3>2, NothingCounted
    <3>4. heartbeat' \notin Restarting /\ iterator' \in Computing
          /\ heartbeat' \notin {"cards", "reset"}
      BY <1>1, <3>1 DEF Restarting, Computing
    <3> QED
      BY <3>1, <3>3, <3>4 DEF Separate, Prepared, Counting, Resting
  <2> QED
    BY <2>1, <2>2
\* In the loop, no restart is under way.
<1>7. CASE iterator \in Computing
  <2>1. heartbeat' \notin Restarting /\ heartbeat' \notin {"cards", "reset"}
        /\ heartbeat \notin Restarting
    BY <1>1, <1>3, <1>7 DEF Separate, Restarting
  <2>2. Separate' /\ Prepared'
    BY <2>1 DEF Separate, Prepared
  <2>3. CASE Simulate
    <3>1. iterator = "loop" /\ UNCHANGED <<required, calculated, cards, counted>>
      BY <2>3 DEF Simulate
    <3>2. counted' = Only(cards', calculated') /\ calculated' <= required'
      BY <1>3, <2>1, <3>1 DEF Counting, Only
    <3>3. CASE IteratorThreadComplete /\ iterator' = "finish"
      BY <2>2, <3>1, <3>2, <3>3 DEF Counting, Resting, Computing, IteratorThreadComplete
    <3>4. CASE ~IteratorThreadComplete /\ iterator' = "ended"
      BY <2>2, <3>1, <3>4 DEF Counting, Resting, IteratorThreadComplete
    <3>5. CASE ~IteratorThreadComplete /\ iterator' = "simulated" /\ drawn' = cards
      <4>1. calculated' < required' /\ drawn' = cards' /\ iterator' \in Computing
        BY <1>4, <3>1, <3>5 DEF IteratorThreadComplete, Computing
      <4> QED
        BY <2>2, <3>2, <3>5, <4>1 DEF Counting, Resting
    <3> QED
      BY <2>3, <3>3, <3>4, <3>5 DEF Simulate, End
  <2>4. CASE ReadCounter
    <3>1. iterator = "simulated" /\ iterator' = "count" /\ old_counted' = counted
          /\ UNCHANGED <<required, calculated, cards, counted, drawn>>
      BY <2>4 DEF ReadCounter
    <3>2. counted' = Only(cards', calculated') /\ calculated' <= required'
          /\ calculated' < required' /\ drawn' = cards'
      BY <1>3, <2>1, <3>1 DEF Counting, Only
    <3> QED
      BY <2>2, <3>1, <3>2 DEF Counting, Resting, Computing
  <2>5. CASE WriteCounter
    <3>1. iterator = "count" /\ iterator' = "display"
          /\ counted' = [old_counted EXCEPT ![drawn] = @ + 1]
          /\ UNCHANGED <<required, calculated, cards>>
      BY <2>5 DEF WriteCounter
    <3>2. old_counted = Only(cards, calculated) /\ drawn = cards /\ calculated < required
      BY <1>3, <2>1, <3>1 DEF Counting
    <3>3. counted' = Only(cards, calculated + 1)
      BY <1>4, <3>1, <3>2, OneMore
    <3>4. counted' = Only(cards', calculated' + 1) /\ calculated' < required'
      BY <3>1, <3>2, <3>3 DEF Only
    <3> QED
      BY <2>2, <3>1, <3>4 DEF Counting, Resting, Computing
  <2>6. CASE ReadCalculated
    <3>1. iterator = "display" /\ iterator' = "advance" /\ old_calculated' = calculated
          /\ UNCHANGED <<required, calculated, cards, counted>>
      BY <2>6 DEF ReadCalculated
    <3>2. counted' = Only(cards', calculated' + 1) /\ calculated' < required'
      BY <1>3, <2>1, <3>1 DEF Counting, Only
    <3> QED
      BY <2>2, <3>1, <3>2 DEF Counting, Resting, Computing
  <2>7. CASE WriteCalculated
    <3>1. iterator = "advance" /\ iterator' = "loop" /\ calculated' = old_calculated + 1
          /\ UNCHANGED <<required, cards, counted>>
      BY <2>7 DEF WriteCalculated
    <3>2. counted = Only(cards, calculated + 1) /\ calculated < required
          /\ old_calculated = calculated
      BY <1>3, <2>1, <3>1 DEF Counting
    <3>3. counted' = Only(cards', calculated') /\ calculated' <= required'
      BY <1>4, <3>1, <3>2 DEF Only
    <3> QED
      BY <2>2, <3>1, <3>3 DEF Counting, Resting, Computing
  <2>8. CASE FinishComputation
    <3>1. iterator = "finish" /\ iterator' = "check" /\ UNCHANGED <<required, cards, counted>>
      BY <2>8 DEF FinishComputation
    <3>2. counted = Only(cards, calculated) /\ calculated <= required
          /\ IteratorThreadComplete
      BY <1>3, <2>1, <3>1 DEF Counting
    <3>3. prwin' = counted /\ UNCHANGED calculated
      BY <2>8, <3>2 DEF FinishComputation, UpdateIteratorVarsForDisplay
    <3>4. calculated = required
      BY <1>4, <3>2 DEF IteratorThreadComplete
    <3>5. IteratorThreadComplete' /\ prwin' = counted' /\ counted' = Only(cards', required')
      BY <3>1, <3>2, <3>3, <3>4 DEF IteratorThreadComplete, Only
    <3> QED
      BY <2>2, <3>1, <3>5 DEF Counting, Resting
  <2>9. ~CheckStop /\ ~Wake
    BY <1>7 DEF CheckStop, Wake, Computing
  <2> QED
    BY <2>2, <2>3, <2>4, <2>5, <2>6, <2>7, <2>8, <2>9 DEF IteratorThreadFunction
<1>8. \/ CheckStop \/ Wake \/ iterator \in Computing
  BY DEF IteratorThreadFunction, Simulate, ReadCounter, WriteCounter, ReadCalculated,
         WriteCalculated, FinishComputation, Computing
<1> QED
  BY <1>5, <1>6, <1>7, <1>8

LEMMA GuiPure ==
  ASSUME IInv, DestroyWindow \/ StopThreads
  PROVE  IInv'
<1>1. UNCHANGED <<shared, thread, overlap>>
  BY DEF DestroyWindow, StopThreads, EndHeartbeat, DeleteIterator, DeleteAllSingletons
<1>2. CASE EndHeartbeat
  BY <1>1, <1>2, SameInv DEF EndHeartbeat, Restarting
<1>3. CASE UNCHANGED heartbeat
  BY <1>1, <1>3 DEF IInv, Separate, Prepared, Counting, Resting, Shown,
                    IteratorThreadComplete, Only, shared, thread, registers
<1> QED
  BY <1>2, <1>3 DEF DestroyWindow, StopThreads, DeleteIterator, DeleteAllSingletons

LEMMA StutterPure == IInv /\ UNCHANGED vars => IInv'
BY DEF IInv, Separate, Prepared, Counting, Resting, Shown, IteratorThreadComplete, Only,
       vars, shared, thread, registers

LEMMA StepPure == TypeOK /\ IInv /\ [Next]_vars => IInv'
BY HeartbeatPure, IteratorPure, GuiPure, StutterPure DEF Next

\* A restart that no computation overlaps is enough for a result from the cards of
\* this turn alone, for any number of turns and iterations, and although no lock
\* protects what the threads share (CIteratorThread.cpp:128).
THEOREM PureWithoutOverlap == Spec => []PureResult
<1>1. TypeOK /\ IInv => PureResult
  BY DEF IInv, Resting, PureResult, Only
<1> QED
  BY <1>1, TypeCorrect, InitPure, StepPure, PTL DEF Spec

\* Without such an overlap prwin never shows a simulation with the cards of an earlier
\* turn, nor more than were asked for, whenever the heartbeat reads it
\* (CIteratorThread.cpp:270).
THEOREM OthersNeverShown == Spec => []OnlyTheseCardsShown
<1>1. ASSUME TypeOK, IInv
      PROVE  OnlyTheseCardsShown
  <2> SUFFICES ASSUME ~overlap, heartbeat \notin Restarting
               PROVE  (\A c \in Cards \ {cards} : prwin[c] = 0) /\ prwin[cards] <= required
    BY DEF OnlyTheseCardsShown
  <2>1. PICK k \in 0 .. required : prwin = Only(cards, k)
    BY <1>1 DEF IInv, Shown
  <2>2. cards \in Cards
    BY <1>1 DEF TypeOK
  <2> QED
    BY <2>1, <2>2 DEF Only
<1> QED
  BY <1>1, TypeCorrect, InitPure, StepPure, PTL DEF Spec
=============================================================================
