--------------------------- MODULE FormulasProofs ---------------------------
(* Theorems about Formulas and their proofs. *)
EXTENDS Formulas, SequenceTheorems, TLAPS

USE DEF Symbol, Thread, Ages, Plan

\* The ages that occur in `frames' are within S.
ReadsIn(frames, S) == \A n \in DOMAIN frames : frames[n].reads \subseteq S

Inside(S) == /\ \A f \in Function : cache[f] # NotCached => cache[f] \subseteq S
             /\ ReadsIn(stack, S)

LEMMA OlderType ==
  ASSUME ConstantsAssumption, NEW ages \in SUBSET Ages
  PROVE  Older(ages) \in SUBSET Ages
<1>1. MaxAge \in Nat
  BY DEF ConstantsAssumption
<1>2. \A a \in Ages : (IF a < MaxAge THEN a + 1 ELSE a) \in Ages
  BY <1>1
<1> QED
  BY <1>2 DEF Older

\* Reading a value changes the innermost frame only, and there only the ages.
LEMMA ReadFrames ==
  ASSUME NEW frames \in Seq(Frame), NEW ages \in SUBSET Ages
  PROVE  /\ Read(frames, ages) \in Seq(Frame)
         /\ Len(Read(frames, ages)) = Len(frames)
         /\ \A S : ReadsIn(frames, S) /\ ages \subseteq S
                     => ReadsIn(Read(frames, ages), S)
<1>1. CASE frames = <<>>
  BY <1>1 DEF Read, ReadsIn
<1>2. CASE frames # <<>>
  <2> DEFINE last == Len(frames)
             top  == [frames[last] EXCEPT !.reads = @ \cup ages]
  <2>1. last \in DOMAIN frames /\ frames[last] \in Frame
    BY <1>2
  <2>2. top \in Frame /\ top.reads = frames[last].reads \cup ages
    BY <2>1 DEF Frame
  <2>3. Read(frames, ages) = [frames EXCEPT ![last] = top]
    BY <1>2 DEF Read
  <2> HIDE DEF top
  <2>4. /\ [frames EXCEPT ![last] = top] \in Seq(Frame)
        /\ Len([frames EXCEPT ![last] = top]) = Len(frames)
    BY <2>1, <2>2
  <2>5. ASSUME NEW S, ReadsIn(frames, S), ages \subseteq S
        PROVE  ReadsIn([frames EXCEPT ![last] = top], S)
    BY <2>1, <2>2, <2>5 DEF ReadsIn
  <2> QED
    BY <2>3, <2>4, <2>5
<1> QED
  BY <1>1, <1>2

-----------------------------------------------------------------------------
(* The inductive invariant                                                 *)

\* The lock is held during an evaluation, and while its error is shown.
LockInv == critsec = Nobody <=> stack = <<>> /\ ~too_deep

\* The depth may be counted too high, but never too low.
DepthInv == /\ recursion_depth >= Len(stack)
            /\ too_deep => recursion_depth > Len(stack)
            /\ Len(stack) <= kMaxRecursionDepth

\* A function that is going to be set, or is in question, is there.
WorkInv == pc["heartbeat"] \in {"set", "backup_test", "backup_set"}
             => todo["heartbeat"] # <<>>

\* No engine is more than one scrape behind, and none is after EvaluateAll.
EnginesInv ==
  /\ early \in 0 .. 1 /\ late \in 0 .. 1
  /\ pc["heartbeat"] \in {"scrape", "late", "secondary", "alli", "clear_primary"}
                         \cup Primary => early = 0 /\ late = 0
  /\ pc["heartbeat"] = "delay" => early = 0

\* How old a cached value may be in a step of the heartbeat thread.
Oldest(step) == IF step \in {"reset", "clear"} THEN 2
                ELSE IF step \in Primary THEN 0 ELSE 1
ValuesInv == Inside(0 .. Oldest(pc["heartbeat"]))

IInv == LockInv /\ DepthInv /\ WorkInv /\ EnginesInv /\ ValuesInv

\* What a call changes, whatever the ages S are that may occur.
LEMMA CallEffect ==
  ASSUME TypeOK, ConstantsAssumption, ~too_deep,
         NEW t \in Thread, NEW f \in Function, NEW frames \in Seq(Frame),
         recursion_depth >= Len(frames), Len(frames) <= kMaxRecursionDepth,
         NEW S, ReadsIn(frames, S),
         \A g \in Function : cache[g] # NotCached => cache[g] \subseteq S,
         Call(t, f, frames)
  PROVE  /\ UNCHANGED <<cache, fixed>>
         /\ recursion_depth' \in Nat
         /\ critsec' \in Thread \cup {Nobody}
         /\ stack' \in Seq(Frame)
         /\ too_deep' \in BOOLEAN
         /\ LockInv' /\ DepthInv'
         /\ ReadsIn(stack', S)
<1> DEFINE new == [fn |-> f, next |-> 1, reads |-> {}]
<1>1. recursion_depth \in Nat /\ kMaxRecursionDepth \in Nat /\ t # Nobody
  BY DEF TypeOK, ConstantsAssumption
<1>2. CASE recursion_depth >= kMaxRecursionDepth /\ recursion_depth' = recursion_depth + 1
           /\ too_deep' = TRUE /\ critsec' = t /\ stack' = frames
           /\ UNCHANGED <<cache, fixed>>
  <2>1. LockInv'
    BY <1>1, <1>2 DEF LockInv
  <2>2. DepthInv'
    BY <1>1, <1>2 DEF DepthInv
  <2> QED
    BY <1>1, <1>2, <2>1, <2>2
<1>3. CASE cache[f] # NotCached /\ critsec' = Owner(t, frames)
           /\ stack' = Read(frames, cache[f])
           /\ UNCHANGED <<cache, fixed, recursion_depth, too_deep>>
  <2>0. cache[f] \in (SUBSET Ages) \cup {NotCached}
    BY DEF TypeOK
  <2>1. cache[f] \in SUBSET Ages
    BY <1>3, <2>0
  <2>7. cache[f] \subseteq S
    BY <1>3
  <2>2. /\ stack' \in Seq(Frame) /\ Len(stack') = Len(frames)
        /\ ReadsIn(stack', S)
    BY <1>3, <2>1, <2>7, ReadFrames
  <2>3. frames = <<>> <=> stack' = <<>>
    BY <2>2
  <2>4. LockInv'
    BY <1>1, <1>3, <2>3 DEF LockInv, Owner
  <2>5. DepthInv'
    BY <1>1, <1>3, <2>2 DEF DepthInv
  <2>6. critsec' \in Thread \cup {Nobody}
    BY <1>3 DEF Owner
  <2> QED
    BY <1>1, <1>3, <2>2, <2>4, <2>5, <2>6 DEF TypeOK
<1>4. CASE recursion_depth < kMaxRecursionDepth /\ recursion_depth' = recursion_depth + 1
           /\ critsec' = t /\ stack' = Append(frames, new)
           /\ UNCHANGED <<cache, fixed, too_deep>>
  <2>1. new \in Frame /\ new.reads = {}
    BY DEF Frame
  <2> HIDE DEF new
  <2>2. stack' \in Seq(Frame) /\ Len(stack') = Len(frames) + 1
    BY <1>4, <2>1
  <2>3. ReadsIn(stack', S)
    BY <1>4, <2>1 DEF ReadsIn
  <2>6. stack' # <<>>
    <3>1. Len(frames) \in Nat /\ Len(<<>>) = 0
      OBVIOUS
    <3> QED
      BY <2>2, <3>1
  <2>4. LockInv'
    BY <1>1, <1>4, <2>6 DEF LockInv
  <2>5. DepthInv'
    BY <1>1, <1>4, <2>2 DEF DepthInv
  <2> QED
    BY <1>1, <1>4, <2>2, <2>3, <2>4, <2>5 DEF TypeOK
<1> QED
  BY <1>2, <1>3, <1>4 DEF Call

\* While an evaluation is in progress its innermost function is a frame.
LEMMA InnermostFrame ==
  ASSUME TypeOK, ConstantsAssumption, LockInv, NEW t \in Thread,
         critsec = t, ~too_deep
  PROVE  /\ stack # <<>> /\ Len(stack) \in Nat \ {0}
         /\ Len(stack) \in DOMAIN stack
         /\ Innermost \in Frame
<1>1. stack \in Seq(Frame) /\ stack # <<>>
  BY DEF TypeOK, LockInv, ConstantsAssumption
<1> QED
  BY <1>1 DEF Innermost

\* The types of an evaluation, with its invariants and the ages it may contain.
EvaluationOK(S) ==
  /\ cache \in [Function -> (SUBSET Ages) \cup {NotCached}]
  /\ fixed \in SUBSET Function
  /\ recursion_depth \in Nat
  /\ critsec \in Thread \cup {Nobody}
  /\ stack \in Seq(Frame)
  /\ too_deep \in BOOLEAN
  /\ LockInv /\ DepthInv /\ Inside(S)

LEMMA CallOK ==
  ASSUME TypeOK, ConstantsAssumption, ~too_deep,
         NEW t \in Thread, NEW f \in Function, NEW frames \in Seq(Frame),
         recursion_depth >= Len(frames), Len(frames) <= kMaxRecursionDepth,
         NEW S, ReadsIn(frames, S), Inside(S), Call(t, f, frames)
  PROVE  EvaluationOK(S)'
<1>1. /\ UNCHANGED <<cache, fixed>>
      /\ recursion_depth' \in Nat
      /\ critsec' \in Thread \cup {Nobody}
      /\ stack' \in Seq(Frame)
      /\ too_deep' \in BOOLEAN
      /\ LockInv' /\ DepthInv'
      /\ ReadsIn(stack', S)
  BY CallEffect DEF Inside
<1>2. Inside(S)'
  BY <1>1 DEF Inside, ReadsIn
<1> QED
  BY <1>1, <1>2 DEF EvaluationOK, TypeOK

\* A call that is not nested in another.
LEMMA OuterCallOK ==
  ASSUME TypeOK, ConstantsAssumption, LockInv, DepthInv, NEW S, Inside(S),
         NEW t \in Thread, NEW f \in Function, critsec = Nobody,
         Call(t, f, <<>>)
  PROVE  EvaluationOK(S)'
<1>1. stack = <<>> /\ ~too_deep
  BY DEF LockInv
<1>2. <<>> \in Seq(Frame) /\ Len(<<>>) = 0 /\ ReadsIn(<<>>, S)
  BY DEF ReadsIn
<1>3. recursion_depth >= 0 /\ 0 <= kMaxRecursionDepth
  BY DEF TypeOK, ConstantsAssumption
<1> QED
  BY <1>1, <1>2, <1>3, CallOK

LEMMA OperandOK ==
  ASSUME TypeOK, ConstantsAssumption, LockInv, DepthInv, NEW S, Inside(S),
         early \in S, late \in S, NEW t \in Thread, EvaluateOperand(t)
  PROVE  EvaluationOK(S)'
<1> DEFINE last   == Len(stack)
           top    == [fn |-> Innermost.fn, next |-> Innermost.next + 1,
                      reads |-> Innermost.reads]
           frames == [stack EXCEPT ![last] = top]
           operand == Body[Innermost.fn][Innermost.next]
<1>1. /\ critsec = t /\ ~too_deep /\ stack # <<>> /\ last \in DOMAIN stack
      /\ Innermost \in Frame
  BY InnermostFrame DEF EvaluateOperand
<1>2. top \in Frame /\ top.reads = stack[last].reads
  BY <1>1 DEF Frame, Innermost
<1>3. frames = [stack EXCEPT ![last] = top]
  OBVIOUS
<1>9. stack \in Seq(Frame) /\ ReadsIn(stack, S)
  BY DEF TypeOK, Inside
<1> HIDE DEF top, frames
<1>4. frames \in Seq(Frame) /\ Len(frames) = Len(stack)
  BY <1>1, <1>2, <1>3, <1>9
<1>5. ReadsIn(frames, S)
  BY <1>1, <1>2, <1>3, <1>9 DEF ReadsIn
<1> USE DEF frames, top
<1>6. \/ /\ operand \in Symbol /\ UNCHANGED <<cache, fixed, recursion_depth, critsec, too_deep>>
         /\ stack' = Read(frames, {IF operand = "early" THEN early ELSE late})
      \/ operand \in Function /\ Call(t, operand, frames)
  BY DEF EvaluateOperand
<1> HIDE DEF frames, top, operand
<1>7. CASE /\ operand \in Symbol
           /\ UNCHANGED <<cache, fixed, recursion_depth, critsec, too_deep>>
           /\ stack' = Read(frames, {IF operand = "early" THEN early ELSE late})
  <2> DEFINE ages == {IF operand = "early" THEN early ELSE late}
  <2>1. ages \in SUBSET Ages /\ ages \subseteq S
    BY DEF TypeOK
  <2> HIDE DEF ages
  <2>2. stack' = Read(frames, ages)
    BY <1>7 DEF ages
  <2>3. /\ stack' \in Seq(Frame) /\ Len(stack') = Len(stack)
        /\ ReadsIn(stack', S)
    BY <1>4, <1>5, <2>1, <2>2, ReadFrames
  <2>4. stack' # <<>>
    BY <1>1, <2>3 DEF TypeOK
  <2>5. LockInv'
    BY <1>1, <1>7, <2>4 DEF LockInv
  <2>6. DepthInv'
    BY <1>7, <2>3 DEF DepthInv
  <2>7. Inside(S)'
    BY <1>7, <2>3 DEF Inside, ReadsIn
  <2> QED
    BY <1>7, <2>3, <2>5, <2>6, <2>7 DEF EvaluationOK, TypeOK
<1>8. CASE operand \in Function /\ Call(t, operand, frames)
  <2>1. recursion_depth >= Len(frames) /\ Len(frames) <= kMaxRecursionDepth
    BY <1>4 DEF DepthInv
  <2> QED
    BY <1>1, <1>4, <1>5, <1>8, <2>1, CallOK
<1> QED
  BY <1>6, <1>7, <1>8

LEMMA OneLess ==
  \A n \in Nat \ {0} : (IF 1 <= n - 1 THEN n - 1 - 1 + 1 ELSE 0) = n - 1
OBVIOUS

LEMMA FinishOK ==
  ASSUME TypeOK, ConstantsAssumption, LockInv, DepthInv, NEW S, Inside(S),
         NEW t \in Thread, FinishFunction(t)
  PROVE  EvaluationOK(S)'
<1> DEFINE frames == SubSeq(stack, 1, Len(stack) - 1)
           ages   == Innermost.reads
<1>1. /\ critsec = t /\ ~too_deep /\ stack # <<>> /\ Len(stack) \in Nat \ {0}
      /\ Len(stack) \in DOMAIN stack /\ Innermost \in Frame
  BY InnermostFrame DEF FinishFunction
<1>2. ages \in SUBSET Ages /\ Innermost.fn \in Function /\ ages \subseteq S
  BY <1>1 DEF Frame, Innermost, Inside, ReadsIn
<1>3. /\ frames \in Seq(Frame) /\ Len(frames) = Len(stack) - 1
      /\ \A n \in DOMAIN frames : n \in DOMAIN stack /\ frames[n] = stack[n]
  <2>1. stack \in Seq(Frame)
    BY DEF TypeOK
  <2>2. \A n \in 1 .. Len(stack) - 1 : stack[n] \in Frame
    BY <1>1, <2>1
  <2>3. /\ frames \in Seq(Frame)
        /\ Len(frames) = IF 1 <= Len(stack) - 1 THEN Len(stack) - 1 - 1 + 1 ELSE 0
        /\ \A n \in 1 .. Len(stack) - 1 - 1 + 1 : frames[n] = stack[1 + n - 1]
    BY <1>1, <2>2, SubSeqProperties
  <2> HIDE DEF frames
  <2>4. Len(frames) = Len(stack) - 1
    <3>1. Len(stack) \in Nat \ {0}
      BY <1>1
    <3> QED
      BY <2>3, <3>1, OneLess
  <2>5. DOMAIN frames = 1 .. Len(stack) - 1
    BY <2>3, <2>4
  <2>6. ASSUME NEW n \in 1 .. Len(stack) - 1
        PROVE  n \in DOMAIN stack /\ frames[n] = stack[n]
    <3>1. n \in 1 .. Len(stack) - 1 - 1 + 1 /\ 1 + n - 1 = n
      BY <1>1
    <3> QED
      BY <1>1, <2>1, <2>3, <3>1
  <2> QED
    BY <2>3, <2>4, <2>5, <2>6
<1>4. ReadsIn(frames, S)
  BY <1>3 DEF ReadsIn, Inside
<1>5. /\ stack' = Read(frames, ages) /\ critsec' = Owner(t, frames)
      /\ recursion_depth' = recursion_depth - 1 /\ too_deep' = too_deep
      /\ \/ UNCHANGED <<cache, fixed>>
         \/ cache' = [cache EXCEPT ![Innermost.fn] = ages] /\ fixed' = fixed \ {Innermost.fn}
  BY DEF FinishFunction
<1> HIDE DEF frames, ages
<1>6. /\ stack' \in Seq(Frame) /\ Len(stack') = Len(frames)
      /\ ReadsIn(stack', S)
  BY <1>2, <1>3, <1>4, <1>5, ReadFrames
<1>7. frames = <<>> <=> stack' = <<>>
  BY <1>3, <1>6
<1>8. LockInv'
  BY <1>1, <1>5, <1>7 DEF LockInv, Owner, ConstantsAssumption
<1>9. DepthInv' /\ recursion_depth' \in Nat
  BY <1>1, <1>3, <1>5, <1>6 DEF DepthInv, TypeOK
<1>10. /\ cache' \in [Function -> (SUBSET Ages) \cup {NotCached}]
       /\ fixed' \in SUBSET Function
       /\ \A f \in Function : cache'[f] # NotCached => cache'[f] \subseteq S
  <2>1. CASE UNCHANGED <<cache, fixed>>
    BY <2>1 DEF TypeOK, Inside
  <2>2. CASE cache' = [cache EXCEPT ![Innermost.fn] = ages]
             /\ fixed' = fixed \ {Innermost.fn}
    BY <1>2, <2>2 DEF TypeOK, Inside
  <2> QED
    BY <1>5, <2>1, <2>2
<1>11. critsec' \in Thread \cup {Nobody}
  BY <1>5 DEF Owner
<1>12. Inside(S)'
  BY <1>6, <1>10 DEF Inside, ReadsIn
<1> QED
  BY <1>1, <1>5, <1>6, <1>8, <1>9, <1>10, <1>11, <1>12 DEF EvaluationOK, TypeOK

-----------------------------------------------------------------------------
(* Every step keeps the types and the invariant                            *)

LEMMA GoTypes ==
  ASSUME TypeOK, NEW t \in Thread, NEW step \in Steps, NEW work \in Plan,
         Go(t, step, work)
  PROVE  /\ pc' \in [Thread -> Steps] /\ todo' \in [Thread -> Plan]
         /\ pc'[t] = step /\ todo'[t] = work
         /\ \A u \in Thread \ {t} : pc'[u] = pc[u] /\ todo'[u] = todo[u]
BY DEF TypeOK, Go

LEMMA ResetPlans ==
  ASSUME ConstantsAssumption
  PROVE  {<<>>, ResetFormulas} \subseteq Plan
<1>1. ResetFormulas \in Plan
  BY DEF ConstantsAssumption
<1>2. <<>> \in Plan
  OBVIOUS
<1> QED
  BY <1>1, <1>2

LEMMA FunctionIsSequence ==
  ASSUME NEW S, NEW n \in Nat, NEW F \in [1 .. n -> S]
  PROVE  F \in Seq(S) /\ Len(F) = n
<1>1. F \in Seq(S)
  OBVIOUS
<1> QED
  BY <1>1

LEMMA TailOfPlan ==
  ASSUME NEW work \in Plan, work # <<>>
  PROVE  Head(work) \in Function /\ Tail(work) \in Plan
OBVIOUS

\* What an engine was calculated from may occur in a value.
LEMMA EngineAges ==
  ASSUME EnginesInv
  PROVE  early \in 0 .. Oldest(pc["heartbeat"]) /\ late \in 0 .. Oldest(pc["heartbeat"])
<1>1. CASE pc["heartbeat"] \in Primary
  BY <1>1 DEF EnginesInv, Oldest, Primary
<1>2. CASE pc["heartbeat"] \notin Primary
  BY <1>2 DEF EnginesInv, Oldest
<1> QED
  BY <1>1, <1>2

\* The part of the types that evaluations do not touch.
RestOK ==
  /\ early \in Ages /\ late \in Ages
  /\ engaged \in BOOLEAN
  /\ engaging \in Thread \cup {Nobody}
  /\ pc \in [Thread -> Steps]
  /\ todo \in [Thread -> Plan]
  /\ decision \in SUBSET Function

LEMMA Together ==
  ASSUME NEW S, EvaluationOK(S)', RestOK', WorkInv', EnginesInv',
         S \subseteq 0 .. Oldest(pc'["heartbeat"])
  PROVE  TypeOK' /\ IInv'
<1>1. ValuesInv'
  BY DEF EvaluationOK, ValuesInv, Inside, ReadsIn
<1>2. TypeOK'
  BY DEF EvaluationOK, RestOK, TypeOK
<1>3. LockInv' /\ DepthInv'
  BY DEF EvaluationOK
<1> QED
  BY <1>1, <1>2, <1>3 DEF IInv

\* A step of an evaluation in which no thread goes on.
LEMMA InnerStep ==
  ASSUME TypeOK, IInv, ConstantsAssumption, NEW t \in Thread,
         EvaluateOperand(t) \/ FinishFunction(t)
  PROVE  TypeOK' /\ IInv'
<1>0. PICK n \in 0 .. 2 : n = Oldest(pc["heartbeat"])
  BY DEF Oldest
<1> DEFINE S == 0 .. n
<1>1. early \in S /\ late \in S
  BY <1>0, EngineAges DEF IInv
<1>2. Inside(S) /\ LockInv /\ DepthInv
  BY <1>0 DEF IInv, ValuesInv
<1> HIDE DEF S
<1>3. EvaluationOK(S)'
  BY <1>1, <1>2, OperandOK, FinishOK
<1>4. UNCHANGED <<engines, autoplayer, pc, todo, decision>>
  BY DEF EvaluateOperand, FinishFunction
<1>5. RestOK' /\ WorkInv' /\ EnginesInv'
  BY <1>4 DEF TypeOK, IInv, RestOK, WorkInv, EnginesInv, engines, autoplayer
<1>6. S \subseteq 0 .. Oldest(pc'["heartbeat"])
  BY <1>0, <1>4 DEF S
<1> QED
  BY <1>3, <1>5, <1>6, Together

\* The outermost call of an evaluation.
LEMMA OuterStep ==
  ASSUME TypeOK, IInv, ConstantsAssumption, NEW t \in Thread,
         Evaluate(t) \/ (t = "heartbeat" /\ EvaluateAction)
  PROVE  TypeOK' /\ IInv'
<1>0. PICK n \in 0 .. 2 : n = Oldest(pc["heartbeat"])
  BY DEF Oldest
<1> DEFINE S == 0 .. n
<1>1. Inside(S) /\ LockInv /\ DepthInv
  BY <1>0 DEF IInv, ValuesInv
<1> HIDE DEF S
<1>2. /\ UNCHANGED <<engines, autoplayer, decision>>
      /\ critsec = Nobody /\ todo[t] # <<>>
      /\ Call(t, Head(todo[t]), <<>>)
  BY DEF Evaluate, EvaluateAction
<1>3. todo[t] \in Plan /\ pc[t] \in Steps
  BY DEF TypeOK
<1>4. Head(todo[t]) \in Function /\ Tail(todo[t]) \in Plan
  BY <1>2, <1>3, TailOfPlan
<1>5. EvaluationOK(S)'
  BY <1>1, <1>2, <1>4, OuterCallOK
<1>6. CASE Evaluate(t)
  <2>1. Go(t, pc[t], Tail(todo[t])) /\ pc[t] \in Evaluating
    BY <1>6 DEF Evaluate
  <2>2. /\ pc' = pc /\ todo' \in [Thread -> Plan]
        /\ \A u \in Thread \ {t} : todo'[u] = todo[u]
    BY <1>3, <1>4, <2>1, GoTypes DEF Go, TypeOK
  <2>3. RestOK'
    BY <1>2, <2>2 DEF TypeOK, RestOK, engines, autoplayer
  <2>4. WorkInv'
    BY <2>1, <2>2 DEF IInv, WorkInv, Evaluating
  <2>5. EnginesInv'
    BY <1>2, <2>2 DEF IInv, EnginesInv, engines
  <2>6. S \subseteq 0 .. Oldest(pc'["heartbeat"])
    BY <1>0, <2>2 DEF S
  <2> QED
    BY <1>5, <2>3, <2>4, <2>5, <2>6, Together
<1>7. CASE t = "heartbeat" /\ EvaluateAction
  <2>1. /\ Go("heartbeat", "backup_test", todo["heartbeat"])
        /\ pc["heartbeat"] = "backup" /\ todo["heartbeat"] # <<>>
    BY <1>7 DEF EvaluateAction
  <2>2. /\ pc' \in [Thread -> Steps] /\ todo' \in [Thread -> Plan]
        /\ pc'["heartbeat"] = "backup_test"
        /\ todo'["heartbeat"] = todo["heartbeat"]
    BY <1>3, <1>7, <2>1, GoTypes DEF Steps
  <2>3. RestOK'
    BY <1>2, <2>2 DEF TypeOK, RestOK, engines, autoplayer
  <2>4. WorkInv'
    BY <2>1, <2>2 DEF WorkInv
  <2>5. EnginesInv'
    BY <1>2, <2>1, <2>2 DEF IInv, EnginesInv, engines, Primary
  <2>6. S \subseteq 0 .. Oldest(pc'["heartbeat"])
    BY <1>0, <2>1, <2>2 DEF S, Oldest, Primary
  <2> QED
    BY <1>5, <2>3, <2>4, <2>5, <2>6, Together
<1> QED
  BY <1>6, <1>7

\* The steps in which all engines belong to the last scrape, and those in which
\* the heartbeat thread has a function at hand.
Current == {"scrape", "late", "secondary", "alli", "clear_primary"} \cup Primary
AtHand  == {"set", "backup_test", "backup_set"}

\* A step that only moves a thread.
LEMMA QuietStep ==
  ASSUME TypeOK, IInv, ConstantsAssumption,
         NEW t \in Thread, NEW step \in Steps, NEW work \in Plan,
         Go(t, step, work),
         UNCHANGED <<engines, evaluation, engaging, decision>>,
         engaged' \in BOOLEAN,
         t = "heartbeat" =>
           /\ step \in Current => pc["heartbeat"] \in Current
           /\ step # "delay"
           /\ Oldest(pc["heartbeat"]) <= Oldest(step)
           /\ step \in AtHand => work # <<>>
  PROVE  TypeOK' /\ IInv'
<1>0. PICK n \in 0 .. 2 : n = Oldest(pc["heartbeat"])
  BY DEF Oldest
<1>1. /\ pc' \in [Thread -> Steps] /\ todo' \in [Thread -> Plan]
      /\ pc'[t] = step /\ todo'[t] = work
      /\ \A u \in Thread \ {t} : pc'[u] = pc[u] /\ todo'[u] = todo[u]
  BY GoTypes
<1>2. RestOK'
  BY <1>1 DEF TypeOK, RestOK, engines
<1>3. EvaluationOK(0 .. n)'
  BY <1>0 DEF TypeOK, IInv, EvaluationOK, LockInv, DepthInv, ValuesInv, Inside,
              ReadsIn, evaluation
<1>4. CASE t = "heartbeat"
  <2>1. WorkInv'
    BY <1>1, <1>4 DEF WorkInv, AtHand
  <2>2. EnginesInv'
    BY <1>1, <1>4 DEF IInv, EnginesInv, Current, engines
  <2>3. 0 .. n \subseteq 0 .. Oldest(pc'["heartbeat"])
    BY <1>0, <1>1, <1>4 DEF Oldest
  <2> QED
    BY <1>2, <1>3, <2>1, <2>2, <2>3, Together
<1>5. CASE t # "heartbeat"
  <2>1. pc'["heartbeat"] = pc["heartbeat"] /\ todo'["heartbeat"] = todo["heartbeat"]
    BY <1>1, <1>5
  <2>2. WorkInv'
    BY <2>1 DEF IInv, WorkInv
  <2>3. EnginesInv'
    BY <2>1 DEF IInv, EnginesInv, engines
  <2>4. 0 .. n \subseteq 0 .. Oldest(pc'["heartbeat"])
    BY <1>0, <2>1 DEF Oldest
  <2> QED
    BY <1>2, <1>3, <2>2, <2>3, <2>4, Together
<1> QED
  BY <1>4, <1>5

\* The error of a recursion is shown, and ends.
LEMMA ErrorStep ==
  ASSUME TypeOK, IInv, ConstantsAssumption, NEW t \in Thread,
         EngageAutoplayer(t) \/ StopAutoplayer(t)
  PROVE  TypeOK' /\ IInv'
<1>0. PICK n \in 0 .. 2 : n = Oldest(pc["heartbeat"])
  BY DEF Oldest
<1>1. /\ UNCHANGED <<engines, pc, todo, decision, stack, cache, fixed>>
      /\ engaged' \in BOOLEAN /\ engaging' \in Thread \cup {Nobody}
  BY DEF EngageAutoplayer, StopAutoplayer, TypeOK, evaluation
<1>2. RestOK' /\ WorkInv' /\ EnginesInv'
  BY <1>1 DEF TypeOK, IInv, RestOK, WorkInv, EnginesInv, engines
<1>3. Inside(0 .. n)'
  BY <1>0, <1>1 DEF IInv, ValuesInv, Inside, ReadsIn
<1>4. /\ LockInv' /\ DepthInv' /\ recursion_depth' \in Nat
      /\ too_deep' \in BOOLEAN /\ critsec' \in Thread \cup {Nobody}
  <2>1. CASE EngageAutoplayer(t)
    BY <2>1 DEF EngageAutoplayer, evaluation, TypeOK, IInv, LockInv, DepthInv
  <2>2. CASE StopAutoplayer(t)
    <3>1. /\ critsec' = Owner(t, stack) /\ too_deep' = FALSE /\ too_deep
          /\ stack' = stack
          /\ recursion_depth' = recursion_depth + 1
             \/ recursion_depth' = Len(stack) + kMaxRecursionDepth + 1
      BY <2>2 DEF StopAutoplayer
    <3>2. Len(stack) \in Nat /\ recursion_depth \in Nat /\ kMaxRecursionDepth \in Nat
      BY DEF TypeOK, ConstantsAssumption
    <3>3. LockInv' /\ critsec' \in Thread \cup {Nobody}
      BY <3>1 DEF LockInv, Owner, ConstantsAssumption
    <3>4. DepthInv' /\ recursion_depth' \in Nat
      BY <3>1, <3>2 DEF IInv, DepthInv
    <3> QED
      BY <3>1, <3>3, <3>4
  <2> QED
    BY <2>1, <2>2
<1>5. EvaluationOK(0 .. n)'
  BY <1>1, <1>3, <1>4 DEF EvaluationOK, TypeOK
<1>6. 0 .. n \subseteq 0 .. Oldest(pc'["heartbeat"])
  BY <1>0, <1>1 DEF Oldest
<1> QED
  BY <1>2, <1>5, <1>6, Together

\* After the caches were cleared there is no value at all.
LEMMA ClearStep ==
  ASSUME TypeOK, IInv, ConstantsAssumption,
         NEW t \in Thread, NEW step \in Steps, NEW work \in Plan,
         ClearCache, Go(t, step, work),
         UNCHANGED <<engines, autoplayer, decision>>,
         t = "heartbeat" =>
           /\ step \in Current => pc["heartbeat"] \in Current
           /\ step # "delay" /\ step \notin AtHand
  PROVE  TypeOK' /\ IInv'
<1>1. /\ pc' \in [Thread -> Steps] /\ todo' \in [Thread -> Plan]
      /\ pc'[t] = step
      /\ \A u \in Thread \ {t} : pc'[u] = pc[u] /\ todo'[u] = todo[u]
  BY GoTypes
<1>2. RestOK'
  BY <1>1 DEF TypeOK, RestOK, engines, autoplayer
<1>3. /\ cache' = [f \in Function |-> NotCached] /\ fixed' = {}
      /\ UNCHANGED <<recursion_depth, critsec, stack, too_deep>>
      /\ stack = <<>>
  BY DEF ClearCache, IInv, LockInv
<1>4. /\ cache' \in [Function -> (SUBSET Ages) \cup {NotCached}]
      /\ Inside({})'
  BY <1>3 DEF Inside, ReadsIn
<1>5. EvaluationOK({})'
  BY <1>3, <1>4 DEF TypeOK, IInv, EvaluationOK, LockInv, DepthInv
<1>6. WorkInv'
  BY <1>1 DEF IInv, WorkInv, AtHand
<1>7. EnginesInv'
  BY <1>1 DEF IInv, EnginesInv, Current, engines
<1> QED
  BY <1>2, <1>5, <1>6, <1>7, Together

\* Engines are calculated; values that are cached or being calculated stay.
LEMMA EnginesStep ==
  ASSUME TypeOK, IInv, ConstantsAssumption, NEW t \in Thread,
         EarlyEngines(t) \/ LateEngines(t)
  PROVE  TypeOK' /\ IInv'
<1>0. PICK n \in 0 .. 2 : n = Oldest(pc["heartbeat"])
  BY DEF Oldest
<1>1. UNCHANGED <<evaluation, autoplayer, decision>>
  BY DEF EarlyEngines, LateEngines
<1>2. EvaluationOK(0 .. n)'
  BY <1>0, <1>1 DEF TypeOK, IInv, EvaluationOK, LockInv, DepthInv, ValuesInv,
                    Inside, ReadsIn, evaluation
<1>3. \E step \in {"delay", "late"}, work \in Plan : Go(t, step, work)
  <2>1. HeartbeatFormulas \in Plan /\ f_delay \in Function
    BY DEF ConstantsAssumption
  <2>2. <<f_delay>> \in Plan
    BY <2>1
  <2>3. CASE EarlyEngines(t)
    BY <2>2, <2>3 DEF EarlyEngines
  <2>4. CASE LateEngines(t)
    BY <2>1, <2>4 DEF LateEngines
  <2> QED
    BY <2>3, <2>4
<1>4. /\ pc' \in [Thread -> Steps] /\ todo' \in [Thread -> Plan]
      /\ \A u \in Thread \ {t} : pc'[u] = pc[u] /\ todo'[u] = todo[u]
  BY <1>3, GoTypes DEF Steps, Evaluating
<1>5. /\ pc[t] \in {"early", "delay"}
      /\ pc[t] = "early" => pc'[t] = "delay" /\ early' = 0 /\ late' = late
      /\ pc[t] = "delay" => pc'[t] = "late" /\ late' = 0 /\ early' = early
  BY DEF EarlyEngines, LateEngines, Go, Done, TypeOK
<1>6. early' \in 0 .. 1 /\ late' \in 0 .. 1 /\ 0 \in Ages
  BY <1>5 DEF IInv, EnginesInv, ConstantsAssumption
<1>7. early' \in Ages /\ late' \in Ages
  BY <1>5, <1>6 DEF TypeOK
<1>8. RestOK'
  BY <1>1, <1>4, <1>7 DEF TypeOK, RestOK, autoplayer
<1>9. CASE t = "heartbeat"
  <2>1. WorkInv' /\ EnginesInv'
    BY <1>5, <1>6, <1>9 DEF IInv, WorkInv, EnginesInv, Primary
  <2>2. n = 1 /\ Oldest(pc'["heartbeat"]) = 1
    BY <1>0, <1>5, <1>9 DEF Oldest, Primary
  <2> QED
    BY <1>2, <1>8, <2>1, <2>2, Together
<1>10. CASE t # "heartbeat"
  <2>1. pc'["heartbeat"] = pc["heartbeat"] /\ todo'["heartbeat"] = todo["heartbeat"]
    BY <1>4, <1>10
  <2>2. (early' = 0 \/ early' = early) /\ (late' = 0 \/ late' = late)
    BY <1>5
  <2>3. WorkInv' /\ EnginesInv'
    BY <1>6, <2>1, <2>2 DEF IInv, WorkInv, EnginesInv
  <2>4. 0 .. n \subseteq 0 .. Oldest(pc'["heartbeat"])
    BY <1>0, <2>1 DEF Oldest
  <2> QED
    BY <1>2, <1>8, <2>3, <2>4, Together
<1> QED
  BY <1>9, <1>10

LEMMA OlderByOne ==
  ASSUME ConstantsAssumption, NEW ages, ages \subseteq 0 .. 1
  PROVE  Older(ages) \subseteq 0 .. 2
<1>1. MaxAge \in Nat \ {0}
  BY DEF ConstantsAssumption
<1>2. \A a \in 0 .. 1 : (IF a < MaxAge THEN a + 1 ELSE a) \in 0 .. 2
  BY <1>1
<1> QED
  BY <1>2 DEF Older

LEMMA OlderThanNow == ConstantsAssumption => \A a \in Older({0}) : a \in 0 .. 1
BY DEF Older, ConstantsAssumption

\* A scrape makes everything one scrape older.
LEMMA ScrapeStep ==
  ASSUME TypeOK, IInv, ConstantsAssumption, DoScrape
  PROVE  TypeOK' /\ IInv'
<1> DEFINE Frames == [n \in DOMAIN stack |->
                       [stack[n] EXCEPT !.reads = Older(stack[n].reads)]]
<1>1. /\ pc["heartbeat"] = "scrape" /\ early = 0 /\ late = 0
      /\ Inside(0 .. 1)
  BY DEF DoScrape, IInv, EnginesInv, ValuesInv, Oldest, Primary
<1>2. PICK work \in Plan : Go("heartbeat", "reset", work)
  BY ResetPlans DEF DoScrape, EvaluateAll
<1>3. /\ pc' \in [Thread -> Steps] /\ todo' \in [Thread -> Plan]
      /\ pc'["heartbeat"] = "reset"
  BY <1>2, GoTypes DEF Steps, Evaluating
<1>4. /\ early' \in 0 .. 1 /\ late' \in 0 .. 1
      /\ early' \in Ages /\ late' \in Ages
  <2>1. early' \in Older({0}) /\ late' \in Older({0})
    BY <1>1 DEF DoScrape
  <2>2. {0} \in SUBSET Ages
    BY DEF ConstantsAssumption
  <2> QED
    BY <2>1, <2>2, OlderThanNow, OlderType
<1>5. /\ cache' \in [Function -> (SUBSET Ages) \cup {NotCached}]
      /\ \A f \in Function : cache'[f] # NotCached => cache'[f] \subseteq 0 .. 2
  <2>1. ASSUME NEW f \in Function
        PROVE  \/ cache'[f] = NotCached
               \/ cache'[f] \in SUBSET Ages /\ cache'[f] \subseteq 0 .. 2
    <3>1. CASE cache[f] = NotCached
      BY <3>1 DEF DoScrape
    <3>2. CASE cache[f] # NotCached
      <4>1. cache[f] \in (SUBSET Ages) \cup {NotCached}
        BY DEF TypeOK
      <4>2. cache[f] \in SUBSET Ages /\ cache[f] \subseteq 0 .. 1
        BY <1>1, <3>2, <4>1 DEF Inside
      <4>3. cache'[f] = Older(cache[f])
        BY <3>2 DEF DoScrape
      <4> QED
        BY <4>2, <4>3, OlderType, OlderByOne
    <3> QED
      BY <3>1, <3>2
  <2>2. cache' = [f \in Function |-> cache'[f]]
    BY DEF DoScrape
  <2> QED
    BY <2>1, <2>2
<1>6. /\ stack' \in Seq(Frame) /\ Len(stack') = Len(stack)
      /\ ReadsIn(stack', 0 .. 2)
  <2>1. stack \in Seq(Frame) /\ stack' = Frames
    BY DEF TypeOK, DoScrape
  <2>2. ASSUME NEW n \in DOMAIN stack
        PROVE  /\ Frames[n] \in Frame
               /\ Frames[n].reads \subseteq 0 .. 2
    <3>1. stack[n] \in Frame /\ stack[n].reads \subseteq 0 .. 1
      BY <1>1, <2>1 DEF Inside, ReadsIn
    <3>2. /\ Older(stack[n].reads) \in SUBSET Ages
          /\ Older(stack[n].reads) \subseteq 0 .. 2
      BY <3>1, OlderType, OlderByOne DEF Frame
    <3>3. Frames[n] = [stack[n] EXCEPT !.reads = Older(stack[n].reads)]
      OBVIOUS
    <3> HIDE DEF Frames
    <3> QED
      BY <3>1, <3>2, <3>3 DEF Frame
  <2>3. DOMAIN Frames = DOMAIN stack
    OBVIOUS
  <2> HIDE DEF Frames
  <2>4. Frames \in Seq(Frame) /\ Len(Frames) = Len(stack)
    <3>1. Len(stack) \in Nat /\ DOMAIN stack = 1 .. Len(stack)
      BY <2>1
    <3>2. Frames = [n \in 1 .. Len(stack) |-> Frames[n]]
      BY <3>1 DEF Frames
    <3>3. Frames \in [1 .. Len(stack) -> Frame]
      BY <2>2, <3>1, <3>2
    <3> QED
      BY <3>1, <3>3, FunctionIsSequence
  <2> QED
    BY <2>1, <2>2, <2>3, <2>4 DEF ReadsIn
<1>7. stack' = <<>> <=> stack = <<>>
  BY <1>6 DEF TypeOK
<1>8. UNCHANGED <<fixed, recursion_depth, critsec, too_deep, autoplayer>>
      /\ decision' = {}
  BY DEF DoScrape
<1>9. LockInv' /\ DepthInv'
  BY <1>6, <1>7, <1>8 DEF IInv, LockInv, DepthInv
<1>10. EvaluationOK(0 .. 2)'
  BY <1>5, <1>6, <1>8, <1>9 DEF EvaluationOK, TypeOK, Inside
<1>11. RestOK'
  BY <1>3, <1>4, <1>8 DEF TypeOK, RestOK, autoplayer
<1>12. WorkInv' /\ EnginesInv'
  BY <1>3, <1>4 DEF WorkInv, EnginesInv, Primary
<1>13. Oldest(pc'["heartbeat"]) = 2
  BY <1>3 DEF Oldest
<1> QED
  BY <1>10, <1>11, <1>12, <1>13, Together

\* A function is set to a value of this heartbeat.
LEMMA SetStep ==
  ASSUME TypeOK, IInv, ConstantsAssumption, SetDecided \/ SetBackup
  PROVE  TypeOK' /\ IInv'
<1> DEFINE work == todo["heartbeat"]
<1>1. work \in Plan /\ work # <<>> /\ pc["heartbeat"] \in Primary
  BY DEF SetDecided, SetBackup, TypeOK, IInv, WorkInv, Primary
<1>2. Head(work) \in Function /\ Tail(work) \in Plan
  BY <1>1, TailOfPlan
<1>3. PICK f \in Function : SetValue(f)
  BY <1>2 DEF SetDecided, SetBackup, ConstantsAssumption
<1>4. PICK step \in {"decide", "backup"} : Go("heartbeat", step, Tail(work))
  BY DEF SetDecided, SetBackup
<1>5. UNCHANGED <<engines, autoplayer>>
  BY DEF SetDecided, SetBackup
<1> HIDE DEF work
<1>6. /\ pc' \in [Thread -> Steps] /\ todo' \in [Thread -> Plan]
      /\ pc'["heartbeat"] = step
  BY <1>2, <1>4, GoTypes DEF Steps
<1>7. /\ cache' = [cache EXCEPT ![f] = {0}] /\ fixed' = fixed \cup {f}
      /\ decision' = decision \cup {f}
      /\ UNCHANGED <<recursion_depth, critsec, stack, too_deep>>
  BY <1>3 DEF SetValue
<1>8. Inside(0 .. 0) /\ {0} \subseteq 0 .. 0
  <2>1. Oldest(pc["heartbeat"]) = 0
    BY <1>1 DEF Oldest, Primary
  <2>2. Inside(0 .. 0)
    BY <2>1 DEF IInv, ValuesInv
  <2> QED
    BY <2>2
<1>9. {0} \in SUBSET Ages
  BY DEF ConstantsAssumption
<1>10. /\ cache' \in [Function -> (SUBSET Ages) \cup {NotCached}]
       /\ fixed' \in SUBSET Function
  BY <1>7, <1>9 DEF TypeOK
<1>11. Inside(0 .. 0)'
  BY <1>7, <1>8 DEF TypeOK, Inside, ReadsIn
<1>12. LockInv' /\ DepthInv'
  BY <1>7 DEF IInv, LockInv, DepthInv
<1>13. EvaluationOK(0 .. 0)'
  BY <1>7, <1>10, <1>11, <1>12 DEF TypeOK, EvaluationOK
<1>14. RestOK'
  BY <1>5, <1>6, <1>7 DEF TypeOK, RestOK, engines, autoplayer
<1>15. WorkInv' /\ EnginesInv'
  BY <1>1, <1>5, <1>6 DEF IInv, WorkInv, EnginesInv, engines, Primary
<1>16. Oldest(pc'["heartbeat"]) = 0
  BY <1>6 DEF Oldest, Primary
<1> QED
  BY <1>13, <1>14, <1>15, <1>16, Together

\* Steps of the heartbeat thread, and of the GUI thread, that only move it.
LEMMA Move ==
  ASSUME TypeOK, IInv, ConstantsAssumption,
         NEW step \in Current, NEW work \in Plan, Go("heartbeat", step, work),
         UNCHANGED <<engines, evaluation, autoplayer, decision>>,
         pc["heartbeat"] \in Current,
         pc["heartbeat"] \in Primary \/ step \notin Primary,
         step \in AtHand => work # <<>>
  PROVE  TypeOK' /\ IInv'
<1>1. step \in Steps /\ step # "delay"
  BY DEF Steps, Evaluating, Current, Primary
<1>2. Oldest(pc["heartbeat"]) <= Oldest(step)
  BY DEF Oldest, Current, Primary
<1>3. UNCHANGED <<engines, evaluation, engaging, decision>> /\ engaged' \in BOOLEAN
  BY DEF autoplayer, TypeOK
<1> QED
  BY <1>1, <1>2, <1>3, QuietStep

LEMMA SilentStep ==
  ASSUME TypeOK, IInv, ConstantsAssumption, NEW step \in Current \ AtHand,
         NEW work \in Plan, NEW from \in Current, Silent(from, step, work),
         from \in Primary \/ step \notin Primary
  PROVE  TypeOK' /\ IInv'
<1>1. /\ pc["heartbeat"] = from /\ Go("heartbeat", step, work)
      /\ UNCHANGED <<engines, evaluation, autoplayer, decision>>
  BY DEF Silent, Done
<1> QED
  BY <1>1, Move

LEMMA StopStep ==
  ASSUME TypeOK, IInv, ConstantsAssumption, NEW from \in Primary,
         NEW step \in {"mutex", "scrape"}, StopAsking(from, step)
  PROVE  TypeOK' /\ IInv'
<1>1. /\ pc["heartbeat"] = from /\ Go("heartbeat", step, <<>>)
      /\ UNCHANGED <<engines, evaluation, autoplayer, decision>>
  BY DEF StopAsking
<1>2. <<>> \in Plan
  OBVIOUS
<1>3. step \in Current /\ step \notin AtHand /\ from \in Current
  BY DEF Current, Primary, AtHand
<1> QED
  BY <1>1, <1>2, <1>3, Move

LEMMA HeartbeatQuiet ==
  ASSUME TypeOK, IInv, ConstantsAssumption,
         \/ FinishSecondary \/ CalcPrimaryFormulas \/ TranslateDecision
         \/ NextDecided \/ FinishDecision \/ TestAction \/ FinishCalculation
         \/ AnyPrimaryFormulaTrue \/ WaitForMouse \/ ExecutePrimaryFormulas
  PROVE  TypeOK' /\ IInv'
<1> DEFINE t == "heartbeat"
<1>0. <<>> \in Plan /\ f_alli \in Function /\ PrimaryFormulas \in Plan
      /\ BackupActions \in Plan /\ \A d \in Decisions : d \in Plan
  BY DEF ConstantsAssumption
<1>1. <<f_alli>> \in Plan
  BY <1>0
<1>2. todo[t] \in Plan
  BY DEF TypeOK
<1>3. /\ {"scrape", "secondary", "alli", "clear_primary", "decide", "backup", "any",
           "mutex", "execute", "primary"} \subseteq Current \ AtHand
      /\ {"decide", "backup", "any", "mutex", "execute", "primary"} \subseteq Primary
      /\ {"scrape", "secondary", "alli", "clear_primary"} \cap Primary = {}
  BY DEF Current, Primary, AtHand
<1>4. CASE FinishSecondary
  BY <1>0, <1>1, <1>3, <1>4, SilentStep DEF FinishSecondary
<1>5. CASE CalcPrimaryFormulas
  BY <1>0, <1>3, <1>5, SilentStep DEF CalcPrimaryFormulas
<1>6. CASE TranslateDecision
  <2>1. PICK functions \in Decisions : Silent("primary", "decide", functions)
    BY <1>6 DEF TranslateDecision
  <2>2. functions \in Plan
    BY <1>0
  <2> QED
    BY <1>3, <2>1, <2>2, SilentStep
<1>7. CASE NextDecided
  <2>1. /\ pc[t] = "decide" /\ todo[t] # <<>> /\ Go(t, "set", todo[t])
        /\ UNCHANGED <<engines, evaluation, autoplayer, decision>>
    BY <1>7 DEF NextDecided
  <2>2. "set" \in Current
    BY DEF Current, Primary
  <2> QED
    BY <1>2, <1>3, <2>1, <2>2, Move
<1>8. CASE FinishDecision
  BY <1>0, <1>3, <1>8, SilentStep DEF FinishDecision
<1>9. CASE TestAction
  <2>1. /\ todo[t] # <<>> /\ pc[t] = "backup_test"
        /\ Go(t, "backup_set", todo[t]) \/ Go(t, "backup", Tail(todo[t]))
        /\ UNCHANGED <<engines, evaluation, autoplayer, decision>>
    BY <1>9 DEF TestAction, IInv, WorkInv
  <2>2. Tail(todo[t]) \in Plan
    BY <1>2, <2>1, TailOfPlan
  <2>3. "backup_set" \in Current /\ pc[t] \in Current /\ pc[t] \in Primary
    BY <2>1 DEF Current, Primary
  <2>4. CASE Go(t, "backup_set", todo[t])
    BY <1>2, <2>1, <2>3, <2>4, Move
  <2>5. CASE Go(t, "backup", Tail(todo[t]))
    BY <1>3, <2>1, <2>2, <2>3, <2>5, Move
  <2> QED
    BY <2>1, <2>4, <2>5
<1>10. CASE FinishCalculation
  BY <1>0, <1>3, <1>10, SilentStep DEF FinishCalculation
<1>11. CASE AnyPrimaryFormulaTrue
  BY <1>3, <1>11, StopStep DEF AnyPrimaryFormulaTrue
<1>12. CASE WaitForMouse
  BY <1>0, <1>3, <1>12, SilentStep DEF WaitForMouse
<1>13. CASE ExecutePrimaryFormulas
  BY <1>3, <1>13, StopStep DEF ExecutePrimaryFormulas
<1> QED
  BY <1>4, <1>5, <1>6, <1>7, <1>8, <1>9, <1>10, <1>11, <1>12, <1>13

LEMMA GuiQuiet ==
  ASSUME TypeOK, IInv, ConstantsAssumption,
         \/ OnBnClickedCalc \/ OnBnClickedFlags \/ UpdateDebugAuto
         \/ FinishGui \/ OnAutoplayer \/ SwitchAutoplayer
  PROVE  TypeOK' /\ IInv'
<1> DEFINE t == "gui"
<1>0. <<>> \in Plan
  OBVIOUS
<1>1. \A f \in Function : <<f>> \in Plan
  OBVIOUS
<1>2. /\ UNCHANGED <<engines, evaluation, engaging, decision>>
      /\ engaged' \in BOOLEAN
  BY DEF OnBnClickedCalc, OnBnClickedFlags, UpdateDebugAuto, FinishGui,
         OnAutoplayer, SwitchAutoplayer, autoplayer, TypeOK
<1>3. \E step \in Steps, work \in Plan : Go(t, step, work)
  <2>1. CASE OnBnClickedCalc
    BY <1>1, <2>1 DEF OnBnClickedCalc, Steps, Evaluating
  <2>2. CASE OnBnClickedFlags
    BY <2>2, ResetPlans DEF OnBnClickedFlags, EvaluateAll, Steps, Evaluating
  <2>3. CASE UpdateDebugAuto \/ FinishGui \/ OnAutoplayer \/ SwitchAutoplayer
    BY <1>0, <2>3 DEF UpdateDebugAuto, FinishGui, OnAutoplayer, SwitchAutoplayer,
                      Steps
  <2> QED
    BY <2>1, <2>2, <2>3
<1>4. PICK step \in Steps, work \in Plan : Go(t, step, work)
  BY <1>3
<1> QED
  BY <1>2, <1>4, QuietStep

\* Between the parts of EvaluateAll.
LEMMA EvaluateAllQuiet ==
  ASSUME TypeOK, IInv, ConstantsAssumption, NEW t \in Thread,
         FinishReset(t) \/ FinishEvaluateAll(t)
  PROVE  TypeOK' /\ IInv'
<1>0. <<>> \in Plan /\ SecondaryFormulas \in Plan
  BY DEF ConstantsAssumption
<1>1. UNCHANGED <<engines, evaluation, engaging, decision>> /\ engaged' \in BOOLEAN
  BY DEF FinishReset, FinishEvaluateAll, autoplayer, TypeOK
<1>2. \E step \in {"clear", "loop", "secondary", "scrape"}, work \in Plan :
        /\ Go(t, step, work)
        /\ pc[t] = IF step = "clear" THEN "reset" ELSE "late"
        /\ step = "loop" => t = "gui"
  <2>1. CASE FinishReset(t)
    BY <1>0, <2>1 DEF FinishReset, Done
  <2>2. CASE FinishEvaluateAll(t)
    BY <1>0, <2>2 DEF FinishEvaluateAll, Done
  <2> QED
    BY <2>1, <2>2
<1>3. PICK step \in {"clear", "loop", "secondary", "scrape"}, work \in Plan :
        /\ Go(t, step, work)
        /\ pc[t] = IF step = "clear" THEN "reset" ELSE "late"
        /\ step = "loop" => t = "gui"
  BY <1>2
<1>4. step \in Steps
  BY DEF Steps, Evaluating
<1>5. t = "heartbeat" =>
        /\ step \in Current => pc["heartbeat"] \in Current
        /\ step # "delay"
        /\ Oldest(pc["heartbeat"]) <= Oldest(step)
        /\ step \in AtHand => work # <<>>
  BY <1>3 DEF Current, Oldest, Primary, AtHand
<1> QED
  BY <1>1, <1>3, <1>4, <1>5, QuietStep

LEMMA ClearsOK ==
  ASSUME TypeOK, IInv, ConstantsAssumption,
         (\E t \in Thread : ResetOnHeartbeat(t)) \/ ClearCacheForPrimary
                                                \/ ClearCacheForDebug
  PROVE  TypeOK' /\ IInv'
<1>0. <<>> \in Plan /\ PrimaryFormulas \in Plan /\ DebugFormulas \in Plan
  BY DEF ConstantsAssumption
<1>1. CASE \E t \in Thread : ResetOnHeartbeat(t)
  <2>1. PICK t \in Thread : ResetOnHeartbeat(t)
    BY <1>1
  <2>2. ClearCache /\ Go(t, "early", <<>>) /\ UNCHANGED <<engines, autoplayer, decision>>
    BY <2>1 DEF ResetOnHeartbeat
  <2>3. "early" \in Steps /\ "early" \notin Current \cup AtHand
    BY DEF Steps, Current, Primary, AtHand
  <2> QED
    BY <1>0, <2>2, <2>3, ClearStep
<1>2. CASE ClearCacheForPrimary
  <2>1. /\ ClearCache /\ Go("heartbeat", "primary", PrimaryFormulas)
        /\ UNCHANGED <<engines, autoplayer, decision>>
        /\ pc["heartbeat"] \in Current
    BY <1>2 DEF ClearCacheForPrimary, Current
  <2>2. "primary" \in Steps /\ "primary" \notin AtHand
    BY DEF Steps, Evaluating, AtHand
  <2> QED
    BY <1>0, <2>1, <2>2, ClearStep
<1>3. CASE ClearCacheForDebug
  <2>1. /\ ClearCache /\ Go("gui", "debug", DebugFormulas)
        /\ UNCHANGED <<engines, autoplayer, decision>>
    BY <1>3 DEF ClearCacheForDebug
  <2>2. "debug" \in Steps
    BY DEF Steps, Evaluating
  <2> QED
    BY <1>0, <2>1, <2>2, ClearStep
<1> QED
  BY <1>1, <1>2, <1>3

LEMMA InitOK ==
  ASSUME ConstantsAssumption, Init
  PROVE  TypeOK /\ IInv
<1>1. 0 \in Ages /\ kMaxRecursionDepth \in Nat
  BY DEF ConstantsAssumption
<1>2. pc["heartbeat"] = "scrape" /\ pc \in [Thread -> Steps]
  BY DEF Init, Steps
<1>3. stack \in Seq(Frame) /\ Len(stack) = 0 /\ DOMAIN stack = {}
  BY DEF Init
<1>4. <<>> \in Plan
  OBVIOUS
<1>5. TypeOK
  BY <1>1, <1>2, <1>3, <1>4 DEF Init, TypeOK
<1>6. LockInv /\ DepthInv
  BY <1>1, <1>3 DEF Init, LockInv, DepthInv
<1>7. WorkInv /\ EnginesInv
  BY <1>2 DEF Init, WorkInv, EnginesInv, Primary
<1>8. ValuesInv
  BY <1>3 DEF Init, ValuesInv, Inside, ReadsIn
<1> QED
  BY <1>5, <1>6, <1>7, <1>8 DEF IInv

LEMMA StepOK ==
  ASSUME ConstantsAssumption, TypeOK, IInv, [Next]_vars
  PROVE  TypeOK' /\ IInv'
<1>1. CASE HeartbeatStep
  BY <1>1, ScrapeStep, HeartbeatQuiet, ClearsOK, SetStep, OuterStep
     DEF HeartbeatStep
<1>2. ASSUME NEW t \in Thread, ThreadStep(t)
      PROVE  TypeOK' /\ IInv'
  <2>1. CASE Evaluate(t)
    <3>1. Evaluate(t) \/ (t = "heartbeat" /\ EvaluateAction)
      BY <2>1
    <3> QED
      BY <3>1, OuterStep
  <2>2. CASE EvaluateOperand(t) \/ FinishFunction(t)
    BY <2>2, InnerStep
  <2>3. CASE EngageAutoplayer(t) \/ StopAutoplayer(t)
    BY <2>3, ErrorStep
  <2>4. CASE FinishReset(t) \/ FinishEvaluateAll(t)
    BY <2>4, EvaluateAllQuiet
  <2>5. CASE ResetOnHeartbeat(t)
    BY <2>5, ClearsOK
  <2>6. CASE EarlyEngines(t) \/ LateEngines(t)
    BY <2>6, EnginesStep
  <2> QED
    BY <1>2, <2>1, <2>2, <2>3, <2>4, <2>5, <2>6 DEF ThreadStep
<1>3. CASE GuiWork
  BY <1>3, ClearsOK, GuiQuiet DEF GuiWork
<1>4. CASE OnBnClickedCalc \/ OnBnClickedFlags \/ UpdateDebugAuto \/ OnAutoplayer
  BY <1>4, GuiQuiet
<1>5. CASE UNCHANGED vars
  BY <1>5 DEF vars, engines, evaluation, autoplayer, TypeOK, IInv, LockInv, DepthInv,
              WorkInv, EnginesInv, ValuesInv, Inside, ReadsIn
<1> QED
  BY <1>1, <1>2, <1>3, <1>4, <1>5 DEF Next

LEMMA Inductive == Spec => [](TypeOK /\ IInv)
<1>1. Init => TypeOK /\ IInv
  BY InitOK, ConstantsAssumption
<1>2. (TypeOK /\ IInv) /\ [Next]_vars => (TypeOK /\ IInv)'
  BY StepOK, ConstantsAssumption
<1> QED
  BY <1>1, <1>2, PTL DEF Spec

-----------------------------------------------------------------------------
(* Theorems                                                                *)

\* Every variable keeps its type, for any bot and any operations of the GUI
\* (CFunction, CFunctionCollection).
THEOREM TypeCorrect == Spec => []TypeOK
BY Inductive, PTL

\* Evaluations are never nested deeper than kMaxRecursionDepth, however the
\* functions of the bot call each other (CFunction.cpp:57).
THEOREM StackIsBounded == Spec => []StackBounded
<1>1. IInv => StackBounded
  BY DEF IInv, DepthInv, StackBounded
<1> QED
  BY <1>1, Inductive, PTL

\* Primary formulas are decided and executed on values of the last scrape only
\* (CAutoplayerFunctions.cpp:46).
THEOREM PrimaryIsFresh == Spec => []PrimaryFresh
<1>1. IInv => PrimaryFresh
  <2> SUFFICES ASSUME IInv, pc["heartbeat"] \in Primary
               PROVE  /\ \A f \in Function : cache[f] # NotCached => cache[f] \subseteq {0}
                      /\ \A n \in DOMAIN stack : stack[n].reads \subseteq {0}
    BY DEF PrimaryFresh
  <2>1. Inside(0 .. 0)
    BY DEF IInv, ValuesInv, Oldest, Primary
  <2>2. 0 .. 0 = {0}
    OBVIOUS
  <2> QED
    BY <2>1, <2>2 DEF Inside, ReadsIn
<1> QED
  BY <1>1, Inductive, PTL

\* No cached value is more than one scrape older than the last one, or two
\* before the caches are cleared (CFunctionCollection.cpp:549).
THEOREM ValuesAreRecent == Spec => []ValuesRecent
<1>1. IInv => ValuesRecent
  <2> SUFFICES ASSUME IInv, NEW f \in Function, cache[f] # NotCached
               PROVE  cache[f] \subseteq
                        0 .. (IF pc["heartbeat"] \in {"reset", "clear"} THEN 2 ELSE 1)
    BY DEF ValuesRecent
  <2>1. cache[f] \subseteq 0 .. Oldest(pc["heartbeat"])
    BY DEF IInv, ValuesInv, Inside
  <2> QED
    BY <2>1 DEF Oldest, Primary
<1> QED
  BY <1>1, Inductive, PTL
=============================================================================
