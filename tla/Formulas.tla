------------------------------ MODULE Formulas ------------------------------
(***************************************************************************)
(* The functions of a bot (CFunction, CFunctionCollection): how they are   *)
(* evaluated, cached, and cleared, in which order the heartbeat thread     *)
(* does that between the symbol engines (CEngineContainer::EvaluateAll)    *)
(* and in the autoplayer (CAutoplayerFunctions, CAutoplayer), and what the *)
(* GUI thread does to the same functions: the formula editor calculates    *)
(* one, the debug tab clears the caches and evaluates its expressions, a   *)
(* click on a flag evaluates all engines.                                  *)
(*                                                                         *)
(* A value is reduced to its age: the number of scrapes since the one it   *)
(* was calculated from.  A function reads symbols of engines that run      *)
(* "early" or "late" in EvaluateAll (before or after f$delay), and other   *)
(* functions; a condition may end its evaluation after any operand.        *)
(***************************************************************************)
EXTENDS Integers, Sequences

CONSTANTS Function,            \* the functions of the bot
          Body,                \* the operands of each; <<>>: no parse tree
          kMaxRecursionDepth,
          MaxAge,              \* bound on the age of a value
          ResetFormulas,       \* evaluated in ResetOnHandreset ... ResetOnMyTurn
          f_delay,             \* f$delay
          HeartbeatFormulas,   \* evaluated by the late engines
          SecondaryFormulas, f_alli, PrimaryFormulas,
          Decisions,           \* OpenPPL: the functions a decision sets to true
          BackupActions,       \* OpenPPL: the actions that have a backup
          Backup,              \* ... and the backup of each
          DebugFormulas,       \* the functions in the debug tab
          GuiOperations,       \* what the user does in the GUI
          Nobody

Symbol == {"early", "late"}
Thread == {"heartbeat", "gui"}
Ages   == 0 .. MaxAge
NotCached == {-1}
\* What the program evaluates by itself comes in fixed orders.
Plan   == Seq(Function)

ASSUME ConstantsAssumption ==
  /\ Body \in [Function -> Seq(Function \cup Symbol)]
  /\ Function \cap Symbol = {}
  /\ kMaxRecursionDepth \in Nat \ {0}
  /\ MaxAge \in Nat \ {0}
  /\ {f_delay, f_alli} \subseteq Function
  /\ {ResetFormulas, HeartbeatFormulas, SecondaryFormulas, PrimaryFormulas,
      DebugFormulas} \subseteq Plan
  /\ Decisions \subseteq Plan /\ Decisions # {}
  /\ BackupActions \in Plan /\ Backup \in [Function -> Function]
  /\ GuiOperations \subseteq {"calc", "debug", "flags", "engage"}
  /\ Nobody \notin Thread

VARIABLES
  early, late,       \* the age of the scrape the engines were calculated from
  cache,             \* _cached_result, or NotCached, of every function
  fixed,             \* the functions whose cached result is from SetValue
  recursion_depth,   \* CFunction::recursion_depth, a static variable
  engaged,           \* CAutoplayer::_autoplayer_engaged
  critsec,           \* the thread that holds CFunctionCollection::m_critsec
  stack,             \* its evaluations: function, next operand, ages read
  too_deep,          \* the message "Recursion to deep" is on the screen
  engaging,          \* the thread that holds CAutoplayer::m_critsec
  pc, todo,          \* the step of each thread, and what is left of it
  decision           \* history: the functions that OpenPPL has decided on

evaluation == <<cache, fixed, recursion_depth, critsec, stack, too_deep>>
autoplayer == <<engaged, engaging>>
engines    == <<early, late>>
vars == <<engines, evaluation, autoplayer, pc, todo, decision>>

\* The steps of an evaluation of all engines, and those of the autoplayer and
\* of the formula editor.  In the first set a thread has functions to evaluate.
Evaluating == {"reset", "delay", "late", "secondary", "alli", "primary", "any",
               "execute", "debug", "calc"}
Steps == Evaluating \cup
           {"scrape", "loop", "clear", "early", "clear_primary", "decide", "set",
            "backup", "backup_test", "backup_set", "mutex", "clear_debug",
            "switch_off", "switch_on"}

Frame == [fn : Function, next : Nat \ {0}, reads : SUBSET Ages]

TypeOK ==
  /\ early \in Ages /\ late \in Ages
  /\ cache \in [Function -> (SUBSET Ages) \cup {NotCached}]
  /\ fixed \in SUBSET Function
  /\ recursion_depth \in Nat
  /\ engaged \in BOOLEAN
  /\ engaging \in Thread \cup {Nobody}
  /\ critsec \in Thread \cup {Nobody}
  /\ stack \in Seq(Frame)
  /\ too_deep \in BOOLEAN
  /\ pc \in [Thread -> Steps]
  /\ todo \in [Thread -> Plan]
  /\ decision \in SUBSET Function

Init ==
  /\ early = 0 /\ late = 0
  /\ cache = [f \in Function |-> NotCached]
  /\ fixed = {}
  /\ recursion_depth = 0
  /\ engaged \in BOOLEAN
  /\ engaging = Nobody
  /\ critsec = Nobody
  /\ stack = <<>>
  /\ too_deep = FALSE
  /\ pc = [t \in Thread |-> IF t = "gui" THEN "loop" ELSE "scrape"]
  /\ todo = [t \in Thread |-> <<>>]
  /\ decision = {}

Go(t, step, work) == /\ pc' = [pc EXCEPT ![t] = step]
                     /\ todo' = [todo EXCEPT ![t] = work]

Older(ages) == {IF a < MaxAge THEN a + 1 ELSE a : a \in ages}

-----------------------------------------------------------------------------
(* Evaluate and ClearCache                                                 *)

\* A value read by the innermost of the evaluations `frames', if there is one.
Read(frames, ages) ==
  IF frames = <<>> THEN <<>>
  ELSE [frames EXCEPT ![Len(frames)].reads = @ \cup ages]

\* The lock is released when the outermost call returns.
Owner(t, frames) == IF frames = <<>> THEN Nobody ELSE t

\* Mutant: a cached result is returned early, and the depth decreased for it.
CallOfCachedMiscounted(t, f, frames) ==
  /\ IF cache[f] # NotCached
     THEN /\ recursion_depth' = recursion_depth - 1
          /\ critsec' = Owner(t, frames)
          /\ stack' = Read(frames, cache[f])
     ELSE /\ recursion_depth' = recursion_depth + 1
          /\ critsec' = t
          /\ stack' = Append(frames, [fn |-> f, next |-> 1, reads |-> {}])
  /\ UNCHANGED <<cache, fixed, too_deep>>

\* Mutant: the depth is compared before it is increased.
CallComparedTooEarly(t, f, frames) ==
  /\ cache[f] = NotCached
  /\ recursion_depth <= kMaxRecursionDepth
  /\ recursion_depth' = recursion_depth + 1
  /\ critsec' = t
  /\ stack' = Append(frames, [fn |-> f, next |-> 1, reads |-> {}])
  /\ UNCHANGED <<cache, fixed, too_deep>>

\* The beginning of CFunction::Evaluate, called from `frames'.
Call(t, f, frames) ==
  \/ /\ recursion_depth >= kMaxRecursionDepth
     /\ recursion_depth' = recursion_depth + 1
     /\ too_deep' = TRUE
     /\ critsec' = t
     /\ stack' = frames
     /\ UNCHANGED <<cache, fixed>>
  \/ /\ recursion_depth < kMaxRecursionDepth
     /\ cache[f] # NotCached
     /\ critsec' = Owner(t, frames)
     /\ stack' = Read(frames, cache[f])
     /\ UNCHANGED <<cache, fixed, recursion_depth, too_deep>>
  \/ /\ recursion_depth < kMaxRecursionDepth
     /\ cache[f] = NotCached
     /\ recursion_depth' = recursion_depth + 1
     /\ critsec' = t
     /\ stack' = Append(frames, [fn |-> f, next |-> 1, reads |-> {}])
     /\ UNCHANGED <<cache, fixed, too_deep>>

\* Thread t evaluates the next function of its list: everything from the call
\* to the return happens under the lock.
Evaluate(t) ==
  /\ pc[t] \in Evaluating
  /\ todo[t] # <<>>
  /\ critsec = Nobody
  /\ Call(t, Head(todo[t]), <<>>)
  /\ Go(t, pc[t], Tail(todo[t]))
  /\ UNCHANGED <<engines, autoplayer, decision>>

Innermost == stack[Len(stack)]

EvaluateOperand(t) ==
  /\ critsec = t /\ ~too_deep
  /\ Innermost.next <= Len(Body[Innermost.fn])
  /\ LET operand == Body[Innermost.fn][Innermost.next]
         frames  == [stack EXCEPT ![Len(stack)] =
                       [fn |-> Innermost.fn, next |-> Innermost.next + 1,
                        reads |-> Innermost.reads]]
     IN \/ /\ operand \in Symbol
           /\ stack' = Read(frames, {IF operand = "early" THEN early ELSE late})
           /\ UNCHANGED <<cache, fixed, recursion_depth, critsec, too_deep>>
        \/ /\ operand \in Function
           /\ Call(t, operand, frames)
  /\ UNCHANGED <<engines, autoplayer, pc, todo, decision>>

\* The end of CFunction::Evaluate: a function without parse tree is not cached.
FinishFunction(t) ==
  /\ critsec = t /\ ~too_deep
  /\ Innermost.next > 1 \/ Body[Innermost.fn] = <<>>
  /\ LET f == Innermost.fn
         frames == SubSeq(stack, 1, Len(stack) - 1)
     IN /\ IF Body[f] = <<>> THEN UNCHANGED <<cache, fixed>>
           ELSE /\ cache' = [cache EXCEPT ![f] = Innermost.reads]
                /\ fixed' = fixed \ {f}
        /\ stack' = Read(frames, Innermost.reads)
        /\ critsec' = Owner(t, frames)
  /\ recursion_depth' = recursion_depth - 1
  /\ UNCHANGED <<too_deep, engines, autoplayer, pc, todo, decision>>

\* The message is closed: the autoplayer is stopped, under a lock of its own.
EngageAutoplayer(t) ==
  /\ critsec = t /\ too_deep /\ engaging = Nobody
  /\ engaging' = t
  /\ UNCHANGED <<engines, evaluation, engaged, pc, todo, decision>>

\* EngageAutoplayer sends messages to the toolbar, which answers when the GUI
\* thread is in its message loop.  Then the depth is counted up once more, here
\* no further than it makes a difference.
StopAutoplayer(t) ==
  /\ critsec = t /\ too_deep /\ engaging = t
  /\ t = "gui" \/ pc["gui"] = "loop"
  /\ engaged' = FALSE
  /\ engaging' = Nobody
  /\ too_deep' = FALSE
  /\ recursion_depth' =
       IF recursion_depth <= Len(stack) + kMaxRecursionDepth
       THEN recursion_depth + 1 ELSE Len(stack) + kMaxRecursionDepth + 1
  /\ critsec' = Owner(t, stack)
  /\ UNCHANGED <<stack, cache, fixed, engines, pc, todo, decision>>

ClearCache ==
  /\ critsec = Nobody
  /\ cache' = [f \in Function |-> NotCached]
  /\ fixed' = {}
  /\ UNCHANGED <<recursion_depth, critsec, stack, too_deep>>

\* SetAutoplayerFunctionValue looks the function up under the lock and sets
\* the value without it.
LookUp == critsec = Nobody

SetValue(f) ==
  /\ cache' = [cache EXCEPT ![f] = {0}]
  /\ fixed' = fixed \cup {f}
  /\ decision' = decision \cup {f}
  /\ UNCHANGED <<recursion_depth, critsec, stack, too_deep>>

-----------------------------------------------------------------------------
(* EvaluateAll, of either thread                                           *)

\* A thread that has finished all evaluations of a step.
Done(t, step) == pc[t] = step /\ todo[t] = <<>> /\ critsec # t

\* The engines are reset if there is a new hand, round or turn.
EvaluateAll(t) ==
  \E functions \in {<<>>, ResetFormulas} : Go(t, "reset", functions)

DoScrape ==
  /\ pc["heartbeat"] = "scrape"
  /\ early' \in Older({early}) /\ late' \in Older({late})
  /\ cache' = [f \in Function |-> IF cache[f] = NotCached THEN NotCached
                                  ELSE Older(cache[f])]
  /\ stack' = [n \in DOMAIN stack |->
                 [stack[n] EXCEPT !.reads = Older(stack[n].reads)]]
  /\ EvaluateAll("heartbeat")
  /\ decision' = {}
  /\ UNCHANGED <<fixed, recursion_depth, critsec, too_deep, autoplayer>>

FinishReset(t) ==
  /\ Done(t, "reset")
  /\ Go(t, "clear", <<>>)
  /\ UNCHANGED <<engines, evaluation, autoplayer, decision>>

\* Mutant: the function collection does not clear the caches in a heartbeat.
ResetOnHeartbeatWithoutClear(t) ==
  /\ pc[t] = "clear"
  /\ Go(t, "early", <<>>)
  /\ UNCHANGED <<engines, evaluation, autoplayer, decision>>

\* The function collection is the first engine.
ResetOnHeartbeat(t) ==
  /\ pc[t] = "clear"
  /\ ClearCache
  /\ Go(t, "early", <<>>)
  /\ UNCHANGED <<engines, autoplayer, decision>>

EarlyEngines(t) ==
  /\ pc[t] = "early"
  /\ early' = 0
  /\ Go(t, "delay", <<f_delay>>)
  /\ UNCHANGED <<late, evaluation, autoplayer, decision>>

\* CalculateFinalAnswer has f$delay; all other engines follow.
LateEngines(t) ==
  /\ Done(t, "delay")
  /\ late' = 0
  /\ Go(t, "late", HeartbeatFormulas)
  /\ UNCHANGED <<early, evaluation, autoplayer, decision>>

FinishEvaluateAll(t) ==
  /\ Done(t, "late")
  /\ IF t = "gui" THEN Go(t, "loop", <<>>)
     ELSE IF engaged THEN \E functions \in {<<>>, SecondaryFormulas} :
                            Go(t, "secondary", functions)
     ELSE Go(t, "scrape", <<>>)
  /\ UNCHANGED <<engines, evaluation, autoplayer, decision>>

-----------------------------------------------------------------------------
(* DoAutoplayer                                                            *)

\* A step of the heartbeat thread that evaluates nothing.
Silent(step, next, work) ==
  /\ Done("heartbeat", step)
  /\ Go("heartbeat", next, work)
  /\ UNCHANGED <<engines, evaluation, autoplayer, decision>>

\* Secondary formulas need no cleared caches; primary ones are calculated for
\* a final answer only, and f$alli both before and after the caches are cleared.
FinishSecondary ==
  \/ Silent("secondary", "scrape", <<>>)
  \/ Silent("secondary", "alli", <<f_alli>>)

CalcPrimaryFormulas == Silent("alli", "clear_primary", <<>>)

\* Mutant: the primary formulas use what is cached.
PrimaryWithoutClear ==
  /\ pc["heartbeat"] = "clear_primary"
  /\ Go("heartbeat", "primary", PrimaryFormulas)
  /\ UNCHANGED <<engines, evaluation, autoplayer, decision>>

ClearCacheForPrimary ==
  /\ pc["heartbeat"] = "clear_primary"
  /\ ClearCache
  /\ Go("heartbeat", "primary", PrimaryFormulas)
  /\ UNCHANGED <<engines, autoplayer, decision>>

\* TranslateOpenPPLDecisionToAutoplayerFunctions; an OH-script has no decision.
TranslateDecision ==
  \E functions \in Decisions : Silent("primary", "decide", functions)

NextDecided ==
  /\ pc["heartbeat"] = "decide" /\ todo["heartbeat"] # <<>>
  /\ LookUp
  /\ Go("heartbeat", "set", todo["heartbeat"])
  /\ UNCHANGED <<engines, evaluation, autoplayer, decision>>

SetDecided ==
  /\ pc["heartbeat"] = "set"
  /\ SetValue(Head(todo["heartbeat"]))
  /\ Go("heartbeat", "decide", Tail(todo["heartbeat"]))
  /\ UNCHANGED <<engines, autoplayer>>

FinishDecision == Silent("decide", "backup", BackupActions)

\* CalculateOpenPPLBackupActions: if the action is true, so is its backup.
EvaluateAction ==
  /\ pc["heartbeat"] = "backup"
  /\ todo["heartbeat"] # <<>>
  /\ critsec = Nobody
  /\ Call("heartbeat", Head(todo["heartbeat"]), <<>>)
  /\ Go("heartbeat", "backup_test", todo["heartbeat"])
  /\ UNCHANGED <<engines, autoplayer, decision>>

TestAction ==
  /\ pc["heartbeat"] = "backup_test" /\ critsec # "heartbeat"
  /\ \/ /\ LookUp
        /\ Go("heartbeat", "backup_set", todo["heartbeat"])
     \/ /\ Head(todo["heartbeat"]) \notin fixed
        /\ Go("heartbeat", "backup", Tail(todo["heartbeat"]))
  /\ UNCHANGED <<engines, evaluation, autoplayer, decision>>

SetBackup ==
  /\ pc["heartbeat"] = "backup_set"
  /\ SetValue(Backup[Head(todo["heartbeat"])])
  /\ Go("heartbeat", "backup", Tail(todo["heartbeat"]))
  /\ UNCHANGED <<engines, autoplayer>>

FinishCalculation == Silent("backup", "any", PrimaryFormulas)

\* The autoplayer looks if any primary formula is true, waits for the mouse,
\* and then asks one formula after the other again, until one is executed.
StopAsking(step, next) ==
  /\ pc["heartbeat"] = step /\ critsec # "heartbeat"
  /\ Go("heartbeat", next, <<>>)
  /\ UNCHANGED <<engines, evaluation, autoplayer, decision>>

AnyPrimaryFormulaTrue == \E next \in {"mutex", "scrape"} : StopAsking("any", next)

WaitForMouse == \/ Silent("mutex", "execute", PrimaryFormulas)
                \/ Silent("mutex", "scrape", <<>>)

ExecutePrimaryFormulas == StopAsking("execute", "scrape")

-----------------------------------------------------------------------------
(* The GUI thread                                                          *)

UserDoes(operation) == pc["gui"] = "loop" /\ operation \in GuiOperations

OnBnClickedCalc ==
  /\ UserDoes("calc")
  /\ \E f \in Function : Go("gui", "calc", <<f>>)
  /\ UNCHANGED <<engines, evaluation, autoplayer, decision>>

OnBnClickedFlags ==
  /\ UserDoes("flags")
  /\ EvaluateAll("gui")
  /\ UNCHANGED <<engines, evaluation, autoplayer, decision>>

\* The timer of the debug tab, while its button "Auto" is pressed.
UpdateDebugAuto ==
  /\ UserDoes("debug")
  /\ Go("gui", "clear_debug", <<>>)
  /\ UNCHANGED <<engines, evaluation, autoplayer, decision>>

ClearCacheForDebug ==
  /\ pc["gui"] = "clear_debug"
  /\ ClearCache
  /\ Go("gui", "debug", DebugFormulas)
  /\ UNCHANGED <<engines, autoplayer, decision>>

FinishGui ==
  /\ \E step \in {"calc", "debug"} : Done("gui", step)
  /\ Go("gui", "loop", <<>>)
  /\ UNCHANGED <<engines, evaluation, autoplayer, decision>>

\* The button of the autoplayer: the state is read first and written later.
OnAutoplayer ==
  /\ UserDoes("engage")
  /\ Go("gui", IF engaged THEN "switch_off" ELSE "switch_on", <<>>)
  /\ UNCHANGED <<engines, evaluation, autoplayer, decision>>

SwitchAutoplayer ==
  /\ pc["gui"] \in {"switch_off", "switch_on"}
  /\ engaging = Nobody
  /\ engaged' = (pc["gui"] = "switch_on")
  /\ Go("gui", "loop", <<>>)
  /\ UNCHANGED <<engines, evaluation, engaging, decision>>

-----------------------------------------------------------------------------
HeartbeatStep ==
  \/ DoScrape
  \/ FinishSecondary \/ CalcPrimaryFormulas \/ ClearCacheForPrimary
  \/ TranslateDecision \/ NextDecided \/ SetDecided \/ FinishDecision
  \/ EvaluateAction \/ TestAction \/ SetBackup \/ FinishCalculation
  \/ AnyPrimaryFormulaTrue \/ WaitForMouse \/ ExecutePrimaryFormulas

\* What both threads do.
ThreadStep(t) ==
  \/ Evaluate(t) \/ EvaluateOperand(t) \/ FinishFunction(t)
  \/ EngageAutoplayer(t) \/ StopAutoplayer(t)
  \/ FinishReset(t) \/ ResetOnHeartbeat(t) \/ EarlyEngines(t)
  \/ LateEngines(t) \/ FinishEvaluateAll(t)

GuiWork == ClearCacheForDebug \/ FinishGui \/ SwitchAutoplayer

Next == \/ HeartbeatStep
        \/ \E t \in Thread : ThreadStep(t)
        \/ GuiWork
        \/ OnBnClickedCalc \/ OnBnClickedFlags \/ UpdateDebugAuto \/ OnAutoplayer

Spec == Init /\ [][Next]_vars

\* Windows schedules every thread that can run, and does not let one of them lose
\* every contest for a lock; the user closes the message.
Fairness == /\ SF_vars(HeartbeatStep \/ ThreadStep("heartbeat"))
            /\ SF_vars(GuiWork \/ ThreadStep("gui"))

FairSpec == Spec /\ Fairness

-----------------------------------------------------------------------------
(* Properties                                                              *)

\* However the functions of a bot call each other, evaluations are never nested
\* deeper than the limit, although the error path counts the depth wrongly: the
\* program does not run out of stack (CFunction.cpp:57).
StackBounded == Len(stack) <= kMaxRecursionDepth

\* From the calculation of the primary formulas to their execution no cached
\* value, and none that is being calculated, is from an older scrape, although
\* functions have been evaluated in the middle of EvaluateAll and the GUI thread
\* evaluates them at any time (CAutoplayerFunctions.cpp:46).
Primary == {"primary", "decide", "set", "backup", "backup_test", "backup_set",
            "any", "mutex", "execute"}
PrimaryFresh ==
  pc["heartbeat"] \in Primary =>
    /\ \A f \in Function : cache[f] # NotCached => cache[f] \subseteq {0}
    /\ \A n \in DOMAIN stack : stack[n].reads \subseteq {0}

\* Everything else that is decided between two scrapes may mix values of this
\* scrape and the last one, but never anything older; what is older waits for
\* the caches to be cleared (CFunctionCollection.cpp:549).
ValuesRecent ==
  LET oldest == IF pc["heartbeat"] \in {"reset", "clear"} THEN 2 ELSE 1 IN
  \A f \in Function : cache[f] # NotCached => cache[f] \subseteq 0 .. oldest

\* Three statements one would expect to hold, and TLC refutes.  What OpenPPL has
\* decided is what the autoplayer finds when it executes the primary formulas
\* (CFunctionCollection.cpp:288): the timer of the debug tab may clear it.
DecisionKept ==
  pc["heartbeat"] \in {"any", "mutex", "execute"} => decision \subseteq fixed

\* When no function is evaluated the recursion depth is zero, as it is decreased
\* "on every function exit" (CFunction.cpp:55): not on that of line 67.
DepthBalanced == critsec = Nobody => recursion_depth = 0

\* An endless recursion stops the autoplayer (CFunction.cpp:60): it waits for the
\* GUI thread, which may wait for the lock of the functions.
StopsOnRecursion == too_deep ~> ~engaged
=============================================================================
