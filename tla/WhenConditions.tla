--------------------------- MODULE WhenConditions ---------------------------
(***************************************************************************)
(* The when-conditions of an OpenPPL function.  CFormulaParser builds a    *)
(* graph of them in one loop and patches the missing edges in a second     *)
(* one; CParseTreeRotator goes through it once; CParseTreeNode evaluates   *)
(* along its edges.                                                        *)
(*                                                                         *)
(* A when-condition is a record in the sequence whens, and its edges are   *)
(* positions there (0 for NULL).  The trees of the conditions and of the   *)
(* actions are in the module Parser; here a condition holds or does not    *)
(* hold when it is evaluated, and the pointer to the action is one of      *)
(*   "none"    NULL: an open-ended when-condition                          *)
(*   "broken"  NULL: the action behind it could not be parsed, and counts  *)
(*             as zero                                                     *)
(*   "set"     a user variable to be set                                   *)
(*   "action"  anything else                                               *)
(*                                                                         *)
(* An error is shown to the user, and that is all: nobody keeps it         *)
(* (CParseErrors::_is_error is never set), and a function with errors is   *)
(* rotated and evaluated like any other.                                   *)
(***************************************************************************)
EXTENDS Integers, Sequences

VARIABLES
  phase,     \* "parsing", "patching", "parsed", "rotating", "ready",
             \* "evaluating", "evaluated"
  error,     \* history: CParseErrors::Error has shown a message
  whens,     \* the when-conditions in the order of the text
  last_open, \* last_when_condition_was_open_ended, of the first loop
  last,      \* last_open_ended_when_condition, of the second loop
  current,   \* where the second loop is, or the evaluation
  pending,   \* where the rotator still has to go, its recursion
  visits,    \* how often the rotator has been at each when-condition
  asked,     \* history: the conditions this evaluation has evaluated
  held,      \* history: the ones of them that were true
  decision,  \* the when-condition whose action ended the evaluation
  set        \* the ones whose user variable was set

evaluation == <<asked, held, decision, set>>
rotator == <<pending, visits>>
vars == <<phase, error, whens, last_open, last, current, rotator, evaluation>>

When == [conclusion : {"none", "broken", "set", "action"}, then : Nat, else : Nat]
Phase == {"parsing", "patching", "parsed", "rotating", "ready", "evaluating",
          "evaluated"}

Init ==
  /\ phase = "parsing"
  /\ error = FALSE
  /\ whens = <<>>
  /\ last_open = FALSE /\ last = 0 /\ current = 0
  /\ pending = <<>> /\ visits = <<>>
  /\ asked = {} /\ held = {} /\ decision = 0 /\ set = {}

-----------------------------------------------------------------------------
(* CFormulaParser                                                          *)

WhenCondition(conclusion) == [conclusion |-> conclusion, then |-> 0, else |-> 0]

IsOpenEnded(when) ==
  \/ when.conclusion \in {"none", "broken"} /\ when.then = 0 /\ when.else = 0
  \/ when.then # 0

\* The edge to the next when-condition, from the one that was the last.
Concatenated(list) ==
  LET n == Len(list)
  IN  CASE n = 0 -> list
        [] n > 0 /\ last_open -> [list EXCEPT ![n].then = n + 1]
        [] n > 0 /\ ~last_open -> [list EXCEPT ![n].else = n + 1]

\* One round of the loop of ParseOpenEndedWhenConditionSequence.
ParseWhenCondition(conclusion, bad) ==
  /\ phase = "parsing"
  /\ conclusion = "broken" => bad
  /\ whens' = Append(Concatenated(whens), WhenCondition(conclusion))
  /\ last_open' = (conclusion = "none")
  /\ error' = (error \/ bad)
  /\ UNCHANGED <<phase, last, current, rotator, evaluation>>

BeginPatching ==
  /\ phase = "parsing" /\ whens # <<>>
  /\ phase' = "patching"
  /\ current' = 1
  /\ UNCHANGED <<error, whens, last_open, last, rotator, evaluation>>

\* Mutant: the edge is drawn to the condition itself.
PatchToItself(list, open, next) ==
  IF open = 0 THEN list ELSE [list EXCEPT ![open].else = open]

\* Mutant: only the first open-ended when-condition gets its edge.
PatchFirstOnly(list, open, next) ==
  IF open # 1 THEN list ELSE [list EXCEPT ![open].else = next]

\* An open-ended when-condition goes on with the next one if it is false.
Patch(list, open, next) ==
  IF open = 0 THEN list ELSE [list EXCEPT ![open].else = next]

\* One round of the loop of BackPatchOpenEndedWhenConditionSequence.
BackPatch ==
  /\ phase = "patching" /\ current # 0
  /\ IF IsOpenEnded(whens[current])
     THEN /\ whens' = Patch(whens, last, current)
          /\ last' = current
          /\ current' = whens[current].then
     ELSE /\ current' = whens[current].else
          /\ UNCHANGED <<whens, last>>
  /\ UNCHANGED <<phase, error, last_open, rotator, evaluation>>

\* CheckForExtraTokensAfterEndOfFunction.
EndOfSequence(bad) ==
  /\ phase = "patching" /\ current = 0
  /\ phase' = "parsed"
  /\ error' = (error \/ bad)
  /\ UNCHANGED <<whens, last_open, last, current, rotator, evaluation>>

\* An OH-script function has no when-conditions.
ParseSingleExpression(bad) ==
  /\ phase = "parsing" /\ whens = <<>>
  /\ phase' = "parsed"
  /\ error' = bad
  /\ UNCHANGED <<whens, last_open, last, current, rotator, evaluation>>

-----------------------------------------------------------------------------
(* CParseTreeRotator                                                       *)

RotateSingleExpression ==
  /\ phase = "parsed" /\ whens = <<>>
  /\ phase' = "ready"
  /\ UNCHANGED <<error, whens, last_open, last, current, rotator, evaluation>>

BeginRotation ==
  /\ phase = "parsed" /\ whens # <<>>
  /\ phase' = "rotating"
  /\ pending' = <<1>>
  /\ visits' = [n \in DOMAIN whens |-> 0]
  /\ UNCHANGED <<error, whens, last_open, last, current, evaluation>>

\* Mutant: the third sibbling of every when-condition is visited.
VisitsElseAlways(when) == TRUE

\* The next open-ended when-condition is reached along the sequence already.
VisitsElse(when) == ~IsOpenEnded(when)

Edge(n) == IF n = 0 THEN <<>> ELSE <<n>>

\* Rotate: the second sibbling, then the third one.
RotateWhenCondition ==
  /\ phase = "rotating" /\ pending # <<>>
  /\ LET when == whens[Head(pending)]
     IN  pending' = Edge(when.then)
                    \o Edge(IF VisitsElse(when) THEN when.else ELSE 0)
                    \o Tail(pending)
  /\ visits' = [visits EXCEPT ![Head(pending)] = @ + 1]
  /\ UNCHANGED <<phase, error, whens, last_open, last, current, evaluation>>

EndRotation ==
  /\ phase = "rotating" /\ pending = <<>>
  /\ phase' = "ready"
  /\ UNCHANGED <<error, whens, last_open, last, current, rotator, evaluation>>

-----------------------------------------------------------------------------
(* CParseTreeNode                                                          *)

BeginEvaluation ==
  /\ phase \in {"ready", "evaluated"} /\ whens # <<>>
  /\ phase' = "evaluating"
  /\ current' = 1
  /\ asked' = {} /\ held' = {} /\ decision' = 0 /\ set' = {}
  /\ UNCHANGED <<error, whens, last_open, last, rotator>>

\* EvaluateTernaryExpression: a user variable is set, and the evaluation goes on;
\* any other second sibbling is the result, and the pointer NULL is zero.
EvaluateWhenCondition(holds) ==
  /\ phase = "evaluating" /\ current # 0
  /\ asked' = asked \cup {current}
  /\ held' = IF holds THEN held \cup {current} ELSE held
  /\ LET when == whens[current]
     IN  \/ /\ ~holds
            /\ current' = when.else
            /\ UNCHANGED <<decision, set>>
         \/ /\ holds /\ when.then # 0
            /\ current' = when.then
            /\ UNCHANGED <<decision, set>>
         \/ /\ holds /\ when.then = 0 /\ when.conclusion = "set"
            /\ set' = set \cup {current}
            /\ current' = when.else
            /\ UNCHANGED decision
         \/ /\ holds /\ when.then = 0 /\ when.conclusion # "set"
            /\ decision' = IF when.conclusion = "none" THEN 0 ELSE current
            /\ current' = 0
            /\ UNCHANGED set
  /\ UNCHANGED <<phase, error, whens, last_open, last, rotator>>

EndEvaluation ==
  /\ phase = "evaluating" /\ current = 0
  /\ phase' = "evaluated"
  /\ UNCHANGED <<error, whens, last_open, last, current, rotator, evaluation>>

Next ==
  \/ \E conclusion \in {"none", "broken", "set", "action"}, bad \in BOOLEAN :
       ParseWhenCondition(conclusion, bad)
  \/ \E bad \in BOOLEAN : EndOfSequence(bad) \/ ParseSingleExpression(bad)
  \/ BeginPatching \/ BackPatch
  \/ RotateSingleExpression \/ BeginRotation \/ RotateWhenCondition \/ EndRotation
  \/ BeginEvaluation \/ EndEvaluation
  \/ \E holds \in BOOLEAN : EvaluateWhenCondition(holds)

Spec == Init /\ [][Next]_vars

-----------------------------------------------------------------------------
(* Properties                                                              *)

(* Edges lead to later when-conditions only, so every evaluation comes to an
   end: what the assertions of BackPatchOpenEndedWhenConditionSequence ask
   (CFormulaParser.cpp:733). *)
TypeOK ==
  /\ phase \in Phase
  /\ error \in BOOLEAN /\ last_open \in BOOLEAN
  /\ whens \in Seq(When)
  /\ \A n \in DOMAIN whens : /\ whens[n].then \in {0} \cup (n + 1) .. Len(whens)
                             /\ whens[n].else \in {0} \cup (n + 1) .. Len(whens)
  /\ {last, current, decision} \subseteq 0 .. Len(whens)
  /\ pending \in Seq(1 .. Len(whens))
  /\ visits \in Seq(Nat)
  /\ Len(visits) \in {0, Len(whens)}
  /\ asked \subseteq DOMAIN whens /\ held \subseteq asked /\ set \subseteq held

(* The rotator visits every when-condition exactly once, although the graph has
   several ways to it: neither is one left as the parser built it, nor does
   "every addition of an OEWC double the effort" (CParseTreeRotator.cpp:93). *)
RotatedOnce ==
  phase = "ready" => \A n \in DOMAIN visits : visits[n] = 1

OpenEnded(n) == whens[n].conclusion = "none"

\* The open-ended when-condition above n held, if there is one.
InForce(n) ==
  \A m \in 1 .. n - 1 :
    OpenEnded(m) /\ (\A k \in m + 1 .. n - 1 : ~OpenEnded(k)) => m \in held

\* The last when-condition that a reader from top to bottom comes to.
End == IF decision = 0 THEN Len(whens) ELSE decision

\* The last action could not be parsed: the second loop takes its when-condition for
\* an open-ended one.
EndsBroken == whens # <<>> /\ whens[Len(whens)].conclusion = "broken"

Deciding == {"action", "broken"}

FollowsText ==
  /\ asked = {n \in 1 .. End : OpenEnded(n) \/ InForce(n)}
  /\ set = {n \in held : whens[n].conclusion = "set"}
  /\ \A n \in held : whens[n].conclusion \in Deciding => n = decision
  /\ decision # 0 => decision \in held /\ whens[decision].conclusion \in Deciding

(* The edges built while parsing and the ones patched in afterwards make an
   OpenPPL function mean what it says from top to bottom, whatever its conditions
   are: until an action decides, every open-ended when-condition is evaluated, and
   of the others exactly those below an open-ended one that held; the first action
   whose condition held decides, the user variables above it are set, and no others
   (CParseTreeNode.cpp:356).  That goes for functions with errors too, since nothing
   keeps them from being evaluated, but for those that end with a broken action. *)
ConditionsInOrder == phase = "evaluated" /\ ~EndsBroken => FollowsText

(* Claim: it goes for all functions.  TLC: in WHEN a WHEN b Fold Force WHEN c RaiseTo
   Force the third condition is evaluated if the first one is false. *)
BrokenToo == phase = "evaluated" => FollowsText
=============================================================================
