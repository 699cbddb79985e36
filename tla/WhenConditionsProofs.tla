------------------------ MODULE WhenConditionsProofs ------------------------
(* Theorems about WhenConditions, for functions of any length: the graph of  *)
(* the when-conditions is what the text says, the rotator visits each of     *)
(* them once, and an evaluation goes from top to bottom.                     *)
EXTENDS WhenConditions, TLAPS

-----------------------------------------------------------------------------
(* The invariant: the graph                                                *)

Successor(n) == IF n < Len(whens) THEN n + 1 ELSE 0

\* The edges that the first loop draws.
Chain ==
  \A n \in DOMAIN whens :
    /\ OpenEnded(n) => whens[n].then = Successor(n)
    /\ ~OpenEnded(n) => whens[n].then = 0 /\ whens[n].else = Successor(n)
    /\ whens[n].conclusion = "broken" => error

\* What the second loop takes for open-ended: a last when-condition without an action
\* too, whose action could not be parsed.
TakenForOpen(n) == \/ OpenEnded(n)
                   \/ n = Len(whens) /\ whens[n].conclusion = "broken"

\* The next one it takes for open-ended.
FollowedBy(n, m) == /\ m \in n + 1 .. Len(whens)
                    /\ TakenForOpen(m)
                    /\ \A k \in n + 1 .. m - 1 : ~TakenForOpen(k)
NoneFollows(n) == \A k \in n + 1 .. Len(whens) : ~TakenForOpen(k)

\* Behind the last one, when there is no other.
Position == IF current = 0 THEN Len(whens) + 1 ELSE current

Parsing ==
  phase = "parsing" =>
    /\ last = 0 /\ current = 0
    /\ whens # <<>> => last_open = OpenEnded(Len(whens))
    /\ \A n \in DOMAIN whens : OpenEnded(n) => whens[n].else = 0

Patching ==
  phase = "patching" =>
    /\ last < Position
    /\ last # 0 => TakenForOpen(last)
    /\ \A k \in last + 1 .. Position - 1 : ~TakenForOpen(k)
    /\ \A n \in DOMAIN whens : OpenEnded(n) =>
         IF n < last THEN FollowedBy(n, whens[n].else) ELSE whens[n].else = 0

Patched ==
  phase \notin {"parsing", "patching"} =>
    \A n \in DOMAIN whens : OpenEnded(n) =>
      FollowedBy(n, whens[n].else) \/ (whens[n].else = 0 /\ NoneFollows(n))

-----------------------------------------------------------------------------
(* The invariant: the ways through the graph                               *)

\* Neither the rotator nor an evaluation has been there yet.
Untouched ==
  phase \in {"parsing", "patching", "parsed"} =>
    /\ pending = <<>> /\ visits = <<>>
    /\ asked = {} /\ held = {} /\ decision = 0 /\ set = {}

Rotating ==
  phase = "rotating" =>
    /\ Len(visits) = Len(whens)
    /\ \/ /\ pending = <<>>
          /\ \A n \in DOMAIN whens : visits[n] = 1
       \/ \E k \in DOMAIN whens :
            /\ pending = <<k>>
            /\ \A n \in DOMAIN whens : visits[n] = IF n < k THEN 1 ELSE 0

Rotated ==
  phase \in {"ready", "evaluating", "evaluated"} =>
    /\ pending = <<>>
    /\ Len(visits) = Len(whens)
    /\ \A n \in DOMAIN whens : visits[n] = 1

\* The last when-condition that the evaluation has done with, or has skipped.
Reached == IF decision # 0 THEN decision ELSE Position - 1

InOrder ==
  /\ asked = {n \in 1 .. Reached : OpenEnded(n) \/ InForce(n)}
  /\ set = {n \in held : whens[n].conclusion = "set"}
  /\ \A n \in held : whens[n].conclusion \in Deciding => n = decision
  /\ decision # 0 => decision \in held /\ whens[decision].conclusion \in Deciding

Evaluating ==
  phase = "evaluating" /\ ~EndsBroken =>
    /\ InOrder
    /\ current # 0 => decision = 0 /\ (OpenEnded(current) \/ InForce(current))

Evaluated == phase = "evaluated" => current = 0 /\ (~EndsBroken => InOrder)

IInv ==
  /\ Chain /\ Parsing /\ Patching /\ Patched
  /\ Untouched /\ Rotating /\ Rotated /\ Evaluating /\ Evaluated

-----------------------------------------------------------------------------
(* What the two loops do to the graph                                      *)

Conclusions == {"none", "broken", "set", "action"}

\* A sequence of when-conditions is a function on its positions.
LEMMA SequenceOfWhens ==
  ASSUME NEW list \in Seq(When)
  PROVE  /\ Len(list) \in Nat /\ DOMAIN list = 1 .. Len(list)
         /\ list = <<>> <=> Len(list) = 0
         /\ \A n \in 1 .. Len(list) :
              /\ list[n] \in When
              /\ list[n].conclusion \in Conclusions
              /\ list[n].then \in Nat /\ list[n].else \in Nat
<1>1. Len(list) \in Nat /\ DOMAIN list = 1 .. Len(list)
  OBVIOUS
<1>2. list = <<>> <=> Len(list) = 0
  OBVIOUS
<1>3. \A n \in 1 .. Len(list) : list[n] \in When
  OBVIOUS
<1>. QED  BY <1>1, <1>2, <1>3 DEF When, Conclusions

\* One edge is patched, and nothing else changes.
LEMMA PatchShape ==
  ASSUME NEW list \in Seq(When), NEW open \in 0 .. Len(list), NEW next \in Nat
  PROVE  /\ Patch(list, open, next) \in Seq(When)
         /\ Len(Patch(list, open, next)) = Len(list)
         /\ \A n \in 1 .. Len(list) :
              /\ Patch(list, open, next)[n].conclusion = list[n].conclusion
              /\ Patch(list, open, next)[n].then = list[n].then
              /\ Patch(list, open, next)[n].else = IF n = open THEN next
                                                   ELSE list[n].else
<1>1. CASE open = 0
  BY <1>1, SequenceOfWhens DEF Patch
<1>2. CASE open # 0
  <2> DEFINE q == [list EXCEPT ![open].else = next]
  <2>1. Patch(list, open, next) = q
    BY <1>2 DEF Patch
  <2>2. open \in 1 .. Len(list) /\ list[open] \in When
    BY <1>2, SequenceOfWhens
  <2>3. [list[open] EXCEPT !.else = next] \in When
    BY <2>2 DEF When
  <2>4. q = [list EXCEPT ![open] = [list[open] EXCEPT !.else = next]]
    OBVIOUS
  <2>5. q \in Seq(When) /\ Len(q) = Len(list)
    BY <2>2, <2>3, <2>4
  <2>6. \A n \in 1 .. Len(list) : n # open => q[n] = list[n]
    BY <2>2
  <2>7. /\ q[open].conclusion = list[open].conclusion
        /\ q[open].then = list[open].then
        /\ q[open].else = next
    BY <2>2, SequenceOfWhens DEF When
  <2>. QED  BY <2>1, <2>5, <2>6, <2>7
<1>. QED  BY <1>1, <1>2

\* The edge from the last when-condition to the one that is added.
LEMMA ConcatenatedShape ==
  ASSUME whens \in Seq(When)
  PROVE  /\ Concatenated(whens) \in Seq(When)
         /\ Len(Concatenated(whens)) = Len(whens)
         /\ \A n \in 1 .. Len(whens) :
              /\ Concatenated(whens)[n].conclusion = whens[n].conclusion
              /\ Concatenated(whens)[n].then =
                   IF n = Len(whens) /\ last_open THEN n + 1 ELSE whens[n].then
              /\ Concatenated(whens)[n].else =
                   IF n = Len(whens) /\ ~last_open THEN n + 1 ELSE whens[n].else
<1> DEFINE n == Len(whens)
<1>0. n \in Nat
  BY SequenceOfWhens
<1>1. CASE n = 0
  BY <1>1, SequenceOfWhens DEF Concatenated
<1>2. CASE n > 0 /\ last_open
  <2> DEFINE q == [whens EXCEPT ![n].then = n + 1]
  <2>1. Concatenated(whens) = q
    BY <1>0, <1>2 DEF Concatenated
  <2>2. n \in 1 .. Len(whens) /\ whens[n] \in When
    BY <1>0, <1>2, SequenceOfWhens
  <2>3. [whens[n] EXCEPT !.then = n + 1] \in When
    BY <2>2 DEF When
  <2>4. q = [whens EXCEPT ![n] = [whens[n] EXCEPT !.then = n + 1]]
    OBVIOUS
  <2>5. q \in Seq(When) /\ Len(q) = Len(whens)
    BY <2>2, <2>3, <2>4
  <2>6. \A m \in 1 .. Len(whens) : m # n => q[m] = whens[m]
    BY <2>2
  <2>7. /\ q[n].conclusion = whens[n].conclusion
        /\ q[n].then = n + 1
        /\ q[n].else = whens[n].else
    BY <2>2, SequenceOfWhens DEF When
  <2>. QED  BY <1>2, <2>1, <2>5, <2>6, <2>7
<1>3. CASE n > 0 /\ ~last_open
  <2> DEFINE q == [whens EXCEPT ![n].else = n + 1]
  <2>1. Concatenated(whens) = q
    BY <1>0, <1>3 DEF Concatenated
  <2>2. n \in 1 .. Len(whens) /\ whens[n] \in When
    BY <1>0, <1>3, SequenceOfWhens
  <2>3. [whens[n] EXCEPT !.else = n + 1] \in When
    BY <2>2 DEF When
  <2>4. q = [whens EXCEPT ![n] = [whens[n] EXCEPT !.else = n + 1]]
    OBVIOUS
  <2>5. q \in Seq(When) /\ Len(q) = Len(whens)
    BY <2>2, <2>3, <2>4
  <2>6. \A m \in 1 .. Len(whens) : m # n => q[m] = whens[m]
    BY <2>2
  <2>7. /\ q[n].conclusion = whens[n].conclusion
        /\ q[n].then = whens[n].then
        /\ q[n].else = n + 1
    BY <2>2, SequenceOfWhens DEF When
  <2>. QED  BY <1>3, <2>1, <2>5, <2>6, <2>7
<1>. QED  BY <1>0, <1>1, <1>2, <1>3

-----------------------------------------------------------------------------
(* Every step preserves the invariant: the parser                          *)

LEMMA TypeFacts ==
  ASSUME TypeOK
  PROVE  /\ Len(whens) \in Nat /\ DOMAIN whens = 1 .. Len(whens)
         /\ whens = <<>> <=> Len(whens) = 0
         /\ \A n \in 1 .. Len(whens) :
              /\ whens[n].conclusion \in Conclusions
              /\ whens[n].then \in Nat /\ whens[n].else \in Nat
         /\ last \in 0 .. Len(whens)
         /\ current \in 0 .. Len(whens)
         /\ decision \in 0 .. Len(whens)
  BY SequenceOfWhens DEF TypeOK

LEMMA ParsePreserves ==
  ASSUME TypeOK, IInv, NEW conclusion \in Conclusions, NEW bad \in BOOLEAN,
         ParseWhenCondition(conclusion, bad)
  PROVE  TypeOK' /\ IInv'
<1> DEFINE n == Len(whens)
           list == Concatenated(whens)
           when == WhenCondition(conclusion)
<1>1. /\ n \in Nat /\ DOMAIN whens = 1 .. n
      /\ whens = <<>> <=> n = 0
      /\ \A k \in 1 .. n : /\ whens[k].conclusion \in Conclusions
                           /\ whens[k].then \in Nat /\ whens[k].else \in Nat
  BY TypeFacts
<1>2. /\ list \in Seq(When) /\ Len(list) = n
      /\ \A k \in 1 .. n :
           /\ list[k].conclusion = whens[k].conclusion
           /\ list[k].then = IF k = n /\ last_open THEN k + 1 ELSE whens[k].then
           /\ list[k].else = IF k = n /\ ~last_open THEN k + 1 ELSE whens[k].else
  BY ConcatenatedShape DEF TypeOK
<1>3. when \in When /\ when.conclusion = conclusion /\ when.then = 0 /\ when.else = 0
  BY DEF When, WhenCondition, Conclusions
<1>4. whens' = Append(list, when)
  BY DEF ParseWhenCondition
<1> HIDE DEF n, list, when
<1>5. /\ whens' \in Seq(When) /\ Len(whens') = n + 1 /\ DOMAIN whens' = 1 .. n + 1
      /\ \A k \in 1 .. n : whens'[k] = list[k]
      /\ whens'[n + 1] = when
  BY <1>1, <1>2, <1>3, <1>4
<1>6. /\ \A k \in 1 .. n :
           /\ whens'[k].conclusion = whens[k].conclusion
           /\ whens'[k].then = IF k = n /\ last_open THEN k + 1 ELSE whens[k].then
           /\ whens'[k].else = IF k = n /\ ~last_open THEN k + 1 ELSE whens[k].else
      /\ whens'[n + 1].conclusion = conclusion
      /\ whens'[n + 1].then = 0 /\ whens'[n + 1].else = 0
  BY <1>2, <1>3, <1>5
<1>7. /\ phase = "parsing" /\ phase' = phase
      /\ last = 0 /\ last' = 0 /\ current = 0 /\ current' = 0
      /\ last_open' = (conclusion = "none")
      /\ error \in BOOLEAN
      /\ error' = (error \/ bad) /\ (conclusion = "broken" => bad)
      /\ pending' = <<>> /\ visits' = <<>>
      /\ asked' = {} /\ held' = {} /\ decision' = 0 /\ set' = {}
  BY DEF ParseWhenCondition, TypeOK, IInv, Parsing, Untouched, rotator, evaluation
<1>8. n > 0 => last_open = (whens[n].conclusion = "none")
  BY <1>1, <1>7 DEF IInv, Parsing, OpenEnded, n
<1>9. \A k \in 1 .. n :
        /\ whens[k].conclusion = "none" => whens[k].then = IF k < n THEN k + 1 ELSE 0
        /\ whens[k].conclusion = "none" => whens[k].else = 0
        /\ whens[k].conclusion # "none" =>
             whens[k].then = 0 /\ whens[k].else = IF k < n THEN k + 1 ELSE 0
        /\ whens[k].conclusion = "broken" => error
  BY <1>1, <1>7 DEF IInv, Chain, Parsing, OpenEnded, Successor, n
<1>10. \A k \in 1 .. n + 1 :
        /\ whens'[k].conclusion = "none" =>
             whens'[k].then = (IF k < n + 1 THEN k + 1 ELSE 0) /\ whens'[k].else = 0
        /\ whens'[k].conclusion # "none" =>
             whens'[k].then = 0 /\ whens'[k].else = IF k < n + 1 THEN k + 1 ELSE 0
        /\ whens'[k].conclusion = "broken" => error'
  <2>1. ASSUME NEW k \in 1 .. n, k < n
        PROVE  /\ whens'[k].then = whens[k].then /\ whens'[k].else = whens[k].else
               /\ whens'[k].conclusion = whens[k].conclusion
    BY <1>1, <1>6, <2>1
  <2>2. ASSUME NEW k \in 1 .. n, k = n
        PROVE  /\ whens'[k].conclusion = whens[k].conclusion
               /\ whens[k].conclusion = "none" =>
                    whens'[k].then = k + 1 /\ whens'[k].else = 0
               /\ whens[k].conclusion # "none" =>
                    whens'[k].then = 0 /\ whens'[k].else = k + 1
    <3>1. /\ whens[n].conclusion = "none" => whens[n].else = 0
          /\ whens[n].conclusion # "none" => whens[n].then = 0
      BY <1>1, <1>9, <2>2
    <3>2. n > 0 /\ n \in 1 .. n
      BY <1>1, <2>2
    <3>3. CASE whens[n].conclusion = "none"
      BY <1>6, <1>8, <2>2, <3>1, <3>2, <3>3
    <3>4. CASE whens[n].conclusion # "none"
      BY <1>6, <1>8, <2>2, <3>1, <3>2, <3>4
    <3>. QED  BY <3>3, <3>4
  <2>3. \A k \in 1 .. n + 1 : (k \in 1 .. n /\ (k < n \/ k = n)) \/ k = n + 1
    BY <1>1
  <2> SUFFICES ASSUME NEW k \in 1 .. n + 1
               PROVE  /\ whens'[k].conclusion = "none" =>
                           /\ whens'[k].then = (IF k < n + 1 THEN k + 1 ELSE 0)
                           /\ whens'[k].else = 0
                      /\ whens'[k].conclusion # "none" =>
                           /\ whens'[k].then = 0
                           /\ whens'[k].else = IF k < n + 1 THEN k + 1 ELSE 0
                      /\ whens'[k].conclusion = "broken" => error'
    OBVIOUS
  <2>4. CASE k \in 1 .. n /\ k < n
    BY <1>1, <1>7, <1>9, <2>1, <2>4
  <2>5. CASE k \in 1 .. n /\ k = n
    BY <1>1, <1>7, <1>9, <2>2, <2>5
  <2>6. CASE k = n + 1
    BY <1>1, <1>6, <1>7, <2>6
  <2>. QED  BY <2>3, <2>4, <2>5, <2>6
<1>11. TypeOK'
  <2>1. /\ error' \in BOOLEAN /\ last_open' \in BOOLEAN
        /\ phase' \in Phase
    BY <1>7 DEF TypeOK, Phase
  <2>2. \A k \in 1 .. n + 1 : /\ whens'[k].then \in {0} \cup (k + 1) .. n + 1
                             /\ whens'[k].else \in {0} \cup (k + 1) .. n + 1
    <3> SUFFICES ASSUME NEW k \in 1 .. n + 1
                 PROVE  /\ whens'[k].then \in {0} \cup (k + 1) .. n + 1
                        /\ whens'[k].else \in {0} \cup (k + 1) .. n + 1
      OBVIOUS
    <3>1. whens'[k].then \in {0, k + 1} /\ (whens'[k].then = k + 1 => k < n + 1)
      BY <1>10
    <3>2. whens'[k].else \in {0, k + 1} /\ (whens'[k].else = k + 1 => k < n + 1)
      BY <1>10
    <3>. QED  BY <1>1, <3>1, <3>2
  <2>3. {last', current', decision'} \subseteq 0 .. n + 1
    BY <1>1, <1>7
  <2>4. pending' \in Seq(1 .. n + 1) /\ visits' \in Seq(Nat) /\ Len(visits') = 0
    BY <1>7
  <2>. QED  BY <1>5, <1>7, <2>1, <2>2, <2>3, <2>4 DEF TypeOK
<1>12. Chain' /\ Parsing'
  BY <1>1, <1>5, <1>6, <1>7, <1>10 DEF Chain, Parsing, OpenEnded, Successor
<1>. QED
  BY <1>7, <1>11, <1>12 DEF IInv, Patching, Patched, Untouched, Rotating, Rotated,
     Evaluating, Evaluated

LEMMA BeginPatchingPreserves ==
  ASSUME TypeOK, IInv, BeginPatching
  PROVE  TypeOK' /\ IInv'
<1>1. TypeOK'
  BY TypeFacts DEF TypeOK, BeginPatching, Phase, rotator, evaluation
<1>2. Chain' /\ Patching'
  BY TypeFacts DEF IInv, Chain, Parsing, Patching, BeginPatching, OpenEnded, Successor,
     Position
<1>3. Untouched'
  BY DEF IInv, Untouched, BeginPatching, rotator, evaluation
<1>. QED
  BY <1>1, <1>2, <1>3 DEF BeginPatching, IInv, Parsing, Patched, Rotating, Rotated,
     Evaluating, Evaluated

\* The second loop takes a when-condition for open-ended exactly if it is one, or the
\* last one with a broken action.
LEMMA OpenEndedAsTaken ==
  ASSUME TypeOK, Chain, NEW n \in DOMAIN whens,
         OpenEnded(n) /\ n = Len(whens) => whens[n].else = 0
  PROVE  IsOpenEnded(whens[n]) <=> TakenForOpen(n)
  BY TypeFacts DEF Chain, OpenEnded, Successor, IsOpenEnded, TakenForOpen, Conclusions

LEMMA BackPatchPreserves ==
  ASSUME TypeOK, IInv, BackPatch
  PROVE  TypeOK' /\ IInv'
<1> DEFINE n == Len(whens)
<1>1. /\ n \in Nat /\ DOMAIN whens = 1 .. n
      /\ \A k \in 1 .. n : /\ whens[k].conclusion \in Conclusions
                           /\ whens[k].then \in Nat /\ whens[k].else \in Nat
      /\ last \in 0 .. n /\ current \in 1 .. n
  BY TypeFacts DEF BackPatch
<1>2. phase = "patching" /\ phase' = phase /\ error' = error
  BY DEF BackPatch
<1>3. /\ last < current
      /\ last # 0 => TakenForOpen(last)
      /\ \A k \in last + 1 .. current - 1 : ~TakenForOpen(k)
      /\ \A k \in 1 .. n : OpenEnded(k) =>
           IF k < last THEN FollowedBy(k, whens[k].else) ELSE whens[k].else = 0
  BY <1>1, <1>2 DEF IInv, Patching, Position
<1>4. IsOpenEnded(whens[current]) <=> TakenForOpen(current)
  BY <1>1, <1>3, OpenEndedAsTaken DEF IInv
<1>5. Untouched' /\ Parsing' /\ Patched' /\ Rotating' /\ Rotated'
      /\ Evaluating' /\ Evaluated'
  BY <1>2 DEF BackPatch, IInv, Untouched, Parsing, Patched, Rotating, Rotated,
     Evaluating, Evaluated, rotator, evaluation
<1>6. CASE TakenForOpen(current)
  <2>1. /\ whens' = Patch(whens, last, current)
        /\ last' = current
        /\ current' = whens[current].then
    BY <1>4, <1>6 DEF BackPatch
  <2>2. /\ whens' \in Seq(When) /\ Len(whens') = n
        /\ \A k \in 1 .. n :
             /\ whens'[k].conclusion = whens[k].conclusion
             /\ whens'[k].then = whens[k].then
             /\ whens'[k].else = IF k = last THEN current ELSE whens[k].else
    BY <1>1, <2>1, PatchShape DEF TypeOK
  <2>3. DOMAIN whens' = 1 .. n
    BY <2>2, SequenceOfWhens
  <2> HIDE DEF n
  <2>4. last \in 1 .. n => OpenEnded(last) /\ last < n
    <3> SUFFICES ASSUME last \in 1 .. n
                 PROVE  OpenEnded(last) /\ last < n
      OBVIOUS
    <3>1. last < n /\ TakenForOpen(last)
      BY <1>1, <1>3
    <3>2. last # n
      BY <1>1, <3>1
    <3>3. last # Len(whens)
      BY <3>2 DEF n
    <3>. QED  BY <3>1, <3>3 DEF TakenForOpen
  <2>5. Chain'
    <3>1. \A k \in 1 .. n : OpenEnded(k)' = OpenEnded(k) /\ Successor(k)' = Successor(k)
      BY <2>2 DEF OpenEnded, Successor, n
    <3>. QED  BY <1>1, <1>2, <2>2, <2>3, <2>4, <3>1 DEF IInv, Chain
  <2>6. current' = (IF current < n THEN current + 1 ELSE 0)
    BY <1>1, <1>6, <2>1 DEF IInv, Chain, TakenForOpen, OpenEnded, Successor, n
  <2>7. \A k \in 1 .. n : TakenForOpen(k)' = TakenForOpen(k)
    BY <2>2 DEF TakenForOpen, OpenEnded, n
  <2>8. Position' = current + 1
    BY <1>1, <2>2, <2>6 DEF Position
  <2>9. ASSUME NEW k \in 1 .. n, OpenEnded(k)'
        PROVE  IF k < current THEN FollowedBy(k, whens[k].else)' ELSE whens'[k].else = 0
    <3>1. OpenEnded(k) /\ TakenForOpen(k)
      BY <2>2, <2>9 DEF OpenEnded, TakenForOpen
    <3>2. CASE k < last
      <4>1. FollowedBy(k, whens[k].else) /\ whens'[k].else = whens[k].else
        BY <1>1, <1>3, <2>2, <3>1, <3>2
      <4>2. PICK e \in k + 1 .. n : /\ e = whens[k].else /\ TakenForOpen(e)
                                   /\ \A m \in k + 1 .. e - 1 : ~TakenForOpen(m)
        BY <4>1 DEF FollowedBy, n
      <4>3. TakenForOpen(e)' /\ \A m \in k + 1 .. e - 1 : ~TakenForOpen(m)'
        BY <1>1, <2>7, <4>1, <4>2
      <4>4. whens'[k].else = e /\ Len(whens') = n /\ k < current
        BY <1>1, <1>3, <2>2, <3>2, <4>1, <4>2
      <4>. QED  BY <1>1, <4>2, <4>3, <4>4 DEF FollowedBy
    <3>3. CASE k = last
      <4>1. whens'[k].else = current
        BY <2>2, <3>3
      <4>. QED  BY <1>1, <1>3, <1>6, <2>2, <2>7, <3>3, <4>1 DEF FollowedBy, n
    <3>4. CASE k > last
      <4>1. k >= current
        BY <1>1, <1>3, <3>1, <3>4
      <4>. QED  BY <1>1, <1>3, <2>2, <3>1, <3>4, <4>1
    <3>. QED  BY <1>1, <3>2, <3>3, <3>4
  <2>10. Patching'
    <3>1. TakenForOpen(last)'
      BY <1>1, <1>6, <2>1, <2>2 DEF TakenForOpen, OpenEnded, n
    <3>2. last' < Position' /\ \A k \in last' + 1 .. Position' - 1 : ~TakenForOpen(k)'
      BY <1>1, <2>1, <2>8
    <3>3. \A k \in DOMAIN whens' : OpenEnded(k)' =>
            IF k < last' THEN FollowedBy(k, whens[k].else)' ELSE whens'[k].else = 0
      BY <2>1, <2>3, <2>9
    <3>. QED  BY <3>1, <3>2, <3>3 DEF Patching
  <2>11. TypeOK'
    <3>1. \A k \in 1 .. n : /\ whens'[k].then \in {0} \cup (k + 1) .. n
                           /\ whens'[k].else \in {0} \cup (k + 1) .. n
      <4> SUFFICES ASSUME NEW k \in 1 .. n
                   PROVE  /\ whens'[k].then \in {0} \cup (k + 1) .. n
                          /\ whens'[k].else \in {0} \cup (k + 1) .. n
        OBVIOUS
      <4>1. /\ whens[k].then \in {0} \cup (k + 1) .. n
            /\ whens[k].else \in {0} \cup (k + 1) .. n
        BY <1>1 DEF TypeOK, n
      <4>2. k = last => current \in (k + 1) .. n
        BY <1>1, <1>3
      <4>. QED  BY <2>2, <4>1, <4>2
    <3>2. /\ last' \in 0 .. n /\ current' \in 0 .. n /\ decision' = decision
      BY <1>1, <2>1, <2>6 DEF BackPatch, evaluation
    <3>. QED  BY <1>1, <1>2, <2>2, <2>3, <3>1, <3>2 DEF TypeOK, n, BackPatch, rotator,
              evaluation
  <2>. QED  BY <1>5, <2>5, <2>10, <2>11 DEF IInv
<1>7. CASE ~TakenForOpen(current)
  <2>1. /\ whens' = whens /\ last' = last
        /\ current' = whens[current].else
    BY <1>4, <1>7 DEF BackPatch
  <2>2. current' = (IF current < n THEN current + 1 ELSE 0)
    BY <1>1, <1>7, <2>1 DEF IInv, Chain, TakenForOpen, Successor
  <2>3. Position' = current + 1
    BY <1>1, <2>1, <2>2 DEF Position
  <2>4. \A k \in 1 .. n : TakenForOpen(k)' = TakenForOpen(k)
    BY <2>1 DEF TakenForOpen, OpenEnded
  <2>5. Chain'
    BY <1>2, <2>1 DEF IInv, Chain, OpenEnded, Successor
  <2>6. Patching'
    <3>1. last' < Position' /\ (last' # 0 => TakenForOpen(last)')
      <4>1. last' < Position'
        BY <1>1, <1>3, <2>1, <2>3
      <4>2. last # 0 => TakenForOpen(last)'
        BY <1>3, <2>1 DEF TakenForOpen, OpenEnded
      <4>. QED  BY <2>1, <4>1, <4>2
    <3>2. ASSUME NEW k \in last + 1 .. current
          PROVE  ~TakenForOpen(k)'
      <4>1. ~TakenForOpen(k)
        BY <1>1, <1>3, <1>7
      <4>. QED  BY <2>1, <4>1 DEF TakenForOpen, OpenEnded
    <3>3. \A k \in DOMAIN whens' : OpenEnded(k)' =>
            IF k < last' THEN FollowedBy(k, whens[k].else)' ELSE whens'[k].else = 0
      BY <1>1, <1>3, <2>1 DEF FollowedBy, OpenEnded, TakenForOpen
    <3>. QED  BY <1>1, <2>1, <2>3, <3>1, <3>2, <3>3 DEF Patching
  <2>7. TypeOK'
    BY <1>1, <1>2, <2>1, <2>2 DEF TypeOK, BackPatch, rotator, evaluation
  <2>. QED  BY <1>5, <2>5, <2>6, <2>7 DEF IInv
<1>. QED  BY <1>6, <1>7

LEMMA EndOfSequencePreserves ==
  ASSUME TypeOK, IInv, NEW bad \in BOOLEAN, EndOfSequence(bad)
  PROVE  TypeOK' /\ IInv'
<1>1. TypeOK'
  BY DEF TypeOK, EndOfSequence, Phase, rotator, evaluation
<1>2. Chain'
  BY DEF TypeOK, IInv, Chain, EndOfSequence, OpenEnded, Successor
<1>3. Patched'
  <2>1. whens' = whens /\ Position = Len(whens) + 1
    BY DEF EndOfSequence, Position
  <2>2. ASSUME NEW n \in DOMAIN whens, OpenEnded(n)
        PROVE  FollowedBy(n, whens[n].else) \/ (whens[n].else = 0 /\ NoneFollows(n))
    BY <2>1, <2>2, TypeFacts DEF EndOfSequence, IInv, Patching, NoneFollows
  <2>. QED  BY <2>1, <2>2 DEF Patched, OpenEnded, FollowedBy, NoneFollows, TakenForOpen
<1>4. Untouched'
  BY DEF IInv, Untouched, EndOfSequence, rotator, evaluation
<1>. QED
  BY <1>1, <1>2, <1>3, <1>4 DEF EndOfSequence, IInv, Parsing, Patching, Rotating,
     Rotated, Evaluating, Evaluated

LEMMA SingleExpressionPreserves ==
  ASSUME TypeOK, IInv, NEW bad \in BOOLEAN, ParseSingleExpression(bad)
  PROVE  TypeOK' /\ IInv'
<1>1. TypeOK'
  BY DEF TypeOK, ParseSingleExpression, Phase, rotator, evaluation
<1>2. whens' = <<>> /\ DOMAIN whens' = {}
  BY DEF ParseSingleExpression
<1>3. Chain' /\ Patched'
  BY <1>2 DEF Chain, Patched
<1>4. Untouched'
  BY DEF IInv, Untouched, ParseSingleExpression, rotator, evaluation
<1>. QED
  BY <1>1, <1>3, <1>4 DEF ParseSingleExpression, IInv, Parsing, Patching, Rotating,
     Rotated, Evaluating, Evaluated

-----------------------------------------------------------------------------
(* Every step preserves the invariant: the rotator                         *)

LEMMA RotateSinglePreserves ==
  ASSUME TypeOK, IInv, RotateSingleExpression
  PROVE  TypeOK' /\ IInv'
<1>1. TypeOK'
  BY DEF TypeOK, RotateSingleExpression, Phase, rotator, evaluation
<1>2. whens = <<>> /\ whens' = <<>> /\ DOMAIN whens' = {}
  BY DEF RotateSingleExpression
<1>3. Chain' /\ Patched'
  BY <1>2 DEF Chain, Patched
<1>4. Rotated'
  BY <1>2 DEF IInv, Untouched, Rotated, RotateSingleExpression, rotator
<1>. QED
  BY <1>1, <1>3, <1>4 DEF RotateSingleExpression, IInv, Parsing, Patching, Untouched,
     Rotating, Evaluating, Evaluated

\* The graph stays, and so does what is known of it.
LEMMA GraphStays ==
  ASSUME TypeOK, IInv, whens' = whens, error' = error,
         phase \notin {"parsing", "patching"}, phase' \notin {"parsing", "patching"}
  PROVE  Chain' /\ Parsing' /\ Patching' /\ Patched'
  BY DEF IInv, Chain, Parsing, Patching, Patched, OpenEnded, Successor, FollowedBy,
     NoneFollows, TakenForOpen

LEMMA BeginRotationPreserves ==
  ASSUME TypeOK, IInv, BeginRotation
  PROVE  TypeOK' /\ IInv'
<1>1. /\ Len(whens) \in Nat \ {0} /\ DOMAIN whens = 1 .. Len(whens)
      /\ phase = "parsed" /\ phase' = "rotating"
      /\ whens' = whens /\ error' = error
  BY TypeFacts DEF BeginRotation
<1>2. visits' \in Seq(Nat) /\ Len(visits') = Len(whens)
      /\ \A n \in 1 .. Len(whens) : visits'[n] = 0
  BY <1>1 DEF BeginRotation
<1>3. pending' = <<1>> /\ pending' \in Seq(1 .. Len(whens))
  BY <1>1 DEF BeginRotation
<1>4. TypeOK'
  BY <1>1, <1>2, <1>3 DEF TypeOK, BeginRotation, Phase, evaluation
<1>5. Rotating'
  BY <1>1, <1>2, <1>3 DEF Rotating
<1>6. Chain' /\ Parsing' /\ Patching' /\ Patched'
  BY <1>1, GraphStays
<1>. QED
  BY <1>1, <1>4, <1>5, <1>6 DEF IInv, Untouched, Rotated, Evaluating, Evaluated

LEMMA RotatePreserves ==
  ASSUME TypeOK, IInv, RotateWhenCondition
  PROVE  TypeOK' /\ IInv'
<1> DEFINE n == Len(whens)
<1>1. /\ n \in Nat /\ DOMAIN whens = 1 .. n
      /\ phase = "rotating" /\ phase' = "rotating"
      /\ whens' = whens /\ error' = error
  BY TypeFacts DEF RotateWhenCondition
<1>2. PICK k \in 1 .. n : /\ pending = <<k>>
                         /\ \A m \in 1 .. n : visits[m] = IF m < k THEN 1 ELSE 0
  BY <1>1 DEF RotateWhenCondition, IInv, Rotating
<1>3. visits \in Seq(Nat) /\ Len(visits) = n
  BY <1>1 DEF TypeOK, IInv, Rotating
<1>4. Head(pending) = k /\ Tail(pending) = <<>>
  BY <1>2
<1>5. /\ visits' = [visits EXCEPT ![k] = visits[k] + 1]
      /\ pending' = Edge(whens[k].then)
                     \o Edge(IF VisitsElse(whens[k]) THEN whens[k].else ELSE 0)
                     \o <<>>
  BY <1>4 DEF RotateWhenCondition
<1>6. /\ visits' \in Seq(Nat) /\ Len(visits') = n
      /\ \A m \in 1 .. n : visits'[m] = IF m < k + 1 THEN 1 ELSE 0
  BY <1>1, <1>2, <1>3, <1>5
<1>7. pending' = Edge(Successor(k))
  <2>1. whens[k].conclusion \in Conclusions
    BY <1>1, <1>2, TypeFacts
  <2>2. CASE OpenEnded(k)
    <3>1. whens[k].then = Successor(k)
      BY <1>1, <1>2, <2>2 DEF IInv, Chain
    <3>2. ~VisitsElse(whens[k]) \/ whens[k].else = 0
      <4>1. CASE k < n
        BY <1>1, <3>1, <4>1 DEF Successor, VisitsElse, IsOpenEnded
      <4>2. CASE k = n
        <5>1. FollowedBy(k, whens[k].else) \/ whens[k].else = 0
          <6> HIDE DEF n
          <6>. QED  BY <1>1, <2>2 DEF IInv, Patched
        <5>2. ~FollowedBy(k, whens[k].else)
          BY <1>1, <4>2 DEF FollowedBy
        <5>. QED  BY <5>1, <5>2
      <4>. HIDE DEF n
      <4>. QED  BY <1>1, <4>1, <4>2
    <3>3. pending' = Edge(Successor(k)) \o <<>> \o <<>>
      BY <1>5, <3>1, <3>2 DEF Edge
    <3>. QED  BY <3>3 DEF Edge
  <2>3. CASE ~OpenEnded(k)
    <3>1. whens[k].then = 0 /\ whens[k].else = Successor(k)
      BY <1>1, <1>2, <2>3 DEF IInv, Chain
    <3>2. ~VisitsElse(whens[k]) => whens[k].else = 0
      BY <3>1 DEF VisitsElse, IsOpenEnded
    <3>3. pending' = <<>> \o Edge(Successor(k)) \o <<>>
      BY <1>5, <3>1, <3>2 DEF Edge
    <3>. QED  BY <3>3 DEF Edge
  <2>. QED  BY <2>2, <2>3
<1>8. pending' = (IF k < n THEN <<k + 1>> ELSE <<>>)
  BY <1>1, <1>7 DEF Successor, Edge
<1>9. Rotating'
  <2>1. CASE k < n
    <3>1. k + 1 \in DOMAIN whens' /\ pending' = <<k + 1>>
      BY <1>1, <1>8, <2>1
    <3>. QED  BY <1>1, <1>6, <3>1 DEF Rotating
  <2>2. CASE k = n
    BY <1>1, <1>6, <1>8, <2>2 DEF Rotating
  <2>3. k < n \/ k = n
    <3> HIDE DEF n
    <3>. QED  BY <1>1
  <2>. QED  BY <2>1, <2>2, <2>3
<1>10. TypeOK'
  <2>1. pending' \in Seq(1 .. n)
    <3> HIDE DEF n
    <3>1. CASE k < n
      <4>1. k + 1 \in 1 .. n /\ pending' = <<k + 1>>
        BY <1>1, <1>8, <3>1
      <4>. QED  BY <4>1
    <3>2. CASE ~(k < n)
      BY <1>8, <3>2
    <3>. QED  BY <3>1, <3>2
  <2>. QED  BY <1>1, <1>6, <2>1 DEF TypeOK, RotateWhenCondition, evaluation
<1>11. Chain' /\ Parsing' /\ Patching' /\ Patched'
  BY <1>1, GraphStays
<1>. QED
  BY <1>1, <1>9, <1>10, <1>11 DEF IInv, Untouched, Rotated, Evaluating, Evaluated

LEMMA EndRotationPreserves ==
  ASSUME TypeOK, IInv, EndRotation
  PROVE  TypeOK' /\ IInv'
<1>1. /\ phase = "rotating" /\ phase' = "ready" /\ pending = <<>>
      /\ whens' = whens /\ error' = error /\ pending' = pending /\ visits' = visits
  BY DEF EndRotation, rotator
<1>2. TypeOK'
  BY DEF TypeOK, EndRotation, Phase, rotator, evaluation
<1>3. Rotated'
  <2>1. ~\E k \in DOMAIN whens : pending = <<k>>
    BY <1>1
  <2>. QED  BY <1>1, <2>1 DEF IInv, Rotating, Rotated
<1>4. Chain' /\ Parsing' /\ Patching' /\ Patched'
  BY <1>1, GraphStays
<1>. QED
  BY <1>1, <1>2, <1>3, <1>4 DEF IInv, Untouched, Rotating, Evaluating, Evaluated

-----------------------------------------------------------------------------
(* Every step preserves the invariant: the evaluation                      *)

\* A reader's turn at a when-condition.
Turn(n) == OpenEnded(n) \/ InForce(n)

LEMMA BeginEvaluationPreserves ==
  ASSUME TypeOK, IInv, BeginEvaluation
  PROVE  TypeOK' /\ IInv'
<1>1. /\ Len(whens) \in Nat \ {0} /\ DOMAIN whens = 1 .. Len(whens)
      /\ phase \in {"ready", "evaluated"} /\ phase' = "evaluating"
      /\ error' = error /\ whens' = whens
      /\ current' = 1 /\ asked' = {} /\ held' = {} /\ decision' = 0 /\ set' = {}
      /\ pending' = pending /\ visits' = visits
  BY TypeFacts DEF BeginEvaluation, rotator
<1>2. TypeOK'
  BY <1>1 DEF TypeOK, BeginEvaluation, Phase
<1>3. InOrder' /\ InForce(1)'
  <2>1. Reached' = 0
    BY <1>1 DEF Reached, Position
  <2>2. asked' = {n \in 1 .. 0 : Turn(n)'}
    BY <1>1
  <2>3. set' = {n \in held' : whens'[n].conclusion = "set"}
    BY <1>1
  <2>4. InForce(1)'
    BY DEF InForce
  <2>. QED  BY <1>1, <2>1, <2>2, <2>3, <2>4 DEF InOrder, Turn
<1>4. Evaluating'
  <2>1. InForce(current)'
    BY <1>1 DEF InForce
  <2>. QED  BY <1>1, <1>3, <2>1 DEF Evaluating
<1>5. Chain' /\ Parsing' /\ Patching' /\ Patched'
  BY <1>1, GraphStays
<1>. QED
  BY <1>1, <1>2, <1>4, <1>5 DEF IInv, Untouched, Rotating, Rotated, Evaluated

\* Where an evaluation goes from a when-condition: to the next one, or from an
\* open-ended one that did not hold to the next open-ended one.
LEMMA EdgesInOrder ==
  ASSUME TypeOK, IInv, phase = "evaluating", ~EndsBroken, NEW c \in 1 .. Len(whens)
  PROVE  /\ OpenEnded(c) => /\ whens[c].then = Successor(c)
                            /\ \/ /\ whens[c].else \in c + 1 .. Len(whens)
                                  /\ OpenEnded(whens[c].else)
                                  /\ \A k \in c + 1 .. whens[c].else - 1 : ~OpenEnded(k)
                               \/ /\ whens[c].else = 0
                                  /\ \A k \in c + 1 .. Len(whens) : ~OpenEnded(k)
         /\ ~OpenEnded(c) => /\ whens[c].then = 0 /\ whens[c].else = Successor(c)
                             /\ whens[c].conclusion \in {"set"} \cup Deciding
<1>1. DOMAIN whens = 1 .. Len(whens) /\ Len(whens) \in Nat
  BY TypeFacts
<1>2. \A k \in 1 .. Len(whens) : TakenForOpen(k) <=> OpenEnded(k)
  <2>1. whens # <<>>
    BY <1>1
  <2>2. whens[Len(whens)].conclusion # "broken"
    BY <2>1 DEF EndsBroken
  <2>. QED  BY <2>2 DEF TakenForOpen
<1>3. CASE OpenEnded(c)
  <2>1. whens[c].then = Successor(c)
    BY <1>1, <1>3 DEF IInv, Chain
  <2>2. FollowedBy(c, whens[c].else) \/ (whens[c].else = 0 /\ NoneFollows(c))
    BY <1>1, <1>3 DEF IInv, Patched
  <2>3. CASE FollowedBy(c, whens[c].else)
    <3>1. PICK e \in c + 1 .. Len(whens) : e = whens[c].else /\ FollowedBy(c, e)
      BY <2>3 DEF FollowedBy
    <3>2. OpenEnded(e) /\ \A k \in c + 1 .. e - 1 : ~OpenEnded(k)
      BY <1>1, <1>2, <3>1 DEF FollowedBy
    <3>. QED  BY <1>3, <2>1, <3>1, <3>2
  <2>4. CASE whens[c].else = 0 /\ NoneFollows(c)
    <3>1. \A k \in c + 1 .. Len(whens) : ~OpenEnded(k)
      BY <1>1, <1>2, <2>4 DEF NoneFollows
    <3>. QED  BY <1>3, <2>1, <2>4, <3>1
  <2>. QED  BY <2>2, <2>3, <2>4
<1>4. CASE ~OpenEnded(c)
  BY <1>1, <1>4, TypeFacts DEF IInv, Chain, OpenEnded, Conclusions, Deciding
<1>. QED  BY <1>3, <1>4

\* What is known when the evaluation comes to a when-condition.
LEMMA AtWhenCondition ==
  ASSUME TypeOK, IInv, phase = "evaluating", ~EndsBroken, current # 0
  PROVE  /\ current \in 1 .. Len(whens) /\ Len(whens) \in Nat
         /\ decision = 0 /\ Turn(current)
         /\ asked = {n \in 1 .. current - 1 : Turn(n)}
         /\ held \subseteq asked /\ current \notin held
         /\ set = {n \in held : whens[n].conclusion = "set"}
         /\ \A n \in held : whens[n].conclusion \notin Deciding
<1>1. current \in 1 .. Len(whens) /\ Len(whens) \in Nat /\ DOMAIN whens = 1 .. Len(whens)
  BY TypeFacts
<1>2. decision = 0 /\ Turn(current) /\ InOrder
  BY DEF IInv, Evaluating, Turn
<1>3. Reached = current - 1
  BY <1>1, <1>2 DEF Reached, Position
<1>4. held \subseteq asked /\ asked \subseteq 1 .. Len(whens)
  BY <1>1 DEF TypeOK
<1>5. asked = {n \in 1 .. current - 1 : Turn(n)}
  BY <1>2, <1>3 DEF InOrder, Turn
<1>6. current \notin asked
  BY <1>1, <1>5
<1>7. \A n \in held : whens[n].conclusion \notin Deciding
  BY <1>2, <1>4 DEF InOrder
<1>. QED  BY <1>1, <1>2, <1>4, <1>5, <1>6, <1>7 DEF InOrder

\* Unless the function ends with a broken action, the evaluation goes on in order.
LEMMA EvaluateInOrder ==
  ASSUME TypeOK, IInv, NEW holds \in BOOLEAN, EvaluateWhenCondition(holds), ~EndsBroken
  PROVE  Evaluating'
<1> DEFINE n == Len(whens)
<1>1. /\ phase = "evaluating" /\ phase' = "evaluating" /\ current # 0
      /\ whens' = whens
  BY DEF EvaluateWhenCondition
<1>2. PICK c \in 1 .. n : c = current
  BY <1>1, AtWhenCondition
<1>3. /\ n \in Nat /\ DOMAIN whens = 1 .. n
      /\ decision = 0 /\ Turn(c)
      /\ asked = {k \in 1 .. c - 1 : Turn(k)}
      /\ held \subseteq asked /\ c \notin held
      /\ set = {k \in held : whens[k].conclusion = "set"}
      /\ \A k \in held : whens[k].conclusion \notin Deciding
  BY <1>1, <1>2, AtWhenCondition, TypeFacts
<1>4. /\ OpenEnded(c) => /\ whens[c].then = Successor(c)
                         /\ \/ /\ whens[c].else \in c + 1 .. n
                               /\ OpenEnded(whens[c].else)
                               /\ \A k \in c + 1 .. whens[c].else - 1 : ~OpenEnded(k)
                            \/ /\ whens[c].else = 0
                               /\ \A k \in c + 1 .. n : ~OpenEnded(k)
      /\ ~OpenEnded(c) => /\ whens[c].then = 0 /\ whens[c].else = Successor(c)
                          /\ whens[c].conclusion \in {"set"} \cup Deciding
  BY <1>1, EdgesInOrder
<1>5. /\ asked' = asked \cup {c}
      /\ held' = IF holds THEN held \cup {c} ELSE held
  BY <1>2 DEF EvaluateWhenCondition
<1> HIDE DEF n
<1>8. \A k \in 1 .. n : OpenEnded(k)' <=> OpenEnded(k)
  BY <1>1 DEF OpenEnded
\* What was a turn above is still one.
<1>9. ASSUME NEW k \in 1 .. c
      PROVE  Turn(k)' <=> Turn(k)
  <2>1. \A m \in 1 .. k - 1 : m \in held' <=> m \in held
    BY <1>2, <1>5
  <2>. QED  BY <1>1, <2>1 DEF Turn, InForce, OpenEnded
<1>10. asked' = {k \in 1 .. c : Turn(k)'}
  <2>1. \A k \in 1 .. c - 1 : k \in 1 .. c
    BY <1>2
  <2>2. \A k \in 1 .. c : k \in 1 .. c - 1 \/ k = c
    BY <1>2
  <2>3. c \in 1 .. c
    BY <1>2
  <2>. QED  BY <1>3, <1>5, <1>9, <2>1, <2>2, <2>3
\* Below a condition with an action, or an open-ended one that held.
<1>11. ASSUME c < n, OpenEnded(c) => c \in held'
       PROVE  InForce(c + 1)'
  <2> SUFFICES ASSUME NEW m \in 1 .. c, OpenEnded(m)',
                      \A k \in m + 1 .. c : ~OpenEnded(k)'
               PROVE  m \in held'
    BY <1>2, <1>3 DEF InForce
  <2>1. CASE m = c
    BY <1>1, <1>11, <2>1 DEF OpenEnded
  <2>2. CASE m < c
    <3>1. c \in m + 1 .. c
      BY <1>2, <2>2
    <3>2. ~OpenEnded(c)
      BY <1>1, <3>1 DEF OpenEnded
    <3>3. InForce(c)
      BY <1>3, <3>2 DEF Turn
    <3>4. m \in 1 .. c - 1 /\ \A k \in m + 1 .. c - 1 : k \in m + 1 .. c
      BY <1>2, <2>2
    <3>5. OpenEnded(m) /\ \A k \in m + 1 .. c - 1 : ~OpenEnded(k)
      BY <1>1, <3>4 DEF OpenEnded
    <3>6. m \in held
      BY <3>3, <3>4, <3>5 DEF InForce
    <3>. QED  BY <1>5, <3>6
  <2>. QED  BY <1>2, <2>1, <2>2
\* The evaluation goes on at d, or ends behind the last when-condition.
<1>12. ASSUME NEW d \in c + 1 .. n + 1,
              current' = IF d <= n THEN d ELSE 0,
              decision' = 0,
              \A k \in c + 1 .. d - 1 : ~Turn(k)',
              d <= n => Turn(d)',
              set' = {k \in held' : whens[k].conclusion = "set"},
              c \in held' => whens[c].conclusion \notin Deciding
       PROVE  Evaluating'
  <2>1. Position' = d
    BY <1>1, <1>2, <1>3, <1>12 DEF Position, n
  <2>2. Reached' = d - 1
    BY <1>12, <2>1 DEF Reached
  <2>3. asked' = {k \in 1 .. d - 1 : Turn(k)'}
    <3>1. \A k \in 1 .. d - 1 : k \in 1 .. c \/ k \in c + 1 .. d - 1
      BY <1>2, <1>12
    <3>2. \A k \in 1 .. c : k \in 1 .. d - 1
      BY <1>2, <1>12
    <3>. QED  BY <1>10, <1>12, <3>1, <3>2
  <2>4. \A k \in held' : whens'[k].conclusion \notin Deciding
    BY <1>1, <1>3, <1>5, <1>12
  <2>5. InOrder'
    BY <1>1, <1>12, <2>2, <2>3, <2>4 DEF InOrder, Turn
  <2>6. current' # 0 => Turn(current)'
    <3>1. CASE d <= n
      <4>1. current' = d
        BY <1>12, <3>1
      <4>. QED  BY <1>12, <3>1, <4>1 DEF Turn, OpenEnded, InForce
    <3>2. CASE ~(d <= n)
      BY <1>12, <3>2
    <3>. QED  BY <3>1, <3>2
  <2>. QED  BY <1>1, <1>12, <2>5, <2>6 DEF Evaluating, Turn
<1>13. Successor(c) = IF c < n THEN c + 1 ELSE 0
  BY DEF Successor, n
<1>14. Evaluating'
  <2> DEFINE w == whens[c]
  <2>1. CASE ~holds /\ OpenEnded(c)
    <3>1. current' = w.else /\ decision' = 0 /\ set' = set /\ held' = held
      BY <1>2, <1>3, <1>5, <2>1 DEF EvaluateWhenCondition
    <3>2. ASSUME NEW k \in c + 1 .. n, \A j \in c + 1 .. k : ~OpenEnded(j)
          PROVE  ~Turn(k)'
      <4>1. k \in c + 1 .. k /\ c \in 1 .. k - 1 /\ \A j \in c + 1 .. k - 1 : j \in c + 1 .. k
        BY <1>2, <1>3
      <4>2. ~OpenEnded(k)'
        BY <1>1, <3>2, <4>1 DEF OpenEnded
      <4>3. OpenEnded(c)' /\ \A j \in c + 1 .. k - 1 : ~OpenEnded(j)'
        BY <1>1, <2>1, <3>2, <4>1 DEF OpenEnded
      <4>4. c \notin held'
        BY <1>3, <3>1
      <4>. QED  BY <4>1, <4>2, <4>3, <4>4 DEF Turn, InForce
    <3>3. CASE w.else # 0
      <4>1. PICK d \in c + 1 .. n : /\ d = w.else /\ OpenEnded(d)
                                   /\ \A k \in c + 1 .. d - 1 : ~OpenEnded(k)
        BY <1>4, <2>1, <3>3
      <4>2. \A k \in c + 1 .. d - 1 :
              k \in c + 1 .. n /\ \A j \in c + 1 .. k : j \in c + 1 .. d - 1
        BY <1>2, <1>3
      <4>3. \A k \in c + 1 .. d - 1 : ~Turn(k)'
        BY <3>2, <4>1, <4>2
      <4>4. Turn(d)'
        BY <1>1, <4>1 DEF Turn, OpenEnded
      <4>5. d \in c + 1 .. n + 1 /\ d <= n
        BY <1>2, <1>3
      <4>6. current' = d
        BY <3>1, <4>1
      <4>7. Evaluating'
        BY <1>3, <1>12, <3>1, <4>3, <4>4, <4>5, <4>6
      <4>. QED  BY <1>3, <3>1, <4>1, <4>6, <4>7
    <3>4. CASE w.else = 0
      <4>1. \A k \in c + 1 .. n : ~OpenEnded(k)
        BY <1>2, <1>3, <1>4, <2>1, <3>4
      <4>2. n + 1 \in c + 1 .. n + 1 /\ ~(n + 1 <= n) /\ (n + 1) - 1 = n
        BY <1>2, <1>3
      <4>3. \A k \in c + 1 .. n : \A j \in c + 1 .. k : j \in c + 1 .. n
        BY <1>2, <1>3
      <4>4. \A k \in c + 1 .. n : ~Turn(k)'
        BY <3>2, <4>1, <4>3
      <4>5. Evaluating'
        BY <1>3, <1>12, <3>1, <3>4, <4>2, <4>4
      <4>. QED  BY <1>3, <3>1, <3>4, <4>5
    <3>. QED  BY <3>3, <3>4
  \* To the next when-condition.
  <2>2. ASSUME current' = Successor(c), decision' = 0,
               set' = {k \in held' : whens[k].conclusion = "set"},
               c \in held' => w.conclusion \notin Deciding,
               OpenEnded(c) => c \in held'
        PROVE  Evaluating'
    <3>1. CASE c < n
      <4>1. current' = c + 1 /\ c + 1 \in c + 1 .. n + 1 /\ c + 1 <= n
        BY <1>2, <1>3, <1>13, <2>2, <3>1
      <4>2. Turn(c + 1)'
        BY <1>11, <2>2, <3>1 DEF Turn
      <4>3. \A k \in c + 1 .. (c + 1) - 1 : FALSE
        BY <1>2
      <4>4. Evaluating'
        BY <1>12, <2>2, <4>1, <4>2, <4>3
      <4>. QED  BY <1>2, <1>3, <4>1, <4>4
    <3>2. CASE c = n
      <4>1. current' = 0 /\ n + 1 \in c + 1 .. n + 1 /\ ~(n + 1 <= n)
        BY <1>3, <1>13, <2>2, <3>2
      <4>2. \A k \in c + 1 .. (n + 1) - 1 : FALSE
        BY <1>3, <3>2
      <4>3. Evaluating'
        BY <1>12, <2>2, <4>1, <4>2
      <4>. QED  BY <4>1, <4>3
    <3>. QED  BY <1>2, <1>3, <3>1, <3>2
  <2>3. CASE ~holds /\ ~OpenEnded(c)
    <3>1. current' = Successor(c) /\ decision' = 0 /\ set' = set /\ held' = held
      BY <1>2, <1>3, <1>4, <1>5, <2>3 DEF EvaluateWhenCondition
    <3>2. set' \subseteq held' /\ decision' \in 0 .. n
      BY <1>3, <3>1
    <3>. QED  BY <1>3, <2>2, <2>3, <3>1, <3>2
  <2>4. CASE holds /\ OpenEnded(c)
    <3>1. current' = Successor(c) /\ decision' = 0 /\ set' = set
      BY <1>2, <1>3, <1>4, <2>4 DEF EvaluateWhenCondition, OpenEnded
    <3>2. held' = held \cup {c} /\ w.conclusion = "none"
      BY <1>5, <2>4 DEF OpenEnded
    <3>3. set' = {k \in held' : whens[k].conclusion = "set"}
      BY <1>3, <3>1, <3>2
    <3>5. w.conclusion \notin Deciding
      BY <3>2 DEF Deciding
    <3>. QED  BY <2>2, <3>1, <3>2, <3>3, <3>5
  <2>5. CASE holds /\ ~OpenEnded(c) /\ w.conclusion = "set"
    <3>1. current' = Successor(c) /\ decision' = 0 /\ set' = set \cup {c}
      BY <1>2, <1>3, <1>4, <2>5 DEF EvaluateWhenCondition
    <3>2. held' = held \cup {c}
      BY <1>5, <2>5
    <3>3. set' = {k \in held' : whens[k].conclusion = "set"}
      BY <1>3, <2>5, <3>1, <3>2
    <3>4. w.conclusion \notin Deciding
      BY <2>5 DEF Deciding
    <3>. QED  BY <2>2, <2>5, <3>1, <3>3, <3>4
  <2>6. CASE holds /\ ~OpenEnded(c) /\ w.conclusion \in Deciding
    <3>0. w.conclusion \notin {"none", "set"}
      BY <2>6 DEF Deciding
    <3>1. current' = 0 /\ decision' = c /\ set' = set
      BY <1>2, <1>3, <1>4, <2>6, <3>0 DEF EvaluateWhenCondition
    <3>2. held' = held \cup {c}
      BY <1>5, <2>6
    <3>3. Reached' = c
      BY <1>2, <3>1 DEF Reached
    <3>4. set' = {k \in held' : whens[k].conclusion = "set"}
      BY <1>3, <3>0, <3>1, <3>2
    <3>5. InOrder'
      <4>1. \A k \in held' : whens'[k].conclusion \in Deciding => k = decision'
        BY <1>1, <1>3, <3>1, <3>2
      <4>2. decision' \in held' /\ whens'[decision'].conclusion \in Deciding
        BY <1>1, <2>6, <3>1, <3>2
      <4>3. asked' = {k \in 1 .. Reached' : OpenEnded(k)' \/ InForce(k)'}
        BY <1>10, <3>3 DEF Turn
      <4>4. set' = {k \in held' : whens'[k].conclusion = "set"}
        BY <1>1, <3>4
      <4>. QED  BY <4>1, <4>2, <4>3, <4>4 DEF InOrder
    <3>6. Evaluating'
      BY <1>1, <3>1, <3>5 DEF Evaluating
    <3>. QED  BY <1>2, <1>3, <3>1, <3>4, <3>6
  <2>. QED  BY <1>4, <2>1, <2>3, <2>4, <2>5, <2>6
<1>. QED  BY <1>14

LEMMA EvaluatePreserves ==
  ASSUME TypeOK, IInv, NEW holds \in BOOLEAN, EvaluateWhenCondition(holds)
  PROVE  TypeOK' /\ IInv'
<1> DEFINE n == Len(whens)
<1>1. /\ phase = "evaluating" /\ phase' = "evaluating"
      /\ whens' = whens /\ error' = error
      /\ last' = last /\ last_open' = last_open
      /\ pending' = pending /\ visits' = visits
  BY DEF EvaluateWhenCondition, rotator
<1>2. n \in Nat /\ DOMAIN whens = 1 .. n /\ current \in 1 .. n
  BY TypeFacts DEF EvaluateWhenCondition
<1>3. /\ asked' = asked \cup {current}
      /\ held' = IF holds THEN held \cup {current} ELSE held
      /\ set' \subseteq set \cup (IF holds THEN {current} ELSE {})
      /\ current' \in {0, whens[current].then, whens[current].else}
      /\ decision' \in {0, decision, current}
  BY DEF EvaluateWhenCondition
<1>4. TypeOK'
  <2>1. /\ whens[current].then \in 0 .. n /\ whens[current].else \in 0 .. n
        /\ last \in 0 .. n /\ decision \in 0 .. n
    <3>1. /\ whens[current].then \in {0} \cup (current + 1) .. n
          /\ whens[current].else \in {0} \cup (current + 1) .. n
          /\ last \in 0 .. n /\ decision \in 0 .. n
      BY <1>2 DEF TypeOK
    <3> HIDE DEF n
    <3>. QED  BY <1>2, <3>1
  <2>2. current' \in 0 .. n /\ decision' \in 0 .. n /\ last' \in 0 .. n
    BY <1>1, <1>2, <1>3, <2>1
  <2>3. asked' \subseteq 1 .. n /\ held' \subseteq asked' /\ set' \subseteq held'
    BY <1>2, <1>3 DEF TypeOK
  <2> HIDE DEF n
  <2>4. {last', current', decision'} \subseteq 0 .. n
    BY <2>2
  <2>. QED  BY <1>1, <1>2, <2>3, <2>4 DEF TypeOK, n
<1>5. Chain' /\ Parsing' /\ Patching' /\ Patched'
  BY <1>1, GraphStays
<1>6. Evaluating'
  <2>1. EndsBroken' <=> EndsBroken
    BY <1>1 DEF EndsBroken
  <2>. QED  BY <2>1, EvaluateInOrder DEF Evaluating
<1>. QED
  BY <1>1, <1>4, <1>5, <1>6 DEF IInv, Untouched, Rotating, Rotated, Evaluated

LEMMA EndEvaluationPreserves ==
  ASSUME TypeOK, IInv, EndEvaluation
  PROVE  TypeOK' /\ IInv'
<1>1. /\ phase = "evaluating" /\ phase' = "evaluated" /\ current = 0 /\ current' = 0
      /\ whens' = whens /\ error' = error /\ pending' = pending /\ visits' = visits
      /\ asked' = asked /\ held' = held /\ decision' = decision /\ set' = set
  BY DEF EndEvaluation, rotator, evaluation
<1>2. TypeOK'
  BY DEF TypeOK, EndEvaluation, Phase, rotator, evaluation
<1>3. Evaluated'
  BY <1>1 DEF IInv, Evaluating, Evaluated, InOrder, Reached, Position, OpenEnded, InForce,
     EndsBroken
<1>4. Chain' /\ Parsing' /\ Patching' /\ Patched'
  BY <1>1, GraphStays
<1>. QED
  BY <1>1, <1>2, <1>3, <1>4 DEF IInv, Untouched, Rotating, Rotated, Evaluating

-----------------------------------------------------------------------------
(* The theorems                                                            *)

(* However many when-conditions a function has, the graph that the parser builds has
   the edges of the text, and the ways through it are the intended ones
   (CFormulaParser.cpp:525, :723; CParseTreeRotator.cpp:82; CParseTreeNode.cpp:356). *)
THEOREM Invariance == Spec => [](TypeOK /\ IInv)
<1>1. Init => TypeOK /\ IInv
  <2> SUFFICES ASSUME Init
               PROVE  TypeOK /\ IInv
    OBVIOUS
  <2>1. TypeOK
    <3>1. /\ whens = <<>> /\ Len(whens) = 0 /\ DOMAIN whens = {}
          /\ visits = <<>> /\ Len(visits) = 0 /\ pending = <<>>
      BY DEF Init
    <3>2. whens \in Seq(When) /\ pending \in Seq(1 .. Len(whens)) /\ visits \in Seq(Nat)
      BY <3>1
    <3>3. \A m \in DOMAIN whens : /\ whens[m].then \in {0} \cup (m + 1) .. Len(whens)
                                  /\ whens[m].else \in {0} \cup (m + 1) .. Len(whens)
      BY <3>1
    <3>4. {last, current, decision} \subseteq 0 .. Len(whens)
      BY <3>1 DEF Init
    <3>5. phase \in Phase /\ error \in BOOLEAN /\ last_open \in BOOLEAN
      BY DEF Init, Phase
    <3>6. asked \subseteq DOMAIN whens /\ held \subseteq asked /\ set \subseteq held
      BY DEF Init
    <3> QED
      BY <3>1, <3>2, <3>3, <3>4, <3>5, <3>6 DEF TypeOK
  <2>2. Chain /\ Parsing /\ Untouched
    BY DEF Init, Chain, Parsing, Untouched
  <2>. QED
    BY <2>1, <2>2 DEF Init, IInv, Patching, Patched, Rotating, Rotated, Evaluating,
       Evaluated
<1>2. TypeOK /\ IInv /\ [Next]_vars => TypeOK' /\ IInv'
  <2> SUFFICES ASSUME TypeOK, IInv, [Next]_vars
               PROVE  TypeOK' /\ IInv'
    OBVIOUS
  <2>1. ASSUME NEW conclusion \in {"none", "broken", "set", "action"},
               NEW bad \in BOOLEAN, ParseWhenCondition(conclusion, bad)
        PROVE  TypeOK' /\ IInv'
    BY <2>1, ParsePreserves DEF Conclusions
  <2>2. ASSUME NEW bad \in BOOLEAN, EndOfSequence(bad)
        PROVE  TypeOK' /\ IInv'
    BY <2>2, EndOfSequencePreserves
  <2>3. ASSUME NEW bad \in BOOLEAN, ParseSingleExpression(bad)
        PROVE  TypeOK' /\ IInv'
    BY <2>3, SingleExpressionPreserves
  <2>4. CASE BeginPatching
    BY <2>4, BeginPatchingPreserves
  <2>5. CASE BackPatch
    BY <2>5, BackPatchPreserves
  <2>6. CASE RotateSingleExpression
    BY <2>6, RotateSinglePreserves
  <2>7. CASE BeginRotation
    BY <2>7, BeginRotationPreserves
  <2>8. CASE RotateWhenCondition
    BY <2>8, RotatePreserves
  <2>9. CASE EndRotation
    BY <2>9, EndRotationPreserves
  <2>10. CASE BeginEvaluation
    BY <2>10, BeginEvaluationPreserves
  <2>11. ASSUME NEW holds \in BOOLEAN, EvaluateWhenCondition(holds)
         PROVE  TypeOK' /\ IInv'
    BY <2>11, EvaluatePreserves
  <2>12. CASE EndEvaluation
    BY <2>12, EndEvaluationPreserves
  <2>13. CASE UNCHANGED vars
    BY <2>13 DEF vars, rotator, evaluation, TypeOK, IInv, Chain, Parsing, Patching, Patched,
       Untouched, Rotating, Rotated, Evaluating, Evaluated, InOrder, Reached, Position,
       OpenEnded, Successor, TakenForOpen, FollowedBy, NoneFollows, InForce, EndsBroken
  <2>. QED
    BY <2>1, <2>2, <2>3, <2>4, <2>5, <2>6, <2>7, <2>8, <2>9, <2>10, <2>11, <2>12, <2>13
    DEF Next
<1>. QED  BY <1>1, <1>2, PTL DEF Spec

(* Every edge of the graph leads to a later when-condition, as the assertions in the
   second loop ask for (CFormulaParser.cpp:735); so no loop and no recursion over the
   graph goes on for ever. *)
THEOREM TypeCorrect == Spec => []TypeOK
BY Invariance, PTL

(* The rotator visits every when-condition of a function exactly once, although it is
   called recursively for the edges of a graph that is no tree
   (CParseTreeRotator.cpp:93). *)
THEOREM EveryConditionRotatedOnce == Spec => []RotatedOnce
<1>1. TypeOK /\ IInv => RotatedOnce
  <2> SUFFICES ASSUME TypeOK, IInv, phase = "ready"
               PROVE  \A n \in DOMAIN visits : visits[n] = 1
    BY DEF RotatedOnce
  <2>1. DOMAIN visits = 1 .. Len(visits) /\ Len(visits) = Len(whens)
    BY DEF TypeOK, IInv, Rotated
  <2>. QED  BY <2>1, TypeFacts DEF IInv, Rotated
<1>. QED  BY <1>1, Invariance, PTL

(* What an OpenPPL function evaluates, and in which order, is what it says from top to
   bottom, for every number of when-conditions, every kind of action behind them, and
   whatever the conditions are when they are evaluated (CParseTreeNode.cpp:356): with
   or without errors, unless it ends with an action that could not be parsed. *)
THEOREM EvaluationFollowsText == Spec => []ConditionsInOrder
<1>1. TypeOK /\ IInv => ConditionsInOrder
  <2> SUFFICES ASSUME TypeOK, IInv, phase = "evaluated", ~EndsBroken
               PROVE  FollowsText
    BY DEF ConditionsInOrder
  <2>1. current = 0 /\ InOrder
    BY DEF IInv, Evaluated
  <2>2. Reached = End
    BY <2>1, TypeFacts DEF Reached, Position, End
  <2>. QED  BY <2>1, <2>2 DEF InOrder, FollowsText
<1>. QED  BY <1>1, Invariance, PTL
=============================================================================
