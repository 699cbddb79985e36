-------------------------- MODULE BetSequenceProofs --------------------------
(* Theorems about BetSequence and their proofs. *)
EXTENDS BetSequence, SequenceTheorems, TLAPS

\* The steps of DoAllin, those in which amount is what is to be bet, and those
\* after which the table may have received something.
OfAllin == {"allin", "slider", "jam"}
Entering == {"sequence", "select", "delete", "type", "confirm", "return"}
After == {"return", "heartbeat", "over"}

\* Nothing is received before the attempt that is going to be successful.
PlacedInv ==
  /\ Len(placed) <= 1
  /\ pc \notin After => placed = <<>>
  /\ pc = "return" /\ ~success => placed = <<>>

\* What the program is about to bet, and where it came from.
AmountInv ==
  /\ pc \in OfAllin => in_allin
  /\ pc \in {"slider", "jam"} => amount = "max"
  /\ pc \in Entering => amount \in IF in_allin THEN {"max"}
                                   ELSE BetPot \cup {"betsize"}
  /\ pc \in {"betpot", "swag", "fckra"} => ~in_allin
  /\ pc = "swag" => attempt = "swag"
  /\ pc \in Entering /\ attempt = "betpot" /\ ~in_allin => betpot <= Len(BetPots)

\* No window has taken the focus, as far as anybody could notice.
Undisturbed == foreground = "table" /\ ~unnoticed

\* As long as the table has not lost the focus the box has what is meant.
BoxInv ==
  /\ pc = "jam" => box = "max"
  /\ pc = "sequence" /\ Undisturbed => box = amount
  /\ pc = "delete" /\ Undisturbed => tablemap.swag = "nothing" \/ box = "selected"
  /\ pc = "type" /\ ~lost_focus /\ Undisturbed
       => tablemap.swag = "nothing" \/ box = "empty"
  /\ pc = "confirm" /\ ~lost_focus /\ Undisturbed => box = amount

\* What has been received is what is going to be registered.
ResultInv == pc = "return" /\ placed # <<>> => placed[1].meant = amount

IInv == /\ PlacedInv /\ AmountInv /\ BoxInv /\ ResultInv
        /\ BetsAsMeant /\ ActionRegistered /\ ActsIfPossible

USE ConstantsAssumption DEF Function, Button, Region, ActionOf, Undisturbed

LEMMA BetPotNames ==
  /\ \A n \in 1 .. Len(BetPots) : BetPots[n] \in BetPot
  /\ Len(BetPots) \in Nat
  /\ BetPot \cap {"allin", "raise", "call", "check", "fold", "betsize", "max",
                  "none", "default", "selected", "empty", "junk", "enter"} = {}
<1>1. BetPots \in Seq(STRING)
  BY DEF ConstantsAssumption
<1>2. Len(BetPots) \in Nat /\ DOMAIN BetPots = 1 .. Len(BetPots)
  BY <1>1
<1>3. \A n \in 1 .. Len(BetPots) : BetPots[n] \in BetPot
  BY <1>2 DEF BetPot
<1> QED
  BY <1>2, <1>3 DEF ConstantsAssumption

LEMMA AmountNames ==
  /\ Amount \subseteq Box /\ "default" \notin Amount
  /\ BetPot \cup {"betsize"} \subseteq Amount /\ "max" \in Amount
BY BetPotNames DEF Amount, Box

\* Everything that speaks about what the table has received.
History == PlacedInv /\ ResultInv /\ BetsAsMeant /\ ActionRegistered /\ ActsIfPossible

\* Steps before anything has been received.
LEMMA NothingPlaced ==
  ASSUME TypeOK, IInv, placed' = <<>>, pc' # "heartbeat"
  PROVE  History'
<1>1. Len(<<>>) = 0 /\ DOMAIN <<>> = {}
  OBVIOUS
<1> QED
  BY <1>1 DEF History, PlacedInv, ResultInv, BetsAsMeant, ActionRegistered,
              ActsIfPossible

LEMMA PlaceOK ==
  ASSUME TypeOK, placed = <<>>, NEW b \in Button \cup {"enter"}, NEW meant \in Box,
         b \in {"raise", "enter"} => unnoticed' \/ meant \in {"default", box},
         b \notin {"raise", "enter"} => Chips(b) = meant,
         Place(b, meant)
  PROVE  /\ placed' \in Seq(Bet) /\ Len(placed') = 1 /\ DOMAIN placed' = {1}
         /\ placed'[1].meant = meant /\ placed'[1].button = b
         /\ unnoticed' \/ meant = "default" \/ placed'[1].chips = meant
<1> DEFINE bet == [button |-> b, meant |-> meant,
                   chips |-> IF b = "enter" THEN box ELSE Chips(b)]
<1>1. box \in Box
  BY DEF TypeOK
<1>2. (IF b = "enter" THEN box ELSE Chips(b)) \in Box
  BY <1>1 DEF Chips, Box
<1>3. bet \in Bet /\ bet.meant = meant /\ bet.button = b
  BY <1>2 DEF Bet
<1>4. unnoticed' \/ meant = "default" \/ bet.chips = meant
  BY DEF Chips
<1>5. placed' = Append(<<>>, bet)
  BY DEF Place
<1> HIDE DEF bet
<1>6. placed' = <<bet>>
  BY <1>5
<1> QED
  BY <1>3, <1>4, <1>6

\* What a click does, wherever it goes.
LEMMA ClickOK ==
  ASSUME TypeOK, placed = <<>>, NEW b \in Button, NEW meant \in Box, NEW n,
         b = "raise" => unnoticed' \/ meant \in {"default", box},
         b # "raise" => Chips(b) = meant,
         Click(b, meant, n)
  PROVE  /\ foreground' \in {"table", "other"} /\ box' \in Box
         /\ \/ placed' = <<>>
            \/ /\ placed' \in Seq(Bet) /\ Len(placed') = 1 /\ DOMAIN placed' = {1}
               /\ placed'[1].meant = meant /\ placed'[1].button = b
               /\ unnoticed' \/ meant = "default" \/ placed'[1].chips = meant
         /\ FillsBox(b) => /\ placed' = <<>>
                           /\ foreground' = "table" => box' = Chips(b)
<1>1. box \in Box
  BY DEF TypeOK
<1>2. CASE foreground' = "other" /\ UNCHANGED <<box, placed>>
  BY <1>1, <1>2
<1>3. CASE foreground' = "table" /\ Press(b, meant, n)
  <2>1. CASE FillsBox(b) /\ box' = Chips(b) /\ UNCHANGED placed
    BY <1>1, <1>3, <2>1 DEF Chips, Box
  <2>2. CASE ~FillsBox(b) /\ UNCHANGED <<box, placed>>
    BY <1>1, <1>3, <2>2
  <2>3. CASE ~FillsBox(b) /\ Place(b, meant)
    <3>0. b # "enter"
      BY BetPotNames
    <3>1. /\ placed' \in Seq(Bet) /\ Len(placed') = 1 /\ DOMAIN placed' = {1}
          /\ placed'[1].meant = meant /\ placed'[1].button = b
          /\ unnoticed' \/ meant = "default" \/ placed'[1].chips = meant
      BY <2>3, <3>0, PlaceOK
    <3>2. box' = box
      BY <2>3 DEF Place
    <3> QED
      BY <1>1, <1>3, <2>3, <3>1, <3>2
  <2> QED
    BY <1>3, <2>1, <2>2, <2>3 DEF Press
<1> QED
  BY <1>2, <1>3 DEF Click

\* The step after which an attempt returns with success.
LEMMA SuccessHistory ==
  ASSUME pc' = "return", success' = TRUE, amount' # "default",
         \/ placed' = <<>>
         \/ /\ Len(placed') = 1 /\ DOMAIN placed' = {1}
            /\ placed'[1].meant = amount'
            /\ unnoticed' \/ amount' = "default" \/ placed'[1].chips = amount'
  PROVE  History'
<1>1. CASE placed' = <<>>
  <2>1. Len(<<>>) = 0 /\ DOMAIN <<>> = {}
    OBVIOUS
  <2> QED
    BY <1>1, <2>1 DEF History, PlacedInv, ResultInv, BetsAsMeant, ActionRegistered,
                      ActsIfPossible
<1>2. CASE /\ Len(placed') = 1 /\ DOMAIN placed' = {1}
           /\ placed'[1].meant = amount'
           /\ unnoticed' \/ amount' = "default" \/ placed'[1].chips = amount'
  <2>1. PlacedInv' /\ ResultInv'
    BY <1>2 DEF PlacedInv, ResultInv, After
  <2>2. BetsAsMeant'
    BY <1>2 DEF BetsAsMeant
  <2>3. ActionRegistered' /\ ActsIfPossible'
    BY DEF ActionRegistered, ActsIfPossible
  <2> QED
    BY <2>1, <2>2, <2>3 DEF History
<1> QED
  BY <1>1, <1>2

LEMMA Split ==
  ASSUME AmountInv', BoxInv', History'
  PROVE  IInv'
BY DEF IInv, History

\* In all steps of a sequence but the last nothing has been received.
LEMMA Before ==
  ASSUME IInv, pc \notin After
  PROVE  placed = <<>>
BY DEF IInv, PlacedInv

LEMMA BeginOK ==
  ASSUME TypeOK, IInv, BeginSequence
  PROVE  TypeOK' /\ IInv'
<1>1. TypeOK'
  BY DEF TypeOK, BeginSequence, Steps, table, routine, casino
<1>2. AmountInv' /\ BoxInv'
  BY DEF BeginSequence, AmountInv, BoxInv, OfAllin, Entering
<1>3. History'
  <2>1. CASE placed = <<>>
    BY <2>1, NothingPlaced DEF BeginSequence, casino
  <2>2. CASE placed # <<>>
    BY <2>2 DEF BeginSequence, casino, IInv, History, PlacedInv, ResultInv, BetsAsMeant,
                ActionRegistered, ActsIfPossible, After
  <2> QED
    BY <2>1, <2>2
<1> QED
  BY <1>1, <1>2, <1>3, Split

LEMMA LoseFocusOK ==
  ASSUME TypeOK, IInv, LoseFocus
  PROVE  TypeOK' /\ IInv'
<1>1. TypeOK'
  BY DEF TypeOK, LoseFocus, Box, table, routine
<1>2. AmountInv' /\ BoxInv'
  BY DEF LoseFocus, IInv, AmountInv, BoxInv, routine
<1>3. History'
  BY DEF LoseFocus, table, IInv, History, PlacedInv, ResultInv, BetsAsMeant,
         ActionRegistered, ActsIfPossible, CanClick, Registered
<1> QED
  BY <1>1, <1>2, <1>3, Split

LEMMA GiveBackFocusOK ==
  ASSUME TypeOK, IInv, GiveBackFocus
  PROVE  TypeOK' /\ IInv'
<1>1. TypeOK'
  BY DEF TypeOK, GiveBackFocus, table, routine
<1>2. AmountInv' /\ BoxInv'
  BY DEF GiveBackFocus, IInv, AmountInv, BoxInv, routine
<1>3. History'
  BY DEF GiveBackFocus, table, IInv, History, PlacedInv, ResultInv, BetsAsMeant,
         ActionRegistered, ActsIfPossible, CanClick, Registered
<1> QED
  BY <1>1, <1>2, <1>3, Split

LEMMA ExecuteOK ==
  ASSUME TypeOK, IInv, ExecutePrimaryFormulas
  PROVE  TypeOK' /\ IInv'
<1>1. TypeOK'
  <2>1. 1 \in 1 .. (Len(BetPots) + 1)
    BY BetPotNames
  <2> QED
    BY <2>1 DEF TypeOK, ExecutePrimaryFormulas, Steps, table, casino
<1>2. AmountInv' /\ BoxInv'
  BY DEF ExecutePrimaryFormulas, AmountInv, BoxInv, OfAllin, Entering
<1>3. History'
  BY Before, NothingPlaced DEF ExecutePrimaryFormulas, casino, After
<1> QED
  BY <1>1, <1>2, <1>3, Split

LEMMA ClickAllinOK ==
  ASSUME TypeOK, IInv, ClickAllin
  PROVE  TypeOK' /\ IInv'
<1>0. /\ pc = "allin" /\ placed = <<>> /\ in_allin /\ amount' = "max"
      /\ UNCHANGED <<table, decided, routine, lost_focus, registered>>
      /\ unnoticed' = FALSE
  BY Before DEF ClickAllin, After, IInv, AmountInv, OfAllin
<1>1. CASE "allin" \in layout
  <2>0. "max" \in Box /\ Chips("allin") = "max" /\ Click("allin", "max", 1)
    BY <1>1, AmountNames DEF Chips, ClickAllin
  <2>1. /\ foreground' \in {"table", "other"} /\ box' \in Box
        /\ \/ placed' = <<>>
           \/ /\ placed' \in Seq(Bet) /\ Len(placed') = 1 /\ DOMAIN placed' = {1}
              /\ placed'[1].meant = "max"
              /\ unnoticed' \/ placed'[1].chips = "max"
        /\ FillsBox("allin") => /\ placed' = <<>>
                                /\ foreground' = "table" => box' = "max"
    BY <1>0, <2>0, ClickOK
  <2>2. CASE tablemap.allinconfirmation
    <3>1. pc' = "sequence" /\ UNCHANGED success
      BY <1>1, <2>2 DEF ClickAllin
    <3>2. placed' = <<>> /\ (foreground' = "table" => box' = "max")
      BY <2>1, <2>2 DEF FillsBox
    <3>3. TypeOK'
      BY <1>0, <2>1, <3>1, <3>2 DEF TypeOK, Steps, Amount, table, routine
    <3>4. AmountInv' /\ BoxInv'
      BY <1>0, <3>1, <3>2 DEF AmountInv, BoxInv, OfAllin, routine
    <3> QED
      BY <3>1, <3>2, <3>3, <3>4, NothingPlaced, Split
  <2>3. CASE ~tablemap.allinconfirmation
    <3>1. pc' = "return" /\ success' = TRUE
      BY <1>1, <2>3 DEF ClickAllin, Return
    <3>2. TypeOK'
      BY <1>0, <2>1, <3>1 DEF TypeOK, Steps, Amount, table, routine
    <3>3. AmountInv' /\ BoxInv'
      BY <1>0, <3>1 DEF AmountInv, BoxInv, OfAllin, routine
    <3> QED
      BY <1>0, <2>1, <3>1, <3>2, <3>3, SuccessHistory, Split
  <2> QED
    BY <2>2, <2>3
<1>2. CASE "allin" \notin layout
  <2>1. pc' = "slider" /\ UNCHANGED <<casino, success>>
    BY <1>2 DEF ClickAllin
  <2>2. TypeOK'
    BY <1>0, <2>1 DEF TypeOK, Steps, Amount, table, routine, casino
  <2>3. AmountInv' /\ BoxInv'
    BY <1>0, <2>1 DEF AmountInv, BoxInv, OfAllin, Entering, routine
  <2> QED
    BY <1>0, <2>1, <2>2, <2>3, NothingPlaced, Split DEF casino
<1> QED
  BY <1>1, <1>2

\* A step that changes neither the table nor the box, within a sequence.
LEMMA QuietHistory ==
  ASSUME TypeOK, IInv, pc \notin After, placed' = placed, pc' # "heartbeat"
  PROVE  History'
BY Before, NothingPlaced

LEMMA ClickSecondButtonOK ==
  ASSUME TypeOK, IInv, ClickSecondButton
  PROVE  TypeOK' /\ IInv'
<1>0. /\ pc = "sequence" /\ placed = <<>> /\ pc \notin After
      /\ UNCHANGED <<table, unnoticed, decided, routine, amount, lost_focus,
                     registered>>
  BY Before DEF ClickSecondButton, After
<1>1. CASE TableLostFocus \/ "raise" \notin layout
  <2>1. /\ pc' = IF in_allin THEN "slider" ELSE "select"
        /\ UNCHANGED <<casino, success>>
    BY <1>1 DEF ClickSecondButton
  <2>2. TypeOK'
    BY <1>0, <2>1 DEF TypeOK, Steps, table, routine, casino
  <2>3. AmountInv' /\ BoxInv'
    BY <1>0, <2>1 DEF IInv, AmountInv, BoxInv, OfAllin, Entering, routine
  <2> QED
    BY <1>0, <2>1, <2>2, <2>3, QuietHistory, Split DEF casino
<1>2. CASE ~(TableLostFocus \/ "raise" \notin layout)
  <2>1. Click("raise", amount, 1) /\ pc' = "return" /\ success' = TRUE
    BY <1>2 DEF ClickSecondButton, Return
  <2>2. amount \in Box /\ amount # "default" /\ (unnoticed' \/ amount = box)
    BY <1>0, <1>2, AmountNames DEF TypeOK, IInv, BoxInv, TableLostFocus
  <2>3. "raise" # "enter" /\ "raise" \in Button
    OBVIOUS
  <2>4. /\ foreground' \in {"table", "other"} /\ box' \in Box
        /\ \/ placed' = <<>>
           \/ /\ placed' \in Seq(Bet) /\ Len(placed') = 1 /\ DOMAIN placed' = {1}
              /\ placed'[1].meant = amount
              /\ unnoticed' \/ amount = "default" \/ placed'[1].chips = amount
    BY <1>0, <2>1, <2>2, <2>3, ClickOK
  <2>5. TypeOK'
    BY <1>0, <2>1, <2>4 DEF TypeOK, Steps, table, routine
  <2>6. AmountInv' /\ BoxInv'
    BY <1>0, <2>1 DEF IInv, AmountInv, BoxInv, OfAllin, Entering, routine
  <2> QED
    BY <1>0, <2>1, <2>2, <2>4, <2>5, <2>6, SuccessHistory, Split
<1> QED
  BY <1>1, <1>2

LEMMA DragSliderOK ==
  ASSUME TypeOK, IInv, DragSlider
  PROVE  TypeOK' /\ IInv'
<1>1. TypeOK'
  BY AmountNames DEF TypeOK, DragSlider, Steps, table, routine
<1>2. AmountInv' /\ BoxInv'
  BY DEF DragSlider, IInv, AmountInv, BoxInv, OfAllin, Entering, routine
<1>3. History'
  BY QuietHistory DEF DragSlider, After
<1> QED
  BY <1>1, <1>2, <1>3, Split

\* The input that confirms a bet, when the box has what is meant.
LEMMA ConfirmationOK ==
  ASSUME TypeOK, placed = <<>>, unnoticed' \/ box = amount, NEW b \in Button,
         b # "raise" => Chips(b) = amount,
         PressEnter \/ ClickConfirmation(b)
  PROVE  /\ foreground' \in {"table", "other"} /\ box' \in Box
         /\ \/ placed' = <<>>
            \/ /\ placed' \in Seq(Bet) /\ Len(placed') = 1 /\ DOMAIN placed' = {1}
               /\ placed'[1].meant = amount
               /\ unnoticed' \/ amount = "default" \/ placed'[1].chips = amount
<1>0. amount \in Box /\ box \in Box /\ foreground \in {"table", "other"}
  BY AmountNames DEF TypeOK
<1>1. CASE PressEnter
  <2>1. Place("enter", amount) /\ foreground' = "table"
    BY <1>1 DEF PressEnter
  <2>2. box' = box
    BY <2>1 DEF Place
  <2>3. /\ placed' \in Seq(Bet) /\ Len(placed') = 1 /\ DOMAIN placed' = {1}
        /\ placed'[1].meant = amount
        /\ unnoticed' \/ amount = "default" \/ placed'[1].chips = amount
    BY <1>0, <2>1, PlaceOK
  <2> QED
    BY <1>0, <2>1, <2>2, <2>3
<1>2. CASE b \notin layout /\ ClickConfirmation(b)
  BY <1>0, <1>2 DEF ClickConfirmation, casino
<1>3. CASE b \in layout /\ ClickConfirmation(b)
  <2> DEFINE n == IF tablemap.doubleclick THEN 2 ELSE 1
  <2>1. Click(b, amount, n)
    BY <1>3 DEF ClickConfirmation
  <2> HIDE DEF n
  <2> QED
    BY <1>0, <2>1, ClickOK
<1> QED
  BY <1>1, <1>2, <1>3

LEMMA ConfirmSliderOK ==
  ASSUME TypeOK, IInv, ConfirmSlider
  PROVE  TypeOK' /\ IInv'
<1>0. /\ pc = "jam" /\ placed = <<>> /\ pc \notin After /\ in_allin
      /\ amount = "max" /\ box = "max" /\ "max" # "default"
      /\ UNCHANGED <<table, unnoticed, decided, routine, amount, lost_focus,
                     registered>>
  BY Before DEF ConfirmSlider, After, IInv, AmountInv, BoxInv, OfAllin
<1>1. ASSUME NEW b \in {"allin", "raise"}, PressEnter \/ ClickConfirmation(b),
             pc' = "return", success' = TRUE
      PROVE  TypeOK' /\ IInv'
  <2>1. b \in Button /\ (b # "raise" => Chips(b) = amount)
    BY <1>0 DEF Chips
  <2>2. /\ foreground' \in {"table", "other"} /\ box' \in Box
        /\ \/ placed' = <<>>
           \/ /\ placed' \in Seq(Bet) /\ Len(placed') = 1 /\ DOMAIN placed' = {1}
              /\ placed'[1].meant = amount
              /\ unnoticed' \/ amount = "default" \/ placed'[1].chips = amount
    BY <1>0, <1>1, <2>1, ConfirmationOK
  <2>3. TypeOK'
    BY <1>0, <1>1, <2>2 DEF TypeOK, Steps, table, routine
  <2>4. AmountInv' /\ BoxInv'
    BY <1>0, <1>1 DEF IInv, AmountInv, BoxInv, OfAllin, Entering, routine
  <2> QED
    BY <1>0, <1>1, <2>2, <2>3, <2>4, SuccessHistory, Split
<1>2. CASE pc' = "select" /\ UNCHANGED <<casino, success>>
  <2>1. TypeOK'
    BY <1>0, <1>2 DEF TypeOK, Steps, table, routine, casino
  <2>2. AmountInv' /\ BoxInv'
    BY <1>0, <1>2 DEF IInv, AmountInv, BoxInv, OfAllin, Entering, routine
  <2> QED
    BY <1>0, <1>2, <2>1, <2>2, QuietHistory, Split DEF casino
<1>3. CASE PressEnter /\ Return(TRUE)
  BY <1>1, <1>3 DEF Return
<1>4. CASE ClickConfirmation(IF "allin" \in layout THEN "allin" ELSE "raise")
  <2>1. pc' = "return" /\ success' = TRUE
    BY <1>4 DEF ClickConfirmation, Return
  <2>2. CASE "allin" \in layout
    BY <1>1, <1>4, <2>1, <2>2
  <2>3. CASE "allin" \notin layout
    BY <1>1, <1>4, <2>1, <2>3
  <2> QED
    BY <2>2, <2>3
<1> QED
  BY <1>2, <1>3, <1>4 DEF ConfirmSlider

LEMMA SkipBetPotOK ==
  ASSUME TypeOK, IInv, SkipBetPot
  PROVE  TypeOK' /\ IInv'
<1>1. TypeOK'
  <2>1. betpot + 1 \in 1 .. (Len(BetPots) + 1)
    BY BetPotNames DEF TypeOK, SkipBetPot
  <2> QED
    BY <2>1 DEF TypeOK, SkipBetPot, table, casino
<1>2. AmountInv' /\ BoxInv'
  BY DEF SkipBetPot, IInv, AmountInv, BoxInv, OfAllin, Entering
<1>3. History'
  BY QuietHistory DEF SkipBetPot, casino, After
<1> QED
  BY <1>1, <1>2, <1>3, Split

LEMMA ClickBetPotOK ==
  ASSUME TypeOK, IInv, ClickBetPot
  PROVE  TypeOK' /\ IInv'
<1>0. /\ pc = "betpot" /\ placed = <<>> /\ pc \notin After /\ ~in_allin
      /\ betpot <= Len(BetPots) /\ amount' = BetPots[betpot]
      /\ UNCHANGED <<table, decided, attempt, betpot, lost_focus, registered>>
      /\ unnoticed' = FALSE
  BY Before DEF ClickBetPot, After, IInv, AmountInv, OfAllin
<1>a. amount' \in BetPot
  BY <1>0, BetPotNames DEF TypeOK
<1>b. /\ amount' \in Amount /\ amount' \in Box /\ amount' # "default"
      /\ amount' # "raise" /\ amount' \in Button /\ amount' # "allin"
  BY <1>a, BetPotNames DEF Amount, Box
<1>1. CASE /\ in_allin' = TRUE /\ pc' = "allin"
           /\ UNCHANGED <<casino, success>>
  <2>1. TypeOK'
    BY <1>0, <1>1, <1>b DEF TypeOK, Steps, table, casino
  <2>2. AmountInv' /\ BoxInv'
    BY <1>0, <1>1 DEF AmountInv, BoxInv, OfAllin, Entering
  <2> QED
    BY <1>0, <1>1, <2>1, <2>2, QuietHistory, Split DEF casino
<1>2. CASE /\ Click(BetPots[betpot], BetPots[betpot], 1)
           /\ IF tablemap.betpot_raise THEN pc' = "sequence" /\ UNCHANGED success
                                       ELSE Return(TRUE)
           /\ UNCHANGED in_allin
  <2> DEFINE b == BetPots[betpot]
  <2>1. Chips(b) = b /\ b = amount' /\ b \in BetPot
    BY <1>0, <1>a, <1>b DEF Chips
  <2>2. Click(b, b, 1) /\ b \in Button /\ b \in Box /\ b # "raise"
    BY <1>2, <1>b, <2>1
  <2> HIDE DEF b
  <2>3. /\ foreground' \in {"table", "other"} /\ box' \in Box
        /\ \/ placed' = <<>>
           \/ /\ placed' \in Seq(Bet) /\ Len(placed') = 1 /\ DOMAIN placed' = {1}
              /\ placed'[1].meant = b
              /\ unnoticed' \/ b = "default" \/ placed'[1].chips = b
        /\ FillsBox(b) => /\ placed' = <<>>
                          /\ foreground' = "table" => box' = Chips(b)
    BY <1>0, <2>1, <2>2, ClickOK
  <2>4. CASE tablemap.betpot_raise
    <3>1. pc' = "sequence" /\ UNCHANGED <<success, in_allin>>
      BY <1>2, <2>4
    <3>2. placed' = <<>> /\ (foreground' = "table" => box' = amount')
      BY <2>1, <2>3, <2>4 DEF FillsBox
    <3>3. TypeOK'
      BY <1>0, <1>b, <2>3, <3>1, <3>2 DEF TypeOK, Steps, table
    <3>4. AmountInv'
      BY <1>0, <1>a, <3>1 DEF AmountInv, OfAllin, Entering, table
    <3>5. BoxInv'
      BY <3>1, <3>2 DEF BoxInv
    <3> QED
      BY <1>0, <3>1, <3>2, <3>3, <3>4, <3>5, QuietHistory, Split
  <2>5. CASE ~tablemap.betpot_raise
    <3>1. pc' = "return" /\ success' = TRUE /\ UNCHANGED in_allin
      BY <1>2, <2>5 DEF Return
    <3>3. TypeOK'
      BY <1>0, <1>b, <2>3, <3>1 DEF TypeOK, Steps, table
    <3>4. AmountInv' /\ BoxInv'
      BY <1>0, <1>a, <3>1 DEF AmountInv, BoxInv, OfAllin, Entering, table
    <3> QED
      BY <1>0, <1>b, <2>1, <2>3, <3>1, <3>3, <3>4, SuccessHistory, Split
  <2> QED
    BY <2>4, <2>5
<1>3. CASE /\ pc' = "select"
           /\ UNCHANGED <<casino, success, in_allin>>
  <2>1. TypeOK'
    BY <1>0, <1>3, <1>b DEF TypeOK, Steps, table, casino
  <2>2. AmountInv' /\ BoxInv'
    BY <1>0, <1>3, <1>a DEF AmountInv, BoxInv, OfAllin, Entering
  <2> QED
    BY <1>0, <1>3, <2>1, <2>2, QuietHistory, Split DEF casino
<1> QED
  BY <1>1, <1>2, <1>3 DEF ClickBetPot

LEMMA FinishBetPotsOK ==
  ASSUME TypeOK, IInv, FinishBetPots
  PROVE  TypeOK' /\ IInv'
<1>1. TypeOK'
  BY DEF TypeOK, FinishBetPots, Steps, table, casino
<1>2. AmountInv' /\ BoxInv'
  BY DEF FinishBetPots, IInv, AmountInv, BoxInv, OfAllin, Entering
<1>3. History'
  BY QuietHistory DEF FinishBetPots, casino, After
<1> QED
  BY <1>1, <1>2, <1>3, Split

LEMMA DoSwagOK ==
  ASSUME TypeOK, IInv, DoSwag
  PROVE  TypeOK' /\ IInv'
<1>0. /\ pc = "swag" /\ attempt = "swag" /\ ~in_allin /\ amount' = "betsize"
      /\ pc \notin After /\ placed' = placed
      /\ UNCHANGED <<table, unnoticed, decided, attempt, betpot, lost_focus, success,
                     casino, registered>>
  BY DEF DoSwag, IInv, AmountInv, After, casino
<1>1. \/ pc' = "fckra" /\ in_allin' = in_allin
      \/ pc' = "allin" /\ in_allin' = TRUE
      \/ pc' = "select" /\ in_allin' = in_allin
  BY DEF DoSwag
<1>2. TypeOK'
  BY <1>0, <1>1 DEF TypeOK, Steps, Amount, table, casino
<1>3. AmountInv' /\ BoxInv'
  BY <1>0, <1>1 DEF AmountInv, BoxInv, OfAllin, Entering
<1> QED
  BY <1>0, <1>1, <1>2, <1>3, QuietHistory, Split

LEMMA SelectOK ==
  ASSUME TypeOK, IInv, SelectSwagText
  PROVE  TypeOK' /\ IInv'
<1>1. TypeOK'
  BY DEF TypeOK, SelectSwagText, Return, Steps, Box, table, routine
<1>2. AmountInv'
  BY DEF SelectSwagText, Return, IInv, AmountInv, OfAllin, Entering, routine
<1>4. BoxInv'
  <2>1. CASE pc' = "delete" /\ tablemap.swag # "nothing"
    <3>1. foreground' = "table" => box' = "selected"
      BY <2>1 DEF SelectSwagText, Return
    <3> QED
      BY <2>1, <3>1 DEF BoxInv
  <2>2. CASE pc' = "delete" /\ tablemap.swag = "nothing"
    BY <2>2 DEF SelectSwagText, BoxInv, table
  <2>3. CASE pc' = "return"
    BY <2>3 DEF BoxInv
  <2> QED
    BY <2>1, <2>2, <2>3 DEF SelectSwagText, Return
<1>3. History'
  BY QuietHistory DEF SelectSwagText, Return, After
<1> QED
  BY <1>1, <1>2, <1>3, <1>4, Split

LEMMA DeleteOK ==
  ASSUME TypeOK, IInv, DeleteSwagText
  PROVE  TypeOK' /\ IInv'
<1>1. TypeOK'
  BY DEF TypeOK, DeleteSwagText, TableLostFocus, Steps, Box, table, routine
<1>2. AmountInv'
  BY DEF DeleteSwagText, IInv, AmountInv, OfAllin, Entering, routine
<1>3. BoxInv'
  BY DEF DeleteSwagText, TableLostFocus, IInv, BoxInv, table
<1>4. History'
  BY QuietHistory DEF DeleteSwagText, After
<1> QED
  BY <1>1, <1>2, <1>3, <1>4, Split

LEMMA EnterAmountOK ==
  ASSUME TypeOK, IInv, EnterAmount
  PROVE  TypeOK' /\ IInv'
<1>1. TypeOK'
  <2>1. box' \in Box
    BY AmountNames DEF TypeOK, EnterAmount, Box
  <2>2. foreground' \in {"table", "other"} /\ lost_focus' \in BOOLEAN
    BY DEF TypeOK, EnterAmount, TableLostFocus
  <2> QED
    BY <2>1, <2>2 DEF TypeOK, EnterAmount, Steps, table, routine
<1>2. AmountInv'
  BY DEF EnterAmount, IInv, AmountInv, OfAllin, Entering, routine
<1>3. BoxInv'
  <2>1. Undisturbed' /\ ~lost_focus' => box' = amount'
    <3>1. SUFFICES ASSUME foreground' = "table", ~unnoticed', ~lost_focus'
                   PROVE  box' = amount'
      OBVIOUS
    <3>2. ~lost_focus /\ foreground = "table" /\ ~unnoticed
      BY <3>1 DEF EnterAmount, TableLostFocus
    <3>3. tablemap.swag = "nothing" \/ box = "empty"
      BY <3>2 DEF EnterAmount, IInv, BoxInv
    <3> QED
      BY <3>1, <3>3 DEF EnterAmount
  <2> QED
    BY <2>1 DEF EnterAmount, BoxInv
<1>4. History'
  BY QuietHistory DEF EnterAmount, After
<1> QED
  BY <1>1, <1>2, <1>3, <1>4, Split

LEMMA ConfirmOK ==
  ASSUME TypeOK, IInv, Confirm
  PROVE  TypeOK' /\ IInv'
<1>0. /\ pc = "confirm" /\ placed = <<>> /\ pc \notin After
      /\ UNCHANGED <<table, unnoticed, decided, routine, amount, lost_focus,
                     registered>>
      /\ amount' = amount /\ amount # "default"
  BY Before, AmountNames DEF Confirm, After, TypeOK
<1>1. CASE pc' = "return" /\ success' \in BOOLEAN /\ UNCHANGED casino
  <2>1. TypeOK'
    BY <1>0, <1>1 DEF TypeOK, Steps, table, routine, casino
  <2>2. AmountInv' /\ BoxInv'
    BY <1>0, <1>1 DEF IInv, AmountInv, BoxInv, OfAllin, Entering, routine
  <2> QED
    BY <1>0, <1>1, <2>1, <2>2, QuietHistory, Split DEF casino
<1>2. CASE /\ ~(lost_focus \/ TableLostFocus) /\ pc' = "return" /\ success' = TRUE
           /\ PressEnter \/ ClickConfirmation("raise")
  <2>1. (unnoticed' \/ box = amount) /\ "raise" \in Button
    BY <1>0, <1>2 DEF IInv, BoxInv, TableLostFocus, TypeOK
  <2>2. /\ foreground' \in {"table", "other"} /\ box' \in Box
        /\ \/ placed' = <<>>
           \/ /\ placed' \in Seq(Bet) /\ Len(placed') = 1 /\ DOMAIN placed' = {1}
              /\ placed'[1].meant = amount
              /\ unnoticed' \/ amount = "default" \/ placed'[1].chips = amount
    BY <1>0, <1>2, <2>1, ConfirmationOK
  <2>3. TypeOK'
    BY <1>0, <1>2, <2>2 DEF TypeOK, Steps, table, routine
  <2>4. AmountInv' /\ BoxInv'
    BY <1>0, <1>2 DEF IInv, AmountInv, BoxInv, OfAllin, Entering, routine
  <2> QED
    BY <1>0, <1>2, <2>2, <2>3, <2>4, SuccessHistory, Split
<1> QED
  BY <1>1, <1>2 DEF Confirm, Return, ClickConfirmation

\* The action that has been received is registered as what it was.
LEMMA RegisterOK ==
  ASSUME TypeOK, IInv, RegisterAttempt
  PROVE  TypeOK' /\ IInv'
<1>0. /\ pc = "return" /\ pc' = "heartbeat"
      /\ UNCHANGED <<table, unnoticed, decided, routine, amount, lost_focus, success,
                     casino>>
      /\ registered' = IF in_allin THEN "allin" ELSE "betsize"
  BY DEF RegisterAttempt
<1>1. TypeOK'
  BY <1>0 DEF TypeOK, Steps, table, routine, casino
<1>2. AmountInv' /\ BoxInv'
  BY <1>0 DEF AmountInv, BoxInv, OfAllin, Entering
<1>3. PlacedInv' /\ ResultInv' /\ BetsAsMeant'
  BY <1>0 DEF casino, IInv, PlacedInv, ResultInv, BetsAsMeant, After
<1>4. ActionRegistered'
  <2>1. CASE placed = <<>>
    BY <1>0, <2>1 DEF ActionRegistered, casino
  <2>2. CASE placed # <<>>
    <3>1. placed'[1].meant = amount
      BY <1>0, <2>2 DEF IInv, ResultInv, casino
    <3>2. amount \in IF in_allin THEN {"max"} ELSE BetPot \cup {"betsize"}
      BY <1>0 DEF IInv, AmountInv, Entering
    <3>3. CASE in_allin
      BY <1>0, <3>1, <3>2, <3>3 DEF ActionRegistered
    <3>4. CASE ~in_allin
      <4>1. amount \in BetPot \cup {"betsize"} /\ amount # "max"
        BY <3>2, <3>4, BetPotNames
      <4> QED
        BY <1>0, <3>1, <3>4, <4>1 DEF ActionRegistered
    <3> QED
      BY <3>3, <3>4
  <2> QED
    BY <2>1, <2>2
<1>5. ActsIfPossible'
  BY <1>0 DEF ActsIfPossible
<1> QED
  BY <1>1, <1>2, <1>3, <1>4, <1>5, Split DEF History

LEMMA NextAttemptOK ==
  ASSUME TypeOK, IInv, NextAttempt
  PROVE  TypeOK' /\ IInv'
<1>0. /\ pc = "return" /\ in_allin' = FALSE /\ placed = <<>> /\ placed' = <<>>
      /\ UNCHANGED <<table, unnoticed, decided, amount, lost_focus, success, casino,
                     registered>>
  BY DEF NextAttempt, IInv, PlacedInv, casino
<1>1. /\ pc' \in {"betpot", "swag", "fckra"} /\ attempt' \in {"betpot", "swag"}
      /\ pc' = "swag" => attempt' = "swag"
  BY DEF NextAttempt
<1>2. betpot' \in 1 .. (Len(BetPots) + 1)
  <2>1. CASE betpot' = betpot
    BY <2>1 DEF TypeOK
  <2>2. CASE attempt = "betpot" /\ ~in_allin /\ betpot' = betpot + 1
    <3>1. betpot <= Len(BetPots)
      BY <1>0, <2>2 DEF IInv, AmountInv, Entering
    <3> QED
      BY <2>2, <3>1, BetPotNames DEF TypeOK
  <2> QED
    BY <2>1, <2>2 DEF NextAttempt
<1>3. TypeOK'
  BY <1>0, <1>1, <1>2 DEF TypeOK, Steps, table, casino
<1>4. AmountInv' /\ BoxInv'
  BY <1>0, <1>1 DEF AmountInv, BoxInv, OfAllin, Entering
<1>5. History'
  BY <1>0, <1>1, NothingPlaced
<1> QED
  BY <1>3, <1>4, <1>5, Split

LEMMA ExecuteRaiseCallCheckFoldOK ==
  ASSUME TypeOK, IInv, ExecuteRaiseCallCheckFold
  PROVE  TypeOK' /\ IInv'
<1>0. /\ pc = "fckra" /\ pc' = "heartbeat" /\ placed = <<>>
      /\ UNCHANGED <<table, unnoticed, decided, routine, amount, lost_focus, success>>
  BY Before DEF ExecuteRaiseCallCheckFold, After
<1>1. AmountInv' /\ BoxInv'
  BY <1>0 DEF AmountInv, BoxInv, OfAllin, Entering
<1>2. CASE /\ \A n \in DOMAIN FCKR : ~CanClick(FCKR[n])
           /\ UNCHANGED <<casino, registered>>
  <2>1. TypeOK'
    BY <1>0, <1>2 DEF TypeOK, Steps, table, routine, casino
  <2>2. \A b \in {"raise", "call", "check", "fold"} : ~CanClick(b)
    BY <1>2 DEF FCKR
  <2>3. \A b \in {"raise", "call", "check", "fold"} : CanClick(b)' <=> CanClick(b)
    BY <1>0 DEF CanClick, table
  <2>4. ActsIfPossible'
    BY <2>2, <2>3 DEF ActsIfPossible
  <2>5. placed' = <<>> /\ Len(<<>>) = 0 /\ DOMAIN <<>> = {}
    BY <1>0, <1>2 DEF casino
  <2>6. PlacedInv' /\ ResultInv' /\ BetsAsMeant' /\ ActionRegistered'
    BY <1>0, <2>5 DEF PlacedInv, ResultInv, BetsAsMeant, ActionRegistered, After
  <2> QED
    BY <1>1, <2>1, <2>4, <2>6, Split DEF History
<1>3. ASSUME NEW b \in {"raise", "call", "check", "fold"},
             Click(b, IF b = "raise" THEN "default" ELSE "none", 1),
             registered' = Registered(b)
      PROVE  TypeOK' /\ IInv'
  <2> DEFINE meant == IF b = "raise" THEN "default" ELSE "none"
  <2>1. /\ meant \in Box /\ b \in Button /\ b \notin BetPot
        /\ meant \notin BetPot /\ meant # "max" /\ meant # "betsize"
        /\ b = "raise" => meant \in {"default", box}
    BY BetPotNames DEF Box, Amount
  <2>2. b # "raise" => Chips(b) = meant
    BY <2>1 DEF Chips
  <2>3. Click(b, meant, 1)
    BY <1>3
  <2> HIDE DEF meant
  <2>4. /\ foreground' \in {"table", "other"} /\ box' \in Box
        /\ \/ placed' = <<>>
           \/ /\ placed' \in Seq(Bet) /\ Len(placed') = 1 /\ DOMAIN placed' = {1}
              /\ placed'[1].meant = meant /\ placed'[1].button = b
              /\ unnoticed' \/ meant = "default" \/ placed'[1].chips = meant
    BY <1>0, <2>1, <2>2, <2>3, ClickOK
  <2>5. Registered(b) \in {"raise", "call", "check", "fold"} /\ to_call' = to_call
    BY <1>0 DEF Registered, table
  <2>6. TypeOK'
    BY <1>0, <1>3, <2>4, <2>5 DEF TypeOK, Steps, table, routine
  <2>7. ActsIfPossible'
    BY <1>3, <2>5 DEF ActsIfPossible
  <2>8. CASE placed' = <<>>
    <3>1. Len(<<>>) = 0 /\ DOMAIN <<>> = {}
      OBVIOUS
    <3>2. PlacedInv' /\ ResultInv' /\ BetsAsMeant' /\ ActionRegistered'
      BY <1>0, <2>8, <3>1 DEF PlacedInv, ResultInv, BetsAsMeant, ActionRegistered,
                              After
    <3> QED
      BY <1>1, <2>6, <2>7, <3>2, Split DEF History
  <2>9. CASE /\ Len(placed') = 1 /\ DOMAIN placed' = {1}
             /\ placed'[1].meant = meant /\ placed'[1].button = b
             /\ unnoticed' \/ meant = "default" \/ placed'[1].chips = meant
    <3>1. PlacedInv' /\ ResultInv' /\ BetsAsMeant'
      BY <1>0, <2>9 DEF PlacedInv, ResultInv, BetsAsMeant, After
    <3>2. Registered(b)' = Registered(b)
      BY <2>5 DEF Registered
    <3>3. ActionRegistered'
      BY <1>3, <2>1, <2>9, <3>2 DEF ActionRegistered, Registered
    <3> QED
      BY <1>1, <2>6, <2>7, <3>1, <3>3, Split DEF History
  <2> QED
    BY <2>4, <2>8, <2>9
<1>4. CASE \E n \in DOMAIN FCKR :
             /\ Click(FCKR[n], IF FCKR[n] = "raise" THEN "default" ELSE "none", 1)
             /\ registered' = Registered(FCKR[n])
  <2>1. PICK n \in DOMAIN FCKR :
             /\ Click(FCKR[n], IF FCKR[n] = "raise" THEN "default" ELSE "none", 1)
             /\ registered' = Registered(FCKR[n])
    BY <1>4
  <2>2. FCKR[n] \in {"raise", "call", "check", "fold"}
    BY DEF FCKR
  <2> QED
    BY <1>3, <2>1, <2>2
<1> QED
  BY <1>2, <1>4 DEF ExecuteRaiseCallCheckFold

LEMMA InitOK ==
  ASSUME Init
  PROVE  TypeOK /\ IInv
<1>1. TypeOK
  <2>1. 1 \in 1 .. (Len(BetPots) + 1) /\ <<>> \in Seq(Bet)
    BY BetPotNames
  <2>2. tablemap \in Tablemap /\ layout \in SUBSET (Button \cup Region)
    BY DEF Init, ConstantsAssumption
  <2>3. to_allin \in SUBSET Amount
    BY DEF Init, Amount
  <2> QED
    BY <2>1, <2>2, <2>3 DEF Init, TypeOK, Steps, Amount, Box
<1>2. Len(<<>>) = 0 /\ DOMAIN <<>> = {}
  OBVIOUS
<1>3. PlacedInv /\ AmountInv /\ BoxInv /\ ResultInv /\ BetsAsMeant
  BY <1>2 DEF Init, PlacedInv, AmountInv, BoxInv, ResultInv, BetsAsMeant, OfAllin,
              Entering, After
<1>4. ActionRegistered /\ ActsIfPossible
  BY DEF Init, ActionRegistered, ActsIfPossible, CanClick
<1> QED
  BY <1>1, <1>3, <1>4 DEF IInv

LEMMA StepOK ==
  ASSUME TypeOK, IInv, [Next]_vars
  PROVE  TypeOK' /\ IInv'
<1>1. CASE UNCHANGED vars
  <2>1. UNCHANGED <<tablemap, layout, to_call, to_allin, decided, pc, attempt, in_allin,
                    betpot, amount, lost_focus, success, foreground, box, placed,
                    registered, unnoticed>>
    BY <1>1 DEF vars, table, casino, routine
  <2>2. TypeOK'
    BY <2>1 DEF TypeOK
  <2>3. AmountInv' /\ BoxInv'
    BY <2>1 DEF IInv, AmountInv, BoxInv
  <2>4. History'
    BY <2>1 DEF IInv, History, PlacedInv, ResultInv, BetsAsMeant, ActionRegistered,
                ActsIfPossible, CanClick, Registered
  <2> QED
    BY <2>2, <2>3, <2>4, Split
<1>2. CASE BeginSequence
  BY <1>2, BeginOK
<1>3. CASE LoseFocus \/ GiveBackFocus
  BY <1>3, LoseFocusOK, GiveBackFocusOK
<1>4. CASE Sequence
  BY <1>4, ExecuteOK, ClickAllinOK, ClickSecondButtonOK, DragSliderOK, ConfirmSliderOK,
     SkipBetPotOK, ClickBetPotOK, FinishBetPotsOK, DoSwagOK, SelectOK, DeleteOK,
     EnterAmountOK, ConfirmOK, RegisterOK, NextAttemptOK, ExecuteRaiseCallCheckFoldOK
     DEF Sequence
<1> QED
  BY <1>1, <1>2, <1>3, <1>4 DEF Next

THEOREM Invariance == Spec => [](TypeOK /\ IInv)
<1>1. Init => TypeOK /\ IInv
  BY InitOK
<1>2. TypeOK /\ IInv /\ [Next]_vars => (TypeOK /\ IInv)'
  BY StepOK
<1> QED
  BY <1>1, <1>2, PTL DEF Spec

\* The variables have their types; in particular DoBetPot's loop never looks past
\* the last of its functions (CAutoplayer.cpp:137).
THEOREM TypeCorrect == Spec => []TypeOK
BY Invariance, PTL

\* Whatever buttons, decisions and table maps there are, and whenever other
\* windows take the focus: at most one action per turn (CAutoplayer.cpp:161).
THEOREM OneAction == Spec => []AtMostOneAction
<1>1. IInv => AtMostOneAction
  BY DEF IInv, PlacedInv, AtMostOneAction
<1> QED
  BY <1>1, Invariance, PTL

\* No bet is confirmed with another amount than the one that was meant, unless a
\* window has come and gone since that amount was taken up, and nobody was there to
\* see it: the looks at the foreground miss nothing else (CCasinoInterface.cpp:302).
THEOREM NoWrongBet == Spec => []BetsAsMeant
<1>1. IInv => BetsAsMeant
  BY DEF IInv
<1> QED
  BY <1>1, Invariance, PTL

\* What the table has received is registered as what it was
\* (CSymbolEngineHistory.cpp:122).
THEOREM HistoryIsTrue == Spec => []ActionRegistered
<1>1. IInv => ActionRegistered
  BY DEF IInv
<1> QED
  BY <1>1, Invariance, PTL

\* After a failure to bet, raise, call, check and fold are still tried
\* (CAutoplayer.cpp:231).
THEOREM NeverIdle == Spec => []ActsIfPossible
<1>1. IInv => ActsIfPossible
  BY DEF IInv
<1> QED
  BY <1>1, Invariance, PTL

-----------------------------------------------------------------------------
(* Why the sequence ends                                                   *)

\* The loop of DoBetPot runs in an attempt of its own.
LoopInv == pc = "betpot" => attempt = "betpot"

LEMMA LoopOK ==
  ASSUME LoopInv, [Next]_vars
  PROVE  LoopInv'
<1> USE DEF Return, routine, LoopInv
<1>1. CASE BeginSequence \/ LoseFocus \/ GiveBackFocus \/ UNCHANGED vars
  BY <1>1 DEF BeginSequence, LoseFocus, GiveBackFocus, vars
<1>2. CASE ExecutePrimaryFormulas \/ ClickAllin \/ ClickSecondButton
  BY <1>2 DEF ExecutePrimaryFormulas, ClickAllin, ClickSecondButton
<1>3. CASE DragSlider \/ ConfirmSlider
  BY <1>3 DEF DragSlider, ConfirmSlider, ClickConfirmation
<1>4. CASE SkipBetPot \/ ClickBetPot \/ FinishBetPots \/ DoSwag
  BY <1>4 DEF SkipBetPot, ClickBetPot, FinishBetPots, DoSwag
<1>5. CASE SelectSwagText \/ DeleteSwagText \/ EnterAmount \/ Confirm
  BY <1>5 DEF SelectSwagText, DeleteSwagText, EnterAmount, Confirm, ClickConfirmation
<1>6. CASE RegisterAttempt \/ NextAttempt \/ ExecuteRaiseCallCheckFold
  BY <1>6 DEF RegisterAttempt, NextAttempt, ExecuteRaiseCallCheckFold
<1> QED
  BY <1>1, <1>2, <1>3, <1>4, <1>5, <1>6 DEF Next, Sequence

\* What is left of the attempts, and of one of them.
LEMMA Attempts ==
  ASSUME NEW step \in Steps, NEW kind \in {"allin", "betpot", "swag"},
         NEW next \in 1 .. (Len(BetPots) + 1)
  PROVE  AttemptsLeft(step, kind, next) \in Nat
<1>1. Len(BetPots) \in Nat
  BY BetPotNames
<1>2. Len(BetPots) + 3 - next \in Nat
  BY <1>1
<1> QED
  BY <1>1, <1>2 DEF AttemptsLeft

LEMMA StepsOfAttempt ==
  /\ \A step \in Steps : StepsLeft(step) \in 0 .. 10
  /\ StepsLeft("betpot") = 10 /\ StepsLeft("swag") = 10 /\ StepsLeft("allin") = 9
  /\ StepsLeft("sequence") = 8 /\ StepsLeft("slider") = 7 /\ StepsLeft("jam") = 6
  /\ StepsLeft("select") = 5 /\ StepsLeft("delete") = 4 /\ StepsLeft("type") = 3
  /\ StepsLeft("confirm") = 2 /\ StepsLeft("return") = 1 /\ StepsLeft("fckra") = 1
  /\ StepsLeft("heartbeat") = 0
<1>1. \A step \in Steps : StepsLeft(step) \in 0 .. 10
  BY DEF Steps, StepsLeft
<1> QED
  BY <1>1 DEF StepsLeft

LEMMA RankBelow ==
  ASSUME NEW a \in Nat, NEW b \in Nat, NEW i \in 0 .. 10, NEW j \in 0 .. 10,
         b < a \/ (b = a /\ j < i)
  PROVE  11 * b + j \in 0 .. (11 * a + i) - 1
OBVIOUS

\* A later step of the same attempt, a later attempt, or none.
Later(step, kind, i, step2, kind2, j) ==
  \/ step2 \in {"heartbeat", "fckra"} /\ (step = "fckra" => step2 = "heartbeat")
  \/ step = "execute" /\ step2 \in {"allin", "betpot"}
  \/ /\ step \notin {"execute", "fckra"} /\ step2 \notin {"execute", "over"}
     /\ \/ kind2 = kind /\ j = i /\ StepsLeft(step2) < StepsLeft(step)
        \/ kind = "betpot" /\ kind2 = "betpot" /\ j = i + 1
        \/ kind = "allin" /\ kind2 = "betpot"
        \/ kind = "betpot" /\ kind2 = "swag"

LEMMA LaterIsLess ==
  ASSUME NEW step \in Steps \ {"heartbeat", "over"}, NEW step2 \in Steps,
         NEW kind \in {"allin", "betpot", "swag"},
         NEW kind2 \in {"allin", "betpot", "swag"},
         NEW i \in 1 .. (Len(BetPots) + 1), NEW j \in 1 .. (Len(BetPots) + 1),
         Later(step, kind, i, step2, kind2, j)
  PROVE  \/ AttemptsLeft(step2, kind2, j) < AttemptsLeft(step, kind, i)
         \/ /\ AttemptsLeft(step2, kind2, j) = AttemptsLeft(step, kind, i)
            /\ StepsLeft(step2) < StepsLeft(step)
<1>1. PICK N \in Nat : N = Len(BetPots)
  BY BetPotNames
<1>2. PICK A \in Nat : A = AttemptsLeft(step, kind, i)
  BY Attempts
<1>3. PICK B \in Nat : B = AttemptsLeft(step2, kind2, j)
  BY Attempts
<1>4. i \in 1 .. (N + 1) /\ j \in 1 .. (N + 1)
  BY <1>1
<1>5. /\ step = "fckra" => A = 0
      /\ step = "execute" => A = N + 4
      /\ step \notin {"fckra", "execute"} =>
           /\ kind = "allin" => A = N + 3
           /\ kind = "betpot" => A = N + 3 - i
           /\ kind = "swag" => A = 1
  <2>1. LET left == AttemptsLeft(step, kind, i)
        IN  /\ step = "fckra" => left = 0
            /\ step = "execute" => left = Len(BetPots) + 4
            /\ step \notin {"heartbeat", "over", "fckra", "execute"} =>
                 /\ kind = "allin" => left = Len(BetPots) + 3
                 /\ kind = "betpot" => left = Len(BetPots) + 3 - i
                 /\ kind = "swag" => left = 1
    BY DEF AttemptsLeft
  <2> QED
    BY <1>1, <1>2, <2>1
<1>6. /\ step2 \in {"heartbeat", "over", "fckra"} => B = 0
      /\ step2 \notin {"heartbeat", "over", "fckra", "execute"} =>
           /\ kind2 = "allin" => B = N + 3
           /\ kind2 = "betpot" => B = N + 3 - j
           /\ kind2 = "swag" => B = 1
  <2>1. LET left == AttemptsLeft(step2, kind2, j)
        IN  /\ step2 \in {"heartbeat", "over", "fckra"} => left = 0
            /\ step2 \notin {"heartbeat", "over", "fckra", "execute"} =>
                 /\ kind2 = "allin" => left = Len(BetPots) + 3
                 /\ kind2 = "betpot" => left = Len(BetPots) + 3 - j
                 /\ kind2 = "swag" => left = 1
    BY DEF AttemptsLeft
  <2> QED
    BY <1>1, <1>3, <2>1
<1>7. ASSUME step2 \in {"heartbeat", "fckra"}, step = "fckra" => step2 = "heartbeat"
      PROVE  B < A \/ (B = A /\ StepsLeft(step2) < StepsLeft(step))
  <2>1. CASE step = "fckra"
    BY <1>5, <1>6, <1>7, <2>1, StepsOfAttempt
  <2>2. CASE step # "fckra"
    <3>1. A >= 1
      <4>1. CASE step = "execute"
        BY <1>5, <4>1
      <4>2. CASE step # "execute"
        <5>1. A = N + 3 \/ A = N + 3 - i \/ A = 1
          BY <1>5, <2>2, <4>2
        <5> QED
          BY <1>4, <5>1
      <4> QED
        BY <4>1, <4>2
    <3>2. B = 0
      BY <1>6, <1>7
    <3> QED
      BY <3>1, <3>2
  <2> QED
    BY <2>1, <2>2
<1>8. ASSUME step = "execute", step2 \in {"allin", "betpot"}
      PROVE  B < A
  BY <1>4, <1>5, <1>6, <1>8
<1>9. ASSUME step \notin {"execute", "fckra"},
             step2 \notin {"heartbeat", "over", "fckra", "execute"},
             \/ kind2 = kind /\ j = i /\ StepsLeft(step2) < StepsLeft(step)
             \/ kind = "betpot" /\ kind2 = "betpot" /\ j = i + 1
             \/ kind = "allin" /\ kind2 = "betpot"
             \/ kind = "betpot" /\ kind2 = "swag"
      PROVE  B < A \/ (B = A /\ StepsLeft(step2) < StepsLeft(step))
  <2>1. CASE kind2 = kind /\ j = i /\ StepsLeft(step2) < StepsLeft(step)
    BY <1>5, <1>6, <1>9, <2>1
  <2>2. CASE kind = "betpot" /\ kind2 = "betpot" /\ j = i + 1
    BY <1>4, <1>5, <1>6, <1>9, <2>2
  <2>3. CASE kind = "allin" /\ kind2 = "betpot"
    BY <1>4, <1>5, <1>6, <1>9, <2>3
  <2>4. CASE kind = "betpot" /\ kind2 = "swag"
    BY <1>4, <1>5, <1>6, <1>9, <2>4
  <2> QED
    BY <1>9, <2>1, <2>2, <2>3, <2>4
<1>10. B < A \/ (B = A /\ StepsLeft(step2) < StepsLeft(step))
  BY <1>7, <1>8, <1>9 DEF Later
<1> QED
  BY <1>2, <1>3, <1>10

LEMMA StepAdvances ==
  ASSUME TypeOK, LoopInv, AmountInv, Sequence
  PROVE  /\ pc \notin {"heartbeat", "over"}
         /\ Later(pc, attempt, betpot, pc', attempt', betpot')
<1> USE StepsOfAttempt DEF Return, routine, Later
<1>1. attempt \in {"allin", "betpot", "swag"}
  BY DEF TypeOK
<1>2. CASE ExecutePrimaryFormulas
  BY <1>1, <1>2 DEF ExecutePrimaryFormulas
<1>3. CASE ClickAllin \/ DragSlider
  BY <1>1, <1>3 DEF ClickAllin, DragSlider
<1>4. CASE ClickSecondButton
  BY <1>1, <1>4 DEF ClickSecondButton
<1>5. CASE ConfirmSlider
  <2>1. pc = "jam" /\ pc' \in {"return", "select"} /\ UNCHANGED routine
    BY <1>5 DEF ConfirmSlider, ClickConfirmation
  <2> QED
    BY <1>1, <2>1
<1>6. CASE SkipBetPot
  BY <1>1, <1>6 DEF SkipBetPot, LoopInv
<1>7. CASE ClickBetPot
  BY <1>1, <1>7 DEF ClickBetPot, LoopInv
<1>8. CASE FinishBetPots
  BY <1>1, <1>8 DEF FinishBetPots, LoopInv
<1>9. CASE DoSwag
  BY <1>1, <1>9 DEF DoSwag, AmountInv
<1>10. CASE SelectSwagText \/ DeleteSwagText \/ EnterAmount
  BY <1>1, <1>10 DEF SelectSwagText, DeleteSwagText, EnterAmount
<1>11. CASE Confirm
  <2>1. pc = "confirm" /\ pc' = "return" /\ UNCHANGED routine
    BY <1>11 DEF Confirm, ClickConfirmation
  <2> QED
    BY <1>1, <2>1
<1>12. CASE RegisterAttempt
  BY <1>1, <1>12 DEF RegisterAttempt
<1>13. CASE NextAttempt
  BY <1>1, <1>13 DEF NextAttempt
<1>14. CASE ExecuteRaiseCallCheckFold
  BY <1>1, <1>14 DEF ExecuteRaiseCallCheckFold
<1> QED
  BY <1>2, <1>3, <1>4, <1>5, <1>6, <1>7, <1>8, <1>9, <1>10, <1>11, <1>12, <1>13, <1>14
     DEF Sequence

\* However many betpot functions there are, whatever is turned into all-in and whichever
\* clicks fail, the attempts of a sequence follow each other in one direction and are
\* finitely many (CAutoplayer.cpp:501).
THEOREM AttemptsRunOut == Spec => SequenceAdvances
<1>1. Init => LoopInv
  BY DEF Init, LoopInv
<1>2. Spec => []LoopInv
  BY <1>1, LoopOK, PTL DEF Spec
<1>3. ASSUME TypeOK, TypeOK', IInv, LoopInv, Sequence
      PROVE  Rank' \in 0 .. Rank - 1
  <2>1. /\ pc \in Steps \ {"heartbeat", "over"} /\ pc' \in Steps
        /\ attempt \in {"allin", "betpot", "swag"} /\ attempt' \in {"allin", "betpot", "swag"}
        /\ betpot \in 1 .. (Len(BetPots) + 1) /\ betpot' \in 1 .. (Len(BetPots) + 1)
        /\ Later(pc, attempt, betpot, pc', attempt', betpot')
    BY <1>3, StepAdvances DEF TypeOK, IInv
  <2>2. /\ AttemptsLeft(pc, attempt, betpot) \in Nat /\ StepsLeft(pc) \in 0 .. 10
        /\ AttemptsLeft(pc', attempt', betpot') \in Nat /\ StepsLeft(pc') \in 0 .. 10
    BY <2>1, Attempts, StepsOfAttempt
  <2>3. \/ AttemptsLeft(pc', attempt', betpot') < AttemptsLeft(pc, attempt, betpot)
        \/ /\ AttemptsLeft(pc', attempt', betpot') = AttemptsLeft(pc, attempt, betpot)
           /\ StepsLeft(pc') < StepsLeft(pc)
    BY <2>1, LaterIsLess
  <2> QED
    BY <2>2, <2>3, RankBelow DEF Rank
<1> QED
  BY <1>2, <1>3, Invariance, PTL DEF Spec, SequenceAdvances

-----------------------------------------------------------------------------
(* The implementation of PlayerTurn                                        *)

Actions == {"allin", "betsize", "raise", "call", "check", "fold"}

\* Whatever the table has received is an action.
LEMMA ReceivedSomething ==
  ASSUME TypeOK, placed # <<>>
  PROVE  ActionOf(placed[1]) # "none"
<1>1. placed[1] \in Bet
  BY DEF TypeOK
<1>2. placed[1].button \in Button \cup {"enter"}
  BY <1>1 DEF Bet
<1>3. placed[1].button # "none"
  BY <1>2, BetPotNames
<1> QED
  BY <1>3 DEF Registered

\* A step of the sequence: it goes on, or it has registered an action, or there was
\* nothing to do.
Goes   == pc' # "heartbeat" /\ registered' = registered
Books  == pc' = "heartbeat" /\ registered' \in Actions
Nothing == pc' = "heartbeat" /\ UNCHANGED <<placed, registered>> /\ placed = <<>>

LEMMA SequenceShape ==
  ASSUME IInv, Sequence
  PROVE  /\ pc \notin {"heartbeat", "over"} /\ pc' # "over"
         /\ Goes \/ Books \/ Nothing
         /\ placed' = placed \/ placed = <<>>
         /\ to_call' = to_call
<1> USE DEF Goes, Books, Nothing, Return, casino, table
<1>1. CASE ExecutePrimaryFormulas
  BY <1>1 DEF ExecutePrimaryFormulas
<1>2. CASE ClickAllin
  BY <1>2, Before DEF ClickAllin, After
<1>3. CASE ClickSecondButton
  BY <1>3, Before DEF ClickSecondButton, After
<1>4. CASE DragSlider
  BY <1>4 DEF DragSlider
<1>5. CASE ConfirmSlider
  BY <1>5, Before DEF ConfirmSlider, ClickConfirmation, After
<1>6. CASE SkipBetPot
  BY <1>6 DEF SkipBetPot
<1>7. CASE ClickBetPot
  BY <1>7, Before DEF ClickBetPot, After
<1>8. CASE FinishBetPots \/ DoSwag
  BY <1>8 DEF FinishBetPots, DoSwag
<1>9. CASE SelectSwagText \/ DeleteSwagText \/ EnterAmount
  BY <1>9 DEF SelectSwagText, DeleteSwagText, EnterAmount
<1>10. CASE Confirm
  BY <1>10, Before DEF Confirm, ClickConfirmation, After
<1>11. CASE RegisterAttempt \/ NextAttempt
  BY <1>11 DEF RegisterAttempt, NextAttempt, Actions
<1>12. CASE ExecuteRaiseCallCheckFold
  <2>1. pc = "fckra" /\ pc' = "heartbeat" /\ placed = <<>> /\ to_call' = to_call
    BY <1>12, Before DEF ExecuteRaiseCallCheckFold, After
  <2>2. ASSUME NEW n \in DOMAIN FCKR, registered' = Registered(FCKR[n])
        PROVE  registered' \in Actions
    BY <2>2 DEF FCKR, Registered, Actions
  <2> QED
    BY <1>12, <2>1, <2>2 DEF ExecuteRaiseCallCheckFold
<1> QED
  BY <1>1, <1>2, <1>3, <1>4, <1>5, <1>6, <1>7, <1>8, <1>9, <1>10, <1>11, <1>12
     DEF Sequence

LEMMA SequenceImplementsTurn ==
  ASSUME TypeOK, IInv, TypeOK', IInv', Sequence
  PROVE  [Turn!Next]_(Turn!vars)
<1> DEFINE received == IF placed = <<>> THEN "none" ELSE ActionOf(placed[1])
<1>1. /\ pc \notin {"heartbeat", "over"} /\ pc' # "over"
      /\ Goes \/ Books \/ Nothing
      /\ placed' = placed \/ placed = <<>>
      /\ to_call' = to_call
  BY SequenceShape
<1>2. placed' = placed => received' = received
  BY <1>1 DEF Registered
<1>3. CASE Goes
  <2>1. CASE placed' = placed
    BY <1>1, <1>2, <1>3, <2>1 DEF Goes, Turn!vars
  <2>2. CASE placed = <<>> /\ placed' # <<>>
    <3>1. pc' = "return"
      BY <1>1, <1>3, <2>2 DEF Goes, IInv, PlacedInv, After
    <3>2. received' \in {"allin", "betsize"}
      <4>1. placed'[1].meant = amount'
        BY <2>2, <3>1 DEF IInv, ResultInv
      <4>2. amount' \in {"max"} \cup BetPot \cup {"betsize"}
        BY <3>1 DEF IInv, AmountInv, Entering
      <4> QED
        BY <2>2, <4>1, <4>2
    <3>3. Turn!Receive(received')
      BY <1>1, <1>3, <2>2, <3>2 DEF Goes, Turn!Receive
    <3> QED
      BY <3>2, <3>3 DEF Turn!Next
  <2> QED
    BY <1>1, <2>1, <2>2
<1>4. CASE Books
  <2>1. placed' # <<>> => received' = registered'
    BY <1>4 DEF Books, IInv, ActionRegistered
  <2>2. received \in {"none", registered'} /\ received' \in {received, registered'}
    BY <1>1, <1>2, <2>1
  <2>3. Turn!Finish(registered')
    BY <1>1, <1>4, <2>2 DEF Books, Turn!Finish
  <2> QED
    BY <1>4, <2>3 DEF Books, Actions, Turn!Next
<1>5. CASE Nothing
  <2>1. Turn!GiveUp
    BY <1>1, <1>2, <1>5 DEF Nothing, Turn!GiveUp
  <2> QED
    BY <2>1 DEF Turn!Next
<1> QED
  BY <1>1, <1>3, <1>4, <1>5

\* For the table and for the history of the bot all the attempts of a turn are one
\* turn of PlayerTurn, whatever takes the focus and whatever fails
\* (CAutoplayer.cpp:216).
THEOREM ImplementsTurn == Spec => TurnSpec
<1>1. Init => Turn!Init
  BY DEF Init, Turn!Init
<1>2. ASSUME TypeOK, IInv, TypeOK', IInv', [Next]_vars
      PROVE  [Turn!Next]_(Turn!vars)
  <2>1. CASE BeginSequence
    <3>1. CASE placed = <<>>
      <4>1. Turn!Decide
        BY <2>1, <3>1 DEF BeginSequence, casino, Turn!Decide
      <4> QED
        BY <4>1 DEF Turn!Next
    <3>2. CASE placed # <<>>
      <4>1. ActionOf(placed[1]) # "none"
        BY <1>2, <3>2, ReceivedSomething
      <4>2. Turn!EndTurn
        BY <2>1, <3>2, <4>1 DEF BeginSequence, casino, table, Registered, Turn!EndTurn
      <4> QED
        BY <4>2 DEF Turn!Next
    <3> QED
      BY <3>1, <3>2
  <2>2. CASE Sequence
    BY <1>2, <2>2, SequenceImplementsTurn
  <2>3. CASE LoseFocus \/ GiveBackFocus \/ UNCHANGED vars
    BY <2>3 DEF LoseFocus, GiveBackFocus, vars, table, casino, Registered, Turn!vars
  <2> QED
    BY <1>2, <2>1, <2>2, <2>3 DEF Next
<1> QED
  BY <1>1, <1>2, Invariance, PTL DEF Spec, TurnSpec, Turn!Spec
=============================================================================
