----------------------------- MODULE BetSequence -----------------------------
(***************************************************************************)
(* How the autoplayer executes a decision at the table: the attempts of    *)
(* ExecutePrimaryFormulasIfNecessary (all-in, betpot, betsize, then raise, *)
(* call, check or fold), each a sequence of mouse and keyboard input       *)
(* (CCasinoInterface) during which other windows may take the focus, and   *)
(* give it back.                                                           *)
(*                                                                         *)
(* The table is reduced to the foreground window, the content of the box   *)
(* for the betsize, and the actions it has received in this turn.          *)
(***************************************************************************)
EXTENDS Integers, Sequences

CONSTANTS BetPots,    \* f$betpot_2_1 ... f$betpot_1_4, in this order
          Decisions,  \* which functions may be true together
          Layouts,    \* which buttons, and parts of i3, a table may offer
          Tablemaps   \* the settings that matter here

BetPot    == {BetPots[n] : n \in DOMAIN BetPots}
Button    == {"allin", "raise", "call", "check", "fold"} \cup BetPot
Function  == Button \cup {"betsize"}
Amount    == BetPot \cup {"betsize", "max", "none"}
\* An amount; what the casino has put there, or what is left from before; that
\* text, but selected; nothing; or a text that nobody meant.
Box       == Amount \cup {"default", "selected", "empty", "junk"}
\* An edit field or a button i3, a slider with its handle.
Region    == {"i3edit", "i3button", "i3slider"}
Tablemap  == [allinconfirmation : BOOLEAN,
              betpot_raise      : BOOLEAN,
              confirmation      : {"enter", "click bet", "nothing", "invalid"},
              swag              : {"select and delete", "nothing"},
              doubleclick       : BOOLEAN]

ASSUME ConstantsAssumption ==
  /\ BetPots \in Seq(STRING)
  /\ BetPot \cap {"allin", "raise", "call", "check", "fold", "betsize", "max",
                  "none", "default", "selected", "empty", "junk", "enter"} = {}
  /\ Decisions \subseteq SUBSET Function
  /\ Layouts \subseteq SUBSET (Button \cup Region)
  /\ Tablemaps \subseteq Tablemap

VARIABLES
  tablemap, layout, to_call,  \* the table: its map, what is visible, call() > 0
  to_allin,    \* the amounts that ChangeBetsizeToAllin changes to all-in
  decided,     \* the functions that are true
  pc,
  attempt,     \* DoAllin, DoBetPot or DoSwag: what the main function has called
  in_allin,    \* is it in DoAllin, perhaps called by DoBetPot or DoSwag?
  betpot,      \* i of DoBetPot
  amount,      \* the argument of EnterBetsize
  lost_focus,  \* of EnterBetsize
  success,     \* what the attempt returns
  foreground,  \* the window in the foreground
  box,         \* the content of i3edit
  placed,      \* history: what the table has received in this turn
  registered,  \* history: the last action that was registered in this turn
  unnoticed    \* history: a window came and went while the amount was entered

table   == <<tablemap, layout, to_call, to_allin>>
casino  == <<foreground, box, placed>>
routine == <<attempt, in_allin, betpot>>
vars == <<table, decided, pc, routine, amount, lost_focus, success, casino,
          registered, unnoticed>>

Steps == {"heartbeat", "execute", "allin", "sequence", "slider", "jam", "betpot",
          "swag", "select", "delete", "type", "confirm", "again", "return",
          "fckra", "over"}
\* The chips are those the table takes, and those the program has meant.
Bet == [button : Button \cup {"enter"}, chips : Box, meant : Box]

TypeOK ==
  /\ tablemap \in Tablemap
  /\ layout \in SUBSET (Button \cup Region)
  /\ to_call \in BOOLEAN
  /\ to_allin \in SUBSET Amount
  /\ decided \in SUBSET Function
  /\ pc \in Steps
  /\ attempt \in {"allin", "betpot", "swag"}
  /\ in_allin \in BOOLEAN
  /\ betpot \in 1 .. (Len(BetPots) + 1)
  /\ amount \in Amount
  /\ lost_focus \in BOOLEAN
  /\ success \in BOOLEAN
  /\ foreground \in {"table", "other"}
  /\ box \in Box
  /\ placed \in Seq(Bet)
  /\ registered \in Button \cup {"betsize", "none"}
  /\ unnoticed \in BOOLEAN

Init ==
  /\ tablemap \in Tablemaps
  /\ layout \in Layouts
  /\ to_call \in BOOLEAN
  /\ to_allin \in SUBSET (BetPot \cup {"betsize"})
  /\ decided = {}
  /\ pc = "heartbeat"
  /\ attempt = "allin" /\ in_allin = FALSE /\ betpot = 1
  /\ amount = "none" /\ lost_focus = FALSE /\ success = FALSE
  /\ foreground \in {"table", "other"}
  /\ box = "default"
  /\ placed = <<>>
  /\ registered = "none"
  /\ unnoticed = FALSE

-----------------------------------------------------------------------------
(* Mouse and keyboard                                                      *)

\* Any window may come to the foreground at any time; a text that was selected
\* may then no longer be so.
LoseFocus ==
  /\ foreground = "table"
  /\ foreground' = "other"
  /\ box' \in IF box = "selected" THEN {"selected", "junk"} ELSE {box}
  /\ UNCHANGED <<table, unnoticed, decided, pc, routine, amount, lost_focus,
                 success, placed, registered>>

\* It may close again and give the focus back, and nobody has looked: the same as
\* if it came after a look, and the next call of a DLL sent it to the background.
GiveBackFocus ==
  /\ foreground = "other"
  /\ foreground' = "table"
  /\ unnoticed' = TRUE
  /\ UNCHANGED <<table, decided, pc, routine, amount, lost_focus, success, box,
                 placed, registered>>

TableLostFocus == foreground # "table"

\* Does the button only fill the box, to be confirmed with the raise button?
FillsBox(b) == \/ b = "allin" /\ tablemap.allinconfirmation
               \/ b \in BetPot /\ tablemap.betpot_raise

\* What the table takes when a button is pressed; only the raise button bets
\* what is in the box.
Chips(b) == CASE b = "allin"    -> "max"
              [] b \in BetPot   -> b
              [] b = "raise"    -> box
              [] OTHER          -> "none"

Place(b, meant) ==
  /\ placed' = Append(placed, [button |-> b, meant |-> meant,
                               chips |-> IF b = "enter" THEN box ELSE Chips(b)])
  /\ UNCHANGED box

Press(b, meant, clicks) ==
  \/ /\ FillsBox(b)
     /\ box' = Chips(b)
     /\ UNCHANGED placed
  \/ /\ ~FillsBox(b) /\ tablemap.doubleclick /\ clicks = 1
     /\ UNCHANGED <<box, placed>>
  \/ /\ ~FillsBox(b) /\ (tablemap.doubleclick => clicks = 2)
     /\ Place(b, meant)

\* MouseClick brings the table to the foreground, sleeps, and clicks: the window
\* that has come to the foreground meanwhile may get the click.
Click(b, meant, clicks) ==
  \/ foreground' = "table" /\ Press(b, meant, clicks)
  \/ foreground' = "other" /\ UNCHANGED <<box, placed>>

\* SendKey and MouseClickDrag send their input at once.
PressEnter == foreground' = "table" /\ Place("enter", amount)

-----------------------------------------------------------------------------
(* The attempts                                                            *)

Return(result) == pc' = "return" /\ success' = result

\* A heartbeat with a final answer; the same turn goes on until the table has
\* received an action.
BeginSequence ==
  /\ pc = "heartbeat"
  /\ IF placed = <<>> THEN /\ decided' \in Decisions
                           /\ pc' = "execute"
                      ELSE /\ pc' = "over"
                           /\ UNCHANGED decided
  /\ registered' = "none"
  /\ UNCHANGED <<table, unnoticed, routine, amount, lost_focus, success, casino>>

ExecutePrimaryFormulas ==
  /\ pc = "execute"
  /\ IF "allin" \in decided
     THEN attempt' = "allin" /\ in_allin' = TRUE /\ pc' = "allin"
     ELSE attempt' = "betpot" /\ in_allin' = FALSE /\ pc' = "betpot"
  /\ betpot' = 1
  /\ UNCHANGED <<table, unnoticed, decided, amount, lost_focus, success, casino,
                 registered>>

\* DoAllin: the button, then the slider, then the balance as a betsize.
ClickAllin ==
  /\ pc = "allin"
  /\ IF "allin" \in layout
     THEN /\ Click("allin", "max", 1)
          /\ IF tablemap.allinconfirmation
             THEN pc' = "sequence" /\ UNCHANGED success
             ELSE Return(TRUE)
     ELSE pc' = "slider" /\ UNCHANGED <<casino, success>>
  /\ amount' = "max"
  /\ unnoticed' = FALSE
  /\ UNCHANGED <<table, decided, routine, lost_focus, registered>>

\* ClickButtonSequence: the second button, always the raise button.
ClickSecondButton ==
  /\ pc = "sequence"
  /\ IF TableLostFocus \/ "raise" \notin layout
     THEN /\ pc' = IF in_allin THEN "slider" ELSE "select"
          /\ UNCHANGED <<casino, success>>
     ELSE /\ Click("raise", amount, 1)
          /\ Return(TRUE)
  /\ UNCHANGED <<table, unnoticed, decided, routine, amount, lost_focus,
                 registered>>

DragSlider ==
  /\ pc = "slider"
  /\ IF "i3slider" \in layout
     THEN foreground' = "table" /\ box' = "max" /\ pc' = "jam"
     ELSE pc' = "select" /\ UNCHANGED <<foreground, box>>
  /\ UNCHANGED <<table, unnoticed, decided, routine, amount, lost_focus, success,
                 placed, registered>>

\* ClickButton, or ClickButtonSequence with twice the same button; nobody asks if
\* there is such a button, or whether it could be clicked twice.
ClickConfirmation(b) ==
  /\ IF b \in layout THEN Click(b, amount, IF tablemap.doubleclick THEN 2 ELSE 1)
                     ELSE UNCHANGED casino
  /\ Return(TRUE)

ConfirmSlider ==
  /\ pc = "jam"
  /\ \/ /\ tablemap.confirmation = "enter"
        /\ PressEnter /\ Return(TRUE)
     \/ /\ tablemap.confirmation = "click bet"
        /\ layout \cap {"raise", "i3button"} # {}
        /\ ClickConfirmation(IF "allin" \in layout THEN "allin" ELSE "raise")
     \/ /\ tablemap.confirmation = "click bet" => layout \cap {"raise", "i3button"} = {}
        /\ tablemap.confirmation # "enter"
        /\ pc' = "select" /\ UNCHANGED <<casino, success>>
  /\ UNCHANGED <<table, unnoticed, decided, routine, amount, lost_focus,
                 registered>>

\* DoBetPot: the buttons, from the largest bet to the smallest, then a betsize.
SkipBetPot ==
  /\ pc = "betpot"
  /\ betpot <= Len(BetPots)
  /\ BetPots[betpot] \notin decided
  /\ betpot' = betpot + 1
  /\ UNCHANGED <<table, unnoticed, decided, pc, attempt, in_allin, amount,
                 lost_focus, success, casino, registered>>

ClickBetPot ==
  /\ pc = "betpot"
  /\ betpot <= Len(BetPots)
  /\ BetPots[betpot] \in decided
  /\ amount' = BetPots[betpot]
  /\ \/ /\ amount' \in to_allin
        /\ in_allin' = TRUE /\ pc' = "allin"
        /\ UNCHANGED <<casino, success>>
     \/ /\ amount' \in layout \ to_allin
        /\ Click(BetPots[betpot], BetPots[betpot], 1)
        /\ IF tablemap.betpot_raise THEN pc' = "sequence" /\ UNCHANGED success
                                    ELSE Return(TRUE)
        /\ UNCHANGED in_allin
     \/ /\ amount' \notin layout \cup to_allin
        /\ pc' = "select"
        /\ UNCHANGED <<casino, success, in_allin>>
  /\ unnoticed' = FALSE
  /\ UNCHANGED <<table, decided, attempt, betpot, lost_focus, registered>>

FinishBetPots ==
  /\ pc = "betpot"
  /\ betpot > Len(BetPots)
  /\ attempt' = "swag" /\ pc' = "swag"
  /\ UNCHANGED <<table, unnoticed, decided, in_allin, betpot, amount, lost_focus,
                 success, casino, registered>>

DoSwag ==
  /\ pc = "swag"
  /\ amount' = "betsize"
  /\ \/ /\ "betsize" \notin decided
        /\ pc' = "fckra" /\ UNCHANGED in_allin
     \/ /\ "betsize" \in decided /\ "betsize" \in to_allin
        /\ pc' = "allin" /\ in_allin' = TRUE
     \/ /\ "betsize" \in decided /\ "betsize" \notin to_allin
        /\ pc' = "select" /\ UNCHANGED in_allin
  /\ UNCHANGED <<table, unnoticed, decided, attempt, betpot, lost_focus, success,
                 casino, registered>>

-----------------------------------------------------------------------------
(* EnterBetsize                                                            *)

\* The text is selected if the click gets to the table.
SelectSwagText ==
  /\ pc = "select"
  /\ IF {"i3edit", "i3button"} \subseteq layout
     THEN /\ pc' = "delete"
          /\ \/ tablemap.swag = "nothing" /\ UNCHANGED <<foreground, box>>
             \/ /\ tablemap.swag # "nothing"
                /\ \/ foreground' = "table" /\ box' = "selected"
                   \/ foreground' = "other" /\ UNCHANGED box
          /\ UNCHANGED success
     ELSE Return(FALSE) /\ UNCHANGED <<foreground, box>>
  /\ unnoticed' = FALSE
  /\ UNCHANGED <<table, decided, routine, amount, lost_focus, placed, registered>>

\* If the text is not selected then only a character of it is deleted.
DeleteSwagText ==
  /\ pc = "delete"
  /\ lost_focus' = TableLostFocus
  /\ IF tablemap.swag = "nothing" THEN UNCHANGED <<foreground, box>>
     ELSE /\ foreground' = "table"
          /\ box' \in IF box = "selected" THEN {"empty"} ELSE {"empty", "junk"}
  /\ pc' = "type"
  /\ UNCHANGED <<table, unnoticed, decided, routine, amount, success, placed,
                 registered>>

\* Mutant: only the last look at the foreground window counts.
EnterAmountForgetful ==
  /\ pc = "type"
  /\ lost_focus' = TableLostFocus
  /\ foreground' = "table"
  /\ box' = IF tablemap.swag = "nothing" \/ box = "empty" THEN amount ELSE "junk"
  /\ pc' = "confirm"
  /\ UNCHANGED <<table, unnoticed, decided, routine, amount, success, placed,
                 registered>>

\* SendString clicks into the field and types one character after the other;
\* another window may get the rest.  Without selection and deletion the click
\* makes the amount replace the text.
EnterAmount ==
  /\ pc = "type"
  /\ lost_focus' = (lost_focus \/ TableLostFocus)
  /\ \/ /\ foreground' = "table"
        /\ box' = IF tablemap.swag = "nothing" \/ box = "empty" THEN amount
                  ELSE "junk"
     \/ /\ foreground' = "other"
        /\ box' \in {box, "junk"}
  /\ pc' = "confirm"
  /\ UNCHANGED <<table, unnoticed, decided, routine, amount, success, placed,
                 registered>>

\* Mutant: the result is what the foreground is after the confirmation.
ConfirmLookingTooLate ==
  /\ pc = "confirm"
  /\ ~(lost_focus \/ TableLostFocus)
  /\ tablemap.confirmation = "enter"
  /\ \/ PressEnter /\ Return(TRUE)
     \/ Place("enter", amount) /\ foreground' = "other" /\ Return(FALSE)
  /\ UNCHANGED <<table, unnoticed, decided, routine, amount, lost_focus,
                 registered>>

Confirm ==
  /\ pc = "confirm"
  /\ IF lost_focus \/ TableLostFocus THEN Return(FALSE) /\ UNCHANGED casino
     ELSE \/ /\ tablemap.confirmation = "enter"
             /\ PressEnter /\ Return(TRUE)
          \/ /\ tablemap.confirmation = "click bet" /\ "raise" \in layout
             /\ ClickConfirmation("raise")
          \/ /\ tablemap.confirmation = "nothing"
             /\ Return(TRUE) /\ UNCHANGED casino
          \/ /\ \/ tablemap.confirmation = "invalid"
                \/ tablemap.confirmation = "click bet" /\ "raise" \notin layout
             /\ Return(FALSE) /\ UNCHANGED casino
  /\ UNCHANGED <<table, unnoticed, decided, routine, amount, lost_focus,
                 registered>>

-----------------------------------------------------------------------------
(* The results                                                             *)

\* Mutant: what is registered depends on what was decided, not on what was done.
RegisterDecision ==
  /\ pc = "return" /\ success
  /\ registered' = IF attempt = "allin" THEN "allin" ELSE "betsize"
  /\ pc' = "heartbeat"
  /\ UNCHANGED <<table, unnoticed, decided, routine, amount, lost_focus, success,
                 casino>>

\* Mutant: the result of the attempt is forgotten.
RegisterAndGoOn ==
  /\ pc = "return" /\ success
  /\ registered' = IF in_allin THEN "allin" ELSE "betsize"
  /\ pc' = "fckra"
  /\ UNCHANGED <<table, unnoticed, decided, routine, amount, lost_focus, success,
                 casino>>

\* A successful attempt ends the sequence.
RegisterAttempt ==
  /\ pc = "return" /\ success
  /\ registered' = IF in_allin THEN "allin" ELSE "betsize"
  /\ pc' = "heartbeat"
  /\ UNCHANGED <<table, unnoticed, decided, routine, amount, lost_focus, success,
                 casino>>

\* Mutant: the loop of DoBetPot counts twice after a failure.
NextAttemptMiscounted ==
  /\ pc = "return" /\ ~success
  /\ in_allin' = FALSE
  /\ pc' = IF attempt = "swag" THEN "fckra" ELSE "betpot"
  /\ attempt' = IF attempt = "swag" THEN "swag" ELSE "betpot"
  /\ betpot' = IF attempt = "betpot" THEN betpot + 2 ELSE betpot
  /\ UNCHANGED <<table, unnoticed, decided, amount, lost_focus, success, casino,
                 registered>>

\* Mutant: a failed all-in is followed by f$betsize, wherever it came from.
NextAttemptSwag ==
  /\ pc = "return" /\ ~success
  /\ in_allin' = FALSE
  /\ pc' = IF in_allin THEN "swag" ELSE "fckra"
  /\ attempt' = "swag"
  /\ UNCHANGED <<table, unnoticed, decided, betpot, amount, lost_focus, success,
                 casino, registered>>

\* Mutant: the function returns what DoSwag returns.
NextAttemptOrNone ==
  /\ pc = "return" /\ ~success
  /\ in_allin' = FALSE
  /\ pc' = IF attempt = "swag" THEN "heartbeat" ELSE "swag"
  /\ attempt' = "swag"
  /\ UNCHANGED <<table, unnoticed, decided, betpot, amount, lost_focus, success,
                 casino, registered>>

\* A failed one is followed by the next: DoBetPot returns what DoAllin returns,
\* but after any other failure it goes on with a smaller bet.
NextAttempt ==
  /\ pc = "return" /\ ~success
  /\ in_allin' = FALSE
  /\ \/ /\ attempt = "allin"
        /\ pc' = "betpot" /\ attempt' = "betpot" /\ UNCHANGED betpot
     \/ /\ attempt = "betpot" /\ in_allin
        /\ pc' = "swag" /\ attempt' = "swag" /\ UNCHANGED betpot
     \/ /\ attempt = "betpot" /\ ~in_allin
        /\ pc' = "betpot" /\ betpot' = betpot + 1 /\ UNCHANGED attempt
     \/ /\ attempt = "swag"
        /\ pc' = "fckra" /\ UNCHANGED <<attempt, betpot>>
  /\ UNCHANGED <<table, unnoticed, decided, amount, lost_focus, success, casino,
                 registered>>

FCKR == <<"raise", "call", "check", "fold">>

\* What ExecuteRaiseCallCheckFold can click.
CanClick(b) == /\ b \in decided \cap layout
               /\ b = "check" => ~to_call

\* RegisterAction tells check from call by the amount to call.
Registered(b) == IF b \notin {"call", "check"} THEN b
                 ELSE IF to_call THEN "call" ELSE "check"

ExecuteRaiseCallCheckFold ==
  /\ pc = "fckra"
  /\ pc' = "heartbeat"
  /\ \/ \E n \in DOMAIN FCKR :
          /\ CanClick(FCKR[n])
          /\ \A m \in 1 .. n - 1 : ~CanClick(FCKR[m])
          /\ Click(FCKR[n], IF FCKR[n] = "raise" THEN "default" ELSE "none", 1)
          /\ registered' = Registered(FCKR[n])
     \/ /\ \A n \in DOMAIN FCKR : ~CanClick(FCKR[n])
        /\ UNCHANGED <<casino, registered>>
  /\ UNCHANGED <<table, unnoticed, decided, routine, amount, lost_focus, success>>

-----------------------------------------------------------------------------
Sequence ==
  \/ ExecutePrimaryFormulas \/ ClickAllin \/ ClickSecondButton
  \/ DragSlider \/ ConfirmSlider
  \/ SkipBetPot \/ ClickBetPot \/ FinishBetPots \/ DoSwag
  \/ SelectSwagText \/ DeleteSwagText \/ EnterAmount \/ Confirm
  \/ RegisterAttempt \/ NextAttempt \/ ExecuteRaiseCallCheckFold

Next == BeginSequence \/ Sequence \/ LoseFocus \/ GiveBackFocus

Spec == Init /\ [][Next]_vars

\* The heartbeat thread runs on, whatever window has the focus.
FairSpec == Spec /\ WF_vars(Sequence)

-----------------------------------------------------------------------------
(* Properties                                                              *)

\* Although a failed attempt is followed by another one, the table receives at
\* most one action in a turn (CAutoplayer.cpp:161).
AtMostOneAction == Len(placed) <= 1

\* What a bet is confirmed with is what the program meant to bet, although windows
\* take the focus between selecting, deleting, typing, and confirming, or between
\* two buttons: the looks at the foreground window (CCasinoInterface.cpp:90, :303,
\* :311, :325) suffice, but for a window that comes and goes between two of them.
BetsAsMeant ==
  \A n \in DOMAIN placed :
    unnoticed \/ placed[n].meant = "default" \/ placed[n].chips = placed[n].meant

\* Claim: "Check for stolen focus, and thus misswag" (CCasinoInterface.cpp:302):
\* a look at the moment tells what happened since the last one.
LooksSuffice ==
  \A n \in DOMAIN placed :
    placed[n].meant # "default" => placed[n].chips = placed[n].meant

\* Claim: f$rais is the raise that the casino offers, without a betsize.
RaisesDefault ==
  \A n \in DOMAIN placed :
    placed[n].meant = "default" => placed[n].chips = "default"

\* What a bet of any size, or a click on a button, is in the history.
ActionOf(bet) == CASE bet.meant = "max"                    -> "allin"
                   [] bet.meant \in BetPot \cup {"betsize"} -> "betsize"
                   [] OTHER                                -> Registered(bet.button)

\* An action that the table has received is in the history of the bot, and as
\* what it was (CSymbolEngineHistory.cpp:122).
ActionRegistered ==
  pc = "heartbeat" /\ placed # <<>> => registered = ActionOf(placed[1])

\* A sequence that did nothing had nothing to click among raise, call, check
\* and fold, even if betting before has failed (CAutoplayer.cpp:231).
ActsIfPossible ==
  pc = "heartbeat" /\ registered = "none" =>
    \A b \in {"raise", "call", "check", "fold"} : ~CanClick(b)

\* The sequence ends, although all-in, betpot and betsize call each other
\* (CAutoplayer.cpp:501).
SequenceEnds == pc = "execute" ~> pc = "heartbeat"

\* How many attempts there may still be: all-in, one for each of the betpot functions
\* that are left, and the betsize.
AttemptsLeft(step, kind, next) ==
  CASE step \in {"heartbeat", "over", "fckra"} -> 0
    [] step = "execute"                       -> Len(BetPots) + 4
    [] step \notin {"heartbeat", "over", "fckra", "execute"} ->
         CASE kind = "allin"  -> Len(BetPots) + 3
           [] kind = "betpot" -> Len(BetPots) + 3 - next
           [] kind = "swag"   -> 1

\* How many steps at most an attempt has still to go.
StepsLeft(step) ==
  CASE step \in {"betpot", "swag"}  -> 10
    [] step = "allin"              -> 9
    [] step = "sequence"           -> 8
    [] step = "slider"             -> 7
    [] step = "jam"                -> 6
    [] step = "select"             -> 5
    [] step = "delete"             -> 4
    [] step = "type"               -> 3
    [] step = "confirm"            -> 2
    [] step \in {"return", "fckra"} -> 1
    [] OTHER                       -> 0

Rank == 11 * AttemptsLeft(pc, attempt, betpot) + StepsLeft(pc)

\* Why it ends: "We have to prevent a potential endless loop" (CAutoplayer.cpp:501).
\* Every step leaves less to do, in this attempt or in those that may follow it, and
\* nothing that fails or gets adjusted leads back to what has been tried.
SequenceAdvances == [][Sequence => Rank' \in 0 .. Rank - 1]_vars

\* The attempts of a turn, however many, are one turn of PlayerTurn for the table and
\* for the history: no decision is made on top of a received action, and none that
\* has been received is ever registered as another one (CAutoplayer.cpp:216).
Turn == INSTANCE PlayerTurn WITH
  Action   <- {"allin", "betsize", "raise", "call", "check", "fold"},
  NoAction <- "none",
  phase    <- CASE pc = "heartbeat" -> "waiting"
                [] pc = "over"      -> "over"
                [] OTHER            -> "acting",
  received <- IF placed = <<>> THEN "none" ELSE ActionOf(placed[1]),
  booked   <- registered
TurnSpec == Turn!Spec
=============================================================================
