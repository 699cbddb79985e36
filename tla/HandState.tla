----------------------------- MODULE HandState -----------------------------
(***************************************************************************)
(* What OpenHoldem knows of a hand.  A casino shows hand after hand; every *)
(* heartbeat scrapes the table and calls CEngineContainer::EvaluateAll,    *)
(* which calculates the betting round (CBetroundCalculator), decides       *)
(* whether a new hand began (CHandresetDetector), locks the blinds         *)
(* (CSymbolEngineTableLimits), resets the symbol engines and lets them     *)
(* calculate new values.  The detector never sees the beginning of a hand: *)
(* it compares each item with its value one heartbeat earlier, and some    *)
(* items are values of symbol engines, which are one heartbeat old.        *)
(*                                                                         *)
(* A casino draws a new situation item by item: an item of LateItems may   *)
(* appear one heartbeat late.  The user gets two cards, drawn together     *)
(* ("cards") or each on its own ("card"); one of them may be the same as   *)
(* in the last hand.  The dealer moves from hand to hand.  The bot may act *)
(* when CStableFramesCounter counted FrameDelay frames; how it acts is the *)
(* subject of Autoplayer.  A user who clicks on a flag makes the GUI       *)
(* thread call EvaluateAll() once more, without a new scrape.              *)
(***************************************************************************)
EXTENDS Integers, FiniteSets

CONSTANTS Hands,       \* hands that begin while the bot watches
          CardsOf,     \* the two cards of the user, per hand
          Chairs,      \* number of chairs
          Levels,      \* the big blinds of the levels of a tournament
          Opponents,   \* numbers of opponents that hold cards
          HandNumbers, \* does the casino show the number of the hand?
          LateItems,   \* items that may be drawn one heartbeat late
          FlagClicks,  \* when does the user click on flags?
          FrameDelay   \* preferences.frame_delay(), 2 by default

Items == {"dealer", "cards", "card", "handnumber", "community", "pot", "opponents",
          "bets", "level", "buttons"}

Card == Nat \ {0}

ASSUME ConstantsAssumption ==
  /\ Hands \in Nat
  /\ CardsOf \in [0 .. Hands -> Card \X Card]
  /\ \A h \in 0 .. Hands : CardsOf[h][1] # CardsOf[h][2]
  /\ \A h \in 1 .. Hands : CardsOf[h] # CardsOf[h - 1]
  /\ Chairs \in Nat /\ Chairs >= 2
  /\ Levels \subseteq Nat \ {0} /\ Levels # {}
  /\ Opponents \subseteq Nat \ {0} /\ Opponents # {}
  /\ HandNumbers \in BOOLEAN
  /\ LateItems \subseteq Items
  /\ FlagClicks \subseteq {"quiet", "busy"}
  /\ FrameDelay \in Nat

NoDealer == -1
NoCard   == 0     \* no card, or the back of one
NoCards  == <<NoCard, NoCard>>
NoNumber == 0
NoBet    == 0
Unlocked == 0
JoinedHand == -1  \* the bot was not there when the hand began
Garbage  == -1    \* what an int that is not initialised may hold
Round    == {"preflop", "flop"}
Method   == {"DealerChair", "UserCards", "HandNumber", "CommunityCards", "Potsize",
             "Nopponentsplaying", "IncreasingBalance", "ChangingBlindLevel",
             "NewSmallBlind"}

VARIABLES
  hand,       \* number of the hand the casino deals
  table,      \* what the casino has to show
  before,     \* ... and had to show at the last heartbeat
  shown,      \* p_table_state: what the last heartbeat scraped
  engines,    \* symbols that the engines calculated in the last heartbeat
  locked,     \* tablelimit_locked_for_current_hand.bblind, or Unlocked
  last,       \* the values CHandresetDetector stored for comparison
  fired,      \* _methods_firing_the_last_three_heartbeats, but for the third
  stale_balance, \* does IsHandresetByIncreasingBalance fire?
  betround,   \* CBetroundCalculator::_betround
  actions,    \* number of _autoplayer_actions, per betting round
  saved,      \* CStableFramesCounter: the last view, or NothingSaved
  frames,     \* _NumberOfStableFrames
  pc,         \* "scrape", or "act": evaluated, the autoplayer may act
  scrapes,    \* history: scrapes since the last view was saved
  handresets, \* history: handresets since the current hand began, or JoinedHand
  acted,      \* history: the bot's actions in the current hand, per round
  mistaken,   \* history: the bot acted in it on other cards than those of the hand
  evaluations \* history: evaluations of the current hand since its first heartbeat

casino   == <<hand, table>>
detector == <<last, fired, stale_balance>>
counter  == <<saved, frames, scrapes>>
mistakes == <<acted, mistaken>>
vars == <<casino, before, shown, engines, locked, detector, betround, actions,
          counter, pc, handresets, mistakes, evaluations>>

\* Bounds of the counters of actions, of handresets and of evaluations.
MaxActions    == 1
MaxHandresets == 2
MaxEvaluations == 3
Capped(n, bound) == IF n < bound THEN n ELSE bound

\* The current hand began after the last heartbeat.
JustBegun == evaluations = 0

-----------------------------------------------------------------------------
(* The casino                                                              *)

DealerOf(h) == h % Chairs
NumberOf(h) == IF HandNumbers THEN h + 1 ELSE NoNumber

SmallBlind(level) == level \div 2
SmallPot(level)   == level + SmallBlind(level)
LargePot(level)   == 6 * level

\* The first view of hand h: the small blind may be missing, and the user may be
\* the first one to act.  bets stands for the smallest bet on the table.
Deals(h) ==
  [dealer : {DealerOf(h)}, cards : {CardsOf[h]}, handnumber : {NumberOf(h)},
   community : {0}, pot : {SmallPot(l) : l \in Levels}, opponents : Opponents,
   bets : UNION {{SmallBlind(l), l} : l \in Levels}, level : Levels,
   buttons : BOOLEAN]

Dealt(h) ==
  {t \in Deals(h) : /\ t.pot = SmallPot(t.level)
                    /\ t.bets \in {SmallBlind(t.level), t.level}}

\* The casino works while the bot waits for its next heartbeat.
CasinoShows(t) ==
  /\ pc = "scrape"
  /\ table' = t
  /\ UNCHANGED <<before, shown, engines, locked, detector, betround, actions,
                 counter, pc>>

\* A hand lasts longer than the time between two heartbeats.
NewHand ==
  /\ hand < Hands
  /\ ~JustBegun
  /\ hand' = hand + 1
  /\ evaluations' = 0
  /\ \E t \in Dealt(hand + 1) : CasinoShows(t)
  /\ handresets' = 0
  /\ acted' = [r \in Round |-> 0]
  /\ mistaken' = FALSE

\* What happens within a hand: the flop, a fold of an opponent, the turn of the
\* user begins or ends, the user folds.
Plays ==
  {[table EXCEPT !.community = 3, !.bets = NoBet, !.pot = LargePot(table.level),
                 !.buttons = b] : b \in BOOLEAN}
  \cup {[table EXCEPT !.opponents = n] : n \in {m \in Opponents : m < table.opponents}}
  \cup {[table EXCEPT !.buttons = b] : b \in BOOLEAN}
  \cup {[table EXCEPT !.cards = NoCards, !.buttons = FALSE]}

Play ==
  /\ \E t \in Plays :
       /\ t # table
       /\ t.buttons => t.cards # NoCards
       /\ CasinoShows(t)
  /\ UNCHANGED <<hand, handresets, mistakes, evaluations>>

-----------------------------------------------------------------------------
(* The scrape                                                              *)

Drawn(item) == {table[item]} \cup (IF item \in LateItems THEN {before[item]} ELSE {})

\* The second card of a player is looked for if the first one is known; identical cards
\* count as backs.
ScrapePlayerCards(cards) ==
  IF cards[1] = NoCard \/ cards[1] = cards[2] THEN NoCards ELSE cards

DrawnCards ==
  Drawn("cards")
  \cup IF "card" \in LateItems
       THEN {ScrapePlayerCards(<<table.cards[1], before.cards[2]>>),
             ScrapePlayerCards(<<before.cards[1], table.cards[2]>>)}
       ELSE {}

\* The common cards are drawn, or removed, card by card.
DrawnCommunity ==
  Drawn("community")
  \cup IF "community" \in LateItems /\ before.community # table.community THEN {1} ELSE {}

Scrapes ==
  [dealer : Drawn("dealer"), cards : DrawnCards, handnumber : Drawn("handnumber"),
   community : DrawnCommunity, pot : Drawn("pot"), opponents : Drawn("opponents"),
   bets : Drawn("bets"), level : Drawn("level"), buttons : Drawn("buttons")]

\* CTableState::Reset
EmptyTable ==
  [dealer |-> NoDealer, cards |-> NoCards, handnumber |-> NoNumber, community |-> 0,
   pot |-> 0, opponents |-> 0, bets |-> NoBet, level |-> 0, buttons |-> FALSE]

-----------------------------------------------------------------------------
(* CBetroundCalculator                                                     *)

IsCommonAnimation(s) == s.community \notin {0, 3}

CalculateBetround(s) ==
  betround' = IF IsCommonAnimation(s) THEN betround
              ELSE IF s.community = 3 THEN "flop" ELSE "preflop"

-----------------------------------------------------------------------------
(* CHandresetDetector: s is the scrape, v the values it has now            *)

SmallBlindExists(s) == 0 < s.bets /\ s.bets < engines.bblind

GetNewSymbolValues(s) ==
  [dealer      |-> IF engines.dealer # NoDealer THEN engines.dealer ELSE last.dealer,
   cards       |-> IF engines.userchair THEN s.cards ELSE NoCards,
   handnumber  |-> s.handnumber,
   community   |-> s.community,
   pot         |-> engines.pot,
   opponents   |-> engines.opponents,
   bblind      |-> engines.bblind,
   small_blind |-> SmallBlindExists(s)]

IsHandresetByDealerChair(v) ==
  v.dealer # last.dealer /\ v.dealer # NoDealer /\ last.dealer # NoDealer

HasKnownCards(v) == v.cards[1] # NoCard /\ v.cards[2] # NoCard

\* Both cards have to be others.
IsHandresetByUserCards(v) ==
  HasKnownCards(v) /\ v.cards[1] # last.cards[1] /\ v.cards[2] # last.cards[2]

IsHandresetByHandNumber(v) == v.handnumber # last.handnumber

IsHandresetByCommunityCards(v) == v.community < last.community /\ v.community = 0

IsHandresetByPotsize(v) ==
  /\ v.pot < last.pot
  /\ v.bblind <= v.pot /\ v.pot < 6 * v.bblind
  /\ v.community = 0

IsHandresetByNopponentsplaying(v) == v.opponents > last.opponents /\ v.community = 0

IsHandresetByNewSmallBlind(v) == v.small_blind /\ ~last.small_blind /\ v.community = 0

IsHandresetByChangingBlindLevel(v) ==
  v.bblind # last.bblind /\ v.bblind # 0 /\ last.bblind # 0

FiringHandresetMethods(v) ==
  {m \in Method :
    \/ m = "DealerChair" /\ IsHandresetByDealerChair(v)
    \/ m = "UserCards" /\ IsHandresetByUserCards(v)
    \/ m = "HandNumber" /\ IsHandresetByHandNumber(v)
    \/ m = "CommunityCards" /\ IsHandresetByCommunityCards(v)
    \/ m = "Potsize" /\ IsHandresetByPotsize(v)
    \/ m = "Nopponentsplaying" /\ IsHandresetByNopponentsplaying(v)
    \/ m = "IncreasingBalance" /\ stale_balance
    \/ m = "ChangingBlindLevel" /\ IsHandresetByChangingBlindLevel(v)
    \/ m = "NewSmallBlind" /\ IsHandresetByNewSmallBlind(v)}

\* Mutant: the third heartbeat is forgotten.
IsHandresetInTwoHeartbeats(v) ==
  Cardinality(FiringHandresetMethods(v) \cup fired[1]) >= 2

\* At least two different methods fired during the last three heartbeats.
IsHandreset(v) ==
  Cardinality(FiringHandresetMethods(v) \cup fired[1] \cup fired[2]) >= 2

CountHandreset(handreset) ==
  handresets' = IF handreset /\ handresets # JoinedHand
                THEN Capped(handresets + 1, MaxHandresets) ELSE handresets

\* Mutant: the methods that fired are not cleared after a handreset.
CalculateIsHandresetWithoutClearing(v) ==
  /\ fired' = <<FiringHandresetMethods(v), fired[1]>>
  /\ CountHandreset(IsHandreset(v))

CalculateIsHandreset(v) ==
  /\ fired' = IF IsHandreset(v) THEN <<{}, {}>>
              ELSE <<FiringHandresetMethods(v), fired[1]>>
  /\ CountHandreset(IsHandreset(v))

StoreOldValuesForComparisonOnNextHeartbeat(v) == last' = v

-----------------------------------------------------------------------------
(* The symbol engines                                                      *)

\* Mutant: the small blind gets locked instead of the big blind.
AutoLockSmallBlind(s, handreset) ==
  LET kept == IF handreset THEN Unlocked ELSE locked IN
  locked' = IF kept = Unlocked /\ s.buttons THEN SmallBlind(s.level) ELSE kept

\* Mutant: a handreset leaves the blinds locked.
AutoLockBlindsForSession(s, handreset) ==
  locked' = IF locked = Unlocked /\ s.buttons THEN s.level ELSE locked

\* CSymbolEngineTableLimits at a tournament: the blinds of the title get locked
\* when the buttons of the user are visible, in CalcTableLimits() or, after a
\* handreset, in ResetOnHeartbeat().
AutoLockBlinds(s, handreset) ==
  LET kept == IF handreset THEN Unlocked ELSE locked IN
  locked' = IF kept = Unlocked /\ s.buttons THEN s.level ELSE kept

\* CSymbolEngineHistory::ResetOnHandreset
ResetHistory(handreset) ==
  actions' = IF handreset THEN [r \in Round |-> 0] ELSE actions

Userchair(s) == engines.userchair \/ HasKnownCards(s)

\* An occluded dealer button stays where it was.
Dealerchair(s) == IF s.dealer # NoDealer THEN s.dealer ELSE engines.dealer

BestTableLimitsToBeUsed(s) == IF locked' # Unlocked THEN locked' ELSE s.level

\* ResetOnHeartbeat() of the engines the detector asks.
CalculateSymbols(s) ==
  engines' =
    [userchair |-> Userchair(s), dealer |-> Dealerchair(s),
     bblind |-> BestTableLimitsToBeUsed(s), opponents |-> s.opponents, pot |-> s.pot]

-----------------------------------------------------------------------------
(* CStableFramesCounter                                                    *)

NothingSaved == <<>>

\* The items it compares, and those it does not.
Compared(s) == <<s.dealer, s.cards, s.community, s.opponents, s.bets, s.buttons>>

UserMayAct(s) == s.buttons /\ HasKnownCards(s)

\* Reset() after a frame that differs: the next frame gets saved.
UpdateNumberOfStableFrames(s) ==
  LET same == Compared(s) = saved IN
  /\ saved' = IF saved = NothingSaved THEN Compared(s)
              ELSE IF same THEN saved ELSE NothingSaved
  /\ frames' = IF same THEN Capped(frames + 1, FrameDelay) ELSE 0

\* CSymbolEngineAutoplayer::CalculateFinalAnswer; scraped: in a new scrape.
CalculateFinalAnswer(s, scraped) ==
  IF UserMayAct(s)
  THEN /\ UpdateNumberOfStableFrames(s)
       /\ scrapes' = IF saved' = saved
                     THEN Capped(scrapes + (IF scraped THEN 1 ELSE 0), FrameDelay) ELSE 0
  ELSE UNCHANGED counter

-----------------------------------------------------------------------------
(* The heartbeat                                                           *)

\* CEngineContainer::EvaluateAll
EvaluateAll(s, scraped) ==
  LET v == GetNewSymbolValues(s) IN
  /\ CalculateBetround(s)
  /\ CalculateIsHandreset(v)
  /\ StoreOldValuesForComparisonOnNextHeartbeat(v)
  /\ AutoLockBlinds(s, IsHandreset(v))
  /\ ResetHistory(IsHandreset(v))
  /\ CalculateSymbols(s)
  /\ CalculateFinalAnswer(s, scraped)
  /\ UNCHANGED <<hand, table, stale_balance, mistakes>>

Heartbeat ==
  /\ pc = "scrape"
  /\ \E s \in Scrapes :
       /\ shown' = s
       /\ EvaluateAll(s, TRUE)
  /\ before' = table
  /\ evaluations' = Capped(evaluations + 1, MaxEvaluations)
  /\ pc' = "act"

\* CFlagsToolbar::OnClickedFlags, in the GUI thread; "quiet": when the last
\* heartbeat saw all there was to see, and nothing changed since.
OnClickedFlags ==
  /\ (IF shown = before /\ shown = table THEN "quiet" ELSE "busy") \in FlagClicks
  /\ EvaluateAll(shown, FALSE)
  /\ evaluations' = IF JustBegun THEN 0 ELSE Capped(evaluations + 1, MaxEvaluations)
  /\ UNCHANGED <<before, shown, pc>>

IsFinalAnswer == UserMayAct(shown) /\ frames >= FrameDelay

CanAct == pc = "act" /\ IsFinalAnswer

\* The bot decides on a view of the current hand.
SeesHand == shown.cards = table.cards

\* A primary action gets registered, and the stable frames are counted anew.
Act ==
  /\ CanAct
  /\ actions' = [actions EXCEPT ![betround] = Capped(actions[betround] + 1, MaxActions)]
  /\ acted' = IF SeesHand
              THEN [acted EXCEPT ![betround] = Capped(acted[betround] + 1, MaxActions)]
              ELSE acted
  /\ mistaken' = (mistaken \/ ~SeesHand)
  /\ saved' = NothingSaved
  /\ frames' = 0
  /\ scrapes' = 0
  /\ pc' = "scrape"
  /\ UNCHANGED <<casino, before, shown, engines, locked, detector, betround, handresets,
                 evaluations>>

Wait ==
  /\ pc = "act"
  /\ pc' = "scrape"
  /\ UNCHANGED <<casino, before, shown, engines, locked, detector, betround, actions,
                 counter, handresets, mistakes, evaluations>>

-----------------------------------------------------------------------------
(* Connections                                                             *)

\* What ResetOnConnection() of the engines leaves.
NoSymbols ==
  [userchair |-> FALSE, dealer |-> NoDealer, bblind |-> 0, opponents |-> 0, pot |-> 0]

\* A table to which the auto-connector attaches, in any hand of it.
Joined(h) ==
  LET flop(t) == [t EXCEPT !.community = 3, !.bets = NoBet, !.pot = LargePot(t.level)]
  IN Dealt(h) \cup {flop(t) : t \in Dealt(h)}

\* The auto-connector attaches to another table.  The table state and the engines
\* are reset; the detector, the betting round and the stable frames are not.
Connect ==
  /\ hand < Hands
  /\ pc = "scrape"
  /\ ~JustBegun
  /\ hand' = hand + 1
  /\ evaluations' = 0
  /\ table' \in Joined(hand + 1)
  /\ before' = table'
  /\ shown' = EmptyTable
  /\ engines' = NoSymbols
  /\ locked' = Unlocked
  /\ actions' = [r \in Round |-> 0]
  /\ acted' = [r \in Round |-> 0]
  /\ mistaken' = FALSE
  /\ handresets' = JoinedHand
  /\ UNCHANGED <<detector, betround, counter, pc>>

-----------------------------------------------------------------------------
(* The specification                                                       *)

Next == NewHand \/ Play \/ Heartbeat \/ OnClickedFlags \/ Act \/ Wait \/ Connect

Pots    == UNION {{0, SmallPot(l), LargePot(l)} : l \in Levels}
Bets    == UNION {{NoBet, SmallBlind(l), l} : l \in Levels}
Cards   ==
  LET Slot(i) == {NoCard} \cup {CardsOf[h][i] : h \in 0 .. Hands}
  IN Slot(1) \X Slot(2)
Dealers == 0 .. (Chairs - 1)

\* Tables the casino has to show, and scrapes of them.
Tables ==
  [dealer : Dealers, cards : Cards, handnumber : 0 .. (Hands + 1), community : {0, 3},
   pot : Pots, opponents : Opponents, bets : Bets, level : Levels, buttons : BOOLEAN]

Views ==
  [dealer : Dealers \cup {NoDealer}, cards : Cards, handnumber : 0 .. (Hands + 1),
   community : {0, 1, 3}, pot : Pots, opponents : Opponents \cup {0}, bets : Bets,
   level : Levels \cup {0}, buttons : BOOLEAN]

SavedViews ==
  (Dealers \cup {NoDealer}) \X Cards \X {0, 1, 3} \X (Opponents \cup {0}) \X Bets
  \X BOOLEAN

Stored ==
  [dealer : Dealers \cup {NoDealer}, cards : Cards, handnumber : 0 .. (Hands + 1),
   community : {0, 1, 3}, pot : Pots, opponents : Opponents \cup {0, Garbage},
   bblind : Levels \cup {0}, small_blind : BOOLEAN]

Symbols ==
  [userchair : BOOLEAN, dealer : Dealers \cup {NoDealer}, bblind : Levels \cup {0},
   opponents : Opponents \cup {0}, pot : Pots]

Count(bound) == [Round -> 0 .. bound]

TypeOK ==
  /\ hand \in 0 .. Hands
  /\ table \in Tables
  /\ before \in Tables
  /\ shown \in Views
  /\ engines \in Symbols
  /\ locked \in Levels \cup {Unlocked}
  /\ last \in Stored
  /\ fired \in (SUBSET Method) \X (SUBSET Method)
  /\ stale_balance \in BOOLEAN
  /\ betround \in Round
  /\ actions \in Count(MaxActions)
  /\ acted \in Count(MaxActions)
  /\ mistaken \in BOOLEAN
  /\ handresets \in JoinedHand .. MaxHandresets
  /\ evaluations \in 0 .. MaxEvaluations
  /\ saved = NothingSaved \/ saved \in SavedViews
  /\ frames \in 0 .. FrameDelay
  /\ scrapes \in 0 .. FrameDelay
  /\ pc \in {"scrape", "act"}

\* The constructor of the detector initialises neither the values for comparison
\* nor the methods that fired, and the balances for comparison are never
\* written.  What is there may make some methods fire in the first heartbeat;
\* the others cannot fire before the engines know their values.
Init ==
  /\ hand = 0
  /\ table \in Joined(0)
  /\ before = table
  /\ shown = EmptyTable
  /\ engines = NoSymbols
  /\ locked = Unlocked
  /\ \E community \in {0, 3}, opponents \in {Garbage, 0} :
       last = [dealer |-> NoDealer, cards |-> NoCards, handnumber |-> NoNumber,
               community |-> community, pot |-> 0, opponents |-> opponents,
               bblind |-> 0, small_blind |-> FALSE]
  /\ fired \in {<<{}, {}>>, <<Method, Method>>}
  /\ stale_balance \in BOOLEAN
  /\ betround = "preflop"
  /\ actions = [r \in Round |-> 0]
  /\ saved = NothingSaved
  /\ frames = 0
  /\ scrapes = 0
  /\ pc = "scrape"
  /\ handresets = JoinedHand
  /\ acted = [r \in Round |-> 0]
  /\ mistaken = FALSE
  /\ evaluations = 0

Spec == Init /\ [][Next]_vars

-----------------------------------------------------------------------------
(* Properties                                                              *)

\* Whenever the bot may act in a hand that began while it watched the table, the
\* handreset of that hand is done: no symbol the bot uses is one of the last hand.
\* The signs of a hand come one by one, late, and from engines that are a heartbeat
\* behind, but two of them fall into the three heartbeats the detector looks at.
EveryHandDetected == CanAct /\ SeesHand => handresets # 0

\* Whenever the bot may act, the history of its actions (didcall, prevaction, ...)
\* holds the actions it took in this hand: none of the last hand, and no late
\* handreset erased one of this hand.  Nothing but the number of stable frames
\* keeps the second handreset of a hand before the first action.  A balance for
\* comparison that is never written may make a method fire in every heartbeat;
\* then any other method resets the hand.  And the bot may have taken the cards of the
\* last hand, drawn late, for those of this one.
ActionsOfThisHand ==
  CanAct /\ SeesHand /\ ~stale_balance /\ ~mistaken => actions = acted

\* Claim: the history forgets what the bot did on cards of the last hand.
MistakesForgotten == CanAct /\ SeesHand /\ ~stale_balance => actions = acted

\* Whenever the bot may act, the symbol bblind is the big blind of this hand, although
\* it is locked at the first sight of buttons, may be locked for a last hand of another
\* level, and only a handreset unlocks it.  A level that is drawn late breaks it:
\* "IsMyTurn guarantees stable input" holds for the items that stable frames compare.
BlindOfThisHand == CanAct /\ SeesHand => engines.bblind = table.level

\* Once the bot has acted in a hand the blinds stay locked as they are, to the end of
\* the hand: no late handreset unlocks them, to be locked at another view.
BlindsStayLocked ==
  [][hand' = hand /\ acted # [r \in Round |-> 0] /\ ~stale_balance => locked' = locked]_vars

\* "Clear data to avoid multiple fast handreset with already used methods, if casino
\* needs several heartbeats to update table view": a hand is reset, and counted by
\* handsplayed, once.
OneResetPerHand == handresets <= 1

\* CalculateFinalAnswer "updates stable-frames-counter as a side-effect and should
\* therefore only get called once per heartbeat": a frame that is counted as stable
\* is a scrape of its own.
FramesAreHeartbeats == frames <= scrapes
=============================================================================
