-------------------------- MODULE HandStateProofs --------------------------
(* Theorems about HandState, for every number of hands, chairs, levels and *)
(* opponents, whatever the casino draws late: the types; then, that every  *)
(* hand is detected before the bot acts in it, and that the history holds  *)
(* the actions of this hand.  The second argument counts evaluations: at   *)
(* the third one of a hand the sign of the dealer came, and that of the    *)
(* hand number or of the cards of the user, both among the last three; and *)
(* a view is not stable enough to act on before the third one.             *)
EXTENDS HandState, FiniteSetTheorems, TLAPS

LEMMA PairsOfCards ==
  /\ NoCards \in Cards
  /\ \A h \in 0 .. Hands : CardsOf[h] \in Cards
  /\ \A c, d \in Cards : /\ <<c[1], d[2]>> \in Cards
                         /\ c[1] = d[1] /\ c[2] = d[2] => c = d
<1> DEFINE Slot(i) == {NoCard} \cup {CardsOf[h][i] : h \in 0 .. Hands}
<1>1. Cards = Slot(1) \X Slot(2)
  BY DEF Cards
<1>2. NoCard \in Slot(1) /\ NoCard \in Slot(2)
  OBVIOUS
<1>3. ASSUME NEW h \in 0 .. Hands
      PROVE  CardsOf[h] \in Slot(1) \X Slot(2)
  <2>1. CardsOf[h] \in Card \X Card
    BY ConstantsAssumption DEF ConstantsAssumption
  <2>2. CardsOf[h] = <<CardsOf[h][1], CardsOf[h][2]>>
    BY <2>1
  <2>3. CardsOf[h][1] \in Slot(1) /\ CardsOf[h][2] \in Slot(2)
    OBVIOUS
  <2> QED
    BY <2>2, <2>3
<1> HIDE DEF Slot
<1>4. NoCards \in Cards
  BY <1>1, <1>2 DEF NoCards
<1>5. ASSUME NEW c \in Cards, NEW d \in Cards
      PROVE  /\ <<c[1], d[2]>> \in Cards
             /\ c[1] = d[1] /\ c[2] = d[2] => c = d
  BY <1>1
<1> QED
  BY <1>1, <1>3, <1>4, <1>5

\* What the casino deals is a table.
LEMMA DealtTables ==
  ASSUME NEW h \in 0 .. Hands, NEW t \in Dealt(h)
  PROVE  t \in Tables
<1> USE ConstantsAssumption DEF ConstantsAssumption
<1>1. t \in Deals(h)
  BY DEF Dealt
<1>2. DealerOf(h) \in Dealers
  BY DEF DealerOf, Dealers
<1>3. CardsOf[h] \in Cards
  BY PairsOfCards
<1>4. NumberOf(h) \in 0 .. (Hands + 1)
  BY DEF NumberOf, NoNumber
<1>5. {SmallPot(l) : l \in Levels} \subseteq Pots
  BY DEF Pots
<1>6. UNION {{SmallBlind(l), l} : l \in Levels} \subseteq Bets
  BY DEF Bets
<1> QED
  BY <1>1, <1>2, <1>3, <1>4, <1>5, <1>6 DEF Deals, Tables

\* The flop comes.
LEMMA FlopTables ==
  ASSUME NEW t \in Tables, NEW b \in BOOLEAN
  PROVE  /\ [t EXCEPT !.community = 3, !.bets = NoBet, !.pot = LargePot(t.level),
                      !.buttons = b] \in Tables
         /\ [t EXCEPT !.community = 3, !.bets = NoBet, !.pot = LargePot(t.level)]
              \in Tables
<1>1. t.level \in Levels
  BY DEF Tables
<1>2. LargePot(t.level) \in Pots
  BY <1>1 DEF Pots
<1>3. NoBet \in Bets
  BY <1>1 DEF Bets
<1> QED
  BY <1>2, <1>3 DEF Tables

LEMMA PlayedTables ==
  ASSUME table \in Tables, NEW t \in Plays
  PROVE  t \in Tables
<1>1. CASE t \in {[table EXCEPT !.community = 3, !.bets = NoBet,
                                !.pot = LargePot(table.level),
                                !.buttons = b] : b \in BOOLEAN}
  BY <1>1, FlopTables
<1>2. CASE t \in {[table EXCEPT !.opponents = n] :
                    n \in {m \in Opponents : m < table.opponents}}
  BY <1>2 DEF Tables
<1>3. CASE t \in {[table EXCEPT !.buttons = b] : b \in BOOLEAN}
  BY <1>3 DEF Tables
<1>4. CASE t \in {[table EXCEPT !.cards = NoCards, !.buttons = FALSE]}
  BY <1>4, PairsOfCards DEF Tables
<1> QED
  BY <1>1, <1>2, <1>3, <1>4 DEF Plays

\* Both cards are old or new, or one of them is; or they are not recognized.
LEMMA ScrapedCards ==
  ASSUME NEW c \in DrawnCards
  PROVE  \/ c \in {table.cards, before.cards}
         \/ /\ "card" \in LateItems
            /\ c \in {NoCards, <<table.cards[1], before.cards[2]>>,
                      <<before.cards[1], table.cards[2]>>}
<1>1. Drawn("cards") \subseteq {table.cards, before.cards}
  BY DEF Drawn
<1>2. \A d : ScrapePlayerCards(d) \in {NoCards, d}
  BY DEF ScrapePlayerCards
<1> QED
  BY <1>1, <1>2 DEF DrawnCards

\* Whatever is drawn late, a scrape is a view.
LEMMA ScrapedViews ==
  ASSUME table \in Tables, before \in Tables, NEW s \in Scrapes
  PROVE  s \in Views
<1>1. ASSUME NEW item \in Items
      PROVE  Drawn(item) \subseteq {table[item], before[item]}
  BY DEF Drawn
<1>2. DrawnCommunity \subseteq {0, 1, 3}
  BY <1>1 DEF DrawnCommunity, Items, Tables
<1>3. DrawnCards \subseteq Cards
  <2>1. table.cards \in Cards /\ before.cards \in Cards
    BY DEF Tables
  <2> QED
    BY <2>1, PairsOfCards, ScrapedCards
<1> DEFINE Part(item) == {table[item], before[item]}
<1>4. /\ s \in [dealer : Part("dealer"), cards : Cards,
                handnumber : Part("handnumber"), community : {0, 1, 3},
                pot : Part("pot"), opponents : Part("opponents"),
                bets : Part("bets"), level : Part("level"), buttons : Part("buttons")]
  BY <1>1, <1>2, <1>3 DEF Scrapes, Items
<1> QED
  BY <1>4 DEF Tables, Views

-----------------------------------------------------------------------------
(* The parts of EvaluateAll                                                *)

LEMMA NewValues ==
  ASSUME engines \in Symbols, last \in Stored, NEW s \in Views
  PROVE  GetNewSymbolValues(s) \in Stored
<1>1. SmallBlindExists(s) \in BOOLEAN
  BY DEF SmallBlindExists
<1>2. (IF engines.dealer # NoDealer THEN engines.dealer ELSE last.dealer)
        \in Dealers \cup {NoDealer}
  BY DEF Symbols, Stored
<1>3. (IF engines.userchair THEN s.cards ELSE NoCards) \in Cards
  BY PairsOfCards DEF Views
<1> QED
  BY <1>1, <1>2, <1>3 DEF GetNewSymbolValues, Symbols, Stored, Views

LEMMA HandresetTypes ==
  ASSUME fired \in (SUBSET Method) \X (SUBSET Method),
         handresets \in JoinedHand .. MaxHandresets, NEW v, CalculateIsHandreset(v)
  PROVE  /\ fired' \in (SUBSET Method) \X (SUBSET Method)
         /\ handresets' \in JoinedHand .. MaxHandresets
<1>1. FiringHandresetMethods(v) \in SUBSET Method
  BY DEF FiringHandresetMethods
<1>2. fired[1] \in SUBSET Method
  OBVIOUS
<1>3. fired' \in (SUBSET Method) \X (SUBSET Method)
  BY <1>1, <1>2 DEF CalculateIsHandreset
<1>4. handresets' \in JoinedHand .. MaxHandresets
  BY DEF CalculateIsHandreset, CountHandreset, Capped, JoinedHand, MaxHandresets
<1> QED
  BY <1>3, <1>4

LEMMA SymbolTypes ==
  ASSUME engines \in Symbols, locked \in Levels \cup {Unlocked}, NEW s \in Views,
         NEW handreset \in BOOLEAN,
         AutoLockBlinds(s, handreset), CalculateSymbols(s)
  PROVE  /\ locked' \in Levels \cup {Unlocked}
         /\ engines' \in Symbols
<1>1. locked' \in Levels \cup {Unlocked}
  BY DEF AutoLockBlinds, Views, Unlocked
<1>2. Userchair(s) \in BOOLEAN
  BY DEF Userchair
<1>3. Dealerchair(s) \in Dealers \cup {NoDealer}
  BY DEF Dealerchair, Views, Symbols
<1>4. BestTableLimitsToBeUsed(s) \in Levels \cup {0}
  BY <1>1 DEF BestTableLimitsToBeUsed, Views, Unlocked
<1>5. engines' \in Symbols
  BY <1>2, <1>3, <1>4 DEF CalculateSymbols, Views, Symbols
<1> QED
  BY <1>1, <1>5

CounterOK ==
  /\ saved = NothingSaved \/ saved \in SavedViews
  /\ frames \in 0 .. FrameDelay
  /\ scrapes \in 0 .. FrameDelay

LEMMA CounterTypes ==
  ASSUME CounterOK, NEW s \in Views, NEW scraped \in BOOLEAN,
         CalculateFinalAnswer(s, scraped)
  PROVE  CounterOK'
<1> USE ConstantsAssumption DEF ConstantsAssumption
<1>1. CASE UserMayAct(s)
  <2>1. Compared(s) \in SavedViews
    BY DEF Compared, Views, SavedViews
  <2>2. (saved = NothingSaved \/ saved \in SavedViews)'
    BY <1>1, <2>1 DEF CounterOK, CalculateFinalAnswer, UpdateNumberOfStableFrames
  <2>3. frames' \in 0 .. FrameDelay
    BY <1>1 DEF CounterOK, CalculateFinalAnswer, UpdateNumberOfStableFrames, Capped
  <2>4. scrapes' \in 0 .. FrameDelay
    <3>1. scrapes' = 0 \/ scrapes' = Capped(scrapes + 1, FrameDelay)
            \/ scrapes' = Capped(scrapes + 0, FrameDelay)
      BY <1>1 DEF CalculateFinalAnswer
    <3> QED
      BY <3>1 DEF CounterOK, Capped
  <2> QED
    BY <2>2, <2>3, <2>4 DEF CounterOK
<1>2. CASE ~UserMayAct(s)
  BY <1>2 DEF CalculateFinalAnswer, counter, CounterOK
<1> QED
  BY <1>1, <1>2

LEMMA EvaluateAllTypes ==
  ASSUME TypeOK, NEW s \in Views, NEW scraped \in BOOLEAN, EvaluateAll(s, scraped)
  PROVE  /\ engines' \in Symbols
         /\ locked' \in Levels \cup {Unlocked}
         /\ last' \in Stored
         /\ fired' \in (SUBSET Method) \X (SUBSET Method)
         /\ betround' \in Round
         /\ actions' \in Count(MaxActions)
         /\ handresets' \in JoinedHand .. MaxHandresets
         /\ CounterOK'
         /\ UNCHANGED <<hand, table, stale_balance, mistakes>>
<1> DEFINE v == GetNewSymbolValues(s)
<1>1. /\ CalculateBetround(s)
      /\ CalculateIsHandreset(v)
      /\ StoreOldValuesForComparisonOnNextHeartbeat(v)
      /\ AutoLockBlinds(s, IsHandreset(v))
      /\ ResetHistory(IsHandreset(v))
      /\ CalculateSymbols(s)
      /\ CalculateFinalAnswer(s, scraped)
      /\ UNCHANGED <<hand, table, stale_balance, mistakes>>
  BY DEF EvaluateAll
<1>2. v \in Stored
  BY NewValues DEF TypeOK
<1>3. IsHandreset(v) \in BOOLEAN
  BY DEF IsHandreset
<1> HIDE DEF v
<1>4. last' \in Stored
  BY <1>1, <1>2 DEF StoreOldValuesForComparisonOnNextHeartbeat
<1>5. locked' \in Levels \cup {Unlocked} /\ engines' \in Symbols
  BY <1>1, <1>3, SymbolTypes DEF TypeOK
<1>6. fired' \in (SUBSET Method) \X (SUBSET Method) /\ handresets' \in JoinedHand .. MaxHandresets
  BY <1>1, HandresetTypes DEF TypeOK
<1>7. betround' \in Round
  BY <1>1 DEF CalculateBetround, TypeOK, Round
<1>8. actions' \in Count(MaxActions)
  BY <1>1 DEF ResetHistory, TypeOK, Count, MaxActions
<1>9. CounterOK'
  BY <1>1, CounterTypes DEF TypeOK, CounterOK
<1> QED
  BY <1>1, <1>4, <1>5, <1>6, <1>7, <1>8, <1>9

-----------------------------------------------------------------------------
(* Type correctness                                                        *)

LEMMA ZeroIsPot == 0 \in Pots
<1>1. PICK l \in Levels : TRUE
  BY ConstantsAssumption DEF ConstantsAssumption
<1>2. 0 \in {0, SmallPot(l), LargePot(l)}
  OBVIOUS
<1> QED
  BY <1>1, <1>2, Zenon DEF Pots

LEMMA EmptyTableIsView == EmptyTable \in Views
<1> USE ConstantsAssumption DEF ConstantsAssumption
<1>1. NoBet \in Bets
  BY DEF Bets
<1>2. 0 \in 0 .. (Hands + 1)
  OBVIOUS
<1> QED
  BY <1>1, <1>2, ZeroIsPot, PairsOfCards DEF EmptyTable, Views, NoDealer, NoNumber

LEMMA NoSymbolsTypes == NoSymbols \in Symbols
<1> QED
  BY ZeroIsPot DEF NoSymbols, Symbols, NoDealer

LEMMA JoinedTables ==
  ASSUME NEW h \in 0 .. Hands, NEW t \in Joined(h)
  PROVE  t \in Tables
<1>1. CASE t \in Dealt(h)
  BY <1>1, DealtTables
<1>2. ASSUME NEW d \in Dealt(h),
             t = [d EXCEPT !.community = 3, !.bets = NoBet, !.pot = LargePot(d.level)]
      PROVE  t \in Tables
  BY <1>2, DealtTables, FlopTables
<1> QED
  BY <1>1, <1>2 DEF Joined

LEMMA InitTypes == Init => TypeOK
<1> SUFFICES ASSUME Init PROVE TypeOK
  OBVIOUS
<1> USE ConstantsAssumption DEF ConstantsAssumption
<1>1. hand \in 0 .. Hands
  BY DEF Init
<1>2. table \in Tables /\ before \in Tables
  BY <1>1, JoinedTables DEF Init
<1>3. last \in Stored
  BY ZeroIsPot, PairsOfCards DEF Init, Stored, NoDealer, NoNumber, Garbage
<1>4. fired \in (SUBSET Method) \X (SUBSET Method)
  BY DEF Init
<1>5. actions \in Count(MaxActions) /\ acted \in Count(MaxActions)
  BY DEF Init, Count, MaxActions
<1>6. shown \in Views /\ engines \in Symbols
  BY EmptyTableIsView, NoSymbolsTypes DEF Init
<1>7. /\ locked \in Levels \cup {Unlocked} /\ betround \in Round
      /\ handresets \in JoinedHand .. MaxHandresets
      /\ evaluations \in 0 .. MaxEvaluations
  BY DEF Init, Round, JoinedHand, MaxHandresets, MaxEvaluations
<1>8. frames \in 0 .. FrameDelay /\ scrapes \in 0 .. FrameDelay
  BY DEF Init
<1> QED
  BY <1>1, <1>2, <1>3, <1>4, <1>5, <1>6, <1>7, <1>8 DEF Init, TypeOK

\* An action more in a betting round.
LEMMA ActionCounted ==
  ASSUME NEW count \in Count(MaxActions), NEW r \in Round
  PROVE  [count EXCEPT ![r] = Capped(count[r] + 1, MaxActions)] \in Count(MaxActions)
<1> QED
  BY DEF Count, Capped, MaxActions

LEMMA NextTypes == TypeOK /\ [Next]_vars => TypeOK'
<1> SUFFICES ASSUME TypeOK, [Next]_vars PROVE TypeOK'
  OBVIOUS
<1> USE ConstantsAssumption DEF ConstantsAssumption
<1>1. CASE NewHand
  <2>1. PICK t \in Dealt(hand + 1) : CasinoShows(t)
    BY <1>1 DEF NewHand
  <2>2. hand' \in 0 .. Hands
    BY <1>1 DEF NewHand, TypeOK
  <2>3. table' \in Tables
    BY <1>1, <2>1, <2>2, DealtTables DEF NewHand, CasinoShows
  <2>4. acted' \in Count(MaxActions)
    BY <1>1 DEF NewHand, Count, MaxActions
  <2>5. handresets' \in JoinedHand .. MaxHandresets /\ evaluations' \in 0 .. MaxEvaluations
    BY <1>1 DEF NewHand, JoinedHand, MaxHandresets, MaxEvaluations
  <2> QED
    BY <1>1, <2>1, <2>2, <2>3, <2>4, <2>5
    DEF NewHand, CasinoShows, TypeOK, detector, counter
<1>2. CASE Play
  <2>1. PICK t \in Plays : CasinoShows(t)
    BY <1>2 DEF Play
  <2>2. table' \in Tables
    BY <2>1, PlayedTables DEF CasinoShows, TypeOK
  <2> QED
    BY <1>2, <2>1, <2>2 DEF Play, CasinoShows, TypeOK, detector, counter, mistakes
<1>3. CASE Heartbeat
  <2>1. PICK s \in Scrapes : shown' = s /\ EvaluateAll(s, TRUE)
    BY <1>3 DEF Heartbeat
  <2>2. s \in Views
    BY ScrapedViews DEF TypeOK
  <2>3. before' \in Tables /\ pc' \in {"scrape", "act"}
    BY <1>3 DEF Heartbeat, TypeOK
  <2>4. evaluations' \in 0 .. MaxEvaluations
    BY <1>3 DEF Heartbeat, TypeOK, Capped, MaxEvaluations
  <2> QED
    BY <2>1, <2>2, <2>3, <2>4, EvaluateAllTypes DEF TypeOK, CounterOK, mistakes
<1>4. CASE OnClickedFlags
  <2>1. EvaluateAll(shown, FALSE) /\ UNCHANGED <<before, shown, pc>>
    BY <1>4 DEF OnClickedFlags
  <2>2. shown \in Views
    BY DEF TypeOK
  <2>3. evaluations' \in 0 .. MaxEvaluations
    BY <1>4 DEF OnClickedFlags, TypeOK, Capped, MaxEvaluations
  <2> QED
    BY <2>1, <2>2, <2>3, EvaluateAllTypes DEF TypeOK, CounterOK, mistakes
<1>5. CASE Act
  <2>1. actions' \in Count(MaxActions)
    BY <1>5, ActionCounted DEF Act, TypeOK
  <2>2. acted' \in Count(MaxActions) /\ mistaken' \in BOOLEAN
    BY <1>5, ActionCounted DEF Act, TypeOK, SeesHand
  <2>3. saved' = NothingSaved /\ frames' = 0 /\ scrapes' = 0 /\ pc' = "scrape"
    BY <1>5 DEF Act
  <2>4. UNCHANGED <<hand, table, before, shown, engines, locked, last, fired, stale_balance,
                    betround, handresets, evaluations>>
    BY <1>5 DEF Act, casino, detector
  <2> QED
    BY <2>1, <2>2, <2>3, <2>4 DEF TypeOK
<1>6. CASE Wait
  BY <1>6 DEF Wait, TypeOK, casino, detector, counter, mistakes
<1>7. CASE Connect
  <2>1. hand' \in 0 .. Hands
    BY <1>7 DEF Connect, TypeOK
  <2>2. table' \in Tables /\ before' \in Tables
    BY <1>7, <2>1, JoinedTables DEF Connect
  <2>3. shown' \in Views /\ engines' \in Symbols
    BY <1>7, EmptyTableIsView, NoSymbolsTypes DEF Connect
  <2>4. actions' \in Count(MaxActions) /\ acted' \in Count(MaxActions)
    BY <1>7 DEF Connect, Count, MaxActions
  <2>5. handresets' \in JoinedHand .. MaxHandresets /\ evaluations' \in 0 .. MaxEvaluations
    BY <1>7 DEF Connect, JoinedHand, MaxHandresets, MaxEvaluations
  <2> QED
    BY <1>7, <2>1, <2>2, <2>3, <2>4, <2>5 DEF Connect, TypeOK, detector, counter
<1>8. CASE UNCHANGED vars
  BY <1>8 DEF vars, TypeOK, casino, detector, counter, mistakes
<1> QED
  BY <1>1, <1>2, <1>3, <1>4, <1>5, <1>6, <1>7, <1>8 DEF Next

\* Every variable keeps its type: for example no casino, and no late item, makes
\* the engines or the detector hold a blind that is not one of the levels.
THEOREM TypeCorrect == Spec => []TypeOK
<1> QED
  BY InitTypes, NextTypes, PTL DEF Spec

-----------------------------------------------------------------------------
(* Stable frames                                                           *)

\* One evaluation counts at most one frame, and none that is no scrape.
LEMMA CountedOnce ==
  ASSUME CounterOK, FramesAreHeartbeats, NEW s \in Views, CalculateFinalAnswer(s, TRUE)
  PROVE  FramesAreHeartbeats'
<1> USE ConstantsAssumption DEF ConstantsAssumption
<1>1. CASE UserMayAct(s) /\ Compared(s) = saved
  <2>1. saved # NothingSaved
    BY <1>1 DEF Compared, NothingSaved
  <2>2. /\ frames' = Capped(frames + 1, FrameDelay)
        /\ scrapes' = Capped(scrapes + 1, FrameDelay)
    BY <1>1, <2>1 DEF CalculateFinalAnswer, UpdateNumberOfStableFrames
  <2> QED
    BY <2>2 DEF FramesAreHeartbeats, CounterOK, Capped
<1>2. CASE UserMayAct(s) /\ Compared(s) # saved
  <2>1. frames' = 0
    BY <1>2 DEF CalculateFinalAnswer, UpdateNumberOfStableFrames
  <2>2. scrapes' \in 0 .. FrameDelay
    BY CounterTypes DEF CounterOK
  <2> QED
    BY <2>1, <2>2 DEF FramesAreHeartbeats
<1>3. CASE ~UserMayAct(s)
  BY <1>3 DEF CalculateFinalAnswer, counter, FramesAreHeartbeats
<1> QED
  BY <1>1, <1>2, <1>3

\* Unless the GUI thread evaluates as well, a stable frame is a scrape of its own:
\* what CalculateFinalAnswer takes for granted, and what clicks on flags refute.
THEOREM FramesCountHeartbeats ==
  ASSUME FlagClicks = {}
  PROVE  Spec => []FramesAreHeartbeats
<1> DEFINE Inv == TypeOK /\ FramesAreHeartbeats
<1>1. Init => Inv
  <2>1. Init => FramesAreHeartbeats
    BY DEF Init, FramesAreHeartbeats
  <2> QED
    BY <2>1, InitTypes
<1>2. Inv /\ [Next]_vars => Inv'
  <2> SUFFICES ASSUME TypeOK, FramesAreHeartbeats, [Next]_vars
               PROVE  FramesAreHeartbeats'
    BY NextTypes
  <2>1. CASE Heartbeat
    <3>1. PICK s \in Scrapes : EvaluateAll(s, TRUE)
      BY <2>1 DEF Heartbeat
    <3>2. s \in Views
      BY ScrapedViews DEF TypeOK
    <3>3. CalculateFinalAnswer(s, TRUE)
      BY <3>1 DEF EvaluateAll
    <3> QED
      BY <3>2, <3>3, CountedOnce DEF TypeOK, CounterOK
  <2>2. CASE Act
    BY <2>2 DEF Act, FramesAreHeartbeats
  <2>3. ASSUME UNCHANGED counter PROVE FramesAreHeartbeats'
    BY <2>3 DEF counter, FramesAreHeartbeats
  <2>4. ~OnClickedFlags
    BY DEF OnClickedFlags
  <2>5. CASE NewHand \/ Play \/ Wait \/ Connect \/ UNCHANGED vars
    <3>1. UNCHANGED counter
      BY <2>5 DEF NewHand, Play, CasinoShows, Wait, Connect, vars, counter
    <3> QED
      BY <3>1, <2>3
  <2> QED
    BY <2>1, <2>2, <2>4, <2>5 DEF Next
<1>3. Inv => FramesAreHeartbeats
  OBVIOUS
<1> QED
  BY <1>1, <1>2, <1>3, PTL DEF Spec

-----------------------------------------------------------------------------

\* The cards that may be seen in a hand: both of its own, or one of them with one of
\* the last hand.
SeenCards(h) ==
  {CardsOf[h]}
  \cup IF "card" \in LateItems /\ h > 0
       THEN {<<CardsOf[h][1], CardsOf[h - 1][2]>>, <<CardsOf[h - 1][1], CardsOf[h][2]>>}
       ELSE {}

\* The hands of a session look different: the cards of none were seen before.
CardsDiffer == \A h \in 0 .. Hands : \A g \in 0 .. (h - 1) : CardsOf[h] \notin SeenCards(g)

\* IsHandresetByUserCards fires once in every hand if both cards are others than in the
\* two hands before, and are drawn together.
SignOfCards ==
  /\ "card" \notin LateItems
  /\ \A h \in 0 .. Hands : \A g \in 0 .. (h - 1) :
       g >= h - 2 => CardsOf[g][1] # CardsOf[h][1] /\ CardsOf[g][2] # CardsOf[h][2]

\* With two chairs the dealer is after two hands where he was: then he has to be seen
\* in every hand.
DealersDiffer == Chairs >= 3 \/ "dealer" \notin LateItems

\* With less than two stable frames the bot acts at the second evaluation of a hand;
\* and a click on a flag repeats an evaluation of an incomplete view.  The dealer is one
\* sign of a new hand; another one has to be the number of the hand or the cards.
UsualSession ==
  /\ CardsDiffer /\ DealersDiffer /\ FrameDelay >= 2 /\ FlagClicks \subseteq {"quiet"}
  /\ HandNumbers \/ SignOfCards

-----------------------------------------------------------------------------
(* The invariant: what is known of the hand                                *)

Joining == handresets = JoinedHand
NoActions == [r \in Round |-> 0]

\* Cards that were seen until hand h, or cards one of which is not known.
SeenUntil(cards, h) ==
  cards[1] = NoCard \/ cards[2] = NoCard \/ \E k \in 0 .. h : cards \in SeenCards(k)

\* The cards of hand h and of the one before.
RecentCards(h) == {NoCards} \cup {CardsOf[k] : k \in {j \in 0 .. h : j >= h - 1}}

\* The last hand that anything seen so far may belong to.
LastSeen == IF JustBegun /\ ~Joining THEN hand - 1 ELSE hand

KnownCards ==
  /\ table.cards \in {NoCards, CardsOf[hand]}
  /\ before.cards \in {NoCards, CardsOf[LastSeen]}
  /\ saved # NothingSaved => SeenUntil(saved[2], LastSeen)
  /\ SignOfCards /\ ~(JustBegun /\ Joining) => last.cards \in RecentCards(LastSeen)

KnownNumbers ==
  HandNumbers => /\ table.handnumber = hand + 1
                 /\ before.handnumber <= LastSeen + 1
                 /\ last.handnumber <= LastSeen + 1

\* The dealers the engines may know, when the last one they saw is that of hand h.
DealersKnown(h) ==
  {DealerOf(h)} \cup IF "dealer" \in LateItems THEN {DealerOf(h - 1)} ELSE {}

\* The dealer the engines know sits at most two hands behind.
KnownDealers ==
  /\ table.dealer = DealerOf(hand)
  /\ JustBegun /\ ~Joining =>
       /\ hand > 0
       /\ before.dealer = DealerOf(hand - 1)
       /\ engines.dealer \in DealersKnown(hand - 1)
  /\ JustBegun /\ Joining => engines.dealer = NoDealer
  /\ ~JustBegun => engines.dealer \in DealersKnown(hand)

\* u may be a later view of the hand t is a view of.
Follows(t, u) ==
  /\ u.dealer = t.dealer
  /\ u.handnumber = t.handnumber
  /\ u.level = t.level
  /\ u.opponents <= t.opponents
  /\ t.pot <= u.pot
  /\ t.community <= u.community
  /\ u.bets \in {t.bets, NoBet}
  /\ u.cards[1] \in {t.cards[1], NoCard} /\ u.cards[2] \in {t.cards[2], NoCard}

ViewsFollow ==
  /\ table.pot <= LargePot(table.level)
  /\ Joining \/ ~JustBegun => Follows(before, table)
  /\ evaluations >= 2 \/ (Joining /\ ~JustBegun) => Follows(shown, before)

\* The engines hold what the last heartbeat showed.
EnginesFollow ==
  /\ engines.dealer = shown.dealer
  /\ engines.opponents = shown.opponents
  /\ engines.pot = shown.pot
  /\ engines.bblind = IF locked # Unlocked THEN locked ELSE shown.level
  /\ HasKnownCards(shown) => engines.userchair

\* A view that may be acted on is the one that gets counted.
Counted ==
  /\ saved = NothingSaved => frames = 0
  /\ pc = "act" /\ UserMayAct(shown) => saved = NothingSaved \/ saved = Compared(shown)
  /\ JustBegun => pc = "scrape"

SavedOfHand     == saved # NothingSaved /\ saved[2] = table.cards
FramesOfHand(n) == SavedOfHand => frames <= n
DealerToCome    == last.dealer \notin {NoDealer, table.dealer}

\* The other sign of a hand, besides the dealer.
OtherSign   == IF HandNumbers THEN "HandNumber" ELSE "UserCards"
OtherToCome == IF HandNumbers THEN last.handnumber # table.handnumber
                              ELSE last.cards # table.cards

\* The signs of a hand: they fired in the window of the detector, or will.
SignsCome ==
  table.cards # NoCards =>
  /\ evaluations = 0 => ~SavedOfHand
  /\ evaluations = 1 =>
       /\ SavedOfHand => frames <= 0 /\ saved = Compared(shown)
       /\ ~Joining => DealerToCome
       /\ handresets = 0 => OtherSign \in fired[1] \/ OtherToCome
  /\ evaluations = 2 =>
       /\ FramesOfHand(1)
       /\ handresets = 0 => /\ FramesOfHand(0)
                            /\ "DealerChair" \in fired[1] \/ DealerToCome
                            /\ OtherSign \in fired[1] \cup fired[2] \/ OtherToCome
  /\ evaluations = 3 => handresets # 0

Detection ==
  /\ TypeOK /\ KnownCards /\ KnownNumbers /\ KnownDealers
  /\ ViewsFollow /\ EnginesFollow /\ Counted /\ SignsCome

-----------------------------------------------------------------------------
(* Dealers, views and signs                                                *)

LEMMA RealDealer ==
  ASSUME NEW h \in Int
  PROVE  DealerOf(h) \in Dealers /\ DealerOf(h) # NoDealer
<1> QED
  BY ConstantsAssumption DEF ConstantsAssumption, DealerOf, Dealers, NoDealer

LEMMA Division ==
  ASSUME NEW h \in Int, NEW n \in Nat, n > 0
  PROVE  /\ h = n * (h \div n) + (h % n)
         /\ h \div n \in Int
         /\ h % n \in Int
<1> QED
  OBVIOUS

LEMMA NoSmallMultiple ==
  ASSUME NEW d \in Int, NEW n \in Nat, NEW e \in Nat, 0 < e, e < n
  PROVE  n * d # e
<1>1. CASE d <= 0
  <2>1. n * d <= 0
    BY <1>1
  <2> QED
    BY <2>1
<1>2. CASE d >= 1
  <2>1. n * d >= n
    BY <1>2
  <2> QED
    BY <2>1
<1> QED
  BY <1>1, <1>2

LEMMA OtherRemainder ==
  ASSUME NEW h \in Int, NEW n \in Nat, NEW e \in Nat, 0 < e, e < n
  PROVE  h % n # (h - e) % n
<1> SUFFICES ASSUME h % n = (h - e) % n
             PROVE  FALSE
  OBVIOUS
<1> DEFINE p == h \div n
           q == (h - e) \div n
<1>1. h = n * p + (h % n) /\ p \in Int /\ h % n \in Int
  BY Division
<1>2. h - e = n * q + ((h - e) % n) /\ q \in Int
  BY Division
<1> HIDE DEF p, q
<1>3. n * p - n * q = e
  BY <1>1, <1>2
<1>4. n * (p - q) = n * p - n * q
  BY <1>1, <1>2
<1>5. p - q \in Int
  BY <1>1, <1>2
<1>6. n * (p - q) # e
  BY <1>5, NoSmallMultiple, Zenon
<1> QED
  BY <1>3, <1>4, <1>6

\* The dealer sat elsewhere in the last hand, and at a table with three chairs in the
\* hand before it, too.
LEMMA DealerMoves ==
  ASSUME NEW h \in Int
  PROVE  /\ DealerOf(h) # DealerOf(h - 1)
         /\ Chairs >= 3 => DealerOf(h) # DealerOf(h - 2)
<1>1. Chairs \in Nat /\ Chairs >= 2
  BY ConstantsAssumption DEF ConstantsAssumption
<1>2. h % Chairs # (h - 1) % Chairs
  <2>1. 1 \in Nat /\ 0 < 1 /\ 1 < Chairs
    BY <1>1
  <2> QED
    BY <1>1, <2>1, OtherRemainder, Zenon
<1>3. ASSUME Chairs >= 3
      PROVE  h % Chairs # (h - 2) % Chairs
  <2>1. 2 \in Nat /\ 0 < 2 /\ 2 < Chairs
    BY <1>1, <1>3
  <2> QED
    BY <1>1, <2>1, OtherRemainder, Zenon
<1> QED
  BY <1>2, <1>3 DEF DealerOf

\* When a hand begins the engines know the dealer of another one.
LEMMA OldDealer ==
  ASSUME Detection, UsualSession, JustBegun, ~Joining
  PROVE  engines.dealer \notin {NoDealer, table.dealer}
<1>1. hand \in Int /\ (hand - 1) - 1 = hand - 2
  BY ConstantsAssumption DEF ConstantsAssumption, Detection, TypeOK
<1>2. table.dealer = DealerOf(hand) /\ engines.dealer \in DealersKnown(hand - 1)
  BY DEF Detection, KnownDealers
<1>3. DealerOf(hand - 1) # NoDealer /\ DealerOf(hand - 2) # NoDealer
  BY <1>1, RealDealer
<1>4. DealerOf(hand) # DealerOf(hand - 1)
  BY <1>1, DealerMoves
<1>5. "dealer" \in LateItems => DealerOf(hand) # DealerOf(hand - 2)
  BY <1>1, DealerMoves DEF UsualSession, DealersDiffer
<1> QED
  BY <1>1, <1>2, <1>3, <1>4, <1>5 DEF DealersKnown

LEMMA Blinds ==
  ASSUME NEW level \in Nat
  PROVE  /\ SmallBlind(level) \in Nat /\ SmallBlind(level) <= level
         /\ SmallPot(level) \in Nat /\ LargePot(level) \in Nat
         /\ SmallPot(level) <= LargePot(level)
<1>1. level \div 2 \in Nat /\ level \div 2 <= level
  OBVIOUS
<1> HIDE DEF SmallBlind
<1> QED
  BY <1>1 DEF SmallBlind, SmallPot, LargePot

LEMMA Amounts == Pots \subseteq Nat /\ Bets \subseteq Nat /\ Opponents \subseteq Nat
                 /\ Levels \subseteq Nat
<1>1. Levels \subseteq Nat /\ Opponents \subseteq Nat
  BY ConstantsAssumption DEF ConstantsAssumption
<1>2. ASSUME NEW l \in Levels
      PROVE  {0, SmallPot(l), LargePot(l)} \subseteq Nat /\ {NoBet, SmallBlind(l), l} \subseteq Nat
  <2>1. SmallPot(l) \in Nat /\ LargePot(l) \in Nat /\ SmallBlind(l) \in Nat /\ l \in Nat
    BY <1>1, Blinds
  <2> QED
    BY <2>1 DEF NoBet
<1> QED
  BY <1>1, <1>2 DEF Pots, Bets

LEMMA TablesAreViews == Tables \subseteq Views
<1> QED
  BY DEF Tables, Views

LEMMA NumbersOfViews ==
  ASSUME NEW t \in Views
  PROVE  /\ t.opponents \in Nat
         /\ t.pot \in Nat
         /\ t.bets \in Nat
         /\ t.level \in Nat
         /\ t.community \in {0, 1, 3}
<1>1. /\ t.opponents \in Opponents \cup {0} /\ t.pot \in Pots /\ t.bets \in Bets
      /\ t.level \in Levels \cup {0}
  BY DEF Views
<1>2. t.opponents \in Nat
  <2>1. Opponents \cup {0} \subseteq Nat
    BY Amounts
  <2> QED
    BY <1>1, <2>1, Zenon
<1>3. t.pot \in Nat
  BY <1>1, Amounts
<1>4. t.bets \in Nat
  BY <1>1, Amounts
<1>5. t.level \in Nat
  <2>1. Levels \cup {0} \subseteq Nat
    BY Amounts
  <2> QED
    BY <1>1, <2>1, Zenon
<1>6. t.community \in {0, 1, 3}
  BY DEF Views
<1> QED
  BY <1>2, <1>3, <1>4, <1>5, <1>6

LEMMA NumbersOfTables ==
  ASSUME NEW t \in Tables
  PROVE  t \in Views /\ t.community \in {0, 3} /\ t.level \in Levels
<1> QED
  BY TablesAreViews DEF Tables

LEMMA FollowsTransitively ==
  ASSUME NEW t \in Views, NEW u \in Views, NEW w \in Views,
         Follows(t, u), Follows(u, w)
  PROVE  Follows(t, w)
<1>1. \A x \in {t, u, w} : x.opponents \in Nat /\ x.pot \in Nat /\ x.community \in Nat
  BY NumbersOfViews
<1>2. w.opponents <= t.opponents /\ t.pot <= w.pot /\ t.community <= w.community
  BY <1>1 DEF Follows
<1> QED
  BY <1>2 DEF Follows

LEMMA FollowsItself ==
  ASSUME NEW t \in Views
  PROVE  Follows(t, t)
<1>1. t.opponents \in Nat /\ t.pot \in Nat /\ t.community \in Nat
  BY NumbersOfViews
<1>2. t.opponents <= t.opponents /\ t.pot <= t.pot /\ t.community <= t.community
  BY <1>1
<1> QED
  BY <1>2 DEF Follows

\* Each item is what the casino shows now, or what it showed before.
LEMMA ScrapedItems ==
  ASSUME NEW s \in Scrapes
  PROVE  /\ s.dealer \in {table.dealer, before.dealer}
         /\ s.cards \in DrawnCards
         /\ s.handnumber \in {table.handnumber, before.handnumber}
         /\ s.pot \in {table.pot, before.pot}
         /\ s.opponents \in {table.opponents, before.opponents}
         /\ s.bets \in {table.bets, before.bets}
         /\ s.level \in {table.level, before.level}
         /\ "level" \notin LateItems => s.level = table.level
         /\ "dealer" \notin LateItems => s.dealer = table.dealer
         /\ \/ s.community \in {table.community, before.community}
            \/ before.community # table.community /\ s.community = 1
<1>1. ASSUME NEW item \in Items
      PROVE  Drawn(item) \subseteq {table[item], before[item]}
  BY DEF Drawn
<1>2. /\ "level" \notin LateItems => Drawn("level") = {table["level"]}
      /\ "dealer" \notin LateItems => Drawn("dealer") = {table["dealer"]}
  BY DEF Drawn
<1>3. DrawnCommunity \subseteq
        {table.community, before.community}
        \cup (IF before.community # table.community THEN {1} ELSE {})
  <2>1. Drawn("community") \subseteq {table.community, before.community}
    BY <1>1 DEF Items
  <2> QED
    BY <2>1 DEF DrawnCommunity
<1> QED
  BY <1>1, <1>2, <1>3 DEF Scrapes, Items

\* Cards that a scrape recognizes.
Recognized(cards) == cards[1] # NoCard /\ cards[2] # NoCard /\ cards[1] # cards[2]

LEMMA HandsAreRecognized ==
  ASSUME NEW h \in 0 .. Hands
  PROVE  Recognized(CardsOf[h]) /\ CardsOf[h] # NoCards
<1>1. CardsOf[h] \in Card \X Card /\ CardsOf[h][1] # CardsOf[h][2]
  BY ConstantsAssumption DEF ConstantsAssumption
<1>2. CardsOf[h][1] # NoCard /\ CardsOf[h][2] # NoCard
  BY <1>1 DEF Card, NoCard
<1>3. NoCards[1] = NoCard
  BY DEF NoCards
<1> QED
  BY <1>1, <1>2, <1>3 DEF Recognized

LEMMA CardsOfTable ==
  ASSUME TypeOK, KnownCards, table.cards # NoCards
  PROVE  table.cards = CardsOf[hand] /\ Recognized(table.cards)
<1> QED
  BY HandsAreRecognized DEF TypeOK, KnownCards

\* Cards that are drawn already are scraped as they are.
LEMMA SameCards ==
  ASSUME table \in Tables, before \in Tables, NEW c \in DrawnCards,
         Follows(before, table), Recognized(table.cards)
  PROVE  c = table.cards
<1>1. before.cards = table.cards
  <2>1. before.cards \in Cards /\ table.cards \in Cards
    BY DEF Tables
  <2>2. before.cards[1] = table.cards[1] /\ before.cards[2] = table.cards[2]
    BY DEF Follows, Recognized
  <2> QED
    BY <2>1, <2>2, PairsOfCards
<1>2. <<table.cards[1], table.cards[2]>> = table.cards
  BY DEF Tables, Cards
<1>3. ScrapePlayerCards(table.cards) = table.cards
  BY DEF ScrapePlayerCards, Recognized
<1> QED
  BY <1>1, <1>2, <1>3 DEF DrawnCards, Drawn

LEMMA CardsFollow ==
  ASSUME table \in Tables, before \in Tables, NEW c \in DrawnCards,
         Follows(before, table), table.cards = NoCards \/ Recognized(table.cards)
  PROVE  \A i \in {1, 2} : /\ c[i] \in {before.cards[i], NoCard}
                           /\ table.cards[i] \in {c[i], NoCard}
<1>1. NoCards[1] = NoCard /\ NoCards[2] = NoCard
  BY DEF NoCards
<1>2. CASE Recognized(table.cards)
  BY <1>2, SameCards DEF Follows
<1>3. CASE table.cards = NoCards
  BY <1>1, <1>3, ScrapedCards DEF Follows
<1> QED
  BY <1>2, <1>3

\* A scrape lies between what the casino showed and what it shows now.
LEMMA ScrapeFollows ==
  ASSUME table \in Tables, before \in Tables, NEW s \in Scrapes, Follows(before, table),
         table.cards = NoCards \/ Recognized(table.cards)
  PROVE  Follows(before, s) /\ Follows(s, table)
<1>1. \A x \in {table, before} : /\ x.opponents \in Nat /\ x.pot \in Nat
                                 /\ x.community \in {0, 3}
  BY NumbersOfTables, NumbersOfViews
<1>2. s.community \in {0, 1, 3}
      /\ before.community <= s.community /\ s.community <= table.community
  BY <1>1, ScrapedItems DEF Follows
<1>3. /\ s.opponents <= before.opponents /\ table.opponents <= s.opponents
      /\ before.pot <= s.pot /\ s.pot <= table.pot
  BY <1>1, ScrapedItems DEF Follows
<1>4. s.bets \in {before.bets, NoBet} /\ table.bets \in {s.bets, NoBet}
  BY ScrapedItems DEF Follows
<1>5. /\ s.dealer = before.dealer /\ s.dealer = table.dealer
      /\ s.handnumber = before.handnumber /\ s.handnumber = table.handnumber
      /\ s.level = before.level /\ s.level = table.level
  BY ScrapedItems DEF Follows
<1>6. /\ s.cards[1] \in {before.cards[1], NoCard} /\ table.cards[1] \in {s.cards[1], NoCard}
      /\ s.cards[2] \in {before.cards[2], NoCard} /\ table.cards[2] \in {s.cards[2], NoCard}
  BY ScrapedItems, CardsFollow
<1> QED
  BY <1>2, <1>3, <1>4, <1>5, <1>6 DEF Follows

-----------------------------------------------------------------------------
(* Evaluations: heartbeats, and clicks when the last heartbeat saw all     *)

Evaluation(s) ==
  /\ s \in Scrapes
  /\ shown' = s
  /\ before' = table
  /\ \E scraped \in BOOLEAN : EvaluateAll(s, scraped)
  /\ evaluations' = Capped(evaluations + 1, MaxEvaluations)

LEMMA TableIsScraped ==
  ASSUME table \in Tables
  PROVE  table \in Scrapes
<1>1. \A item \in Items : table[item] \in Drawn(item)
  BY DEF Drawn
<1>2. table["community"] \in DrawnCommunity /\ table["cards"] \in DrawnCards
  BY <1>1 DEF DrawnCommunity, DrawnCards, Items
<1> QED
  BY <1>1, <1>2 DEF Scrapes, Items, Tables

LEMMA Evaluates ==
  ASSUME Detection, UsualSession, Heartbeat \/ OnClickedFlags
  PROVE  \E s : Evaluation(s)
<1>1. CASE Heartbeat
  BY <1>1 DEF Heartbeat, Evaluation
<1>2. CASE OnClickedFlags
  <2>1. shown = before /\ shown = table
    BY <1>2 DEF OnClickedFlags, UsualSession
  <2>2. shown.dealer = engines.dealer /\ table.dealer # NoDealer
    BY ConstantsAssumption
    DEF ConstantsAssumption, Detection, EnginesFollow, TypeOK, Tables, Dealers, NoDealer
  <2>3. ~JustBegun
    BY <2>1, <2>2, OldDealer DEF Detection, KnownDealers
  <2>4. shown \in Scrapes
    BY <2>1, TableIsScraped DEF Detection, TypeOK
  <2> QED
    BY <1>2, <2>1, <2>3, <2>4 DEF OnClickedFlags, Evaluation
<1> QED
  BY <1>1, <1>2

LEMMA EvaluationTypes ==
  ASSUME TypeOK, NEW s, Evaluation(s)
  PROVE  /\ s \in Views
         /\ table' = table /\ hand' = hand /\ stale_balance' = stale_balance
         /\ acted' = acted /\ mistaken' = mistaken
         /\ evaluations' \in 1 .. MaxEvaluations
         /\ evaluations' = IF evaluations = 3 THEN 3 ELSE evaluations + 1
         /\ last' = GetNewSymbolValues(s)
         /\ UpdateNumberOfStableFrames(s) \/ UNCHANGED <<saved, frames>>
         /\ UserMayAct(s) => UpdateNumberOfStableFrames(s)
<1>1. s \in Views
  BY ScrapedViews DEF Evaluation, TypeOK
<1>2. PICK scraped \in BOOLEAN : EvaluateAll(s, scraped)
  BY DEF Evaluation
<1>3. evaluations \in 0 .. 3 /\ evaluations' = Capped(evaluations + 1, 3)
  BY DEF Evaluation, TypeOK, MaxEvaluations
<1>4. /\ evaluations' \in 1 .. MaxEvaluations
      /\ evaluations' = IF evaluations = 3 THEN 3 ELSE evaluations + 1
  BY <1>3 DEF Capped, MaxEvaluations
<1>5. CalculateFinalAnswer(s, scraped)
      /\ last' = GetNewSymbolValues(s)
      /\ UNCHANGED <<hand, table, stale_balance, acted, mistaken>>
  BY <1>2 DEF EvaluateAll, StoreOldValuesForComparisonOnNextHeartbeat, mistakes
<1>6. UserMayAct(s) => UpdateNumberOfStableFrames(s)
  BY <1>5 DEF CalculateFinalAnswer
<1>7. ~UserMayAct(s) => UNCHANGED <<saved, frames>>
  BY <1>5 DEF CalculateFinalAnswer, counter
<1> QED
  BY <1>1, <1>4, <1>5, <1>6, <1>7

\* An evaluation detects a new hand, or remembers what fired.
LEMMA Detects ==
  ASSUME TypeOK, NEW s, Evaluation(s)
  PROVE  LET v == GetNewSymbolValues(s) IN
         \/ /\ IsHandreset(v)
            /\ fired' = <<{}, {}>>
            /\ handresets' # 0
            /\ actions' = NoActions
            /\ Joining' = Joining
         \/ /\ ~IsHandreset(v)
            /\ fired' = <<FiringHandresetMethods(v), fired[1]>>
            /\ handresets' = handresets
            /\ actions' = actions
            /\ Joining' = Joining
<1> DEFINE v == GetNewSymbolValues(s)
<1>1. CalculateIsHandreset(v) /\ ResetHistory(IsHandreset(v))
  BY DEF Evaluation, EvaluateAll
<1>2. handresets \in -1 .. 2
  BY DEF TypeOK, JoinedHand, MaxHandresets
<1> HIDE DEF v
<1>3. CASE IsHandreset(v)
  <2>1. handresets' = IF handresets # -1 THEN Capped(handresets + 1, 2) ELSE handresets
    BY <1>1, <1>3 DEF CalculateIsHandreset, CountHandreset, JoinedHand, MaxHandresets
  <2>2. handresets' # 0 /\ (handresets' = -1 <=> handresets = -1)
    BY <1>2, <2>1 DEF Capped
  <2>3. fired' = <<{}, {}>> /\ actions' = NoActions
    BY <1>1, <1>3 DEF CalculateIsHandreset, ResetHistory, NoActions
  <2> QED
    BY <1>3, <2>2, <2>3 DEF v, Joining, JoinedHand
<1>4. CASE ~IsHandreset(v)
  <2>1. handresets' = handresets
    BY <1>1, <1>4 DEF CalculateIsHandreset, CountHandreset
  <2>2. fired' = <<FiringHandresetMethods(v), fired[1]>> /\ actions' = actions
    BY <1>1, <1>4 DEF CalculateIsHandreset, ResetHistory
  <2> QED
    BY <1>4, <2>1, <2>2 DEF v, Joining, JoinedHand
<1> QED
  BY <1>3, <1>4 DEF v

\* What the counter of stable frames does with a view.
LEMMA Frames ==
  ASSUME TypeOK, NEW s, Evaluation(s)
  PROVE  \/ ~UserMayAct(s) /\ saved' = saved /\ frames' = frames
         \/ saved = NothingSaved /\ saved' = Compared(s) /\ frames' = 0
         \/ /\ saved = Compared(s) /\ saved' = saved
            /\ frames' <= frames + 1
         \/ saved' = NothingSaved /\ frames' = 0
<1>1. UpdateNumberOfStableFrames(s) \/ (~UserMayAct(s) /\ UNCHANGED <<saved, frames>>)
  BY EvaluationTypes
<1>2. Compared(s) # NothingSaved
  BY DEF Compared, NothingSaved
<1>3. CASE UpdateNumberOfStableFrames(s) /\ Compared(s) = saved
  <2>1. saved' = saved /\ frames' = Capped(frames + 1, FrameDelay)
    BY <1>2, <1>3 DEF UpdateNumberOfStableFrames
  <2>2. frames' <= frames + 1
    BY <2>1, ConstantsAssumption DEF ConstantsAssumption, TypeOK, Capped
  <2> QED
    BY <1>3, <2>1, <2>2
<1>4. CASE UpdateNumberOfStableFrames(s) /\ Compared(s) # saved
  BY <1>4 DEF UpdateNumberOfStableFrames
<1> QED
  BY <1>1, <1>3, <1>4

-----------------------------------------------------------------------------
(* The cards                                                               *)

LEMMA SeenLonger ==
  ASSUME NEW cards, NEW g \in Int, NEW h \in Int, g <= h, SeenUntil(cards, g)
  PROVE  SeenUntil(cards, h)
<1>1. 0 .. g \subseteq 0 .. h
  OBVIOUS
<1> QED
  BY <1>1 DEF SeenUntil

LEMMA NewCards ==
  ASSUME UsualSession, NEW h \in 1 .. Hands, NEW cards, SeenUntil(cards, h - 1)
  PROVE  CardsOf[h] # cards
<1>1. Recognized(CardsOf[h])
  BY HandsAreRecognized
<1>2. ASSUME NEW k \in 0 .. (h - 1)
      PROVE  CardsOf[h] \notin SeenCards(k)
  BY DEF UsualSession, CardsDiffer
<1> QED
  BY <1>1, <1>2 DEF SeenUntil, Recognized

\* In a hand that begins the scraped cards are of it, or of the last one, or of both.
LEMMA CardsSeen ==
  ASSUME TypeOK, KnownCards, KnownDealers, NEW c \in DrawnCards
  PROVE  SeenUntil(c, hand)
<1>0. hand \in 0 .. Hands /\ hand \in Nat
  BY ConstantsAssumption DEF ConstantsAssumption, TypeOK
<1>1. NoCards[1] = NoCard /\ NoCards[2] = NoCard
  BY DEF NoCards
<1>2. LastSeen \in 0 .. hand /\ LastSeen >= hand - 1
  BY <1>0 DEF LastSeen, KnownDealers
<1>3. \A k \in 0 .. hand : CardsOf[k] \in SeenCards(k)
  BY DEF SeenCards
<1>4. CASE c \in {table.cards, before.cards}
  BY <1>0, <1>1, <1>2, <1>3, <1>4 DEF KnownCards, SeenUntil
<1>5. ASSUME "card" \in LateItems, c = <<table.cards[1], before.cards[2]>>
      PROVE  SeenUntil(c, hand)
  <2>1. c[1] = table.cards[1] /\ c[2] = before.cards[2]
    BY <1>5
  <2>2. CASE table.cards = CardsOf[hand] /\ before.cards = CardsOf[hand]
    <3>1. CardsOf[hand] = <<CardsOf[hand][1], CardsOf[hand][2]>>
      BY <1>0, ConstantsAssumption DEF ConstantsAssumption
    <3>2. c = CardsOf[hand]
      BY <1>5, <2>2, <3>1
    <3> QED
      BY <1>0, <1>3, <3>2 DEF SeenUntil
  <2>3. CASE table.cards = CardsOf[hand] /\ before.cards = CardsOf[hand - 1] /\ hand > 0
    BY <1>0, <1>5, <2>3 DEF SeenUntil, SeenCards
  <2>4. CASE table.cards = NoCards \/ before.cards = NoCards
    BY <1>1, <2>1, <2>4 DEF SeenUntil
  <2> QED
    BY <1>0, <1>2, <2>2, <2>3, <2>4 DEF KnownCards
<1>6. ASSUME "card" \in LateItems, c = <<before.cards[1], table.cards[2]>>
      PROVE  SeenUntil(c, hand)
  <2>1. c[1] = before.cards[1] /\ c[2] = table.cards[2]
    BY <1>6
  <2>2. CASE table.cards = CardsOf[hand] /\ before.cards = CardsOf[hand]
    <3>1. CardsOf[hand] = <<CardsOf[hand][1], CardsOf[hand][2]>>
      BY <1>0, ConstantsAssumption DEF ConstantsAssumption
    <3>2. c = CardsOf[hand]
      BY <1>6, <2>2, <3>1
    <3> QED
      BY <1>0, <1>3, <3>2 DEF SeenUntil
  <2>3. CASE table.cards = CardsOf[hand] /\ before.cards = CardsOf[hand - 1] /\ hand > 0
    BY <1>0, <1>6, <2>3 DEF SeenUntil, SeenCards
  <2>4. CASE table.cards = NoCards \/ before.cards = NoCards
    BY <1>1, <2>1, <2>4 DEF SeenUntil
  <2> QED
    BY <1>0, <1>2, <2>2, <2>3, <2>4 DEF KnownCards
<1>7. CASE c = NoCards
  BY <1>1, <1>7 DEF SeenUntil
<1> QED
  BY <1>4, <1>5, <1>6, <1>7, ScrapedCards

LEMMA ComparedCards ==
  ASSUME NEW s
  PROVE  Compared(s)[2] = s.cards
<1> QED
  BY DEF Compared

LEMMA EvaluatedCards ==
  ASSUME TypeOK, KnownCards, KnownDealers, NEW s, Evaluation(s)
  PROVE  KnownCards'
<1>0. hand \in Nat /\ LastSeen \in Int /\ LastSeen <= hand /\ LastSeen >= hand - 1
  BY ConstantsAssumption DEF ConstantsAssumption, TypeOK, LastSeen
<1>1. ~JustBegun' /\ hand' = hand /\ table' = table /\ before' = table
      /\ s.cards \in DrawnCards
  BY EvaluationTypes, ScrapedItems DEF JustBegun, Evaluation
<1>2. LastSeen' = hand
  BY <1>1 DEF LastSeen
<1>3. table'.cards \in {NoCards, CardsOf[hand']} /\ before'.cards \in {NoCards, CardsOf[hand]}
  BY <1>1 DEF KnownCards
<1>4. saved' # NothingSaved => SeenUntil(saved'[2], hand)
  <2>1. saved # NothingSaved => SeenUntil(saved[2], hand)
    BY <1>0, SeenLonger DEF KnownCards
  <2>2. saved' \in {saved, NothingSaved, Compared(s)}
    BY Frames
  <2>3. SeenUntil(Compared(s)[2], hand)
    BY <1>1, CardsSeen, ComparedCards
  <2> QED
    BY <2>1, <2>2, <2>3
<1>5. ASSUME SignOfCards
      PROVE  last'.cards \in RecentCards(hand)
  <2>1. s.cards \in {table.cards, before.cards}
    BY <1>1, <1>5, ScrapedCards DEF SignOfCards
  <2>2. last'.cards \in {s.cards, NoCards}
    BY EvaluationTypes DEF GetNewSymbolValues
  <2>3. LastSeen \in 0 .. hand
    BY <1>0 DEF LastSeen, KnownDealers
  <2>4. {CardsOf[hand], CardsOf[LastSeen], NoCards} \subseteq RecentCards(hand)
    BY <1>0, <2>3 DEF RecentCards
  <2> QED
    BY <2>1, <2>2, <2>4 DEF KnownCards
<1>6. SeenUntil(saved[2], LastSeen)' <=> SeenUntil(saved'[2], hand)
  BY <1>2 DEF SeenUntil, SeenCards
<1>7. RecentCards(LastSeen)' = RecentCards(hand)
  BY <1>2 DEF RecentCards
<1>8. SignOfCards' = SignOfCards
  BY DEF SignOfCards
<1> QED
  BY <1>1, <1>2, <1>3, <1>4, <1>5, <1>6, <1>7, <1>8 DEF KnownCards

LEMMA EvaluatedNumbers ==
  ASSUME TypeOK, KnownNumbers, NEW s, Evaluation(s)
  PROVE  KnownNumbers'
<1> SUFFICES ASSUME HandNumbers
             PROVE  /\ table'.handnumber = hand' + 1
                    /\ before'.handnumber <= LastSeen' + 1
                    /\ last'.handnumber <= LastSeen' + 1
  BY DEF KnownNumbers
<1>1. hand \in Nat /\ LastSeen \in Int /\ LastSeen <= hand /\ before.handnumber \in Int
  BY ConstantsAssumption DEF ConstantsAssumption, TypeOK, LastSeen, Tables
<1>2. ~JustBegun' /\ hand' = hand /\ table' = table /\ before' = table
      /\ last'.handnumber = s.handnumber
      /\ s.handnumber \in {table.handnumber, before.handnumber}
  BY EvaluationTypes, ScrapedItems DEF JustBegun, Evaluation, GetNewSymbolValues
<1>3. LastSeen' = hand
  BY <1>2 DEF LastSeen
<1> QED
  BY <1>1, <1>2, <1>3 DEF KnownNumbers

LEMMA EvaluatedDealers ==
  ASSUME TypeOK, KnownDealers, ViewsFollow, NEW s, Evaluation(s)
  PROVE  /\ KnownDealers'
         /\ engines'.dealer = s.dealer
<1>1. ~JustBegun' /\ hand' = hand /\ table' = table /\ s \in Views
  BY EvaluationTypes DEF JustBegun
<1>2. s.dealer \in {table.dealer, before.dealer} /\ s.dealer # NoDealer
  <2>1. table.dealer # NoDealer /\ before.dealer # NoDealer
    BY ConstantsAssumption DEF ConstantsAssumption, TypeOK, Tables, Dealers, NoDealer
  <2> QED
    BY <2>1, ScrapedItems DEF Evaluation
<1>3. engines'.dealer = s.dealer
  BY <1>2 DEF Evaluation, EvaluateAll, CalculateSymbols, Dealerchair
<1>4. before.dealer \in {DealerOf(hand), DealerOf(hand - 1)}
  BY DEF KnownDealers, ViewsFollow, Follows
<1>5. "dealer" \notin LateItems => s.dealer = table.dealer
  BY ScrapedItems DEF Evaluation
<1>6. engines'.dealer \in DealersKnown(hand)
  BY <1>2, <1>3, <1>4, <1>5 DEF KnownDealers, DealersKnown
<1>7. DealersKnown(hand)' = DealersKnown(hand)
  BY <1>1 DEF DealersKnown, DealerOf
<1> QED
  BY <1>1, <1>3, <1>6, <1>7 DEF KnownDealers

LEMMA EvaluatedViews ==
  ASSUME TypeOK, KnownCards, ViewsFollow, NEW s, Evaluation(s)
  PROVE  ViewsFollow'
<1>1. /\ table' = table /\ before' = table /\ shown' = s
      /\ evaluations' >= 2 => evaluations >= 1
  BY EvaluationTypes DEF Evaluation, TypeOK, MaxEvaluations
<1>2. Follows(table, table)
  BY FollowsItself, NumbersOfTables DEF TypeOK
<1>3. ASSUME evaluations >= 1 \/ Joining
      PROVE  Follows(s, table)
  BY <1>3, ScrapeFollows, CardsOfTable DEF ViewsFollow, JustBegun, TypeOK, Evaluation
<1>4. Joining' = Joining
  BY Detects
<1> QED
  BY <1>1, <1>2, <1>3, <1>4 DEF ViewsFollow

LEMMA EvaluatedEngines ==
  ASSUME TypeOK, KnownDealers, ViewsFollow, NEW s, Evaluation(s)
  PROVE  EnginesFollow'
<1>1. /\ CalculateSymbols(s)
      /\ shown' = s
  BY DEF Evaluation, EvaluateAll
<1>2. engines'.dealer = s.dealer
  BY EvaluatedDealers
<1>3. engines'.bblind = IF locked' # Unlocked THEN locked' ELSE s.level
  BY <1>1 DEF CalculateSymbols, BestTableLimitsToBeUsed
<1>4. engines'.opponents = s.opponents /\ engines'.pot = s.pot
  BY <1>1 DEF CalculateSymbols
<1>5. HasKnownCards(s) => engines'.userchair
  BY <1>1 DEF CalculateSymbols, Userchair
<1> QED
  BY <1>1, <1>2, <1>3, <1>4, <1>5 DEF EnginesFollow

LEMMA EvaluatedCount ==
  ASSUME TypeOK, Counted, NEW s, Evaluation(s)
  PROVE  Counted'
<1>1. ~JustBegun' /\ shown' = s
  BY EvaluationTypes DEF JustBegun, Evaluation
<1>2. saved' = NothingSaved => frames' = 0
  BY Frames DEF Counted, Compared, NothingSaved
<1>3. UserMayAct(s) => saved' = NothingSaved \/ saved' = Compared(s)
  BY Frames
<1>4. UserMayAct(shown)' = UserMayAct(s) /\ Compared(shown)' = Compared(s)
  BY <1>1 DEF UserMayAct, Compared
<1> QED
  BY <1>1, <1>2, <1>3, <1>4 DEF Counted

-----------------------------------------------------------------------------
(* The signs of a hand                                                     *)

LEMMA ThreeMore ==
  ASSUME NEW S, IsFiniteSet(S), NEW a, NEW b, NEW c
  PROVE  IsFiniteSet(S \cup {a, b, c})
<1>1. IsFiniteSet(S \cup {a})
  BY FS_AddElement
<1>2. IsFiniteSet((S \cup {a}) \cup {b})
  BY <1>1, FS_AddElement
<1>3. IsFiniteSet(((S \cup {a}) \cup {b}) \cup {c})
  BY <1>2, FS_AddElement
<1>4. ((S \cup {a}) \cup {b}) \cup {c} = S \cup {a, b, c}
  OBVIOUS
<1> QED
  BY <1>3, <1>4

LEMMA MethodsAreFinite == IsFiniteSet(Method)
<1> DEFINE A == {} \cup {"DealerChair", "UserCards", "HandNumber"}
           B == A \cup {"CommunityCards", "Potsize", "Nopponentsplaying"}
           C == B \cup {"IncreasingBalance", "ChangingBlindLevel", "NewSmallBlind"}
<1>1. IsFiniteSet({})
  BY FS_EmptySet
<1>2. IsFiniteSet(A)
  BY <1>1, ThreeMore
<1>3. IsFiniteSet(B)
  BY <1>2, ThreeMore
<1>4. IsFiniteSet(C)
  BY <1>3, ThreeMore
<1>5. C = Method
  BY DEF Method
<1> QED
  BY <1>4, <1>5

\* Two signs are enough, whatever else fires.
LEMMA TwoSigns ==
  ASSUME NEW S \in SUBSET Method, NEW a \in S, NEW b \in S, a # b
  PROVE  Cardinality(S) >= 2
<1>1. IsFiniteSet({a}) /\ Cardinality({a}) = 1
  BY FS_Singleton
<1>2. IsFiniteSet({a} \cup {b}) /\ Cardinality({a} \cup {b}) = 2
  BY <1>1, FS_AddElement
<1>3. IsFiniteSet(S)
  BY MethodsAreFinite, FS_Subset
<1>4. {a} \cup {b} \in SUBSET S
  OBVIOUS
<1>5. Cardinality({a} \cup {b}) <= Cardinality(S)
  BY <1>3, <1>4, FS_Subset
<1>6. Cardinality(S) \in Nat
  BY <1>3, FS_CardinalityType
<1> QED
  BY <1>2, <1>5, <1>6

LEMMA FewerSigns ==
  ASSUME NEW S \in SUBSET Method, NEW T \in SUBSET S, ~(Cardinality(S) >= 2)
  PROVE  Cardinality(T) < 2
<1>1. IsFiniteSet(S) /\ IsFiniteSet(T)
  BY MethodsAreFinite, FS_Subset
<1>2. Cardinality(T) <= Cardinality(S)
  BY <1>1, FS_Subset
<1>3. Cardinality(S) \in Nat /\ Cardinality(T) \in Nat
  BY <1>1, FS_CardinalityType
<1> QED
  BY <1>2, <1>3

Window(v) == FiringHandresetMethods(v) \cup fired[1] \cup fired[2]

LEMMA WindowOfMethods ==
  ASSUME TypeOK, NEW v
  PROVE  Window(v) \in SUBSET Method
<1>1. FiringHandresetMethods(v) \in SUBSET Method
  BY DEF FiringHandresetMethods
<1>2. fired[1] \in SUBSET Method /\ fired[2] \in SUBSET Method
  BY DEF TypeOK
<1> QED
  BY <1>1, <1>2 DEF Window

\* Two signs in the window of the detector make it reset the hand.
LEMMA TwoSignsReset ==
  ASSUME TypeOK, NEW s, Evaluation(s),
         NEW a \in Window(GetNewSymbolValues(s)), NEW b \in Window(GetNewSymbolValues(s)),
         a # b
  PROVE  handresets' # 0 /\ actions' = NoActions
<1> DEFINE v == GetNewSymbolValues(s)
<1>1. Cardinality(Window(v)) >= 2
  BY WindowOfMethods, TwoSigns
<1>2. IsHandreset(v)
  BY <1>1 DEF IsHandreset, Window
<1> QED
  BY <1>2, Detects

LEMMA DealerChairFires ==
  ASSUME TypeOK, NEW s, Evaluation(s), engines.dealer # NoDealer, last.dealer # NoDealer,
         last.dealer # engines.dealer
  PROVE  "DealerChair" \in FiringHandresetMethods(GetNewSymbolValues(s))
<1>1. GetNewSymbolValues(s).dealer = engines.dealer
  BY DEF GetNewSymbolValues
<1> QED
  BY <1>1 DEF FiringHandresetMethods, IsHandresetByDealerChair, Method

\* Of the values for comparison.
LEMMA StoredSigns ==
  ASSUME TypeOK, NEW s, Evaluation(s)
  PROVE  /\ last'.cards = IF engines.userchair THEN s.cards ELSE NoCards
         /\ engines.dealer # NoDealer => last'.dealer = engines.dealer
<1>1. last' = GetNewSymbolValues(s)
  BY EvaluationTypes
<1> QED
  BY <1>1 DEF GetNewSymbolValues

\* From its second evaluation on a hand shows the cards and the dealer it has.
LEMMA NothingLate ==
  ASSUME Detection, NEW s, Evaluation(s), ~JustBegun
  PROVE  /\ s.dealer = table.dealer
         /\ s.handnumber = table.handnumber
         /\ table.cards # NoCards => s.cards = table.cards
         /\ engines.dealer # NoDealer
         /\ evaluations >= 2 => /\ engines.dealer = table.dealer
                                /\ table.cards # NoCards => engines.userchair
<1>1. Follows(before, table)
  BY DEF Detection, ViewsFollow
<1>2. /\ s.dealer \in {table.dealer, before.dealer}
      /\ s.handnumber \in {table.handnumber, before.handnumber}
      /\ s.cards \in DrawnCards
  BY ScrapedItems DEF Evaluation
<1>3. hand \in Int
  BY DEF Detection, TypeOK
<1>4. engines.dealer # NoDealer
  <2>1. DealerOf(hand) # NoDealer /\ DealerOf(hand - 1) # NoDealer
    BY <1>3, RealDealer
  <2> QED
    BY <2>1 DEF Detection, KnownDealers, DealersKnown
<1>5. ASSUME evaluations >= 2
      PROVE  /\ engines.dealer = table.dealer
             /\ table.cards # NoCards => engines.userchair
  <2>1. Follows(shown, before) /\ EnginesFollow
    BY <1>5 DEF Detection, ViewsFollow
  <2>2. shown.dealer = table.dealer
    BY <1>1, <2>1 DEF Follows
  <2>3. table.cards # NoCards => HasKnownCards(shown)
    BY <1>1, <2>1, CardsOfTable DEF Follows, Recognized, HasKnownCards, Detection
  <2> QED
    BY <2>1, <2>2, <2>3 DEF EnginesFollow
<1>6. s.dealer = table.dealer /\ s.handnumber = table.handnumber
  BY <1>1, <1>2 DEF Follows
<1>7. table.cards # NoCards => s.cards = table.cards
  BY <1>1, <1>2, SameCards, CardsOfTable DEF Detection, TypeOK
<1> QED
  BY <1>4, <1>5, <1>6, <1>7

\* When a hand begins neither its number nor its cards were compared.
LEMMA OldSigns ==
  ASSUME Detection, UsualSession, JustBegun, ~Joining, table.cards # NoCards
  PROVE  OtherToCome
<1>1. hand \in 1 .. Hands /\ LastSeen = hand - 1 /\ HandNumbers \in BOOLEAN
  BY ConstantsAssumption
  DEF ConstantsAssumption, Detection, TypeOK, KnownDealers, LastSeen
<1>2. CASE HandNumbers
  <2>1. table.handnumber = hand + 1 /\ last.handnumber <= hand
    BY <1>1, <1>2 DEF Detection, KnownNumbers
  <2>2. last.handnumber \in Int
    BY DEF Detection, TypeOK, Stored
  <2> QED
    BY <1>1, <1>2, <2>1, <2>2 DEF OtherToCome
<1>3. CASE ~HandNumbers
  <2>1. table.cards = CardsOf[hand]
    BY CardsOfTable DEF Detection
  <2>2. last.cards \in RecentCards(hand - 1) /\ SignOfCards
    BY <1>1, <1>3 DEF Detection, KnownCards, UsualSession
  <2>3. ASSUME NEW k \in 0 .. (hand - 1), k >= (hand - 1) - 1
        PROVE  CardsOf[k] # CardsOf[hand]
    BY <1>1, <2>2, <2>3 DEF SignOfCards
  <2> QED
    BY <1>1, <1>3, <2>1, <2>2, <2>3 DEF RecentCards, OtherToCome
<1> QED
  BY <1>2, <1>3

\* The other sign of a hand fires when it is seen first.
LEMMA OtherSignFires ==
  ASSUME Detection, UsualSession, NEW s, Evaluation(s), table.cards # NoCards,
         ~(JustBegun /\ Joining), OtherToCome
  PROVE  LET F == FiringHandresetMethods(GetNewSymbolValues(s)) IN
         /\ OtherSign \in F \/ OtherToCome'
         /\ ~JustBegun /\ engines.userchair => OtherSign \in F
<1> DEFINE v == GetNewSymbolValues(s)
           F == FiringHandresetMethods(v)
<1> SUFFICES /\ OtherSign \in F \/ OtherToCome'
             /\ ~JustBegun /\ engines.userchair => OtherSign \in F
  OBVIOUS
<1>1. /\ table' = table /\ last' = v /\ v.handnumber = s.handnumber
      /\ v.cards = IF engines.userchair THEN s.cards ELSE NoCards
  BY EvaluationTypes DEF Detection, GetNewSymbolValues
<1>2. ~JustBegun => s.handnumber = table.handnumber /\ s.cards = table.cards
  BY NothingLate
<1>3. table.cards = CardsOf[hand] /\ Recognized(table.cards)
  BY CardsOfTable DEF Detection
<1> HIDE DEF v
<1>4. CASE HandNumbers
  <2>1. OtherSign = "HandNumber" /\ last.handnumber # table.handnumber
        /\ (OtherToCome' <=> last'.handnumber # table'.handnumber)
    BY <1>4 DEF OtherSign, OtherToCome
  <2>2. s.handnumber = table.handnumber => "HandNumber" \in F
    BY <1>1, <2>1 DEF FiringHandresetMethods, IsHandresetByHandNumber, Method
  <2> QED
    BY <1>1, <1>2, <2>1, <2>2
<1>5. CASE ~HandNumbers
  <2>1. OtherSign = "UserCards" /\ last.cards # table.cards
        /\ (OtherToCome' <=> last'.cards # table'.cards)
    BY <1>5 DEF OtherSign, OtherToCome
  <2>2. ASSUME s.cards = table.cards, engines.userchair
        PROVE  "UserCards" \in F
    <3>1. hand \in 0 .. Hands /\ hand \in Nat /\ LastSeen \in {hand - 1, hand}
      BY ConstantsAssumption DEF ConstantsAssumption, Detection, TypeOK, LastSeen
    <3>2. last.cards \in RecentCards(LastSeen) /\ SignOfCards
      BY <1>5 DEF Detection, KnownCards, UsualSession
    <3>3. last.cards[1] # table.cards[1] /\ last.cards[2] # table.cards[2]
      <4>1. CASE last.cards = NoCards
        BY <1>3, <4>1 DEF NoCards, Recognized
      <4>2. ASSUME NEW k \in 0 .. LastSeen, k >= LastSeen - 1, last.cards = CardsOf[k]
            PROVE  last.cards[1] # table.cards[1] /\ last.cards[2] # table.cards[2]
        <5>1. k # hand
          BY <1>3, <2>1, <4>2
        <5>2. k \in 0 .. (hand - 1) /\ k >= hand - 2
          BY <3>1, <4>2, <5>1
        <5> QED
          BY <1>3, <3>1, <3>2, <4>2, <5>2 DEF SignOfCards
      <4> QED
        BY <3>2, <4>1, <4>2 DEF RecentCards
    <3>4. v.cards = table.cards
      BY <1>1, <2>2
    <3> QED
      BY <1>3, <3>3, <3>4
      DEF FiringHandresetMethods, IsHandresetByUserCards, HasKnownCards, Recognized, Method
  <2> QED
    BY <1>1, <1>2, <2>1, <2>2
<1> QED
  BY <1>4, <1>5

LEMMA FramesOfHands ==
  ASSUME TypeOK, NEW s, Evaluation(s), NEW n \in Nat, FramesOfHand(n)
  PROVE  /\ SavedOfHand' => frames' <= n + 1
         /\ SavedOfHand' /\ ~(frames' <= n) => SavedOfHand /\ saved = Compared(s)
<1>1. table' = table /\ frames \in Nat
  BY EvaluationTypes, ConstantsAssumption DEF ConstantsAssumption, TypeOK
<1>2. CASE saved' = saved /\ frames' = frames
  BY <1>1, <1>2 DEF SavedOfHand, FramesOfHand
<1>3. CASE frames' = 0
  BY <1>3
<1>4. CASE saved = Compared(s) /\ saved' = saved /\ frames' <= frames + 1
  <2>1. frames' \in Nat
    BY <1>1, CounterTypes, EvaluationTypes, ConstantsAssumption
    DEF ConstantsAssumption, TypeOK, CounterOK, Evaluation, EvaluateAll
  <2> QED
    BY <1>1, <1>4, <2>1 DEF SavedOfHand, FramesOfHand
<1> QED
  BY <1>2, <1>3, <1>4, Frames

\* The first evaluation.
LEMMA FirstSigns ==
  ASSUME Detection, UsualSession, NEW s, Evaluation(s), evaluations = 0
  PROVE  SignsCome'
<1> SUFFICES ASSUME table'.cards # NoCards
             PROVE  SignsCome'
  BY DEF SignsCome
<1>1. table' = table /\ evaluations' = 1 /\ JustBegun /\ shown' = s
  BY EvaluationTypes DEF JustBegun, Evaluation, Detection
<1>2. SavedOfHand' => frames' <= 0 /\ saved' = Compared(s)
  <2>1. ~SavedOfHand
    BY <1>1 DEF Detection, SignsCome
  <2> QED
    BY <1>1, <2>1, Frames DEF SavedOfHand, Detection
<1>3. ASSUME ~Joining'
      PROVE  DealerToCome' /\ (handresets' = 0 => OtherSign \in fired'[1] \/ OtherToCome')
  <2>1. ~Joining
    BY <1>3, Detects DEF Detection
  <2>2. engines.dealer \notin {NoDealer, table.dealer}
    BY <1>1, <2>1, OldDealer
  <2>3. DealerToCome'
    BY <1>1, <2>2, StoredSigns DEF Detection, DealerToCome
  <2>4. OtherToCome
    BY <1>1, <2>1, OldSigns
  <2>5. OtherSign \in FiringHandresetMethods(GetNewSymbolValues(s)) \/ OtherToCome'
    BY <1>1, <2>1, <2>4, OtherSignFires
  <2>6. handresets' = 0 => fired'[1] = FiringHandresetMethods(GetNewSymbolValues(s))
    BY Detects DEF Detection
  <2> QED
    BY <2>3, <2>5, <2>6
<1>4. handresets' = 0 => ~Joining'
  BY DEF Joining, JoinedHand
<1>5. Compared(shown)' = Compared(s) /\ OtherSign' = OtherSign
  BY <1>1 DEF Compared, OtherSign
<1> QED
  BY <1>1, <1>2, <1>3, <1>4, <1>5 DEF SignsCome

\* The second one.
LEMMA SecondSigns ==
  ASSUME Detection, UsualSession, NEW s, Evaluation(s), evaluations = 1
  PROVE  SignsCome'
<1> SUFFICES ASSUME table'.cards # NoCards
             PROVE  SignsCome'
  BY DEF SignsCome
<1> DEFINE F == FiringHandresetMethods(GetNewSymbolValues(s))
<1>1. table' = table /\ evaluations' = 2 /\ ~JustBegun
  BY EvaluationTypes DEF JustBegun, Detection
<1>2. /\ SavedOfHand => frames <= 0 /\ saved = Compared(shown)
      /\ ~Joining => DealerToCome
      /\ handresets = 0 => OtherSign \in fired[1] \/ OtherToCome
  BY <1>1 DEF Detection, SignsCome
<1>3. /\ s.dealer = table.dealer /\ s.cards = table.cards
      /\ engines.dealer # NoDealer
  BY <1>1, NothingLate
<1>4. FramesOfHand(0)
  BY <1>2 DEF FramesOfHand
<1>5. FramesOfHand(1)'
  BY <1>4, FramesOfHands DEF FramesOfHand, Detection
<1>6. ASSUME handresets' = 0
      PROVE  /\ FramesOfHand(0)'
             /\ "DealerChair" \in fired'[1] \/ DealerToCome'
             /\ OtherSign \in fired'[1] \cup fired'[2] \/ OtherToCome'
  <2>1. handresets = 0 /\ fired' = <<F, fired[1]>>
    BY <1>6, Detects DEF Detection
  <2>2. DealerToCome
    BY <1>2, <2>1 DEF Joining, JoinedHand
  <2>3. "DealerChair" \in F \/ last.dealer = engines.dealer
    BY <1>3, <2>2, DealerChairFires DEF Detection, DealerToCome
  <2>4. "DealerChair" \in fired'[1] \/ DealerToCome'
    BY <1>1, <1>3, <2>1, <2>2, <2>3, StoredSigns DEF Detection, DealerToCome
  <2>5. /\ OtherSign \in F \cup fired[1] \/ OtherToCome'
        /\ engines.userchair => OtherSign \in F \cup fired[1]
    BY <1>1, <1>2, <2>1, OtherSignFires
  <2>6. OtherSign \in fired'[1] \cup fired'[2] \/ OtherToCome'
    BY <2>1, <2>5
  <2>7. ASSUME SavedOfHand, saved = Compared(s)
        PROVE  FALSE
    <3>1. shown.dealer = table.dealer /\ shown.cards = table.cards
      BY <1>2, <1>3, <2>7 DEF Compared
    <3>2. engines.dealer = table.dealer /\ engines.userchair
      BY <1>1, <3>1, CardsOfTable DEF Detection, EnginesFollow, Recognized, HasKnownCards
    <3>3. "DealerChair" \in F
      BY <2>2, <2>3, <3>2 DEF DealerToCome
    <3>4. OtherSign \in F \cup fired[1] /\ OtherSign # "DealerChair"
      BY <2>5, <3>2 DEF OtherSign
    <3> QED
      BY <1>6, <3>3, <3>4, TwoSignsReset DEF Detection, Window
  <2>8. FramesOfHand(0)'
    BY <1>4, <2>7, FramesOfHands DEF FramesOfHand, Detection
  <2> QED
    BY <2>4, <2>6, <2>8
<1>7. OtherSign' = OtherSign
  BY DEF OtherSign
<1> QED
  BY <1>1, <1>5, <1>6, <1>7 DEF SignsCome

\* At the third one, at the latest, the hand is detected.
LEMMA ThirdSigns ==
  ASSUME Detection, UsualSession, NEW s, Evaluation(s), evaluations >= 2
  PROVE  SignsCome'
<1>0. evaluations' = 3
  <2>1. evaluations \in 0 .. 3
    BY DEF Detection, TypeOK, MaxEvaluations
  <2>2. evaluations' = IF evaluations = 3 THEN 3 ELSE evaluations + 1
    BY EvaluationTypes DEF Detection
  <2> QED
    BY <2>1, <2>2
<1> SUFFICES ASSUME table'.cards # NoCards
             PROVE  handresets' # 0
  BY <1>0 DEF SignsCome
<1> DEFINE F == FiringHandresetMethods(GetNewSymbolValues(s))
<1>1. table' = table /\ ~JustBegun
  BY EvaluationTypes DEF JustBegun, Detection
<1>2. evaluations \in {2, 3}
  BY DEF Detection, TypeOK, MaxEvaluations
<1>3. CASE handresets # 0
  BY <1>3, Detects DEF Detection
<1>4. CASE handresets = 0
  <2>1. /\ "DealerChair" \in fired[1] \/ DealerToCome
        /\ OtherSign \in fired[1] \cup fired[2] \/ OtherToCome
    BY <1>1, <1>2, <1>4 DEF Detection, SignsCome
  <2>2. /\ engines.dealer = table.dealer
        /\ engines.dealer # NoDealer /\ engines.userchair
    BY <1>1, NothingLate
  <2>3. "DealerChair" \in F \cup fired[1]
    BY <2>1, <2>2, DealerChairFires DEF Detection, DealerToCome
  <2>4. OtherSign \in F \cup fired[1] \cup fired[2] /\ OtherSign # "DealerChair"
    BY <1>1, <2>1, <2>2, OtherSignFires DEF OtherSign
  <2> QED
    BY <2>3, <2>4, TwoSignsReset DEF Detection, Window
<1> QED
  BY <1>3, <1>4

LEMMA EvaluatedSigns ==
  ASSUME Detection, UsualSession, NEW s, Evaluation(s)
  PROVE  SignsCome'
<1>1. evaluations \in 0 .. 3
  BY DEF Detection, TypeOK, MaxEvaluations
<1>2. evaluations = 0 \/ evaluations = 1 \/ evaluations >= 2
  BY <1>1
<1> QED
  BY <1>2, FirstSigns, SecondSigns, ThirdSigns

-----------------------------------------------------------------------------
(* The other steps                                                         *)

LEMMA JoinedHands ==
  ASSUME NEW h \in 0 .. Hands, NEW t \in Joined(h)
  PROVE  /\ t.cards = CardsOf[h]
         /\ t.dealer = DealerOf(h)
         /\ t.handnumber = NumberOf(h)
         /\ t.pot <= LargePot(t.level)
<1>1. ASSUME NEW d \in Dealt(h)
      PROVE  /\ d.cards = CardsOf[h] /\ d.dealer = DealerOf(h)
             /\ d.handnumber = NumberOf(h)
             /\ d.pot = SmallPot(d.level) /\ d.level \in Levels
  BY DEF Dealt, Deals
<1>2. ASSUME NEW l \in Levels
      PROVE  SmallPot(l) <= LargePot(l) /\ LargePot(l) <= LargePot(l)
  <2>1. l \in Nat
    BY Amounts
  <2>2. SmallPot(l) <= LargePot(l) /\ LargePot(l) \in Nat
    BY <2>1, Blinds
  <2> QED
    BY <2>2
<1>3. CASE t \in Dealt(h)
  BY <1>1, <1>2, <1>3
<1>4. ASSUME NEW d \in Dealt(h),
             t = [d EXCEPT !.community = 3, !.bets = NoBet, !.pot = LargePot(d.level)]
      PROVE  /\ t.cards = CardsOf[h] /\ t.dealer = DealerOf(h)
             /\ t.handnumber = NumberOf(h)
             /\ t.pot <= LargePot(t.level)
  <2>1. d \in Tables
    BY DealtTables
  <2>2. /\ t.cards = d.cards /\ t.dealer = d.dealer /\ t.level = d.level
        /\ t.handnumber = d.handnumber /\ t.pot = LargePot(d.level)
    BY <1>4, <2>1 DEF Tables
  <2> QED
    BY <1>1, <1>2, <2>2
<1> QED
  BY <1>3, <1>4 DEF Joined

LEMMA NumbersOfHands ==
  ASSUME HandNumbers, NEW h
  PROVE  NumberOf(h) = h + 1
<1> QED
  BY DEF NumberOf

\* Whatever is played, it is a later view of the same hand.
LEMMA PlaysFollow ==
  ASSUME table \in Tables, table.pot <= LargePot(table.level), NEW t \in Plays
  PROVE  Follows(table, t) /\ t.pot <= LargePot(t.level)
<1>1. Follows(table, table) /\ table \in Views
  BY FollowsItself, NumbersOfTables
<1>2. /\ table.community \in {0, 3} /\ table.opponents \in Nat /\ table.pot \in Nat
      /\ LargePot(table.level) \in Nat
  BY <1>1, NumbersOfTables, NumbersOfViews, Amounts, Blinds
<1>3. ASSUME NEW b \in BOOLEAN,
             t = [table EXCEPT !.community = 3, !.bets = NoBet,
                               !.pot = LargePot(table.level), !.buttons = b]
      PROVE  Follows(table, t) /\ t.pot <= LargePot(t.level)
  <2>1. /\ t.community = 3 /\ t.bets = NoBet /\ t.pot = LargePot(table.level)
        /\ t.dealer = table.dealer /\ t.handnumber = table.handnumber
        /\ t.level = table.level /\ t.opponents = table.opponents
        /\ t.cards = table.cards
    BY <1>3 DEF Tables
  <2> QED
    BY <1>1, <1>2, <2>1 DEF Follows
<1>4. ASSUME NEW n \in Opponents, n < table.opponents,
             t = [table EXCEPT !.opponents = n]
      PROVE  Follows(table, t) /\ t.pot <= LargePot(t.level)
  <2>1. /\ t.opponents = n /\ t.community = table.community /\ t.bets = table.bets
        /\ t.dealer = table.dealer /\ t.handnumber = table.handnumber
        /\ t.level = table.level /\ t.pot = table.pot /\ t.cards = table.cards
    BY <1>4 DEF Tables
  <2>2. n \in Nat
    BY Amounts
  <2> QED
    BY <1>1, <1>2, <1>4, <2>1, <2>2 DEF Follows
<1>5. ASSUME NEW b \in BOOLEAN, t = [table EXCEPT !.buttons = b]
      PROVE  Follows(table, t) /\ t.pot <= LargePot(t.level)
  BY <1>1, <1>5 DEF Follows, Tables
<1>6. ASSUME t = [table EXCEPT !.cards = NoCards, !.buttons = FALSE]
      PROVE  Follows(table, t) /\ t.pot <= LargePot(t.level)
  <2>1. NoCards[1] = NoCard /\ NoCards[2] = NoCard
    BY DEF NoCards
  <2> QED
    BY <1>1, <1>6, <2>1 DEF Follows, Tables
<1> QED
  BY <1>3, <1>4, <1>5, <1>6 DEF Plays

LEMMA PlayedCards ==
  ASSUME table \in Tables, NEW t \in Plays
  PROVE  t.cards \in {table.cards, NoCards}
<1> QED
  BY DEF Plays, Tables

LEMMA DetectionInit == Init => Detection
<1> SUFFICES ASSUME Init
             PROVE  Detection
  OBVIOUS
<1>1. TypeOK
  BY InitTypes
<1>2. JustBegun /\ Joining /\ hand = 0 /\ saved = NothingSaved /\ frames = 0
      /\ shown = EmptyTable /\ engines = NoSymbols /\ locked = Unlocked
      /\ before = table /\ pc = "scrape" /\ last.cards = NoCards
  BY DEF Init, JustBegun, Joining
<1>3. table.cards = CardsOf[0] /\ table.dealer = DealerOf(0)
      /\ table.handnumber = NumberOf(0) /\ table.pot <= LargePot(table.level)
  BY ConstantsAssumption, JoinedHands DEF ConstantsAssumption, Init
<1>4. KnownCards /\ KnownNumbers
  <2>1. LastSeen = 0
    BY <1>2 DEF LastSeen
  <2>2. HandNumbers => table.handnumber = 0 + 1
    BY <1>3, NumbersOfHands
  <2>3. last.handnumber = 0
    BY DEF Init, NoNumber
  <2> QED
    BY <1>2, <1>3, <2>1, <2>2, <2>3 DEF KnownCards, KnownNumbers
<1>5. KnownDealers
  BY <1>2, <1>3 DEF KnownDealers, NoSymbols
<1>6. ViewsFollow
  <2>1. Follows(before, table)
    BY <1>1, <1>2, FollowsItself, NumbersOfTables DEF TypeOK
  <2> QED
    BY <1>2, <1>3, <2>1 DEF ViewsFollow, JustBegun
<1>7. EnginesFollow
  BY <1>2 DEF EnginesFollow, EmptyTable, NoSymbols, HasKnownCards, NoCards
<1>8. Counted
  BY <1>2 DEF Counted
<1>9. SignsCome
  BY <1>2 DEF SignsCome, SavedOfHand, JustBegun
<1> QED
  BY <1>1, <1>4, <1>5, <1>6, <1>7, <1>8, <1>9 DEF Detection

LEMMA DetectionNewHand ==
  ASSUME Detection, UsualSession, NewHand
  PROVE  KnownCards' /\ KnownNumbers' /\ KnownDealers' /\ ViewsFollow' /\ EnginesFollow'
         /\ Counted' /\ SignsCome'
<1>1. /\ hand' = hand + 1 /\ hand \in Nat /\ hand' \in 1 .. Hands
      /\ ~JustBegun /\ JustBegun' /\ evaluations' = 0
      /\ handresets' = 0 /\ ~Joining' /\ pc = "scrape"
      /\ UNCHANGED <<before, shown, engines, locked, last, saved, frames, pc>>
  BY ConstantsAssumption
  DEF ConstantsAssumption, NewHand, CasinoShows, Detection, TypeOK, JustBegun, Joining,
      JoinedHand, detector, counter
<1>2. table' \in Dealt(hand')
  BY <1>1 DEF NewHand, CasinoShows
<1>3. /\ table'.cards = CardsOf[hand'] /\ table'.dealer = DealerOf(hand')
      /\ table'.handnumber = NumberOf(hand') /\ table'.pot <= LargePot(table'.level)
  <2>1. hand' \in 0 .. Hands
    BY <1>1
  <2>2. table' \in Joined(hand')
    BY <1>2 DEF Joined
  <2> QED
    BY <2>1, <2>2, JoinedHands
<1>4. LastSeen' = hand /\ LastSeen = hand
  BY <1>1 DEF LastSeen
<1>5. KnownCards'
  <2>1. SeenUntil(saved[2], LastSeen)' <=> SeenUntil(saved[2], hand)
    BY <1>1, <1>4 DEF SeenUntil, SeenCards
  <2>2. RecentCards(LastSeen)' = RecentCards(hand) /\ SignOfCards' = SignOfCards
    BY <1>4 DEF RecentCards, SignOfCards
  <2>3. /\ before.cards \in {NoCards, CardsOf[hand]}
        /\ saved # NothingSaved => SeenUntil(saved[2], hand)
        /\ SignOfCards => last.cards \in RecentCards(hand)
    BY <1>1, <1>4 DEF KnownCards, Detection
  <2> QED
    BY <1>1, <1>3, <1>4, <2>1, <2>2, <2>3 DEF KnownCards
<1>6. KnownNumbers'
  BY <1>1, <1>3, <1>4, NumbersOfHands DEF KnownNumbers, Detection
<1>7. KnownDealers'
  <2>1. before.dealer = DealerOf(hand)
    BY <1>1 DEF Detection, KnownDealers, ViewsFollow, Follows
  <2>2. engines.dealer \in DealersKnown(hand)
    BY <1>1 DEF Detection, KnownDealers
  <2>3. hand' - 1 = hand /\ hand' > 0
    BY <1>1
  <2> QED
    BY <1>1, <1>3, <2>1, <2>2, <2>3 DEF KnownDealers
<1>8. ViewsFollow'
  BY <1>1, <1>3 DEF ViewsFollow
<1>9. EnginesFollow'
  BY <1>1 DEF EnginesFollow, Detection
<1>10. Counted'
  BY <1>1 DEF Counted, Detection, UserMayAct, Compared
<1>11. SignsCome'
  <2>1. saved # NothingSaved => SeenUntil(saved[2], hand' - 1)
    BY <1>1, <1>4 DEF Detection, KnownCards
  <2>2. saved # NothingSaved => CardsOf[hand'] # saved[2]
    BY <1>1, <2>1, NewCards
  <2>3. ~SavedOfHand'
    BY <1>1, <1>3, <2>2 DEF SavedOfHand
  <2> QED
    BY <1>1, <2>3 DEF SignsCome
<1> QED
  BY <1>5, <1>6, <1>7, <1>8, <1>9, <1>10, <1>11

LEMMA DetectionPlay ==
  ASSUME Detection, Play
  PROVE  KnownCards' /\ KnownNumbers' /\ KnownDealers' /\ ViewsFollow' /\ EnginesFollow'
         /\ Counted' /\ SignsCome'
<1>1. PICK t \in Plays : CasinoShows(t)
  BY DEF Play
<1>2. /\ table' = t
      /\ UNCHANGED <<hand, evaluations, handresets, before, shown, engines, locked, last,
                     fired, saved, frames, pc>>
  BY <1>1 DEF Play, CasinoShows, detector, counter
<1>3. Follows(table, t) /\ t.pot <= LargePot(t.level)
  BY PlaysFollow DEF Detection, TypeOK, ViewsFollow
<1>4. t.cards \in {table.cards, NoCards} /\ t.dealer = table.dealer
      /\ t.handnumber = table.handnumber
  BY <1>3, PlayedCards DEF Follows, Detection, TypeOK
<1>5. LastSeen' = LastSeen /\ JustBegun' = JustBegun /\ Joining' = Joining
  BY <1>2 DEF LastSeen, JustBegun, Joining
<1>6. /\ SeenUntil(saved[2], LastSeen)' <=> SeenUntil(saved[2], LastSeen)
      /\ RecentCards(LastSeen)' = RecentCards(LastSeen) /\ SignOfCards' = SignOfCards
  BY <1>2, <1>5 DEF SeenUntil, SeenCards, RecentCards, SignOfCards
<1>7. KnownCards' /\ KnownNumbers'
  BY <1>2, <1>4, <1>5, <1>6 DEF KnownCards, KnownNumbers, Detection
<1>8. KnownDealers'
  BY <1>2, <1>4, <1>5 DEF KnownDealers, Detection
<1>9. ViewsFollow'
  <2>1. t \in Views /\ table \in Views /\ before \in Views
    BY PlayedTables, NumbersOfTables DEF Detection, TypeOK
  <2>2. Joining \/ ~JustBegun => Follows(before, t)
    BY <1>3, <2>1, FollowsTransitively DEF Detection, ViewsFollow
  <2> QED
    BY <1>2, <1>3, <1>5, <2>2 DEF ViewsFollow, Detection
<1>10. EnginesFollow'
  BY <1>2 DEF EnginesFollow, Detection
<1>11. Counted'
  BY <1>2, <1>5 DEF Counted, Detection, UserMayAct, Compared
<1>12. SignsCome'
  <2> SUFFICES ASSUME table'.cards # NoCards
               PROVE  SignsCome'
    BY DEF SignsCome
  <2>1. table'.cards = table.cards /\ table'.dealer = table.dealer
        /\ table'.handnumber = table.handnumber
    BY <1>2, <1>4
  <2>2. /\ SavedOfHand' = SavedOfHand
        /\ DealerToCome' = DealerToCome
        /\ OtherToCome' = OtherToCome /\ OtherSign' = OtherSign
        /\ FramesOfHand(0)' = FramesOfHand(0)
        /\ FramesOfHand(1)' = FramesOfHand(1)
        /\ Compared(shown)' = Compared(shown)
    BY <1>2, <2>1
    DEF SavedOfHand, DealerToCome, OtherToCome, OtherSign, FramesOfHand, Compared
  <2>3. SignsCome /\ table.cards # NoCards
    BY <2>1 DEF Detection
  <2> QED
    BY <1>2, <1>5, <2>2, <2>3 DEF SignsCome
<1> QED
  BY <1>7, <1>8, <1>9, <1>10, <1>11, <1>12

\* The autoplayer leaves what is known of the hand alone; after an action the
\* stable frames are counted anew.
LEMMA DetectionActs ==
  ASSUME Detection, Act \/ Wait \/ UNCHANGED vars
  PROVE  KnownCards' /\ KnownNumbers' /\ KnownDealers' /\ ViewsFollow' /\ EnginesFollow'
         /\ Counted' /\ SignsCome'
<1>1. UNCHANGED <<hand, table, evaluations, handresets, before, shown, engines, locked, last,
                  fired>>
  BY DEF Act, Wait, vars, casino, detector
<1>2. \/ saved' = NothingSaved /\ frames' = 0
      \/ saved' = saved /\ frames' = frames
  BY DEF Act, Wait, vars, counter
<1>3. pc' = pc \/ pc' = "scrape"
  BY DEF Act, Wait, vars
<1>4. LastSeen' = LastSeen /\ JustBegun' = JustBegun /\ Joining' = Joining
  BY <1>1 DEF LastSeen, JustBegun, Joining
<1>5. /\ RecentCards(LastSeen)' = RecentCards(LastSeen) /\ SignOfCards' = SignOfCards
      /\ saved' = saved => (SeenUntil(saved[2], LastSeen)' <=> SeenUntil(saved[2], LastSeen))
  BY <1>4 DEF SeenUntil, SeenCards, RecentCards, SignOfCards
<1>6. KnownCards' /\ KnownNumbers'
  BY <1>1, <1>2, <1>4, <1>5 DEF KnownCards, KnownNumbers, Detection
<1>7. KnownDealers'
  BY <1>1, <1>4 DEF KnownDealers, Detection
<1>8. ViewsFollow'
  BY <1>1, <1>4 DEF ViewsFollow, Detection
<1>9. EnginesFollow'
  BY <1>1 DEF EnginesFollow, Detection
<1>10. Compared(shown)' = Compared(shown) /\ UserMayAct(shown)' = UserMayAct(shown)
  BY <1>1 DEF Compared, UserMayAct
<1>11. Counted'
  BY <1>2, <1>3, <1>4, <1>10 DEF Counted, Detection
<1>12. SignsCome'
  <2>1. /\ SavedOfHand' => SavedOfHand /\ saved' = saved /\ frames' = frames
        /\ DealerToCome' = DealerToCome
        /\ OtherToCome' = OtherToCome /\ OtherSign' = OtherSign
        /\ FramesOfHand(0) => FramesOfHand(0)'
        /\ FramesOfHand(1) => FramesOfHand(1)'
    BY <1>1, <1>2 DEF SavedOfHand, DealerToCome, OtherToCome, OtherSign, FramesOfHand
  <2> QED
    BY <1>1, <1>4, <1>10, <2>1 DEF SignsCome, Detection
<1> QED
  BY <1>6, <1>7, <1>8, <1>9, <1>11, <1>12

LEMMA DetectionConnect ==
  ASSUME Detection, UsualSession, Connect
  PROVE  KnownCards' /\ KnownNumbers' /\ KnownDealers' /\ ViewsFollow' /\ EnginesFollow'
         /\ Counted' /\ SignsCome'
<1>1. /\ hand' = hand + 1 /\ hand \in Nat /\ hand' \in 1 .. Hands
      /\ ~JustBegun /\ JustBegun' /\ evaluations' = 0
      /\ Joining' /\ pc' = "scrape" /\ before' = table'
      /\ shown' = EmptyTable /\ engines' = NoSymbols /\ locked' = Unlocked
      /\ UNCHANGED <<last, saved, frames>>
  BY ConstantsAssumption
  DEF ConstantsAssumption, Connect, Detection, TypeOK, JustBegun, Joining, detector, counter
<1>2. table' \in Joined(hand')
  BY <1>1 DEF Connect
<1>3. /\ table'.cards = CardsOf[hand'] /\ table'.dealer = DealerOf(hand')
      /\ table'.handnumber = NumberOf(hand') /\ table'.pot <= LargePot(table'.level)
  BY <1>1, <1>2, JoinedHands
<1>4. table' \in Views
  BY <1>1, <1>2, JoinedTables, NumbersOfTables
<1>5. LastSeen' = hand' /\ LastSeen = hand /\ hand' - 1 = hand
  BY <1>1 DEF LastSeen
<1>6. saved # NothingSaved => SeenUntil(saved[2], hand' - 1)
  BY <1>5 DEF KnownCards, Detection
<1>7. KnownCards'
  <2>1. saved # NothingSaved => SeenUntil(saved[2], hand')
    BY <1>1, <1>6, SeenLonger
  <2>2. SeenUntil(saved[2], LastSeen)' <=> SeenUntil(saved[2], hand')
    BY <1>1, <1>5 DEF SeenUntil, SeenCards
  <2> QED
    BY <1>1, <1>3, <1>5, <2>1, <2>2 DEF KnownCards
<1>8. KnownNumbers'
  <2>1. last.handnumber \in Int
    BY DEF Detection, TypeOK, Stored
  <2> QED
    BY <1>1, <1>3, <1>5, <2>1, NumbersOfHands DEF KnownNumbers, Detection
<1>9. KnownDealers'
  BY <1>1, <1>3 DEF KnownDealers, NoSymbols
<1>10. ViewsFollow'
  <2>1. Follows(table', table')
    BY <1>4, FollowsItself
  <2>2. Follows(before, table)'
    BY <1>1, <2>1
  <2> QED
    BY <1>1, <1>3, <2>2 DEF ViewsFollow
<1>11. EnginesFollow'
  BY <1>1 DEF EnginesFollow, EmptyTable, NoSymbols, HasKnownCards, NoCards
<1>12. Counted'
  BY <1>1 DEF Counted, Detection
<1>13. SignsCome'
  <2>1. saved # NothingSaved => CardsOf[hand'] # saved[2]
    BY <1>1, <1>6, NewCards
  <2>2. ~SavedOfHand'
    BY <1>1, <1>3, <2>1 DEF SavedOfHand
  <2> QED
    BY <1>1, <2>2 DEF SignsCome
<1> QED
  BY <1>7, <1>8, <1>9, <1>10, <1>11, <1>12, <1>13

LEMMA DetectionNext ==
  ASSUME UsualSession
  PROVE  Detection /\ [Next]_vars => Detection'
<1> SUFFICES ASSUME Detection, [Next]_vars
             PROVE  Detection'
  OBVIOUS
<1>1. TypeOK'
  BY NextTypes DEF Detection
<1> SUFFICES KnownCards' /\ KnownNumbers' /\ KnownDealers' /\ ViewsFollow'
             /\ EnginesFollow' /\ Counted' /\ SignsCome'
  BY <1>1 DEF Detection
<1>2. CASE Heartbeat \/ OnClickedFlags
  <2>1. PICK s : Evaluation(s)
    BY <1>2, Evaluates
  <2> QED
    BY <2>1, EvaluatedCards, EvaluatedNumbers, EvaluatedDealers, EvaluatedViews,
       EvaluatedEngines, EvaluatedCount, EvaluatedSigns
    DEF Detection
<1>3. CASE NewHand
  BY <1>3, DetectionNewHand
<1>4. CASE Play
  BY <1>4, DetectionPlay
<1>5. CASE Act \/ Wait \/ UNCHANGED vars
  BY <1>5, DetectionActs
<1>6. CASE Connect
  BY <1>6, DetectionConnect
<1> QED
  BY <1>2, <1>3, <1>4, <1>5, <1>6 DEF Next

\* A view is not stable before the third evaluation of its hand.
LEMMA ActsOnThirdEvaluation ==
  ASSUME Detection, UsualSession, CanAct, SeesHand
  PROVE  /\ table.cards # NoCards
         /\ evaluations = 3
         /\ SavedOfHand /\ ~(frames <= 1)
<1>1. pc = "act" /\ UserMayAct(shown) /\ frames >= FrameDelay /\ shown.cards = table.cards
  BY DEF CanAct, IsFinalAnswer, SeesHand
<1>2. frames \in Nat /\ FrameDelay \in Nat /\ evaluations \in 0 .. 3
  BY ConstantsAssumption DEF ConstantsAssumption, Detection, TypeOK, MaxEvaluations
<1>3. ~(frames <= 1)
  BY <1>1, <1>2 DEF UsualSession
<1>4. table.cards # NoCards
  BY <1>1 DEF UserMayAct, HasKnownCards, NoCards
<1>5. SavedOfHand
  BY <1>1, <1>3, <1>2, ComparedCards DEF Detection, Counted, SavedOfHand
<1>6. evaluations \notin {0, 1, 2}
  BY <1>2, <1>3, <1>4, <1>5 DEF Detection, SignsCome, FramesOfHand
<1> QED
  BY <1>2, <1>3, <1>4, <1>5, <1>6

\* Whenever the bot may act in a hand that began while it watched the table, the
\* handreset of that hand is done, whatever the casino draws late and however many
\* hands are dealt: CHandresetDetector needs no more than three evaluations, and
\* CStableFramesCounter lets no view pass before the third one.
THEOREM HandsAreDetected ==
  ASSUME UsualSession
  PROVE  Spec => []EveryHandDetected
<1>1. Init => Detection
  BY DetectionInit
<1>2. Detection /\ [Next]_vars => Detection'
  BY DetectionNext
<1>3. Detection => EveryHandDetected
  BY ActsOnThirdEvaluation DEF EveryHandDetected, Detection, SignsCome
<1> QED
  BY <1>1, <1>2, <1>3, PTL DEF Spec

-----------------------------------------------------------------------------
(* The history of the bot's actions                                        *)

\* A level that is drawn late may get locked for the hand, until a late handreset
\* corrects it: the blinds of the next evaluation change after the first action.
LevelsInTime == "level" \notin LateItems

BlindKnown ==
  /\ evaluations >= 1 => shown.level = table.level
  /\ handresets # 0 => locked \in {Unlocked, table.level}

\* The values for comparison: of the last view, and from the third evaluation on
\* of this hand.
LastFollows ==
  /\ evaluations >= 1 =>
       /\ last.handnumber = shown.handnumber
       /\ last.community = shown.community
       /\ last.small_blind = (0 < shown.bets /\ shown.bets < last.bblind)
  /\ evaluations >= 3 =>
       /\ last.dealer = shown.dealer
       /\ shown.opponents <= last.opponents
       /\ last.pot <= shown.pot
       /\ HasKnownCards(shown) => last.cards = shown.cards

FewSigns == evaluations >= 1 => Cardinality(fired[1] \cup fired[2]) < 2

\* The actions of the last hand are forgotten at the third evaluation, at the latest; no
\* action of this hand is taken before, nor before the symbols of the blinds are those of
\* this hand.
ActionsFollow ==
  table.cards # NoCards =>
  /\ evaluations <= 2 => acted = NoActions
  /\ evaluations = 0 => /\ handresets \in {0, JoinedHand}
                        /\ Joining => actions = NoActions
  /\ evaluations \in {1, 2} /\ handresets # 0 /\ ~mistaken => actions = NoActions
  /\ evaluations = 3 /\ ~stale_balance =>
       /\ ~mistaken => actions = acted
       /\ last.bblind = table.level \/ (FramesOfHand(1) /\ acted = NoActions)

History == BlindKnown /\ LastFollows /\ FewSigns /\ ActionsFollow

LEMMA EvaluatedBlind ==
  ASSUME Detection, BlindKnown, LevelsInTime, NEW s, Evaluation(s)
  PROVE  BlindKnown'
<1> DEFINE v == GetNewSymbolValues(s)
<1>1. shown' = s /\ table' = table /\ s.level = table.level
  BY EvaluationTypes, ScrapedItems DEF Detection, Evaluation, LevelsInTime
<1>2. AutoLockBlinds(s, IsHandreset(v))
  BY DEF Evaluation, EvaluateAll
<1> HIDE DEF v
<1>3. ASSUME handresets' # 0
      PROVE  locked' \in {Unlocked, table.level}
  <2>1. CASE IsHandreset(v)
    BY <1>1, <1>2, <2>1 DEF AutoLockBlinds
  <2>2. CASE ~IsHandreset(v)
    <3>1. handresets' = handresets
      BY <2>2, Detects DEF v, Detection
    <3>2. locked \in {Unlocked, table.level}
      BY <1>3, <3>1 DEF BlindKnown
    <3> QED
      BY <1>1, <1>2, <2>2, <3>2 DEF AutoLockBlinds
  <2> QED
    BY <2>1, <2>2
<1> QED
  BY <1>1, <1>3 DEF BlindKnown

\* From the third evaluation on, views follow each other.
LEMMA NextViewFollows ==
  ASSUME Detection, NEW s, Evaluation(s), evaluations >= 2
  PROVE  Follows(shown, s)
<1>1. Follows(shown, before) /\ Follows(before, table)
  BY DEF Detection, ViewsFollow, JustBegun
<1>2. Follows(before, s)
  BY <1>1, ScrapeFollows, CardsOfTable DEF Detection, TypeOK, Evaluation
<1>3. shown \in Views /\ before \in Views /\ s \in Views
  BY NumbersOfTables, EvaluationTypes DEF Detection, TypeOK
<1> QED
  BY <1>1, <1>2, <1>3, FollowsTransitively

LEMMA EvaluatedLast ==
  ASSUME Detection, NEW s, Evaluation(s)
  PROVE  LastFollows'
<1>1. last' = GetNewSymbolValues(s) /\ shown' = s
  BY EvaluationTypes DEF Detection, Evaluation
<1>2. /\ last'.handnumber = s.handnumber
      /\ last'.community = s.community
      /\ last'.small_blind = (0 < s.bets /\ s.bets < last'.bblind)
  BY <1>1 DEF GetNewSymbolValues, SmallBlindExists
<1>3. ASSUME evaluations' >= 3
      PROVE  /\ last'.dealer = s.dealer
             /\ s.opponents <= last'.opponents
             /\ last'.pot <= s.pot
             /\ HasKnownCards(s) => last'.cards = s.cards
  <2>1. evaluations >= 2 /\ ~JustBegun
    BY <1>3, EvaluationTypes DEF Detection, TypeOK, MaxEvaluations, JustBegun
  <2>2. Follows(shown, s) /\ EnginesFollow
    BY <2>1, NextViewFollows DEF Detection
  <2>3. engines.dealer # NoDealer
    BY <2>1, NothingLate
  <2>4. last'.dealer = s.dealer
    BY <2>2, <2>3, StoredSigns DEF Follows, EnginesFollow, Detection
  <2>5. last'.opponents = shown.opponents /\ last'.pot = shown.pot
    BY <1>1, <2>2 DEF GetNewSymbolValues, EnginesFollow
  <2>6. HasKnownCards(s) => last'.cards = s.cards
    BY <2>2, StoredSigns DEF Follows, EnginesFollow, HasKnownCards, Detection
  <2> QED
    BY <2>2, <2>4, <2>5, <2>6 DEF Follows
<1>4. HasKnownCards(shown)' <=> HasKnownCards(s)
  BY <1>1 DEF HasKnownCards
<1> QED
  BY <1>1, <1>2, <1>3, <1>4 DEF LastFollows

LEMMA EvaluatedFired ==
  ASSUME TypeOK, NEW s, Evaluation(s)
  PROVE  FewSigns'
<1> DEFINE v == GetNewSymbolValues(s)
<1>1. CASE IsHandreset(v)
  <2>1. fired' = <<{}, {}>>
    BY <1>1, Detects
  <2>2. fired'[1] \cup fired'[2] = {}
    BY <2>1
  <2> QED
    BY <2>2, FS_EmptySet DEF FewSigns
<1>2. CASE ~IsHandreset(v)
  <2>1. fired' = <<FiringHandresetMethods(v), fired[1]>>
    BY <1>2, Detects
  <2>2. fired'[1] \cup fired'[2] \in SUBSET Window(v)
    BY <2>1 DEF Window
  <2>3. ~(Cardinality(Window(v)) >= 2)
    BY <1>2 DEF IsHandreset, Window
  <2>4. Cardinality(fired'[1] \cup fired'[2]) < 2
    BY <2>2, <2>3, WindowOfMethods, FewerSigns
  <2> QED
    BY <2>4 DEF FewSigns
<1> QED
  BY <1>1, <1>2

\* Once a hand is detected the engines know its big blind.
LEMMA BlindDetected ==
  ASSUME Detection, BlindKnown, NEW s, Evaluation(s), evaluations >= 1, handresets # 0
  PROVE  engines.bblind = table.level /\ last'.bblind = table.level
<1>1. engines.bblind = table.level
  BY DEF Detection, EnginesFollow, BlindKnown
<1>2. last'.bblind = engines.bblind
  BY EvaluationTypes DEF GetNewSymbolValues, Detection
<1> QED
  BY <1>1, <1>2

\* After the third evaluation of a hand no method fires any more.
LEMMA NothingFires ==
  ASSUME Detection, BlindKnown, LastFollows, NEW s, Evaluation(s), evaluations = 3,
         handresets # 0, last.bblind = table.level, ~stale_balance
  PROVE  FiringHandresetMethods(GetNewSymbolValues(s)) = {}
<1> DEFINE v == GetNewSymbolValues(s)
<1>1. Follows(shown, s) /\ EnginesFollow /\ ~JustBegun
  BY NextViewFollows DEF Detection, JustBegun
<1>2. /\ last.handnumber = shown.handnumber /\ last.community = shown.community
      /\ last.small_blind = (0 < shown.bets /\ shown.bets < last.bblind)
      /\ last.dealer = shown.dealer /\ shown.opponents <= last.opponents
      /\ last.pot <= shown.pot
      /\ HasKnownCards(shown) => last.cards = shown.cards
  BY DEF LastFollows
<1>3. /\ v.dealer = engines.dealer /\ v.handnumber = s.handnumber
      /\ v.community = s.community /\ v.pot = engines.pot
      /\ v.opponents = engines.opponents /\ v.bblind = engines.bblind
      /\ v.small_blind = (0 < s.bets /\ s.bets < engines.bblind)
      /\ v.cards \in {s.cards, NoCards}
  BY <1>1, NothingLate DEF GetNewSymbolValues, SmallBlindExists
<1>4. engines.bblind = last.bblind
  BY <1>1, BlindDetected
<1>5. /\ shown \in Views /\ s \in Views
  BY EvaluationTypes DEF Detection, TypeOK
<1>6. /\ shown.opponents \in Nat /\ shown.pot \in Nat /\ shown.community \in {0, 1, 3}
      /\ s.community \in {0, 1, 3}
  BY <1>5, NumbersOfViews
<1>7. last.opponents \in Int /\ last.pot \in Int
  <2>1. last.opponents \in Opponents \cup {0, -1} /\ last.pot \in Pots
    BY DEF Detection, TypeOK, Stored, Garbage
  <2>2. Opponents \cup {0, -1} \subseteq Int /\ Pots \subseteq Int
    BY Amounts
  <2> QED
    BY <2>1, <2>2, Zenon
<1> HIDE DEF v
<1>8. ~IsHandresetByDealerChair(v)
  BY <1>1, <1>2, <1>3 DEF IsHandresetByDealerChair, EnginesFollow
<1>9. ~IsHandresetByUserCards(v)
  BY <1>1, <1>2, <1>3 DEF IsHandresetByUserCards, HasKnownCards, NoCards, Follows
<1>10. ~IsHandresetByHandNumber(v)
  BY <1>1, <1>2, <1>3 DEF IsHandresetByHandNumber, Follows
<1>11. ~IsHandresetByCommunityCards(v)
  BY <1>1, <1>2, <1>3, <1>6 DEF IsHandresetByCommunityCards, Follows
<1>12. ~IsHandresetByPotsize(v)
  BY <1>1, <1>2, <1>3, <1>6, <1>7 DEF IsHandresetByPotsize, EnginesFollow
<1>13. ~IsHandresetByNopponentsplaying(v)
  BY <1>1, <1>2, <1>3, <1>6, <1>7 DEF IsHandresetByNopponentsplaying, EnginesFollow
<1>14. ~IsHandresetByChangingBlindLevel(v)
  BY <1>3, <1>4 DEF IsHandresetByChangingBlindLevel
<1>15. ~IsHandresetByNewSmallBlind(v)
  <2>1. s.bets \in {shown.bets, 0}
    BY <1>1 DEF Follows, NoBet
  <2>2. (0 < s.bets /\ s.bets < engines.bblind) => (0 < shown.bets /\ shown.bets < last.bblind)
    BY <1>4, <2>1
  <2>3. v.small_blind => last.small_blind
    BY <1>2, <1>3, <2>2
  <2> QED
    BY <2>3 DEF IsHandresetByNewSmallBlind
<1> SUFFICES FiringHandresetMethods(v) = {}
  BY DEF v
<1> QED
  BY <1>8, <1>9, <1>10, <1>11, <1>12, <1>13, <1>14, <1>15 DEF FiringHandresetMethods

LEMMA NoSecondReset ==
  ASSUME Detection, History, NEW s, Evaluation(s), evaluations = 3,
         handresets # 0, last.bblind = table.level, ~stale_balance
  PROVE  ~IsHandreset(GetNewSymbolValues(s)) /\ handresets' = handresets
         /\ actions' = actions
<1> DEFINE v == GetNewSymbolValues(s)
<1>1. Window(v) = fired[1] \cup fired[2]
  BY NothingFires DEF Window, History
<1>2. Cardinality(Window(v)) < 2
  BY <1>1 DEF History, FewSigns
<1>3. Cardinality(Window(v)) \in Nat
  BY WindowOfMethods, MethodsAreFinite, FS_Subset, FS_CardinalityType DEF Detection
<1>4. ~IsHandreset(v)
  BY <1>2, <1>3 DEF IsHandreset, Window
<1> QED
  BY <1>4, Detects DEF Detection, v

LEMMA FirstActions ==
  ASSUME Detection, History, UsualSession, NEW s, Evaluation(s), evaluations = 0
  PROVE  ActionsFollow'
<1> SUFFICES ASSUME table'.cards # NoCards
             PROVE  ActionsFollow'
  BY DEF ActionsFollow
<1>1. table' = table /\ evaluations' = 1 /\ acted' = acted /\ JoinedHand # 0
  BY EvaluationTypes DEF Detection, JoinedHand
<1>2. /\ acted = NoActions /\ handresets \in {0, JoinedHand}
      /\ Joining => actions = NoActions
  BY <1>1 DEF History, ActionsFollow
<1>3. handresets' # 0 => actions' = NoActions
  BY <1>2, Detects DEF Detection, Joining
<1> QED
  BY <1>1, <1>2, <1>3 DEF ActionsFollow, NoActions

LEMMA SecondActions ==
  ASSUME Detection, History, UsualSession, NEW s, Evaluation(s), evaluations = 1
  PROVE  ActionsFollow'
<1> SUFFICES ASSUME table'.cards # NoCards
             PROVE  ActionsFollow'
  BY DEF ActionsFollow
<1>1. table' = table /\ evaluations' = 2 /\ acted' = acted /\ mistaken' = mistaken
  BY EvaluationTypes DEF Detection
<1>2. /\ acted = NoActions
      /\ handresets # 0 /\ ~mistaken => actions = NoActions
  BY <1>1 DEF History, ActionsFollow
<1>3. handresets' # 0 /\ ~mistaken' => actions' = NoActions
  BY <1>1, <1>2, Detects DEF Detection
<1> QED
  BY <1>1, <1>2, <1>3 DEF ActionsFollow, NoActions

LEMMA ThirdActions ==
  ASSUME Detection, History, UsualSession, NEW s, Evaluation(s), evaluations >= 2
  PROVE  ActionsFollow'
<1>a. evaluations \in {2, 3}
  BY DEF Detection, TypeOK, MaxEvaluations
<1>b. /\ evaluations' = 3 /\ table' = table /\ acted' = acted /\ mistaken' = mistaken
      /\ stale_balance' = stale_balance
  BY <1>a, EvaluationTypes DEF Detection
<1> SUFFICES ASSUME table.cards # NoCards, ~stale_balance
             PROVE  /\ ~mistaken => actions' = acted
                    /\ last'.bblind = table.level \/ (FramesOfHand(1)' /\ acted = NoActions)
  <2>1. ActionsFollow' <=>
          (table.cards # NoCards /\ ~stale_balance =>
             /\ ~mistaken => actions' = acted
             /\ last'.bblind = table.level \/ (FramesOfHand(1)' /\ acted = NoActions'))
    BY <1>b DEF ActionsFollow
  <2>2. NoActions' = NoActions
    BY DEF NoActions
  <2> QED
    BY <2>1, <2>2
<1>1. table' = table /\ ~JustBegun /\ table.cards # NoCards
  BY EvaluationTypes DEF JustBegun, Detection
<1>2. handresets # 0 => last'.bblind = table.level
  BY <1>a, BlindDetected DEF History
<1>3. CASE evaluations = 2
  <2>1. acted = NoActions
    BY <1>1, <1>3 DEF History, ActionsFollow
  <2>2. handresets = 0 => FramesOfHand(1)'
    <3>1. handresets = 0 => FramesOfHand(0)
      BY <1>1, <1>3 DEF Detection, SignsCome
    <3> QED
      BY <3>1, FramesOfHands DEF Detection, FramesOfHand
  <2>3. handresets' # 0
    <3>1. SignsCome'
      BY <1>3, EvaluatedSigns
    <3> QED
      BY <1>1, <1>b, <3>1 DEF SignsCome
  <2>4. ~mistaken => actions' = NoActions
    BY <1>1, <1>3, <2>3, Detects DEF Detection, History, ActionsFollow
  <2> QED
    BY <1>2, <2>1, <2>2, <2>4
<1>4. CASE evaluations = 3
  <2>1. handresets # 0 /\ (~mistaken => actions = acted)
    BY <1>1, <1>4 DEF Detection, SignsCome, History, ActionsFollow
  <2>2. CASE last.bblind = table.level
    BY <1>1, <1>2, <1>4, <2>1, <2>2, NoSecondReset
  <2>3. CASE acted = NoActions
    <3>1. actions' = NoActions \/ actions' = actions
      BY Detects DEF Detection
    <3> QED
      BY <1>2, <2>1, <2>3, <3>1
  <2>4. last.bblind = table.level \/ acted = NoActions
    BY <1>1, <1>4 DEF History, ActionsFollow
  <2> QED
    BY <2>2, <2>3, <2>4
<1> QED
  BY <1>a, <1>3, <1>4

LEMMA EvaluatedHistory ==
  ASSUME Detection, History, UsualSession, LevelsInTime, NEW s, Evaluation(s)
  PROVE  History'
<1>1. BlindKnown' /\ LastFollows' /\ FewSigns'
  BY EvaluatedBlind, EvaluatedLast, EvaluatedFired DEF Detection, History
<1>2. evaluations = 0 \/ evaluations = 1 \/ evaluations >= 2
  BY DEF Detection, TypeOK, MaxEvaluations
<1>3. ActionsFollow'
  BY <1>2, FirstActions, SecondActions, ThirdActions
<1> QED
  BY <1>1, <1>3 DEF History

LEMMA HistoryInit == Init => History
<1> SUFFICES ASSUME Init
             PROVE  History
  OBVIOUS
<1>1. evaluations = 0 /\ locked = Unlocked /\ handresets = JoinedHand
      /\ actions = NoActions /\ acted = NoActions
  BY DEF Init, NoActions
<1>2. BlindKnown /\ LastFollows /\ FewSigns
  BY <1>1 DEF BlindKnown, LastFollows, FewSigns
<1>3. ActionsFollow
  BY <1>1 DEF ActionsFollow
<1> QED
  BY <1>2, <1>3 DEF History

\* A hand that is dealt, or joined, has no history.
LEMMA HistoryBegins ==
  ASSUME History, NewHand \/ Connect
  PROVE  History'
<1>1. /\ evaluations' = 0 /\ acted' = NoActions
      /\ \/ handresets' = 0
         \/ handresets' = JoinedHand /\ locked' = Unlocked /\ actions' = NoActions
  BY DEF NewHand, Connect, NoActions
<1>2. BlindKnown' /\ LastFollows' /\ FewSigns'
  BY <1>1 DEF BlindKnown, LastFollows, FewSigns
<1>3. NoActions' = NoActions /\ 0 # JoinedHand
  BY DEF NoActions, JoinedHand
<1>4. ActionsFollow'
  BY <1>1, <1>3 DEF ActionsFollow, Joining
<1> QED
  BY <1>2, <1>4 DEF History

LEMMA HistoryPlay ==
  ASSUME Detection, History, Play
  PROVE  History'
<1>1. PICK t \in Plays : CasinoShows(t)
  BY DEF Play
<1>2. /\ table' = t
      /\ UNCHANGED <<evaluations, handresets, shown, engines, locked, last, fired,
                     saved, frames, actions, acted, mistaken, stale_balance>>
  BY <1>1 DEF Play, CasinoShows, detector, counter, mistakes
<1>3. Follows(table, t)
  BY PlaysFollow DEF Detection, TypeOK, ViewsFollow
<1>4. t.cards \in {table.cards, NoCards} /\ t.level = table.level
  BY <1>3, PlayedCards DEF Follows, Detection, TypeOK
<1>5. BlindKnown' /\ LastFollows' /\ FewSigns'
  BY <1>2, <1>4 DEF BlindKnown, LastFollows, HasKnownCards, FewSigns, History
<1>6. ActionsFollow'
  <2> SUFFICES ASSUME table'.cards # NoCards
               PROVE  ActionsFollow'
    BY DEF ActionsFollow
  <2>1. table'.cards = table.cards /\ table'.level = table.level
    BY <1>2, <1>4
  <2>2. /\ FramesOfHand(1)' = FramesOfHand(1)
        /\ Joining' = Joining /\ NoActions' = NoActions
    BY <1>2, <2>1 DEF SavedOfHand, FramesOfHand, Joining, NoActions
  <2>3. ActionsFollow /\ table.cards # NoCards
    BY <2>1 DEF History
  <2> QED
    BY <1>2, <2>1, <2>2, <2>3 DEF ActionsFollow
<1> QED
  BY <1>5, <1>6 DEF History

LEMMA HistoryWait ==
  ASSUME History, Wait \/ UNCHANGED vars
  PROVE  History'
<1>1. UNCHANGED <<table, evaluations, handresets, shown, engines, locked, last, fired,
                  saved, frames, actions, acted, mistaken, stale_balance>>
  BY DEF Wait, vars, casino, detector, counter, mistakes
<1> QED
  BY <1>1 DEF History, BlindKnown, LastFollows, HasKnownCards, FewSigns, ActionsFollow,
              SavedOfHand, FramesOfHand, Joining, NoActions

\* A hand is seen from its second evaluation on.
LEMMA SeenHand ==
  ASSUME Detection, table.cards # NoCards, evaluations >= 2 \/ (Joining /\ ~JustBegun)
  PROVE  SeesHand
<1>1. Follows(shown, before) /\ Follows(before, table)
  BY DEF Detection, ViewsFollow, JustBegun
<1>2. Recognized(table.cards)
  BY CardsOfTable DEF Detection
<1>3. shown.cards[1] = table.cards[1] /\ shown.cards[2] = table.cards[2]
  BY <1>1, <1>2 DEF Follows, Recognized
<1>4. shown.cards \in Cards /\ table.cards \in Cards
  BY DEF Detection, TypeOK, Views, Tables
<1> QED
  BY <1>3, <1>4, PairsOfCards DEF SeesHand

LEMMA HistoryAct ==
  ASSUME Detection, History, UsualSession, Act
  PROVE  History'
<1>1. /\ CanAct
      /\ UNCHANGED <<table, evaluations, handresets, shown, engines, locked, last, fired,
                     stale_balance>>
      /\ saved' = NothingSaved /\ frames' = 0
      /\ ~SeesHand => acted' = acted /\ mistaken'
      /\ mistaken' <=> mistaken \/ ~SeesHand
  BY DEF Act, casino, detector
<1>2. BlindKnown' /\ LastFollows' /\ FewSigns'
  BY <1>1 DEF BlindKnown, LastFollows, HasKnownCards, FewSigns, History
<1>3. ActionsFollow'
  <2> SUFFICES ASSUME table.cards # NoCards
               PROVE  ActionsFollow'
    BY <1>1 DEF ActionsFollow
  <2>1. NoActions' = NoActions
    BY DEF NoActions
  <2>2. evaluations \in 1 .. 3
    BY <1>1 DEF Detection, TypeOK, MaxEvaluations, Counted, CanAct, JustBegun
  <2>3. CASE evaluations = 1
    <3>1. ~SeesHand
      BY <1>1, <2>3, ActsOnThirdEvaluation
    <3>2. acted = NoActions
      BY <2>3 DEF History, ActionsFollow
    <3> QED
      BY <1>1, <2>1, <2>3, <3>1, <3>2 DEF ActionsFollow
  <2>4. evaluations # 2
    BY <1>1, SeenHand, ActsOnThirdEvaluation
  <2>5. CASE evaluations = 3
    <3>1. SeesHand
      BY <2>5, SeenHand
    <3>2. SavedOfHand /\ ~(frames <= 1)
      BY <1>1, <3>1, ActsOnThirdEvaluation
    <3>3. ASSUME ~stale_balance
          PROVE  (~mistaken' => actions' = acted') /\ last.bblind = table.level
      <4>1. /\ ~mistaken => actions = acted
            /\ last.bblind = table.level
        BY <2>5, <3>2, <3>3 DEF History, ActionsFollow, FramesOfHand
      <4> QED
        BY <1>1, <3>1, <4>1 DEF Act
    <3> QED
      BY <1>1, <2>1, <2>5, <3>3 DEF ActionsFollow
  <2> QED
    BY <2>2, <2>3, <2>4, <2>5
<1> QED
  BY <1>2, <1>3 DEF History

LEMMA HistoryNext ==
  ASSUME UsualSession, LevelsInTime
  PROVE  Detection /\ History /\ [Next]_vars => History'
<1> SUFFICES ASSUME Detection, History, [Next]_vars
             PROVE  History'
  OBVIOUS
<1>1. CASE Heartbeat \/ OnClickedFlags
  <2>1. PICK s : Evaluation(s)
    BY <1>1, Evaluates
  <2> QED
    BY <2>1, EvaluatedHistory
<1>2. CASE NewHand \/ Connect
  BY <1>2, HistoryBegins
<1>3. CASE Play
  BY <1>3, HistoryPlay
<1>4. CASE Act
  BY <1>4, HistoryAct
<1>5. CASE Wait \/ UNCHANGED vars
  BY <1>5, HistoryWait
<1> QED
  BY <1>1, <1>2, <1>3, <1>4, <1>5 DEF Next

\* Whenever the bot may act, the history of its actions holds those of this hand, unless
\* it took the cards of the last hand for those of this one: the actions of the last hand
\* are forgotten, and no late handreset forgets one of this hand.  From the third
\* evaluation on no method fires any more.
THEOREM HistoryOfThisHand ==
  ASSUME UsualSession, LevelsInTime
  PROVE  Spec => []ActionsOfThisHand
<1>1. Init => Detection /\ History
  BY DetectionInit, HistoryInit
<1>2. Detection /\ History /\ [Next]_vars => (Detection /\ History)'
  BY DetectionNext, HistoryNext
<1>3. Detection /\ History => ActionsOfThisHand
  BY ActsOnThirdEvaluation DEF ActionsOfThisHand, History, ActionsFollow
<1> QED
  BY <1>1, <1>2, <1>3, PTL DEF Spec

-----------------------------------------------------------------------------
(* The blinds                                                              *)

\* The bot acts when blinds are locked, and after its first action in a hand nothing
\* is left that could unlock them.
BlindsKept ==
  /\ pc = "act" /\ shown.buttons => locked # Unlocked
  /\ acted # NoActions =>
       /\ evaluations = 3
       /\ handresets # 0
       /\ ~stale_balance => locked # Unlocked /\ last.bblind = table.level

LEMMA LockedByButtons ==
  ASSUME Detection, NEW s, Evaluation(s), s.buttons
  PROVE  locked' # Unlocked
<1> DEFINE v == GetNewSymbolValues(s)
<1>1. AutoLockBlinds(s, IsHandreset(v))
  BY DEF Evaluation, EvaluateAll
<1>2. s.level \in {table.level, before.level}
  BY ScrapedItems DEF Evaluation
<1>3. s.level \in Levels
  BY <1>2, NumbersOfTables DEF Detection, TypeOK
<1>4. s.level # Unlocked
  BY <1>3, ConstantsAssumption DEF ConstantsAssumption, Unlocked
<1> HIDE DEF v
<1> QED
  BY <1>1, <1>4 DEF AutoLockBlinds

LEMMA LocksStay ==
  ASSUME Detection, History, BlindsKept, NEW s, Evaluation(s),
         acted # NoActions, ~stale_balance
  PROVE  locked' = locked
<1> DEFINE v == GetNewSymbolValues(s)
<1>1. locked # Unlocked
  BY DEF BlindsKept
<1>2. ~IsHandreset(v)
  BY NoSecondReset DEF BlindsKept
<1>3. AutoLockBlinds(s, IsHandreset(v))
  BY DEF Evaluation, EvaluateAll
<1> HIDE DEF v
<1> QED
  BY <1>1, <1>2, <1>3 DEF AutoLockBlinds

LEMMA EvaluatedLocks ==
  ASSUME Detection, History, BlindsKept, NEW s, Evaluation(s)
  PROVE  BlindsKept'
<1>1. /\ table' = table /\ acted' = acted /\ stale_balance' = stale_balance
      /\ evaluations = 3 => evaluations' = 3
      /\ NoActions' = NoActions
  BY EvaluationTypes DEF Detection, NoActions
<1>2. pc' = "act" /\ shown'.buttons => locked' # Unlocked
  <2>1. shown' = s
    BY DEF Evaluation
  <2> QED
    BY <2>1, LockedByButtons
<1>3. ASSUME acted # NoActions
      PROVE  /\ evaluations = 3 /\ handresets' # 0
             /\ ~stale_balance => locked' # Unlocked /\ last'.bblind = table.level
  <2>1. evaluations = 3 /\ handresets # 0
    BY <1>3 DEF BlindsKept
  <2>2. handresets' # 0
    BY <2>1, Detects DEF Detection
  <2>3. last'.bblind = table.level
    BY <2>1, BlindDetected DEF History
  <2>4. ~stale_balance => locked' # Unlocked
    BY <1>3, LocksStay DEF BlindsKept
  <2> QED
    BY <2>1, <2>2, <2>3, <2>4
<1> QED
  BY <1>1, <1>2, <1>3 DEF BlindsKept

LEMMA LocksOfAct ==
  ASSUME Detection, History, BlindsKept, UsualSession, Act
  PROVE  BlindsKept'
<1>1. /\ CanAct /\ pc' = "scrape" /\ NoActions' = NoActions
      /\ UNCHANGED <<table, evaluations, handresets, locked, last, stale_balance>>
      /\ ~SeesHand => acted' = acted
  BY DEF Act, casino, detector, NoActions
<1>2. CASE acted # NoActions
  BY <1>1, <1>2 DEF BlindsKept
<1>3. CASE SeesHand
  <2>1. table.cards # NoCards /\ evaluations = 3 /\ SavedOfHand /\ ~(frames <= 1)
    BY <1>1, <1>3, ActsOnThirdEvaluation
  <2>2. handresets # 0
    BY <2>1 DEF Detection, SignsCome
  <2>3. locked # Unlocked
    BY <1>1 DEF CanAct, IsFinalAnswer, UserMayAct, BlindsKept
  <2>4. ~stale_balance => last.bblind = table.level
    BY <2>1 DEF History, ActionsFollow, FramesOfHand
  <2> QED
    BY <1>1, <2>1, <2>2, <2>3, <2>4 DEF BlindsKept
<1>4. CASE acted = NoActions /\ ~SeesHand
  BY <1>1, <1>4 DEF BlindsKept
<1> QED
  BY <1>2, <1>3, <1>4

LEMMA BlindsKeptNext ==
  ASSUME UsualSession
  PROVE  Detection /\ History /\ BlindsKept /\ [Next]_vars => BlindsKept'
<1> SUFFICES ASSUME Detection, History, BlindsKept, [Next]_vars
             PROVE  BlindsKept'
  OBVIOUS
<1>1. CASE Heartbeat \/ OnClickedFlags
  <2>1. PICK s : Evaluation(s)
    BY <1>1, Evaluates
  <2> QED
    BY <2>1, EvaluatedLocks
<1>2. CASE NewHand \/ Connect
  <2>1. pc' = "scrape" /\ acted' = NoActions /\ NoActions' = NoActions
    BY <1>2 DEF NewHand, CasinoShows, Connect, NoActions
  <2> QED
    BY <2>1 DEF BlindsKept
<1>3. CASE Play
  <2>1. PICK t \in Plays : CasinoShows(t)
    BY <1>3 DEF Play
  <2>2. /\ table' = t /\ pc' = "scrape" /\ NoActions' = NoActions
        /\ UNCHANGED <<evaluations, handresets, locked, last, acted, stale_balance>>
    BY <1>3, <2>1 DEF Play, CasinoShows, detector, mistakes, NoActions
  <2>3. t.level = table.level
    BY PlaysFollow DEF Detection, TypeOK, ViewsFollow, Follows
  <2> QED
    BY <2>2, <2>3 DEF BlindsKept
<1>4. CASE Act
  BY <1>4, LocksOfAct
<1>5. CASE Wait \/ UNCHANGED vars
  <2>1. /\ pc' = pc \/ pc' = "scrape"
        /\ NoActions' = NoActions
        /\ UNCHANGED <<table, shown, evaluations, handresets, locked, last, acted,
                       stale_balance>>
    BY <1>5 DEF Wait, vars, casino, detector, counter, mistakes, NoActions
  <2> QED
    BY <2>1 DEF BlindsKept
<1> QED
  BY <1>1, <1>2, <1>3, <1>4, <1>5 DEF Next

LEMMA BlindsStay ==
  ASSUME UsualSession, Detection, History, BlindsKept, [Next]_vars,
         hand' = hand, acted # NoActions, ~stale_balance
  PROVE  locked' = locked
<1>1. CASE Heartbeat \/ OnClickedFlags
  <2>1. PICK s : Evaluation(s)
    BY <1>1, Evaluates
  <2> QED
    BY <2>1, LocksStay
<1>2. CASE NewHand \/ Connect
  BY <1>2 DEF NewHand, Connect, Detection, TypeOK
<1>3. CASE Play
  BY <1>3 DEF Play, CasinoShows
<1>4. CASE Act \/ Wait \/ UNCHANGED vars
  BY <1>4 DEF Act, Wait, vars
<1> QED
  BY <1>1, <1>2, <1>3, <1>4 DEF Next

\* Whenever the bot may act, CSymbolEngineTableLimits gives it the big blind of this
\* hand: the handreset has unlocked the one of the last hand before.
THEOREM BlindIsOfThisHand ==
  ASSUME UsualSession, LevelsInTime
  PROVE  Spec => []BlindOfThisHand
<1>1. Init => Detection /\ History
  BY DetectionInit, HistoryInit
<1>2. Detection /\ History /\ [Next]_vars => (Detection /\ History)'
  BY DetectionNext, HistoryNext
<1>3. Detection /\ History => BlindOfThisHand
  <2> SUFFICES ASSUME Detection, History, CanAct, SeesHand
               PROVE  engines.bblind = table.level
    BY DEF BlindOfThisHand
  <2>1. evaluations = 3 /\ table.cards # NoCards
    BY ActsOnThirdEvaluation
  <2>2. handresets # 0
    BY <2>1 DEF Detection, SignsCome
  <2> QED
    BY <2>1, <2>2 DEF History, BlindKnown, Detection, EnginesFollow
<1> QED
  BY <1>1, <1>2, <1>3, PTL DEF Spec

\* After its first action in a hand the bot computes with the same blinds to the end
\* of the hand: what ResetOnHandreset would unlock stays locked.
THEOREM BlindsAreKept ==
  ASSUME UsualSession, LevelsInTime
  PROVE  Spec => BlindsStayLocked
<1>1. Init => Detection /\ History /\ BlindsKept
  <2>1. Init => BlindsKept
    BY DEF Init, BlindsKept, NoActions
  <2> QED
    BY <2>1, DetectionInit, HistoryInit
<1>2. Detection /\ History /\ BlindsKept /\ [Next]_vars
        => (Detection /\ History /\ BlindsKept)'
  BY DetectionNext, HistoryNext, BlindsKeptNext
<1>3. Detection /\ History /\ BlindsKept /\ [Next]_vars =>
        [hand' = hand /\ acted # [r \in Round |-> 0] /\ ~stale_balance
           => locked' = locked]_vars
  BY BlindsStay DEF NoActions
<1> QED
  BY <1>1, <1>2, <1>3, PTL DEF Spec, BlindsStayLocked
=============================================================================
