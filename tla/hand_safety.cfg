SPECIFICATION Spec
CONSTANTS
  Hands = 1
  CardsOf <- OtherCards
  Chairs = 3
  Levels = {2, 4}
  Opponents = {1}
  HandNumbers = TRUE
  LateItems = {"dealer", "cards", "card", "handnumber"}
  FlagClicks = {"quiet"}
  FrameDelay = 2
INVARIANTS TypeOK EveryHandDetected ActionsOfThisHand BlindOfThisHand
PROPERTIES BlindsStayLocked
