SPECIFICATION FairSpec
CONSTANTS
  BetPots <- MCBetPots
  Decisions <- MCDecisions
  Layouts <- MCLayouts
  Tablemaps <- MCTablemaps
\* The turn ends.
CHECK_DEADLOCK FALSE
INVARIANTS TypeOK AtMostOneAction BetsAsMeant ActionRegistered ActsIfPossible
PROPERTIES SequenceEnds SequenceAdvances TurnSpec
