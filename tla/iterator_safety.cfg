SPECIFICATION FairSpec
CONSTANTS
  MaxTurns = 2
  Iterations = {0, 2}
  Interval = 1
  MaxRecalcs = 1
\* The program ends.
CHECK_DEADLOCK FALSE
INVARIANTS TypeOK PureResult OnlyTheseCardsShown
PROPERTIES TurnGetsPrwin ProgramEnds
