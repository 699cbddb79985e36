SPECIFICATION ParserSpec
CONSTANTS
  Identifier <- MCIdentifier
  UserVariable <- MCUserVariable
  Text <- MCText
  MaxLexemes = 4
  MaxOperators = 3
  MaxWhens = 4
\* A single expression is at rest once it is rotated.
CHECK_DEADLOCK FALSE
INVARIANTS TypeOK AcceptsFormulas TreeFollowsPrecedence RotatedOnce ConditionsInOrder
