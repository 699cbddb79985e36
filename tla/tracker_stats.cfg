SPECIFICATION Spec
CONSTANTS
  NChairs = 2
  Player = {p1, p2}
  InDB = {p1, p2}
  Regulars = {p1}
  NStats = 3
  Hands = 1
  Advanced = {3}
  UpdateEvery = 2
  MaxEvents = 3
  Nobody = Nobody
INVARIANT StatsOfThePlayer
