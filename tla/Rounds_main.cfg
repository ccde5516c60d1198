SPECIFICATION Spec
CONSTANTS
  Reasons = {1, 9}
  Phases = {0, 4}
  MaxPlayed = 2
  Mimics = {TRUE, FALSE}
INVARIANTS
  ChangesChain
  RoundsTold
  OfficialOnce
  MatchOfRound
