SPECIFICATION WeaponsSpec
CONSTANTS
  Players = {"p", "q"}
  Zone = {"p"}
  Weps = {"v", "w"}
  Types <- TwoTypes
  MaxMoney = 1
  MaxTakes = 1
INVARIANTS
  PossessionFollows
  ShotTold
  RefundTold
