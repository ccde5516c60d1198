SPECIFICATION Spec
CONSTANTS
  Player = Player
  Index = {1, 2}
  Class = {Player}
  Prop = {1}
  Bound <- OneBound
  Value = {0, 1}
  IgnorePanic = FALSE
  MaxObjects = 3
  MaxPackets = 3
  MaxBaselines = 1
CHECK_DEADLOCK FALSE
INVARIANTS
  TablesAgree
  BoundValuesFollow
  CleanBetweenPackets
