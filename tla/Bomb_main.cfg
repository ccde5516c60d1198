SPECIFICATION Spec
CONSTANTS
  Terrorists = {"a", "b"}
  Others = {"c"}
  Povs <- AllPovs
  Mimics = {TRUE, FALSE}
INVARIANTS
  GameStateFollows
  PlantTold
  OutcomeTold
  DamageTold
