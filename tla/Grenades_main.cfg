SPECIFICATION Spec
CONSTANTS
  Players = {"h", "b"}
  Bots = {"b"}
  Controls <- Takeover
  Kits <- Families
  Mimics = {TRUE, FALSE}
  Spacing = 2
  Throws = 3
  MaxFrame = 5
CHECK_DEADLOCK FALSE
INVARIANTS
  FlashesTold
  LiveGrenades
  ActiveResolve
