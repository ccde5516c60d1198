SPECIFICATION Spec
CONSTANTS
  Players = {"h", "k"}
  Bots = {}
  Controls <- NoTakeover
  Kits = {{"Flash"}}
  Mimics = {TRUE}
  Spacing = 0
  Throws = 3
  MaxFrame = 6
CHECK_DEADLOCK FALSE
INVARIANT NoStaleFlash
