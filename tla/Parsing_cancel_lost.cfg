SPECIFICATION Spec
CONSTANTS
  Demos <- TruncatedDemos
  QueueCap = 2
  Outcomes = {"ok", "cancel"}
  OutsideCancel = FALSE
  InfoFrames = 9
INVARIANTS
  CancelIsReturned
