SPECIFICATION Spec
CONSTANTS
  Demos <- AllDemos
  QueueCap = 2
  Outcomes = {"ok", "panic", "cancel"}
  OutsideCancel = TRUE
  InfoFrames = 9
INVARIANTS
  TypeOK
  HandledInDemoOrder
  NothingLost
  HandledAtReturn
  ErrorNotLost
  PlaybackValuesSet
  AbortsPromptly
PROPERTIES
  SilentAfterCancel
  RefinesSequential
  CallReturns
