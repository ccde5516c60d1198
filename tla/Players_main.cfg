SPECIFICATION Spec
CONSTANTS
  Slots = {0, 1}
  Humans = {"h1", "h2"}
  Bots = {"b1"}
  BotsReport = FALSE
  Joins <- BotsOnce
CHECK_DEADLOCK FALSE
INVARIANTS
  EventsResolve
  OwnIdentity
  ConnectedExact
  PresenceAnnounced
