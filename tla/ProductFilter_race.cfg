SPECIFICATION Spec
CONSTANTS
  p1 = p1
  p2 = p2
  Keys = {p2}
  NoKey = NoKey
  Managed = {p2}
  Actions = {"add", "remove"}
  WithMalformed = FALSE
  WithSeen = TRUE
  MaxRaw = 2
  MaxCommands = 2
  MaxRestarts = 1
INVARIANTS
  BlockedNeverPasses
