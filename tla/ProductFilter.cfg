SPECIFICATION FairSpec
CONSTANTS
  p1 = p1
  p2 = p2
  Keys = {p1, p2}
  NoKey = NoKey
  Managed = {p2}
  Actions = {"add", "remove", "malformed", "other"}
  WithMalformed = TRUE
  WithSeen = FALSE
  MaxRaw = 3
  MaxCommands = 2
  MaxRestarts = 1
CHECK_DEADLOCK FALSE
INVARIANTS
  IInv
  TableConverges
  CommittedBlockHolds
  AcceptedNotLost
  NewestVersionLast
  DuplicatesNeedRestart
  MalformedIsNotSkipped
PROPERTIES
  VerdictsFollowBlacklist
  ChangelogIsKeyedView
  EverythingSettles
