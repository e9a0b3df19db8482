SPECIFICATION FairSpec
CONSTANTS
  alice = alice
  bob = bob
  spam = spam
  scam = scam
  Users = {alice, bob}
  NoUser = NoUser
  Words = {spam, scam}
  Masked = Masked
  NonAscii = {}
  BlockEvents <- MCBlockEvents
  WordUpdates <- MCWordUpdates
  Messages <- MCMessages
  MaxEvents = 2
  MaxMessages = 2
  MaxInputs = 3
  MaxHalts = 1
INVARIANTS
  IInv
  DeliveredIsJustified
  NothingIsLost
PROPERTIES
  ChatSettles
