SPECIFICATION FairSpec
CONSTANTS
  single = single
  batch = batch
  producer = producer
  Consumers = {single, batch}
  Producer = producer
  ErrCapacity = 3
  MaxMessages = 2
INVARIANTS
  IInv
  ShutdownIsComplete
  EveryMessageIsReported
PROPERTIES
  FailureEndsAll
