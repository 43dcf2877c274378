SPECIFICATION Spec
CONSTANTS
  w1 = w1
  w2 = w2
  Workers <- MCWorkers
  Jobs <- MCJobs
  Sources <- MCSources
  SourceOf <- MCSourceOf
  Offer <- MCOffer
  Registries <- MCRegistries
  CalledWith <- MCCalledWith
  MaxEdition = 2
  MaxKills = 1
INVARIANTS
  TypeOK
  OneRunPerSource
  RunningIsHeld
  InsertsCountedOnce
PROPERTIES
  TableKept
  StoreNeverGoesBack
  SourceFreed
  RunsSettle
