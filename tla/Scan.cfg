CONSTANTS
  Gates = {3, 5, 6}
  Webhooks = {"set", "unset"}
  Signs = TRUE
  Faulty <- AnyStep
  Deadly <- Anywhere
  MaxEstate = 3
  MaxTroubles = 3
SPECIFICATION FairSpec
INVARIANTS TypeOK ZeroMeansPassed
PROPERTIES EveryChangeIsTold NothingIsForgotten BaselineRecovers
