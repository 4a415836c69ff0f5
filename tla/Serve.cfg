CONSTANTS
  c1 = c1
  Clients = {c1}
  AuditModes = {TRUE, FALSE}
  Webhooks = {"none", "set", "unset"}
  MaxEstate = 3
  MaxFaults = 1
  MaxRestarts = 1
SPECIFICATION FairSpec
INVARIANTS TypeOK ReadsAreTraceable HealthyMeansReport ChangesMatchReport CountedOnce
PROPERTIES NoPageIsSkipped ReportCatchesUp
