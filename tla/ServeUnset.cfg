CONSTANTS
  c1 = c1
  Clients = {c1}
  AuditModes = {FALSE}
  Webhooks = {"unset"}
  MaxEstate = 2
  MaxFaults = 0
  MaxRestarts = 0
SPECIFICATION FairSpec
PROPERTY ReportAlwaysCatchesUp
