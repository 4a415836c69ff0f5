CONSTANTS
  serve = serve
  scan = scan
  Writers = {serve}
  Configs = {"old", "new"}
  Failures = {"kill", "raise", "short"}
  MaxEntries = 4
  MaxRotations = 1
SPECIFICATION Spec
INVARIANTS TypeOK ChainSurvives KeptSurvives LossIsNoticed ConfigChangesAreLogged
