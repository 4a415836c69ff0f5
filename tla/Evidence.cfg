SPECIFICATION Spec
CONSTANTS
    Sites <- MCSites
    Authorities <- MCAuthorities
    MaxRuns = 3
    MaxKeys = 2
    MaxTime = 1
INVARIANTS SuccessStands VerifiedIsOneScan
\* The bounds end the commands and the clock.
CHECK_DEADLOCK FALSE
