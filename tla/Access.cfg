SPECIFICATION Spec
CONSTANTS
    p1 = p1
    p2 = p2
    b1 = b1
    b2 = b2
    ann = ann
    bob = bob
    Processes = {p1, p2}
    Refs = {"session", "db"}
    Present <- MCPresent
    SessionRef <- MCSessionRef
    Sites <- MCSites
    Tokens <- MCTokens
    Users = {ann, bob}
    Allowed = {ann}
    CacheSeconds = 2
    JwksSeconds = 1
    Leeway = 1
    TokenSeconds = 2
    StateSeconds = 2
    SessionSeconds = 1
    MaxVersion = 1
    MaxTime = 3
    MaxKid = 3
    MaxStarts = 2
INVARIANTS SecretsAreFresh NewKeysAreHonoured SessionsAreEarned
\* The bounds end the clock and the restarts: with an unservable site, nothing is left to do.
CHECK_DEADLOCK FALSE
