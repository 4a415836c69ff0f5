SPECIFICATION Spec
CONSTANTS
    w1 = w1
    w2 = w2
    r1 = r1
    r2 = r2
    r3 = r3
    i1 = i1
    i2 = i2
    i3 = i3
    i4 = i4
    Kinds = {"aws-kms", "aws-region", "azure-keyvault", "azure-vault", "gcp-kms",
             "gcp-project", "kubernetes", "kubernetes-all", "vault", "pkcs11",
             "adcs", "files", "ct", "keysafe5"}
    Wings = {w1, w2}
    Rooms = {r1, r2, r3}
    Items = {i1, i2, i3, i4}
    WingOf <- MCWingOf
    RoomOf <- MCRoomOf
    Rank <- MCRank
    PageSize = 1
    MaxCertificates = 5
    Unlistable = {}
    MaxMoves = 1
    MaxFailures = 2
INVARIANTS NothingIsOverlooked DeletionsCount
PROPERTIES FailureIsConfined
CHECK_DEADLOCK FALSE
