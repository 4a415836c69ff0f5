SPECIFICATION DiskSpec
CONSTANTS
    Places <- MCPlaces
    Passwords <- MCPasswords
    Today <- MCToday
INVARIANTS NothingIsPassedOver IdsTellApart
