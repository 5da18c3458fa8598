\* Two requests with two attempts each, a cancel, deadlines, adapter calls that
\* may hang and a stop at any moment.
CONSTANTS
    s1 = s1  s2 = s2  s3 = s3  i1 = i1  i2 = i2  i3 = i3
    Response = Response  Timeout = Timeout  None = None
    Submissions = {s1, s2}
    Ids = {i1, i2}
    IdOf <- Pair
    Orderings = {"Strict"}
    InputCapacity = 1
    ResultCapacity = 1
    MaxInFlight = 1
    AttemptLimit = 2
    Cancellable = {s1}
    Expiring = {s2}
    Stuck = {s1}
    MayStop = TRUE
    Spurious = FALSE
SPECIFICATION FairSpec
INVARIANTS
    LeasesAreReleased
PROPERTIES
    RequestsAndStopEnd
CHECK_DEADLOCK FALSE
