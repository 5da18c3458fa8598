\* Three requests, a window of two and a result mailbox of one, strict or
\* relaxed order: one may be cancelled, another may expire.
CONSTANTS
    s1 = s1  s2 = s2  s3 = s3  i1 = i1  i2 = i2  i3 = i3
    Response = Response  Timeout = Timeout  None = None
    Submissions = {s1, s2, s3}
    Ids = {i1, i2, i3}
    IdOf <- Distinct
    Orderings = {"Strict", "Relaxed"}
    InputCapacity = 2
    ResultCapacity = 1
    MaxInFlight = 2
    AttemptLimit = 1
    Cancellable = {s1}
    Expiring = {s2}
    Stuck = {}
    MayStop = FALSE
    Spurious = TRUE
SPECIFICATION Spec
INVARIANTS
    DeliveredByTheWinner
    WindowIsBoundedAndServed
CHECK_DEADLOCK FALSE
