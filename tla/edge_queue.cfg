\* Two blocking producers and two blocking consumers around a two-slot queue:
\* notifications can be delayed, stolen and spurious.
CONSTANTS
    p1 = p1  p2 = p2  c1 = c1  c2 = c2  w1 = w1  x1 = x1
    Producers = {p1, p2}
    Consumers = {c1, c2}
    Pollers = {w1}
    Closers = {x1}
    Capacity = 2
    MaxPushes = 2
    MaxCloses = 1
SPECIFICATION Spec
SYMMETRY Interchangeable
INVARIANTS
    TypeOK
    WaitersAreOwedNothing
    NoWaiterAfterClose
    NoMissedWake
    MetricsAccountForEveryFrame
PROPERTIES
    ImplementsChannel
CHECK_DEADLOCK FALSE
