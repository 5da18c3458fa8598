\* A source and a sink with two competing stops, where every callback and every
\* spawn may fail; or two producers, a blocking consumer and the node worker's
\* polling loop around a one-slot queue that may be closed once.
SPECIFICATION MCSpec
CONSTANTS
    src = src  snk = snk  e1 = e1  x1 = x1  x2 = x2
    None = None  Success = Success  Coordinator = Coordinator
    Parts = {"run", "queue"}
    Nodes = {src, snk}
    Edges = {e1}
    From <- PairFrom
    To <- PairTo
    Order <- PairOrder
    Sources = {src}
    Stoppers = {x1, x2}
    Producers = {p1, p2}
    Consumers = {c1}
    Pollers = {w1}
    Closers = {k1}
    Capacity = 1
    MaxPushes = 1
    MaxCloses = 1
INVARIANTS
    OutcomeIsDecidedOnce
    HooksMatchOutcome
    CallbacksAreAccountedFor
PROPERTIES
    RunsEnd
    QueueCallsReturn
CHECK_DEADLOCK FALSE
