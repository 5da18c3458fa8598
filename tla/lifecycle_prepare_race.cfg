\* A stop accepted while another node's on_prepare fails.
SPECIFICATION MCSpec
CONSTANTS
    src = src  snk = snk  e1 = e1  x1 = x1  x2 = x2
    None = None  Success = Success  Coordinator = Coordinator
    Parts = {"run"}
    Nodes = {src, snk}
    Edges = {e1}
    From <- PairFrom
    To <- PairTo
    Order <- PairOrder
    Sources = {src}
    Stoppers = {x1}
    Producers = {p1, p2}
    Consumers = {c1}
    Pollers = {w1}
    Closers = {k1}
    Capacity = 1
    MaxPushes = 1
    MaxCloses = 1
INVARIANTS
    SourcesWaitForPreparation
CHECK_DEADLOCK FALSE
