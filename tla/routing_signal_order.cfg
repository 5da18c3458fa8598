\* A source with two branches, nothing hangs: the order in which a node is
\* called with the Signal and the frames of one callback.
SPECIFICATION MCSpec
CONSTANTS
    src = src  mid = mid  snk = snk  slow = slow  bypass = bypass
    caller = caller  None = None
    Graphs = {"fan"}
    Nodes = {src, mid, snk}
    Edges = {slow, bypass}
    From <- FanFrom
    To <- FanTo
    DrainModes = {TRUE, FALSE}
    Stoppers = {}
    Stuck = {}
    Failing = {}
    Sources = {src}
    Signalling = {src}
    PolicyEdges = {bypass}
    Capacity = 1
    SignalCapacity = 1
    MaxCallbacks = 1
    Batches <- FanBatches
INVARIANTS
    SignalBeforeFrame
CHECK_DEADLOCK FALSE
