\* A source with two branches, one behind an EdgePolicy that may refuse the
\* Signal and one whose node may hang; and a source and a sink with two
\* callbacks, a stop, failing callbacks and batches larger than the queue.
SPECIFICATION MCSpec
CONSTANTS
    src = src  mid = mid  snk = snk  slow = slow  bypass = bypass
    caller = caller  None = None
    Graphs = {"fan", "pair"}
    Nodes = {src, mid, snk}
    Edges = {slow, bypass}
    From <- FanFrom
    To <- FanTo
    DrainModes = {TRUE, FALSE}
    Stoppers = {}
    Stuck = {mid}
    Failing = {}
    Sources = {src}
    Signalling = {src}
    PolicyEdges = {bypass}
    Capacity = 1
    SignalCapacity = 1
    MaxCallbacks = 1
    Batches <- FanBatches
INVARIANTS
    DeliversExactly
    FramesWaitForSignals
PROPERTIES
    ThreadsEnd
CHECK_DEADLOCK FALSE
