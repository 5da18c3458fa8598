SPECIFICATION Spec
CONSTANTS
    Registrations <- MCRegistrations
    NodeDocuments <- MCNodeDocuments
    EdgeDocuments <- MCEdgeDocuments
    DocumentNodes = {1, 2, 3}
    MAX_NODES = 2
    MaxDocumentEdges = 2
    Order <- MCOrder
    Sources = {1, 4}
    Outputs <- MCOutputs
    Edges <- MCEdges
    Emissions <- MCEmissions
    EMISSION_LIMIT = 2
    Strangers = {9}
    Subscriptions = {s1, s2}
    UserStops = {u}
    Coordinator = c
    BusCapacity = 1
    MaxEvents = 2
    Keys = {k}
    Workers = {w1, w2, w3, w4}
    MaxSlots = 2
    MaxFrames = 2
    MaxBytes = 4
    MaxMedia = 4
    MaxInFlight = 2
    Measurements <- MCMeasurements
    SIGNAL_HISTORY_LIMIT = 2
    MaxInput = 2
    MaxQueue = 3
    SampleRate = 3
    TicksPerSecond = 10
    MaxSequence = 5
    Channels = 2
    Durations = {0, 3, 10, 13}
INVARIANTS
    DocumentsCompileSoundly
    RunnerLosesNothing
    BusKeepsItsHandlers
    SlotsAreHandedOn
    
PROPERTIES
    KeepsNodeContract
    
    RunsAndHandlersEnd
CHECK_DEADLOCK FALSE
