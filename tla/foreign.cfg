SPECIFICATION Spec
CONSTANTS
    CommandCapacity = 2
    CompletionCapacity = 2
    Callers = {a}
    Subscribers = {s}
    PyMaxCalls = 3
    HookHangs = TRUE
    JsMaxInvokes = 3
    Instances = {m, n}
    CallbackQueue = 2
    MaxProcess = 2
INVARIANTS
    PythonCallsAreSound
    InvokesAreAnsweredOnce
    
PROPERTIES
    EveryCallSettles
CHECK_DEADLOCK FALSE
