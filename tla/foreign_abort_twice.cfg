SPECIFICATION Spec
CONSTANTS
    CommandCapacity = 2
    CompletionCapacity = 2
    Callers = {a}
    Subscribers = {}
    PyMaxCalls = 1
    HookHangs = TRUE
    JsMaxInvokes = 3
    Instances = {m, n}
    CallbackQueue = 2
    MaxProcess = 2
INVARIANT
    OnAbortAtMostOnce
CHECK_DEADLOCK FALSE
