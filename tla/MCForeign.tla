------------------------------ MODULE MCForeign ------------------------------
\* The three language hosts; Init chooses the one that exists.
EXTENDS PythonDomain, NodeDomain, GraphCallbacks

vars == <<host, driver, pyHostVars, jsHostVars, graphVars>>

Init == /\ PyDriverInit \/ JsDriverInit \/ GraphDriverInit
        /\ PyHostInit /\ JsHostInit /\ GraphHostInit
Next == \/ PyNext /\ UNCHANGED <<host, jsHostVars, graphVars>>
        \/ JsNext /\ UNCHANGED <<host, pyHostVars, graphVars>>
        \/ GraphNext /\ UNCHANGED <<host, driver, pyHostVars, jsHostVars>>

Spec == Init /\ [][Next]_vars /\ PyFair /\ JsFair /\ GraphFair

\* Every call into a language domain comes back: an admitted Python call, an
\* invoke and a close of a JavaScript domain, a graph whose hooks hang.
EveryCallSettles == CallReturns /\ CloseSettles /\ InvokeSettles /\ StopEndsGraph
=============================================================================
