--------------------------- MODULE MCEdgeRouting ---------------------------
(* A source feeding two nodes (the constants of the configuration), or a   *)
(* source feeding one node that is called twice, with failing callbacks    *)
(* and a stop; which of them is chosen initially.                          *)
EXTENDS EdgeRouting

CONSTANTS src, mid, snk, slow, bypass, caller, Graphs

FanFrom    == (slow :> src) @@ (bypass :> src)
FanTo      == (slow :> mid) @@ (bypass :> snk)
FanBatches == (slow :> {2}) @@ (bypass :> {1})

Pair == INSTANCE EdgeRouting WITH
    Nodes <- {src, snk}, Edges <- {bypass}, From <- bypass :> src, To <- bypass :> snk,
    Signalling <- {}, MaxCallbacks <- 2, Batches <- bypass :> 0..2,
    DrainModes <- BOOLEAN, Stoppers <- {caller}, Stuck <- {}, Failing <- {src, snk}

VARIABLE graph

MCInit == /\ graph \in Graphs
          /\ \/ graph = "fan" /\ Init
             \/ graph = "pair" /\ Pair!Init
MCNext == /\ UNCHANGED graph
          /\ \/ graph = "fan" /\ Next
             \/ graph = "pair" /\ Pair!Next

\* The steps EdgeRouting!Fairness is about, in the graph that was chosen.
Works(n) == \/ graph = "fan" /\ (RouteStep(n) \/ LoopStep(n))
            \/ graph = "pair" /\ n # mid /\ (Pair!RouteStep(n) \/ Pair!LoopStep(n))
Calls(n) == \/ graph = "fan" /\ CallStep(n)
            \/ graph = "pair" /\ n # mid /\ Pair!CallStep(n)
Dispatches(e) == \/ graph = "fan" /\ DispatcherStep(e)
                 \/ graph = "pair" /\ e # slow /\ Pair!DispatcherStep(e)
Closes == \/ graph = "fan" /\ \E e \in Edges : CloseAll(e) \/ CloseAllSignals(e)
          \/ graph = "pair" /\ (Pair!CloseAll(bypass) \/ Pair!CloseAllSignals(bypass))

MCSpec ==
    /\ MCInit /\ [][MCNext]_<<graph, vars>>
    /\ \A n \in Nodes : WF_vars(Works(n)) /\ WF_vars(Calls(n))
    /\ \A e \in Edges : WF_vars(Dispatches(e))
    /\ WF_vars(Closes)

\* In either graph, every Edge delivers exactly what was sent and let through.
DeliversExactly == IF graph = "fan" THEN DeliveryIsExact ELSE Pair!DeliveryIsExact

\* With two branches, one of which may refuse the Signal, no frame of its
\* callback leaves before both have accepted it (NodeWorker::route).
FramesWaitForSignals == graph = "fan" => SignalBarrier

\* In either graph, once the sources stop or the graph is aborted, every worker and dispatcher
\* ends unless a callback hangs: full queues, full mailboxes and the Signal acknowledgements
\* never leave threads waiting for each other.
ThreadsEnd == <>(hung # {} \/ IF graph = "fan" THEN AllEnded ELSE Pair!AllEnded)
=============================================================================
