------------------------- MODULE MCRuntimeLifecycle -------------------------
(* One of two things that must end, chosen initially: a run of a source    *)
(* feeding a sink, or the threads around one Edge queue.  The other rests. *)
EXTENDS RuntimeLifecycle, TLC

CONSTANTS src, snk, e1, x1, x2
CONSTANTS Parts, Producers, Consumers, Pollers, Closers, Capacity, MaxPushes, MaxCloses

PairFrom   == e1 :> src
PairTo     == e1 :> snk
PairOrder  == <<src, snk>>

VARIABLES part, queue_pc, overflow, frames, closed, enqueue_total, dequeue_total, drop_total,
          high_watermark, generation, observed, submitted, closes, got, dropped, rejected
queueVars == <<queue_pc, overflow, frames, closed, enqueue_total, dequeue_total, drop_total,
               high_watermark, generation, observed, submitted, closes, got, dropped, rejected>>
Queue == INSTANCE EdgeQueue WITH pc <- queue_pc

MCInit ==
    /\ part \in Parts
    /\ Init
    /\ Queue!Init /\ (part # "queue" => overflow = "Block")
MCNext ==
    \/ part = "run" /\ Next /\ UNCHANGED <<part, queueVars>>
    \/ part = "queue" /\ Queue!Next /\ UNCHANGED <<part, vars>>
MCSpec ==
    /\ MCInit /\ [][MCNext]_<<part, vars, queueVars>>
    /\ \/ part = "run" /\ Fairness
       \/ part = "queue" /\ Queue!Fairness

\* Every run ends that was stopped, has failed or has nothing left to do
\* (GraphRuntime::stop, fail_graph and the end of stream).
RunsEnd == EveryRunEnds \/ part # "run"
\* Closing a queue releases every waiter, and a push blocked on a full queue
\* returns, without help from spurious wake-ups (BoundedEdgeQueue).
QueueCallsReturn == Queue!BlockedCallsReturn
=============================================================================
