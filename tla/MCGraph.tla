------------------------------- MODULE MCGraph -------------------------------
(* One of the stages of a graph's life, or one of the services its nodes    *)
(* use, chosen initially; the others rest.                                 *)
EXTENDS GraphCompile, GraphMigration, GraphRunner,
        GraphServices, AdmissionSlots, FlowControl, AudioMerge
VARIABLE part
graphParts == <<compileVars, migrationVars, runnerVars>>
serviceParts == <<serviceVars, slotVars, flowVars, mergeVars>>
vars == <<part, graphParts, serviceParts>>

MCMeasurements == {<<1, 1, 2>>, <<1, 3, 0>>}
\* Every profile is built; only these take steps, which read no more of a
\* profile than whether the upstream can pause.
Driven == {[DefaultProfile EXCEPT !.pausable = pausable,
               !.policy = IF pausable THEN "PropagateBackpressure" ELSE "AbortSession"] :
           pausable \in BOOLEAN}

Describe(kind, process, ports) == [kind |-> kind, process |-> process, ports |-> ports]
Offer(key, descriptor) == [key |-> key, descriptor |-> descriptor]
MCRegistrations ==
    {Offer("source", Describe("source", TRUE, <<Port("out", "output", "text")>>)),
     Offer("source", Describe("source", TRUE, <<Port("in", "input", "text")>>)),
     Offer("transform", Describe("transform", TRUE,
         <<Port("in", "input", "text"), Port("out", "output", "text")>>)),
     Offer("transform", Describe("transform", TRUE,
         <<Port("in", "input", "audio"), Port("out", "output", "text")>>)),
     Offer("transform", Describe("transform", FALSE, <<>>))}

Entry(id, key, wellFormed) == [id |-> id, key |-> key, wellFormed |-> wellFormed]
MCNodeDocuments ==
    {Entry(1, "source", TRUE), Entry(1, "transform", TRUE), Entry(2, "transform", TRUE),
     Entry(3, "transform", TRUE), Entry(3, "source", TRUE), Entry(2, "source", FALSE)}

Link(id, from, to, type) ==
    [id |-> id, from |-> [node |-> from, port |-> "out"], to |-> [node |-> to, port |-> "in"],
     type |-> type, wellFormed |-> TRUE]
MCEdgeDocuments ==
    {Link(id, l[1], l[2], "text") :
        id \in 1..3, l \in {<<1, 2>>, <<2, 3>>, <<3, 2>>, <<1, 3>>, <<3, 1>>, <<2, 2>>}}
    \cup {Link(3, 1, 2, "audio"), [Link(3, 1, 3, "text") EXCEPT !.wellFormed = FALSE]}

MCOrder == <<1, 2, 4, 3>>
MCOutputs == [n \in 1..4 |-> IF n = 3 THEN <<>> ELSE [out |-> "text", spare |-> "text"]]
Joins(from, to, enabled, validation, transform) ==
    [from |-> from, port |-> "out", to |-> to, type |-> "text", enabled |-> enabled,
     validation |-> validation, transform |-> transform]
MCEdges ==
    <<Joins(1, 2, TRUE, "Drop", "Named"), Joins(1, 3, TRUE, "TypeGateOnly", "Identity"),
      Joins(2, 3, TRUE, "Abort", "Identity"), Joins(4, 3, FALSE, "Drop", "Named"),
      Joins(4, 3, TRUE, "TypeGateOnly", "Named")>>
Emit(port, type) == [port |-> port, type |-> type]
MCEmissions ==
    {<<>>, <<Emit("out", "text")>>, <<Emit("out", "text"), Emit("out", "text"), Emit("none", "text")>>,
     <<Emit("spare", "text"), Emit("out", "audio")>>, <<Emit("none", "text")>>}

Init ==
    /\ part \in {"compile", "migrate", "run", "services", "slots", "flow", "merge"}
    /\ CompileInit /\ MigrationIdle
    /\ RunnerInit(IF part = "run" THEN "none" ELSE "refused")
    /\ ServicesInit /\ SlotsInit
    /\ FlowInit(IF part = "flow" THEN Profiles ELSE {DefaultProfile})
    /\ IF part = "merge" THEN MergeInit ELSE MergeIdle

Next ==
    \/ /\ UNCHANGED <<part, serviceParts>>
       /\ \/ part = "compile" /\ CompileNext /\ UNCHANGED <<migrationVars, runnerVars>>
          \/ part = "migrate" /\ MigrationNext /\ UNCHANGED <<compileVars, runnerVars>>
          \/ part = "run" /\ RunnerNext /\ UNCHANGED <<compileVars, migrationVars>>
    \/ /\ UNCHANGED <<part, graphParts>>
       /\ \/ part = "services" /\ ServicesNext /\ UNCHANGED <<slotVars, flowVars, mergeVars>>
          \/ part = "slots" /\ SlotsNext /\ UNCHANGED <<serviceVars, flowVars, mergeVars>>
          \/ part = "flow" /\ profile \in Driven /\ FlowNext /\ UNCHANGED <<serviceVars, slotVars, mergeVars>>
          \/ part = "merge" /\ MergeAudioPrefix /\ UNCHANGED <<serviceVars, slotVars, flowVars>>

Spec == Init /\ [][Next]_vars /\ RunnerFair /\ ServicesFair

\* A document that was migrated and compiled is a sound graph, and still the
\* graph that was written.
DocumentsCompileSoundly == GraphIsSound /\ MigrationIsClean

\* A run of the synchronous runner ends, and so does every subscriber of a
\* stopped bus.
RunsAndHandlersEnd == RunEnds /\ BusThreadsEnd
=============================================================================
