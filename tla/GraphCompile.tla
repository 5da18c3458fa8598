----------------------------- MODULE GraphCompile -----------------------------
(***************************************************************************)
(* From a Graph v1 document to runtime Node instances: the NodeRegistry    *)
(* (crates/muxiva-core/src/registry.rs), migration and compilation of a    *)
(* document (crates/muxiva-graph-json/src/lib.rs), the GraphBuilder and    *)
(* its stable topological order (graph.rs), and materialisation            *)
(* (registered_runtime.rs).                                                *)
(*                                                                         *)
(* The document is read entry by entry: every entry is chosen when the     *)
(* compiler comes to it.  A registry key is a Node type; language and      *)
(* version are part of it.  Ids are numbers, ordered as the BTreeMaps      *)
(* order them.                                                             *)
(***************************************************************************)
EXTENDS Integers, Sequences, FiniteSets, FiniteSetsExt, SequencesExt

CONSTANTS
    Registrations,          \* registrations offered: [key, descriptor]
    NodeDocuments,          \* node entries: [id, key, wellFormed]
    EdgeDocuments           \* edge entries: [id, from, to, type, wellFormed]

VARIABLES
    registry,     \* NodeRegistry.entries
    phase,        \* registering, nodes, edges, built, creating, ready, refused
    builder,      \* GraphBuilder: [nodes, edges]
    errors,       \* some diagnostic was recorded
    order,        \* GraphDefinition.topological_order
    cycle,        \* GraphBuildError::Cycle.node_ids
    instances     \* NodeInstances

compileVars == <<registry, phase, builder, errors, order, cycle, instances>>

EmptyBuilder == [nodes |-> <<>>, edges |-> <<>>]
CompileInit ==
    /\ registry = <<>> /\ phase = "registering" /\ builder = EmptyBuilder
    /\ errors = FALSE /\ order = <<>> /\ cycle = {} /\ instances = {}

----------------------------------------------------------------------------
(* Descriptors and the registry                                            *)

Port(name, direction, type) == [name |-> name, direction |-> direction, type |-> type]
Directed(descriptor, direction) ==
    SelectSeq(descriptor.ports, LAMBDA p : p.direction = direction)

\* validate_node_descriptor: the process hook, ports unique per direction, and
\* a kind that fits their directions.
ValidDescriptor(d) ==
    /\ d.process
    /\ \A i, j \in DOMAIN d.ports :
          d.ports[i].name = d.ports[j].name /\ d.ports[i].direction = d.ports[j].direction
             => i = j
    /\ d.kind = "source" => Directed(d, "input") = <<>>
    /\ d.kind = "sink" => Directed(d, "output") = <<>>

Register(r) ==
    /\ phase = "registering"
    /\ ValidDescriptor(r.descriptor) /\ r.key \notin DOMAIN registry
    /\ registry' = registry @@ (r.key :> r.descriptor)
    /\ UNCHANGED <<phase, builder, errors, order, cycle, instances>>

\* parse has accepted a document.
ParseDocument ==
    /\ phase = "registering"
    /\ phase' = "nodes"
    /\ UNCHANGED <<registry, builder, errors, order, cycle, instances>>

----------------------------------------------------------------------------
(* compile_with_registry                                                   *)

\* compile_node: parsing, resolve, the factory's validate_config, add_node,
\* set_config and set_factory.
CompileNode(doc, configValid) ==
    /\ phase = "nodes"
    /\ IF doc.wellFormed /\ doc.key \in DOMAIN registry /\ configValid
          /\ ValidDescriptor(registry[doc.key]) /\ doc.id \notin DOMAIN builder.nodes
       THEN /\ builder' = [builder EXCEPT !.nodes =
                              @ @@ (doc.id :> [key |-> doc.key, descriptor |-> registry[doc.key]])]
            /\ UNCHANGED errors
       ELSE errors' = TRUE /\ UNCHANGED builder
    /\ UNCHANGED <<registry, phase, order, cycle, instances>>

NodesRead ==
    /\ phase = "nodes" /\ phase' = "edges"
    /\ UNCHANGED <<registry, builder, errors, order, cycle, instances>>

\* find_port, which also tells a wrong direction from a missing port.
HasPort(node, name, direction, type) ==
    Port(name, direction, type) \in ToSet(builder.nodes[node].descriptor.ports)

\* validate_edge: both ports exist and have the Edge's exact type.
ValidEdge(doc) ==
    /\ doc.from.node \in DOMAIN builder.nodes /\ doc.to.node \in DOMAIN builder.nodes
    /\ HasPort(doc.from.node, doc.from.port, "output", doc.type)
    /\ HasPort(doc.to.node, doc.to.port, "input", doc.type)

\* edge_descriptor and GraphBuilder::connect.
CompileEdge(doc) ==
    /\ phase = "edges"
    /\ IF doc.wellFormed /\ doc.id \notin DOMAIN builder.edges /\ ValidEdge(doc)
       THEN builder' = [builder EXCEPT !.edges = @ @@ (doc.id :> doc)] /\ UNCHANGED errors
       ELSE errors' = TRUE /\ UNCHANGED builder
    /\ UNCHANGED <<registry, phase, order, cycle, instances>>

----------------------------------------------------------------------------
(* build: stable_topological_order                                         *)

EdgesBetween(n, t) ==
    {e \in DOMAIN builder.edges : builder.edges[e].from.node = n /\ builder.edges[e].to.node = t}
Indegree(t) == {e \in DOMAIN builder.edges : builder.edges[e].to.node = t}

\* Mutant: parallel Edges between two Nodes count once when one of them is left.
PopFirstOnce(s) ==
    LET n == Min(s.ready)
        degree == [t \in DOMAIN s.degree |->
                     s.degree[t] - IF EdgesBetween(n, t) = {} THEN 0 ELSE 1]
    IN [ordered |-> Append(s.ordered, n), degree |-> degree,
        ready |-> (s.ready \ {n}) \cup {t \in DOMAIN degree : s.degree[t] > 0 /\ degree[t] = 0}]

\* One round of the loop: the least ready Node.
PopFirst(s) ==
    LET n == Min(s.ready)
        degree == [t \in DOMAIN s.degree |-> s.degree[t] - Cardinality(EdgesBetween(n, t))]
    IN [ordered |-> Append(s.ordered, n), degree |-> degree,
        ready |-> (s.ready \ {n}) \cup {t \in DOMAIN degree : s.degree[t] > 0 /\ degree[t] = 0}]

Sorted ==
    LET degree == [t \in DOMAIN builder.nodes |-> Cardinality(Indegree(t))] IN
    FoldLeft(LAMBDA s, round : IF s.ready = {} THEN s ELSE PopFirst(s),
             [ordered |-> <<>>, degree |-> degree, ready |-> {t \in DOMAIN degree : degree[t] = 0}],
             [i \in 1..Cardinality(DOMAIN builder.nodes) |-> i])

Build ==
    /\ phase = "edges"
    /\ IF errors THEN phase' = "refused" /\ UNCHANGED <<order, cycle>>
       ELSE IF Len(Sorted.ordered) # Cardinality(DOMAIN builder.nodes)
       THEN /\ cycle' = {t \in DOMAIN builder.nodes : Sorted.degree[t] # 0}
            /\ phase' = "refused" /\ UNCHANGED order
       ELSE phase' = "built" /\ order' = Sorted.ordered /\ UNCHANGED cycle
    /\ UNCHANGED <<registry, builder, errors, instances>>

----------------------------------------------------------------------------
(* materialize_registered_nodes                                            *)

\* Node by node in id order; a factory that fails or panics ends it, and what
\* was created is dropped.
CreateNode(succeeds) ==
    /\ phase = "built"
    /\ LET missing == DOMAIN builder.nodes \ instances IN
       IF missing = {} THEN phase' = "ready" /\ UNCHANGED instances
       ELSE IF succeeds /\ builder.nodes[Min(missing)].key \in DOMAIN registry
       THEN instances' = instances \cup {Min(missing)} /\ UNCHANGED phase
       ELSE instances' = {} /\ phase' = "refused"
    /\ UNCHANGED <<registry, builder, errors, order, cycle>>

CompileNext ==
    \/ \E r \in Registrations : Register(r)
    \/ ParseDocument \/ NodesRead \/ Build
    \/ \E doc \in NodeDocuments, valid \in BOOLEAN : CompileNode(doc, valid)
    \/ \E doc \in EdgeDocuments : CompileEdge(doc)
    \/ \E succeeds \in BOOLEAN : CreateNode(succeeds)

----------------------------------------------------------------------------
(* Properties                                                              *)

Compiled == phase \in {"built", "ready"}
Precedes(n, t) == EdgesBetween(n, t) # {}
\* A set of Nodes none of which is free of predecessors in it holds a cycle.
Knot(S) == S # {} /\ \A t \in S : \E n \in S : Precedes(n, t)

\* Whatever was registered and written, a compiled graph needs no second look:
\* no Edge enters a source or leaves a sink, every Node can process, and every
\* Node has the ports its factory is still registered with.
CompiledGraphIsSound ==
    Compiled =>
        /\ \A e \in DOMAIN builder.edges :
              /\ builder.nodes[builder.edges[e].to.node].descriptor.kind # "source"
              /\ builder.nodes[builder.edges[e].from.node].descriptor.kind # "sink"
        /\ \A n \in DOMAIN builder.nodes :
              /\ builder.nodes[n].descriptor.process
              /\ builder.nodes[n].descriptor = registry[builder.nodes[n].key]

\* The type gate of the runner (MUXIVA-RUN-EDGE-TYPE) can never close: an Edge
\* has the type of the ports at both its ends.
EdgeTypesAgree ==
    Compiled => \A e \in DOMAIN builder.edges :
        LET edge == builder.edges[e]
            TypeAt(end, direction) ==
                {p.type : p \in {q \in ToSet(builder.nodes[end.node].descriptor.ports) :
                                    q.name = end.port /\ q.direction = direction}}
        IN TypeAt(edge.from, "output") = {edge.type} /\ TypeAt(edge.to, "input") = {edge.type}

\* stable_topological_order against its definition: each position holds the
\* least Node whose predecessors are all placed, parallel Edges and isolated
\* Nodes included.
OrderIsStable ==
    Compiled =>
        /\ ToSet(order) = DOMAIN builder.nodes /\ Len(order) = Cardinality(ToSet(order))
        /\ \A i \in DOMAIN order :
              LET placed == {order[j] : j \in 1..(i - 1)} IN
              order[i] = Min({t \in DOMAIN builder.nodes \ placed :
                                \A n \in DOMAIN builder.nodes : Precedes(n, t) => n \in placed})

\* build refuses exactly the cyclic graphs, and names the Nodes that are on a
\* cycle or behind one.
CyclesAreRefused ==
    /\ Compiled => \A S \in SUBSET DOMAIN builder.nodes : ~Knot(S)
    /\ cycle # {} => /\ Knot(cycle)
                     /\ \A S \in SUBSET DOMAIN builder.nodes : Knot(S) => S \subseteq cycle

\* What the builder lets through needs no second look, and what it refuses is
\* refused for a reason.
GraphIsSound == CompiledGraphIsSound /\ EdgeTypesAgree /\ OrderIsStable /\ CyclesAreRefused
=============================================================================
