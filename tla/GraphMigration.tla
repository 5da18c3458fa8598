---------------------------- MODULE GraphMigration ----------------------------
(***************************************************************************)
(* parse of crates/muxiva-graph-json/src/lib.rs: the limits of a Graph v1  *)
(* document and the migration of Node names older releases wrote.  A       *)
(* legacy Agora source needed a tick; migrated, it does not, so its tick   *)
(* Edges go, and the tick Nodes that nothing else uses go with them.       *)
(***************************************************************************)
EXTENDS Integers, FiniteSets

CONSTANTS
    DocumentNodes,     \* ids of the Nodes a document may have
    MAX_NODES,         \* 1024
    MaxDocumentEdges   \* bound: Edges written in a document

VARIABLES
    document,  \* [nodes: id -> node type, edges: set of [from, to, port]]
    sound,     \* size and version are as parse wants them
    parsed     \* [outcome, document, versions]

migrationVars == <<document, sound, parsed>>

NodeTypes == {"legacy source", "source", "legacy", "current", "tick"}
Ends == [from : DocumentNodes, to : DocumentNodes, port : {"tick_in", "in"}]
Written == [nodes |-> <<>>, edges |-> {}]

MigrationIdle ==
    document = Written /\ sound = TRUE /\ parsed = [outcome |-> "none"]

WriteNode(id, type) ==
    /\ parsed.outcome = "none" /\ id \notin DOMAIN document.nodes
    /\ document' = [document EXCEPT !.nodes =
           [n \in DOMAIN @ \cup {id} |-> IF n = id THEN type ELSE @[n]]]
    /\ UNCHANGED <<sound, parsed>>

WriteEdge(edge) ==
    /\ parsed.outcome = "none" /\ Cardinality(document.edges) < MaxDocumentEdges
    /\ document' = [document EXCEPT !.edges = @ \cup {edge}]
    /\ UNCHANGED <<sound, parsed>>

Damage ==
    /\ parsed.outcome = "none" /\ sound' = FALSE
    /\ UNCHANGED <<document, parsed>>

canonical_node_type(type) ==
    CASE type = "legacy source" -> "source"
      [] type = "legacy" -> "current"
      [] OTHER -> type

LegacySources(d) == {n \in DOMAIN d.nodes : d.nodes[n] = "legacy source"}
Kept(d) == {e \in d.edges : ~(e.to \in LegacySources(d) /\ e.port = "tick_in")}

Referenced(d) == UNION {{e.from, e.to} : e \in Kept(d)}

migrate_legacy_node_names(d) ==
    LET type == [n \in DOMAIN d.nodes |-> canonical_node_type(d.nodes[n])] IN
    IF LegacySources(d) = {} THEN [nodes |-> type, edges |-> d.edges]
    ELSE [nodes |-> [n \in {m \in DOMAIN type : type[m] # "tick" \/ m \in Referenced(d)} |-> type[n]],
          edges |-> Kept(d)]

\* The limits are those of the migrated document.
Parse ==
    /\ parsed.outcome = "none"
    /\ LET d == migrate_legacy_node_names(document) IN
       parsed' = IF sound /\ Cardinality(DOMAIN d.nodes) <= MAX_NODES
                 THEN [outcome |-> "parsed", document |-> d,
                       pinned |-> LegacySources(document)]      \* factory_version 1.1.0
                 ELSE [outcome |-> "refused"]
    /\ UNCHANGED <<document, sound>>

MigrationNext ==
    \/ \E id \in DocumentNodes, type \in NodeTypes : WriteNode(id, type)
    \/ \E edge \in Ends : WriteEdge(edge)
    \/ Damage \/ Parse

----------------------------------------------------------------------------
\* Migration never breaks a document that was whole: an Edge it keeps has the
\* ends it had; what it removes is a tick Edge of a migrated source, or a tick
\* Node that is left without any Edge; a tick that fed only migrated sources is
\* not left running; and a second migration changes nothing.
MigrationIsClean ==
    parsed.outcome = "parsed" =>
        LET d == parsed.document
            gone == DOMAIN document.nodes \ DOMAIN d.nodes
        IN /\ \A e \in d.edges : {e.from, e.to} \cap gone = {}
           /\ \A e \in document.edges \ d.edges : e.port = "tick_in" /\ e.to \in parsed.pinned
           /\ \A n \in gone : document.nodes[n] = "tick"
           /\ parsed.pinned # {} =>
                 \A n \in DOMAIN d.nodes :
                    d.nodes[n] = "tick" => \E e \in d.edges : n \in {e.from, e.to}
           /\ migrate_legacy_node_names(d) = d
=============================================================================
