------------------------------- MODULE Graph -------------------------------
(***************************************************************************)
(* The correlation graph of kscope (internal/graph/graph.go).  The graph   *)
(* has a lock of its own, taken once per UpsertNode or AddEdge, so that a  *)
(* Snapshot may fall between any two calls of the writer.  calls is what   *)
(* the writer still has to do: the calls of one Store operation, in order. *)
(***************************************************************************)
EXTENDS Naturals, Sequences

CONSTANT NoLabel   \* the empty label

VARIABLES nodes,   \* Graph.nodes: a function from the ids present to labels
          edges,   \* Graph.edges: a set of <<from, to, type>>
          calls    \* the calls the holder of the store's lock has still to make

graphVars == <<nodes, edges, calls>>

(* A node id is <<kind, ...>>: the kind is the node's type as well.        *)
Node(id, label)      == <<"node", id, label>>
Edge(from, to, type) == <<"edge", <<from, to, type>>>>

GraphInit == nodes = <<>> /\ edges = {} /\ calls = <<>>

KeepLabel(id, label) ==
  /\ nodes' = [n \in DOMAIN nodes \cup {id} |-> IF n \in DOMAIN nodes THEN nodes[n] ELSE label]
  /\ UNCHANGED edges

(* An empty label leaves the one the node has. *)
UpsertNode(id, label) ==
  /\ nodes' = [n \in DOMAIN nodes \cup {id} |->
                 IF n = id /\ (label # NoLabel \/ n \notin DOMAIN nodes)
                 THEN label ELSE nodes[n]]
  /\ UNCHANGED edges

AddEdge(edge) == edges' = edges \cup {edge} /\ UNCHANGED nodes

GraphStep == /\ calls # <<>>
             /\ calls' = Tail(calls)
             /\ LET c == Head(calls) IN
                  \/ c[1] = "node" /\ UpsertNode(c[2], c[3])
                  \/ c[1] = "edge" /\ AddEdge(c[2])

(* Whenever Snapshot is taken, also in the middle of an operation of the   *)
(* store, both ends of every edge are among the nodes.                     *)
NoDanglingEdge == \A e \in edges : {e[1], e[2]} \subseteq DOMAIN nodes
=============================================================================
