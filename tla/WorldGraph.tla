----------------------------- MODULE WorldGraph -----------------------------
(***************************************************************************)
(* The in-memory store of core/world/graph.py as a value: nodes and edges   *)
(* by id, each with the instant it was created at.  The indexes by type and *)
(* by endpoint are the filters they answer.  Aliases and the JSON form are  *)
(* left out; add_edge accepts any endpoints, as the code does.              *)
(***************************************************************************)
EXTENDS Naturals, FiniteSets

\* What f says, and what g says of anything else: @@ of TLC, with a definition that
\* can be used in a proof.
f ++ g == [x \in DOMAIN f \cup DOMAIN g |-> IF x \in DOMAIN f THEN f[x] ELSE g[x]]

EmptyWorld == [nodes |-> <<>>, edges |-> <<>>]

Node(id, type, at, props) ==
    [n \in {id} |-> [type |-> type, at |-> at, props |-> props]]

Edge(id, type, src, dst, at, props) ==
    [e \in {id} |-> [type |-> type, src |-> src, dst |-> dst, at |-> at, props |-> props]]

TakenNever(w, ns, es) == FALSE

\* add_node and add_edge raise ValueError on an id they already hold.
Taken(w, ns, es) ==
    \/ DOMAIN ns \cap DOMAIN w.nodes # {}
    \/ DOMAIN es \cap DOMAIN w.edges # {}

Added(w, ns, es) == [nodes |-> w.nodes ++ ns, edges |-> w.edges ++ es]

NodesByType(w, type) == {id \in DOMAIN w.nodes : w.nodes[id].type = type}
OutEdges(w, id, type) ==
    {e \in DOMAIN w.edges : w.edges[e].src = id /\ w.edges[e].type = type}
InEdges(w, id, type) ==
    {e \in DOMAIN w.edges : w.edges[e].dst = id /\ w.edges[e].type = type}

\* neighbors leaves out ends that are not nodes of the store.
Neighbors(w, id, type, direction) ==
    DOMAIN w.nodes \cap
        ((IF direction \in {"out", "both"}
          THEN {w.edges[e].dst : e \in OutEdges(w, id, type)} ELSE {}) \cup
         (IF direction \in {"in", "both"}
          THEN {w.edges[e].src : e \in InEdges(w, id, type)} ELSE {}))

\* projection(at, focus, window), copies of the nodes and edges it keeps: focus and
\* window narrow it unless they are None, and the window bounds nodes and edges each
\* by their own age.  What a node or an edge holds is what it holds when it is copied.
Projection(w, at, focus, window, None) ==
    LET InTime(t) == t <= at /\ (window = None \/ t + window >= at)
        InFocus(id) == focus = None \/ id \in focus
        NodeIds == {id \in DOMAIN w.nodes : InTime(w.nodes[id].at) /\ InFocus(id)}
        EdgeIds == {e \in DOMAIN w.edges :
                      /\ InTime(w.edges[e].at)
                      /\ InFocus(w.edges[e].src) /\ InFocus(w.edges[e].dst)}
    IN [nodes |-> [id \in NodeIds |-> w.nodes[id]], edges |-> [e \in EdgeIds |-> w.edges[e]]]
=============================================================================
