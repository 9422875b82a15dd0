------------------------------ MODULE Subgraph ------------------------------
(***************************************************************************)
(* The search of analyzer/graph.py (get_subgraph): from the node that a    *)
(* new edge points to, backwards over incoming edges that are inside the   *)
(* time window and not later than the edge they were reached by, down to a *)
(* maximal depth.  The graph does not change during a search: the worker   *)
(* that runs it is the only one to write it.                               *)
(***************************************************************************)
EXTENDS Integers, Sequences, FiniteSets

CONSTANTS
    Nodes,          \* node ids
    Graphs,         \* the multigraphs to be searched, as sets of edges
    Times,          \* time stamps
    Anchor,         \* anchor_node_id
    AnchorTime,     \* anchor_timestamp_ns
    WindowStart,    \* window_start_ns
    MaxDepth        \* max_depth

Edges == [source: Nodes, target: Nodes, key: Nat, time: Times]
Entries == [node: Nodes, depth: Nat, latest: Times]

ASSUME SubgraphAssumption ==
    /\ Graphs \subseteq SUBSET Edges
    /\ \A G \in Graphs : IsFiniteSet(G)
    /\ Times \subseteq Nat
    /\ Anchor \in Nodes
    /\ AnchorTime \in Times
    /\ WindowStart \in Int
    /\ MaxDepth \in Nat

VARIABLES
    graph,          \* the graph, fixed when the search begins
    frontier,       \* the stack of nodes still to be expanded
    visited         \* visited_edges

vars == <<graph, frontier, visited>>

-----------------------------------------------------------------------------
Init ==
    /\ graph \in Graphs
    /\ frontier = <<[node |-> Anchor, depth |-> 0, latest |-> AnchorTime]>>
    /\ visited = {}

Top == frontier[Len(frontier)]
(* Bug: the top is read but not taken off. *)
Peeked == frontier
Rest == SubSeq(frontier, 1, Len(frontier) - 1)

InWindow(e) == e.time >= WindowStart

(* Bug: edges of the same time as the entry are skipped. *)
TakenEarlier(t) ==
    {e \in graph : /\ e.target = t.node
                   /\ e \notin visited
                   /\ InWindow(e)
                   /\ e.time < t.latest}

\* The edges that an expansion of entry t takes.
Taken(t) ==
    {e \in graph : /\ e.target = t.node
                   /\ e \notin visited
                   /\ InWindow(e)
                   /\ e.time <= t.latest}

(* Bug: the limit of the entry is kept instead of the time of the edge. *)
BehindAnyTime(t, e) ==
    [node |-> e.source, depth |-> t.depth + 1, latest |-> t.latest]

Behind(t, e) == [node |-> e.source, depth |-> t.depth + 1, latest |-> e.time]

\* The entries of the edges in T, in any order: networkx lists incoming
\* edges as they were inserted.
EntriesOf(t, T) ==
    {[i \in 1..Cardinality(T) |-> Behind(t, p[i])] :
        p \in {f \in [1..Cardinality(T) -> T] : \A e \in T : \E i \in DOMAIN f : f[i] = e}}

(* Bug: one level too many. *)
TooDeepLate(t) == t.depth > MaxDepth
TooDeep(t) == t.depth >= MaxDepth

Cut ==
    /\ frontier # <<>>
    /\ TooDeep(Top)
    /\ frontier' = Rest
    /\ UNCHANGED <<graph, visited>>

Expand ==
    /\ frontier # <<>>
    /\ ~TooDeep(Top)
    /\ visited' = visited \cup Taken(Top)
    /\ \E s \in EntriesOf(Top, Taken(Top)) : frontier' = Rest \o s
    /\ UNCHANGED graph

Next == Cut \/ Expand

Spec == Init /\ [][Next]_vars /\ WF_vars(Next)

-----------------------------------------------------------------------------
(* Properties *)

\* Types: visited edges are edges of the graph, entries are inside the depth.
TypeOK ==
    /\ graph \in SUBSET Edges
    /\ frontier \in Seq(Entries)
    /\ visited \in SUBSET graph
    /\ \A i \in DOMAIN frontier : frontier[i].depth <= MaxDepth

\* A chain of n edges back from the anchor: each ends where the one before it
\* begins, none is later than the one before it, all are in the window.
IsChain(p, n) ==
    /\ n > 0
    /\ p \in [1..n -> graph]
    /\ p[1].target = Anchor
    /\ p[1].time <= AnchorTime
    /\ \A i \in 1..n : InWindow(p[i])
    /\ \A i \in 1..n : i < n => /\ p[i + 1].target = p[i].source
                                /\ p[i + 1].time <= p[i].time

Reached(e, n) == \E p \in [1..n -> graph] : IsChain(p, n) /\ p[n] = e

\* README.md:65, "only earlier causally related edges within the time window
\* and the maximal depth": whatever get_subgraph returns hangs on the anchor by
\* such a chain (graph.py:29-40).
OnlyCausalEdges == \A e \in visited : \E n \in 1..MaxDepth : Reached(e, n)

Done == frontier = <<>>

\* What get_subgraph may leave out: the expansion of an edge is given up at the
\* full depth (graph.py:20-21), and an edge is expanded only the first time it
\* is reached (graph.py:29-30), which need not be the shortest way.  With no
\* chain as long as the full depth none of this matters: nothing is missing.
CompleteUnlessCut ==
    Done /\ (\A e \in graph : ~Reached(e, MaxDepth))
        => \A n \in 1..MaxDepth : \A e \in graph : Reached(e, n) => e \in visited

\* The search ends, also on cycles of edges with equal time stamps: every entry
\* it takes off the stack is gone (graph.py:18).
Ends == <>Done
=============================================================================
