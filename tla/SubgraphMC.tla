----------------------------- MODULE SubgraphMC -----------------------------
EXTENDS Subgraph

MCNodes == {"a", "b", "c", "d"}

\* All edges between nodes N at times T; the key tells parallel edges apart.
EdgesOf(N, T, K) ==
    {e \in [source: N, target: N, key: 0..7, time: T] : e.key \in {2 * e.time + k : k \in K}}

Small(E, n) == {{f[i] : i \in 1..n} : f \in [1..n -> E]}

\* Every graph of at most three edges on three nodes, before, in and after the
\* window; of four with parallel edges of one time; and of five edges of one
\* time on four nodes, which are enough for a chain of the full depth and for
\* two ways of different length to one edge.
MCGraphs ==
    Small(EdgesOf(MCNodes \ {"d"}, 0..3, {0}), 3)
        \cup Small(EdgesOf({"a", "b"}, 1..2, {0, 1}), 4)
        \cup Small({e \in EdgesOf(MCNodes, {1}, {0}) : e.source # e.target}, 5)
=============================================================================
