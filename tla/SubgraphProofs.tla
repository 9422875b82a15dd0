--------------------------- MODULE SubgraphProofs ---------------------------
(***************************************************************************)
(* Proofs about get_subgraph, for any set of finite multigraphs, any       *)
(* anchor, window and depth: what it returns hangs on the anchor by a      *)
(* chain of edges, and nothing that does is left out unless a chain is as  *)
(* long as the full depth.                                                 *)
(***************************************************************************)
EXTENDS Subgraph, FiniteSetTheorems, SequenceTheorems, WellFoundedInduction, TLAPS

AnchorEntry == [node |-> Anchor, depth |-> 0, latest |-> AnchorTime]

\* Every entry of the stack is the anchor or stands behind a visited edge that
\* was reached at the depth of the entry.
FrontierReached ==
    \A i \in DOMAIN frontier :
        \/ frontier[i] = AnchorEntry
        \/ \E e \in visited : /\ Reached(e, frontier[i].depth)
                              /\ frontier[i].node = e.source
                              /\ frontier[i].latest = e.time

\* Edges that an expansion behind node n and time t takes or has taken.
AllTaken(n, t) ==
    \A f \in graph : f.target = n /\ f.time <= t /\ InWindow(f) => f \in visited

Waiting(n, t) ==
    \E i \in DOMAIN frontier : frontier[i].node = n /\ frontier[i].latest = t

NoLongChain == \A e \in graph : ~Reached(e, MaxDepth)

\* What is not taken yet is still to be expanded.
Closed ==
    NoLongChain /\ MaxDepth > 0 =>
        /\ Waiting(Anchor, AnchorTime) \/ AllTaken(Anchor, AnchorTime)
        /\ \A e \in visited : Waiting(e.source, e.time) \/ AllTaken(e.source, e.time)

IInv ==
    /\ graph \in Graphs
    /\ TypeOK
    /\ OnlyCausalEdges
    /\ FrontierReached
    /\ Closed

-----------------------------------------------------------------------------
(* Chains *)

\* An edge that continues the last edge of a chain makes a longer chain.
LEMMA ChainExtends ==
    ASSUME NEW n \in Nat, NEW e \in graph, NEW f \in graph,
           Reached(e, n), f.target = e.source, f.time <= e.time, InWindow(f)
    PROVE  Reached(f, n + 1)
<1>1. PICK p \in [1..n -> graph] : IsChain(p, n) /\ p[n] = e
  BY DEF Reached
<1> DEFINE q == [i \in 1..(n + 1) |-> IF i <= n THEN p[i] ELSE f]
<1>2. n > 0 /\ n \in Nat
  BY <1>1 DEF IsChain
<1>3. q \in [1..(n + 1) -> graph] /\ q[n + 1] = f
  BY <1>1, <1>2
<1>4. \A i \in 1..n : q[i] = p[i]
  BY <1>1, <1>2
<1> HIDE DEF q
<1>5. q[1].target = Anchor /\ q[1].time <= AnchorTime
  BY <1>1, <1>2, <1>4 DEF IsChain
<1>6. \A i \in 1..(n + 1) : InWindow(q[i])
  <2> SUFFICES ASSUME NEW i \in 1..(n + 1) PROVE InWindow(q[i])
    OBVIOUS
  <2>1. CASE i <= n
    <3>1. i \in 1..n
      BY <2>1, <1>2
    <3> QED
      BY <3>1, <1>1, <1>4 DEF IsChain, InWindow
  <2>2. CASE ~(i <= n)
    <3>1. i = n + 1
      BY <2>2, <1>2
    <3> QED
      BY <3>1, <1>3
  <2> QED
    BY <2>1, <2>2
<1>7. \A i \in 1..(n + 1) : i < n + 1 => /\ q[i + 1].target = q[i].source
                                        /\ q[i + 1].time <= q[i].time
  <2> SUFFICES ASSUME NEW i \in 1..n
               PROVE  q[i + 1].target = q[i].source /\ q[i + 1].time <= q[i].time
    BY <1>2
  <2>1. CASE i < n
    <3>1. i + 1 \in 1..n
      BY <2>1, <1>2
    <3> QED
      BY <2>1, <3>1, <1>1, <1>4 DEF IsChain
  <2>2. CASE i = n
    <3> QED
      BY <2>2, <1>1, <1>3, <1>4
  <2> QED
    BY <2>1, <2>2, <1>2
<1>8. IsChain(q, n + 1)
  BY <1>2, <1>3, <1>5, <1>6, <1>7 DEF IsChain
<1> QED
  BY <1>3, <1>8 DEF Reached

\* A chain of more than one edge continues a shorter one.
LEMMA ChainShrinks ==
    ASSUME NEW n \in Nat, n > 0, NEW f \in graph, Reached(f, n + 1)
    PROVE  \E e \in graph : /\ Reached(e, n)
                            /\ f.target = e.source /\ f.time <= e.time /\ InWindow(f)
<1>1. PICK p \in [1..(n + 1) -> graph] : IsChain(p, n + 1) /\ p[n + 1] = f
  BY DEF Reached
<1> DEFINE q == [i \in 1..n |-> p[i]]
<1>2. q \in [1..n -> graph] /\ \A i \in 1..n : q[i] = p[i]
  BY <1>1
<1>3. n \in 1..n /\ n \in 1..(n + 1) /\ 1 \in 1..n /\ n + 1 \in 1..(n + 1)
  OBVIOUS
<1> HIDE DEF q
<1>4. q[1].target = Anchor /\ q[1].time <= AnchorTime
  BY <1>1, <1>2, <1>3 DEF IsChain
<1>5. \A i \in 1..n : InWindow(q[i])
  <2> SUFFICES ASSUME NEW i \in 1..n PROVE InWindow(q[i])
    OBVIOUS
  <2>1. i \in 1..(n + 1)
    OBVIOUS
  <2> QED
    BY <2>1, <1>1, <1>2 DEF IsChain, InWindow
<1>6. \A i \in 1..n : i < n => /\ q[i + 1].target = q[i].source
                              /\ q[i + 1].time <= q[i].time
  <2> SUFFICES ASSUME NEW i \in 1..n, i < n
               PROVE  q[i + 1].target = q[i].source /\ q[i + 1].time <= q[i].time
    OBVIOUS
  <2>1. i + 1 \in 1..n /\ i \in 1..(n + 1) /\ i < n + 1
    OBVIOUS
  <2> QED
    BY <2>1, <1>1, <1>2 DEF IsChain
<1>7. IsChain(q, n)
  BY <1>2, <1>4, <1>5, <1>6 DEF IsChain
<1>8. Reached(p[n], n) /\ p[n] \in graph
  BY <1>1, <1>2, <1>3, <1>7 DEF Reached
<1>9. f.target = p[n].source /\ f.time <= p[n].time /\ InWindow(f)
  BY <1>1, <1>3 DEF IsChain, InWindow
<1> QED
  BY <1>8, <1>9

\* A chain of one edge is an edge into the anchor.
LEMMA ChainOfOne ==
    \A e \in graph : Reached(e, 1) <=>
        e.target = Anchor /\ e.time <= AnchorTime /\ InWindow(e)
<1> SUFFICES ASSUME NEW e \in graph
             PROVE  Reached(e, 1) <=>
                        e.target = Anchor /\ e.time <= AnchorTime /\ InWindow(e)
  OBVIOUS
<1>1. ASSUME Reached(e, 1)
      PROVE  e.target = Anchor /\ e.time <= AnchorTime /\ InWindow(e)
  <2>1. PICK p \in [1..1 -> graph] : IsChain(p, 1) /\ p[1] = e
    BY <1>1 DEF Reached
  <2> QED
    BY <2>1 DEF IsChain, InWindow
<1>2. ASSUME e.target = Anchor, e.time <= AnchorTime, InWindow(e)
      PROVE  Reached(e, 1)
  <2> DEFINE p == [i \in 1..1 |-> e]
  <2>1. p \in [1..1 -> graph] /\ \A i \in 1..1 : p[i] = e
    OBVIOUS
  <2>2. p[1] = e /\ \A i \in 1..1 : ~(i < 1)
    OBVIOUS
  <2> HIDE DEF p
  <2>3. \A i \in 1..1 : InWindow(p[i])
    BY <2>1, <1>2
  <2>4. IsChain(p, 1)
    BY <2>1, <2>2, <2>3, <1>2 DEF IsChain
  <2> QED
    BY <2>1, <2>2, <2>4 DEF Reached
<1> QED
  BY <1>1, <1>2

-----------------------------------------------------------------------------
(* One step of the search *)

\* The stack without its top.
LEMMA RestOfFrontier ==
    ASSUME frontier \in Seq(Entries), frontier # <<>>
    PROVE  /\ Len(frontier) \in Nat /\ Len(frontier) > 0
           /\ Top \in Entries
           /\ Rest \in Seq(Entries)
           /\ Len(Rest) = Len(frontier) - 1
           /\ \A i \in 1..(Len(frontier) - 1) : Rest[i] = frontier[i]
<1> DEFINE n == Len(frontier)
<1>1. n \in Nat /\ n > 0 /\ frontier \in [1..n -> Entries]
  OBVIOUS
<1>2. Top \in Entries
  BY <1>1 DEF Top
<1>3. /\ SubSeq(frontier, 1, n - 1) \in Seq(Entries)
      /\ Len(SubSeq(frontier, 1, n - 1)) = n - 1
      /\ \A i \in 1..(n - 1) : SubSeq(frontier, 1, n - 1)[i] = frontier[i]
  <2>1. 1 \in 1..(n + 1) /\ n - 1 \in 0..n /\ n - 1 - 1 + 1 = n - 1
    BY <1>1
  <2>2. \A i \in 1..(n - 1) : 1 + i - 1 = i
    BY <1>1
  <2> HIDE DEF n
  <2> QED
    BY <1>1, <2>1, <2>2, SubSeqProperties
<1> QED
  BY <1>1, <1>2, <1>3 DEF Rest

\* An order of a finite set of edges gives one entry for each of them.
LEMMA EntriesInOrder ==
    ASSUME NEW t \in Entries, NEW T \in SUBSET Edges, IsFiniteSet(T), NEW s \in EntriesOf(t, T)
    PROVE  /\ s \in Seq(Entries)
           /\ \A i \in DOMAIN s : \E e \in T : s[i] = Behind(t, e)
           /\ \A e \in T : \E i \in DOMAIN s : s[i] = Behind(t, e)
<1> DEFINE n == Cardinality(T)
<1>1. n \in Nat
  BY FS_CardinalityType
<1>2. PICK p \in [1..n -> T] : /\ \A e \in T : \E i \in DOMAIN p : p[i] = e
                               /\ s = [i \in 1..n |-> Behind(t, p[i])]
  BY DEF EntriesOf
<1> HIDE DEF n
<1>3. \A e \in T : Behind(t, e) \in Entries
  BY DEF Behind, Entries, Edges
<1>4. s \in [1..n -> Entries]
  BY <1>2, <1>3
<1> QED
  BY <1>1, <1>2, <1>4

\* What an expansion does to the stack.
LEMMA ExpandFrontier ==
    ASSUME graph \in Graphs, TypeOK, Expand
    PROVE  /\ frontier' \in Seq(Entries)
           /\ \A i \in DOMAIN frontier' :
                \/ \E j \in DOMAIN frontier : frontier'[i] = frontier[j]
                \/ \E e \in Taken(Top) : frontier'[i] = Behind(Top, e)
           /\ \A j \in 1..(Len(frontier) - 1) : \E i \in DOMAIN frontier' : frontier'[i] = frontier[j]
           /\ \A e \in Taken(Top) : \E i \in DOMAIN frontier' : frontier'[i] = Behind(Top, e)
<1>1. frontier \in Seq(Entries) /\ frontier # <<>>
  BY DEF TypeOK, Expand
<1>2. Taken(Top) \in SUBSET Edges /\ IsFiniteSet(Taken(Top))
  <2>1. Taken(Top) \subseteq graph /\ IsFiniteSet(graph) /\ graph \subseteq Edges
    BY SubgraphAssumption DEF Taken
  <2> QED
    BY <2>1, FS_Subset
<1>3. PICK s \in EntriesOf(Top, Taken(Top)) : frontier' = Rest \o s
  BY DEF Expand
<1>4. /\ s \in Seq(Entries)
      /\ \A i \in DOMAIN s : \E e \in Taken(Top) : s[i] = Behind(Top, e)
      /\ \A e \in Taken(Top) : \E i \in DOMAIN s : s[i] = Behind(Top, e)
  BY <1>1, <1>2, RestOfFrontier, EntriesInOrder
<1>5. /\ Rest \in Seq(Entries)
      /\ Len(Rest) = Len(frontier) - 1
      /\ \A i \in 1..(Len(frontier) - 1) : Rest[i] = frontier[i]
      /\ Len(frontier) \in Nat /\ Len(frontier) > 0
  BY <1>1, RestOfFrontier
<1> HIDE DEF Rest
<1>6. frontier' \in Seq(Entries)
  BY <1>3, <1>4, <1>5
<1>7. /\ Len(frontier') = Len(Rest) + Len(s)
      /\ \A i \in 1..Len(Rest) : frontier'[i] = Rest[i]
      /\ \A i \in 1..Len(s) : frontier'[Len(Rest) + i] = s[i]
      /\ DOMAIN frontier' = 1..(Len(Rest) + Len(s))
      /\ DOMAIN s = 1..Len(s) /\ Len(s) \in Nat
      /\ DOMAIN frontier = 1..Len(frontier)
  <2>1. DOMAIN s = 1..Len(s) /\ Len(s) \in Nat
    BY <1>4
  <2>2. DOMAIN frontier = 1..Len(frontier)
    BY <1>1
  <2>3. Len(Rest) \in Nat
    BY <1>5
  <2>4. ASSUME NEW i \in 1..Len(Rest) PROVE (Rest \o s)[i] = Rest[i]
    BY <1>4, <1>5
  <2>5. ASSUME NEW i \in 1..Len(s) PROVE (Rest \o s)[Len(Rest) + i] = s[i]
    BY <1>4, <1>5
  <2>6. Len(Rest \o s) = Len(Rest) + Len(s) /\ DOMAIN (Rest \o s) = 1..(Len(Rest) + Len(s))
    <3>1. Rest \o s \in Seq(Entries) /\ Len(Rest \o s) = Len(Rest) + Len(s)
      BY <1>4, <1>5, ConcatProperties
    <3> QED
      BY <3>1, LenProperties
  <2> QED
    BY <1>3, <2>1, <2>2, <2>3, <2>4, <2>5, <2>6
<1>8. ASSUME NEW i \in DOMAIN frontier'
      PROVE  \/ \E j \in DOMAIN frontier : frontier'[i] = frontier[j]
             \/ \E e \in Taken(Top) : frontier'[i] = Behind(Top, e)
  <2>1. CASE i <= Len(Rest)
    <3>1. i \in 1..(Len(frontier) - 1) /\ i \in DOMAIN frontier
      BY <2>1, <1>5, <1>7
    <3> QED
      BY <3>1, <1>5, <1>7
  <2>2. CASE ~(i <= Len(Rest))
    <3>1. i - Len(Rest) \in 1..Len(s) /\ Len(Rest) + (i - Len(Rest)) = i
      BY <2>2, <1>5, <1>7
    <3>2. frontier'[i] = s[i - Len(Rest)]
      BY <3>1, <1>7
    <3> QED
      BY <3>1, <3>2, <1>4, <1>7
  <2> QED
    BY <2>1, <2>2
<1>9. ASSUME NEW j \in 1..(Len(frontier) - 1)
      PROVE  \E i \in DOMAIN frontier' : frontier'[i] = frontier[j]
  <2>1. j \in 1..Len(Rest) /\ j \in DOMAIN frontier'
    BY <1>5, <1>7
  <2> QED
    BY <2>1, <1>5, <1>7
<1>10. ASSUME NEW e \in Taken(Top)
       PROVE  \E i \in DOMAIN frontier' : frontier'[i] = Behind(Top, e)
  <2>1. PICK k \in DOMAIN s : s[k] = Behind(Top, e)
    BY <1>4
  <2>2. Len(Rest) + k \in DOMAIN frontier' /\ frontier'[Len(Rest) + k] = s[k]
    BY <2>1, <1>5, <1>7
  <2> QED
    BY <2>1, <2>2
<1> QED
  BY <1>6, <1>8, <1>9, <1>10

\* The graph does not change, so neither do the chains in it.
LEMMA SameChains ==
    ASSUME graph' = graph, NEW e, NEW n
    PROVE  Reached(e, n)' <=> Reached(e, n)
  BY DEF Reached, IsChain, InWindow

\* Every nonempty set of numbers has a least one.
LEMMA LeastNumber ==
    ASSUME NEW T \in SUBSET Nat, T # {}
    PROVE  \E m \in T : \A k \in T : ~(k < m)
<1>1. \E m \in T : \A k \in T : ~(<<k, m>> \in OpToRel(<, Nat))
  BY NatLessThanWellFounded, WFMin
<1>2. \A k, m \in T : k < m => <<k, m>> \in OpToRel(<, Nat)
  BY DEF OpToRel
<1> QED
  BY <1>1, <1>2

-----------------------------------------------------------------------------
(* The inductive invariant *)

\* A search starts with the anchor alone.
LEMMA InitIInv == Init => IInv
<1> SUFFICES ASSUME Init PROVE IInv
  OBVIOUS
<1>1. graph \in Graphs /\ visited = {}
  BY DEF Init
<1>2. AnchorEntry \in Entries
  BY SubgraphAssumption DEF AnchorEntry, Entries
<1>3. frontier = <<AnchorEntry>>
  BY DEF Init, AnchorEntry
<1>4. frontier \in Seq(Entries) /\ DOMAIN frontier = {1} /\ frontier[1] = AnchorEntry
  BY <1>2, <1>3
<1>5. AnchorEntry.depth = 0 /\ AnchorEntry.node = Anchor /\ AnchorEntry.latest = AnchorTime
  BY DEF AnchorEntry
<1>6. TypeOK
  BY <1>1, <1>4, <1>5, SubgraphAssumption DEF TypeOK
<1>7. OnlyCausalEdges /\ FrontierReached
  BY <1>1, <1>4 DEF OnlyCausalEdges, FrontierReached
<1>8. Waiting(Anchor, AnchorTime)
  BY <1>4, <1>5 DEF Waiting
<1>9. Closed
  BY <1>1, <1>8 DEF Closed
<1> QED
  BY <1>1, <1>6, <1>7, <1>9 DEF IInv

\* An entry at the full depth is given up: no chain stands behind it, or one is
\* as long as the full depth.
LEMMA CutIInv == IInv /\ Cut => IInv'
<1> SUFFICES ASSUME IInv, Cut PROVE IInv'
  OBVIOUS
<1>1. graph \in Graphs /\ TypeOK /\ OnlyCausalEdges /\ FrontierReached /\ Closed
  BY DEF IInv
<1>2. graph' = graph /\ visited' = visited /\ frontier' = Rest /\ frontier # <<>> /\ TooDeep(Top)
  BY DEF Cut
<1>3. /\ frontier \in Seq(Entries)
      /\ Len(frontier) \in Nat /\ Len(frontier) > 0
      /\ Rest \in Seq(Entries)
      /\ Len(Rest) = Len(frontier) - 1
      /\ \A i \in 1..(Len(frontier) - 1) : Rest[i] = frontier[i]
  BY <1>1, <1>2, RestOfFrontier DEF TypeOK
<1>4. /\ DOMAIN Rest = 1..(Len(frontier) - 1)
      /\ DOMAIN frontier = 1..Len(frontier)
      /\ \A i \in DOMAIN Rest : i \in DOMAIN frontier /\ Rest[i] = frontier[i]
  BY <1>3
<1>5. TypeOK'
  BY <1>1, <1>2, <1>3, <1>4 DEF TypeOK
<1>6. OnlyCausalEdges'
  BY <1>1, <1>2, SameChains DEF OnlyCausalEdges
<1>7. FrontierReached'
  BY <1>1, <1>2, <1>4, SameChains DEF FrontierReached
<1>8. Closed'
  <2> SUFFICES ASSUME NoLongChain, MaxDepth > 0
               PROVE  /\ Waiting(Anchor, AnchorTime)' \/ AllTaken(Anchor, AnchorTime)'
                      /\ \A e \in visited : Waiting(e.source, e.time)' \/ AllTaken(e.source, e.time)'
    BY <1>2, SameChains DEF Closed, NoLongChain
  <2>1. Len(frontier) \in DOMAIN frontier /\ Top = frontier[Len(frontier)]
    BY <1>3, <1>4 DEF Top
  <2>2. Top.depth = MaxDepth
    <3>1. Top \in Entries
      BY <1>2, <1>3, RestOfFrontier
    <3>2. Top.depth \in Nat /\ Top.depth <= MaxDepth /\ Top.depth >= MaxDepth
      BY <1>1, <1>2, <2>1, <3>1 DEF TypeOK, TooDeep, Entries
    <3> QED
      BY <3>2, SubgraphAssumption
  <2>3. CASE Top = AnchorEntry
    BY <2>2, <2>3 DEF AnchorEntry
  <2>4. CASE \E e \in visited : Reached(e, Top.depth)
    BY <1>1, <2>2, <2>4 DEF NoLongChain, TypeOK
  <2> QED
    BY <1>1, <2>1, <2>3, <2>4 DEF FrontierReached
<1> QED
  BY <1>1, <1>2, <1>5, <1>6, <1>7, <1>8 DEF IInv

\* An expansion makes chains longer by one edge and takes all that can follow.
LEMMA ExpandIInv == IInv /\ Expand => IInv'
<1> SUFFICES ASSUME IInv, Expand PROVE IInv'
  OBVIOUS
<1>1. graph \in Graphs /\ TypeOK /\ OnlyCausalEdges /\ FrontierReached /\ Closed
  BY DEF IInv
<1>2. /\ graph' = graph /\ visited' = visited \cup Taken(Top)
      /\ frontier # <<>> /\ ~TooDeep(Top)
  BY DEF Expand
<1>3. /\ frontier' \in Seq(Entries)
      /\ \A i \in DOMAIN frontier' :
            \/ \E j \in DOMAIN frontier : frontier'[i] = frontier[j]
            \/ \E e \in Taken(Top) : frontier'[i] = Behind(Top, e)
      /\ \A j \in 1..(Len(frontier) - 1) : \E i \in DOMAIN frontier' : frontier'[i] = frontier[j]
      /\ \A e \in Taken(Top) : \E i \in DOMAIN frontier' : frontier'[i] = Behind(Top, e)
  BY <1>1, ExpandFrontier
<1>4. /\ Len(frontier) \in Nat /\ Len(frontier) > 0
      /\ Top \in Entries
      /\ Len(frontier) \in DOMAIN frontier /\ Top = frontier[Len(frontier)]
      /\ DOMAIN frontier = 1..Len(frontier)
  BY <1>1, <1>2, RestOfFrontier DEF TypeOK, Top
<1>5. Top.depth \in Nat /\ Top.depth + 1 \in 1..MaxDepth
  BY <1>2, <1>4, SubgraphAssumption DEF TooDeep, Entries
<1>6. /\ Taken(Top) \subseteq graph /\ graph \subseteq Edges /\ visited \subseteq graph
  BY <1>1 DEF Taken, TypeOK
<1>7. \A e : /\ Behind(Top, e).node = e.source
             /\ Behind(Top, e).depth = Top.depth + 1
             /\ Behind(Top, e).latest = e.time
  BY DEF Behind
<1>8. \A e \in Taken(Top) : Reached(e, Top.depth + 1)
  <2> SUFFICES ASSUME NEW e \in Taken(Top) PROVE Reached(e, Top.depth + 1)
    OBVIOUS
  <2>1. e \in graph /\ e.target = Top.node /\ e.time <= Top.latest /\ InWindow(e)
    BY DEF Taken
  <2>2. CASE Top = AnchorEntry
    <3>1. Top.node = Anchor /\ Top.latest = AnchorTime /\ Top.depth + 1 = 1
      BY <2>2 DEF AnchorEntry
    <3>2. Reached(e, 1)
      BY <2>1, <3>1, ChainOfOne
    <3> QED
      BY <3>1, <3>2
  <2>3. CASE \E d \in visited : /\ Reached(d, Top.depth)
                                /\ Top.node = d.source /\ Top.latest = d.time
    BY <1>5, <1>6, <2>1, <2>3, ChainExtends
  <2> QED
    BY <1>1, <1>4, <2>2, <2>3 DEF FrontierReached
<1>9. TypeOK'
  <2>1. \A i \in DOMAIN frontier' : frontier'[i].depth <= MaxDepth
    <3> SUFFICES ASSUME NEW i \in DOMAIN frontier' PROVE frontier'[i].depth <= MaxDepth
      OBVIOUS
    <3>1. CASE \E j \in DOMAIN frontier : frontier'[i] = frontier[j]
      BY <3>1, <1>1 DEF TypeOK
    <3>2. CASE \E e \in Taken(Top) : frontier'[i] = Behind(Top, e)
      BY <3>2, <1>5, <1>7
    <3> QED
      BY <1>3, <3>1, <3>2
  <2> QED
    BY <1>1, <1>2, <1>3, <1>6, <2>1 DEF TypeOK
<1>10. OnlyCausalEdges'
  BY <1>1, <1>2, <1>5, <1>8, SameChains DEF OnlyCausalEdges
<1>11. FrontierReached'
  <2> SUFFICES ASSUME NEW i \in DOMAIN frontier'
               PROVE  \/ frontier'[i] = AnchorEntry
                      \/ \E e \in visited' : /\ Reached(e, frontier'[i].depth)
                                             /\ frontier'[i].node = e.source
                                             /\ frontier'[i].latest = e.time
    BY <1>2, SameChains DEF FrontierReached
  <2>1. CASE \E j \in DOMAIN frontier : frontier'[i] = frontier[j]
    BY <2>1, <1>1, <1>2 DEF FrontierReached
  <2>2. CASE \E e \in Taken(Top) : frontier'[i] = Behind(Top, e)
    BY <2>2, <1>2, <1>7, <1>8
  <2> QED
    BY <1>3, <2>1, <2>2
<1>12. Closed'
  <2> SUFFICES ASSUME NoLongChain, MaxDepth > 0
               PROVE  /\ Waiting(Anchor, AnchorTime)' \/ AllTaken(Anchor, AnchorTime)'
                      /\ \A e \in visited' : Waiting(e.source, e.time)' \/ AllTaken(e.source, e.time)'
    BY <1>2, SameChains DEF Closed, NoLongChain
  <2>1. \A n, t : n = Top.node /\ t = Top.latest => AllTaken(n, t)'
    BY <1>2 DEF AllTaken, Taken, InWindow
  <2>2. \A n, t : AllTaken(n, t) => AllTaken(n, t)'
    BY <1>2 DEF AllTaken, InWindow
  <2>3. \A n, t : Waiting(n, t) => Waiting(n, t)' \/ AllTaken(n, t)'
    <3> SUFFICES ASSUME NEW n, NEW t, Waiting(n, t)
                 PROVE  Waiting(n, t)' \/ AllTaken(n, t)'
      OBVIOUS
    <3>1. PICK j \in DOMAIN frontier : frontier[j].node = n /\ frontier[j].latest = t
      BY DEF Waiting
    <3>2. CASE j = Len(frontier)
      <4>1. n = Top.node /\ t = Top.latest
        BY <3>1, <3>2, <1>4
      <4> QED
        BY <4>1, <2>1
    <3>3. CASE j # Len(frontier)
      <4>1. j \in 1..(Len(frontier) - 1)
        BY <3>3, <1>4
      <4> QED
        BY <4>1, <3>1, <1>3 DEF Waiting
    <3> QED
      BY <3>2, <3>3
  <2>4. \A e \in Taken(Top) : Waiting(e.source, e.time)'
    <3> SUFFICES ASSUME NEW e \in Taken(Top) PROVE Waiting(e.source, e.time)'
      OBVIOUS
    <3>1. PICK i \in DOMAIN frontier' : frontier'[i] = Behind(Top, e)
      BY <1>3
    <3>2. frontier'[i].node = e.source /\ frontier'[i].latest = e.time
      BY <3>1, <1>7
    <3> QED
      BY <3>2 DEF Waiting
  <2> QED
    BY <1>1, <1>2, <2>2, <2>3, <2>4 DEF Closed
<1> QED
  BY <1>1, <1>2, <1>9, <1>10, <1>11, <1>12 DEF IInv

\* IInv holds throughout every search.
THEOREM Invariance == Spec => []IInv
<1>1. Init => IInv
  BY InitIInv
<1>2. IInv /\ [Next]_vars => IInv'
  <2> SUFFICES ASSUME IInv, [Next]_vars PROVE IInv'
    OBVIOUS
  <2>1. CASE Cut
    BY <2>1, CutIInv
  <2>2. CASE Expand
    BY <2>2, ExpandIInv
  <2>3. CASE UNCHANGED vars
    <3>1. graph' = graph /\ frontier' = frontier /\ visited' = visited
      BY <2>3 DEF vars
    <3>2. \A e, n : Reached(e, n)' <=> Reached(e, n)
      BY <3>1, SameChains
    <3>3. TypeOK' /\ OnlyCausalEdges' /\ FrontierReached'
      BY <3>1, <3>2 DEF IInv, TypeOK, OnlyCausalEdges, FrontierReached
    <3>4. Closed'
      BY <3>1, <3>2 DEF IInv, Closed, NoLongChain, Waiting, AllTaken, InWindow
    <3> QED
      BY <3>1, <3>3, <3>4 DEF IInv
  <2> QED
    BY <2>1, <2>2, <2>3 DEF Next
<1> QED
  BY <1>1, <1>2, PTL DEF Spec

-----------------------------------------------------------------------------
(* What get_subgraph promises *)

\* The state of every search has the types stated, and no entry is deeper than
\* the maximal depth.
THEOREM SearchTypeOK == Spec => []TypeOK
<1>1. IInv => TypeOK
  BY DEF IInv
<1> QED
  BY <1>1, Invariance, PTL

\* README.md:65 of get_subgraph, for every graph: only causally related edges
\* inside the window and the depth are returned.
THEOREM SubgraphSound == Spec => []OnlyCausalEdges
<1>1. IInv => OnlyCausalEdges
  BY DEF IInv
<1> QED
  BY <1>1, Invariance, PTL

\* With nothing left to expand, what is closed under continuing is complete.
LEMMA ClosedIsComplete == IInv => CompleteUnlessCut
<1> SUFFICES ASSUME IInv, Done, NoLongChain,
                    NEW n \in 1..MaxDepth, NEW e \in graph, Reached(e, n), e \notin visited
             PROVE  FALSE
  BY DEF CompleteUnlessCut, NoLongChain
<1> DEFINE Missed == {k \in 1..MaxDepth : \E d \in graph : Reached(d, k) /\ d \notin visited}
<1>1. \A m, t : ~Waiting(m, t)
  BY DEF Done, Waiting
<1>2. /\ AllTaken(Anchor, AnchorTime)
      /\ \A d \in visited : AllTaken(d.source, d.time)
  <2>1. MaxDepth > 0
    BY SubgraphAssumption
  <2> QED
    BY <1>1, <2>1 DEF IInv, Closed
<1>3. PICK m \in Missed : \A k \in Missed : ~(k < m)
  <2>1. n \in Missed /\ Missed \subseteq Nat
    BY SubgraphAssumption
  <2> HIDE DEF Missed
  <2> QED
    BY <2>1, LeastNumber
<1>4. PICK d \in graph : Reached(d, m) /\ d \notin visited
  BY <1>3
<1>5. CASE m = 1
  BY <1>2, <1>4, <1>5, ChainOfOne DEF AllTaken
<1>6. CASE m # 1
  <2>1. m - 1 \in Nat /\ m - 1 > 0 /\ (m - 1) + 1 = m /\ m - 1 \in 1..MaxDepth /\ m - 1 < m
    BY <1>3, <1>6, SubgraphAssumption
  <2>2. PICK c \in graph : /\ Reached(c, m - 1)
                           /\ d.target = c.source /\ d.time <= c.time /\ InWindow(d)
    BY <1>4, <2>1, ChainShrinks
  <2>3. c \in visited
    BY <1>3, <2>1, <2>2
  <2> QED
    BY <1>2, <1>4, <2>2, <2>3 DEF AllTaken
<1> QED
  BY <1>5, <1>6

\* Nothing related is left out of a search that met no chain of the full depth,
\* whatever the order of the edges.
THEOREM SubgraphComplete == Spec => []CompleteUnlessCut
<1>1. IInv => CompleteUnlessCut
  BY ClosedIsComplete
<1> QED
  BY <1>1, Invariance, PTL
=============================================================================
