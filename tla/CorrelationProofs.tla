-------------------------- MODULE CorrelationProofs ---------------------------
(* Proofs about Correlation: the worker of the analyzer builds the graph of  *)
(* EventGraph, whatever it does about its configuration, so that what is     *)
(* proved of that graph holds of this one; the configuration it uses is that *)
(* of the file; and it raises an alert for a call if and only if the calls   *)
(* that this one rests on match the pattern and it is the first to complete  *)
(* it, for graphs of any size, windows and histories of the configuration.   *)
(* The edges it works with are those that the search of Subgraph visits.     *)
EXTENDS Correlation, EventGraphProofs, WellFoundedInduction

-----------------------------------------------------------------------------
(* The worker implements the event graph. *)

(* A step of the worker is a step of the graph, or leaves it as it is. *)
LEMMA NextIsNext == [NextCorrelation]_cvars => [Next]_vars
<1> SUFFICES ASSUME [NextCorrelation]_cvars PROVE Next \/ UNCHANGED vars
  OBVIOUS
<1>1. CASE Running
  BY <1>1 DEF Next, Machine
<1>2. CASE handle_event
  BY <1>2 DEF handle_event, Next
<1>3. CASE UNCHANGED vars
  BY <1>3
<1>4. QED
  BY <1>1, <1>2, <1>3 DEF NextCorrelation, cvars

(* Every run of the worker is a run of the graph: no reload and no search   *)
(* changes what the graph becomes.                                          *)
THEOREM WorkerBuildsGraph == SpecCorrelation => Spec
  BY NextIsNext, PTL DEF SpecCorrelation, InitCorrelation, Spec

-----------------------------------------------------------------------------
(* Types. *)

CTypes ==
  /\ past \in Seq([content : Contents, time : Times])
  /\ past # <<>> /\ file = past[Len(past)]
  /\ config \in Windows /\ mtime \in Times
  /\ \A x \in alerts : x.edge \in DOMAIN edges /\ x.start <= edges[x.edge].stamp

(* A file that replaces another comes last. *)
LEMMA ReplaceFacts ==
  ASSUME CTypes, Replace
  PROVE  /\ past' \in Seq([content : Contents, time : Times]) /\ past' # <<>>
         /\ file' = past'[Len(past')] /\ file' \in [content : Contents, time : Times]
         /\ Len(past) \in Nat \ {0} /\ Len(past') = Len(past) + 1
         /\ \A i \in 1..Len(past) : past'[i] = past[i]
<1>1. /\ file' \in [content : Contents, time : Times] /\ past' = Append(past, file')
      /\ past \in Seq([content : Contents, time : Times]) /\ past # <<>>
  BY DEF CTypes, Replace
<1>2. Len(past) \in Nat \ {0}
  BY <1>1, EmptySeq
<1>3. QED
  BY <1>1, <1>2, AppendProperties

(* The file is the last of those there were.                                *)
LEMMA FileTyped ==
  ASSUME CTypes
  PROVE  file \in [content : Contents, time : Times]
<1>1. past \in Seq([content : Contents, time : Times]) /\ past # <<>> /\ file = past[Len(past)]
  BY DEF CTypes
<1>2. Len(past) \in 1..Len(past)
  BY <1>1, EmptySeq
<1>3. QED
  BY <1>1, <1>2, ElementOfSeq

(* What the worker loads is a valid configuration, with the time it saw. *)
LEMMA LoadFacts ==
  ASSUME CTypes, NEW now \in [content : Contents, time : Times], Load(now)
  PROVE  config' \in Windows /\ mtime' \in Times
<1>1. file \in [content : Contents, time : Times]
  BY FileTyped
<1>2. QED
  BY <1>1 DEF CTypes, Load

(* Edges are only added. *)
LEMMA EdgesStay ==
  ASSUME IInv, Handle
  PROVE  /\ edges' \in Seq(EdgeRecs)
         /\ \A i \in DOMAIN edges : i \in DOMAIN edges' /\ edges'[i] = edges[i]
<1>1. edges \in Seq(EdgeRecs) /\ edges' \in Seq(EdgeRecs)
  BY HandleIInv DEF IInv, GraphOK
<1>2. PICK new : edges' = Append(edges, new) \/ \E more : edges' = edges \o <<new, more>>
  BY DEF Handle, add_event_to_graph, AddExecute, AddObject, AddClone, AddRename
<1>3. DOMAIN edges = 1..Len(edges) /\ Len(edges) \in Nat
  BY <1>1, LenProperties
<1>4. CASE edges' = Append(edges, new)
  BY <1>1, <1>3, <1>4
<1>5. CASE \E more : edges' = edges \o <<new, more>>
  BY <1>1, <1>3, <1>5
<1>6. QED
  BY <1>1, <1>2, <1>4, <1>5

(* Types hold at the start. *)
LEMMA InitTypes == InitCorrelation => CTypes
<1> SUFFICES ASSUME InitCorrelation PROVE CTypes
  OBVIOUS
<1>1. file \in [content : Contents, time : Times] /\ file.content \in Windows /\ file.time \in Times
  BY CorrelationAssumption DEF InitCorrelation, Contents
<1>2. past = <<file>> /\ <<file>> # <<>> /\ Len(<<file>>) = 1 /\ <<file>>[1] = file
      /\ <<file>> \in Seq([content : Contents, time : Times])
  BY <1>1 DEF InitCorrelation
<1>3. QED
  BY <1>1, <1>2 DEF InitCorrelation, CTypes

(* Every step keeps them. *)
LEMMA NextTypes == IInv /\ CTypes /\ [NextCorrelation]_cvars => CTypes'
<1> SUFFICES ASSUME IInv, CTypes, [NextCorrelation]_cvars PROVE CTypes'
  OBVIOUS
<1>0. file \in [content : Contents, time : Times]
  BY FileTyped
<1>1. CASE Running /\ UNCHANGED <<configuration, alerts>>
  <2>1. edges' = edges
    BY <1>1 DEF Running, Begin, Fork, Return, Execute, ExecuteFails, analyzer
  <2>2. QED
    BY <1>1, <2>1 DEF CTypes, configuration
<1>2. CASE Replace /\ UNCHANGED <<vars, phase, config, mtime, alerts>>
  BY <1>2, ReplaceFacts DEF CTypes, vars, analyzer
<1>3. CASE Start /\ UNCHANGED <<vars, alerts>>
  BY <1>0, <1>3 DEF CTypes, Start, vars, analyzer
<1>4. CASE handle_event
  <2>1. /\ past' \in Seq([content : Contents, time : Times])
        /\ past' # <<>> /\ file' = past'[Len(past')]
        /\ config' \in Windows /\ mtime' \in Times
    <3>1. CASE ~ Changed /\ UNCHANGED configuration
      BY <3>1 DEF CTypes, configuration
    <3>2. CASE UNCHANGED <<file, past>> /\ Load(file)
      BY <1>0, <3>2, LoadFacts DEF CTypes
    <3>3. CASE Replace /\ Load(file')
      BY <3>3, ReplaceFacts, LoadFacts
    <3>4. QED
      BY <1>4, <3>1, <3>2, <3>3 DEF handle_event, reload_correlation_config_if_changed
  <2>2. PICK a \in Anchors(edges', Head(queue)) :
          \A x \in alerts' : x \in alerts \/ (x.edge = a /\ x.start = edges'[a].stamp - config')
    BY <1>4 DEF handle_event, get_context_weight
  <2>3. /\ edges' \in Seq(EdgeRecs)
        /\ \A i \in DOMAIN edges : i \in DOMAIN edges' /\ edges'[i] = edges[i]
    BY <1>4, EdgesStay DEF handle_event
  <2>4. a \in DOMAIN edges' /\ edges'[a].stamp \in Nat
    <3>1. a \in DOMAIN edges'
      BY <2>2 DEF Anchors
    <3>2. edges'[a] \in EdgeRecs
      BY <2>3, <3>1, LenProperties, ElementOfSeq
    <3>3. edges'[a].stamp \in Nat
      BY <3>2, EventGraphAssumption DEF EdgeRecs, Stamps
    <3>4. QED
      BY <3>1, <3>3
  <2>5. config' \in Nat
    BY <2>1, CorrelationAssumption
  <2>6. edges'[a].stamp - config' <= edges'[a].stamp
    BY <2>4, <2>5
  <2>7. \A x \in alerts' : x.edge \in DOMAIN edges' /\ x.start <= edges'[x.edge].stamp
    BY <2>2, <2>3, <2>4, <2>6 DEF CTypes
  <2>8. QED
    BY <2>1, <2>7 DEF CTypes
<1>5. CASE UNCHANGED cvars
  BY <1>5 DEF CTypes, cvars, vars, analyzer, configuration
<1>6. QED
  BY <1>1, <1>2, <1>3, <1>4, <1>5 DEF NextCorrelation

(* Types, and alerts are about edges of the graph, inside their windows. *)
THEOREM WorkerTyped == SpecCorrelation => []CorrelationTypeOK
<1>1. InitCorrelation => Init
  BY DEF InitCorrelation
<1>2. SpecCorrelation => []CTypes
  BY InitTypes, NextTypes, NextIsNext, Inductive, WorkerBuildsGraph, PTL DEF SpecCorrelation
<1>3. TypeOK /\ CTypes => CorrelationTypeOK
  BY DEF CTypes, CorrelationTypeOK
<1>4. QED
  BY <1>2, <1>3, GraphTyped, WorkerBuildsGraph, PTL

-----------------------------------------------------------------------------
(* The configuration. *)

(* The time that is kept is that of a file there was; it is not that of the *)
(* present file, or its content is in force.                                *)
Seen ==
  phase = "current" =>
    /\ \E i \in DOMAIN past : past[i].time = mtime
    /\ ~ Changed /\ ~ Ambiguous => config = file.content

(* A file of a time there was before cannot be told apart from that one. *)
LEMMA NewTime ==
  ASSUME CTypes, Replace, NEW t, \E i \in DOMAIN past : past[i].time = t
  PROVE  /\ \E i \in DOMAIN past' : past'[i].time = t
         /\ file'.time = t => Ambiguous'
<1>1. PICK i \in DOMAIN past : past[i].time = t
  OBVIOUS
<1>2. /\ DOMAIN past = 1..Len(past) /\ DOMAIN past' = 1..Len(past')
      /\ Len(past) \in Nat /\ Len(past') = Len(past) + 1
      /\ file' = past'[Len(past')] /\ past'[i] = past[i]
  BY <1>1, ReplaceFacts, LenProperties DEF CTypes
<1>3. i \in DOMAIN past' /\ Len(past') \in DOMAIN past' /\ i < Len(past')
  BY <1>1, <1>2
<1>4. QED
  BY <1>1, <1>2, <1>3 DEF Ambiguous

(* Every step keeps what is known of the time that is kept. *)
LEMMA NextSeen == CTypes /\ Seen /\ [NextCorrelation]_cvars => Seen'
<1> SUFFICES ASSUME CTypes, Seen, [NextCorrelation]_cvars PROVE Seen'
  OBVIOUS
<1>1. \E i \in DOMAIN past : past[i].time = file.time
  BY EmptySeq, LenProperties DEF CTypes
<1>2. ASSUME UNCHANGED configuration PROVE Seen'
  BY <1>2 DEF Seen, Changed, Ambiguous, configuration
<1>3. ASSUME Replace, UNCHANGED <<phase, config, mtime>> PROVE Seen'
  <2>1. ASSUME phase = "current"
        PROVE  (\E i \in DOMAIN past' : past'[i].time = mtime) /\ (file'.time = mtime => Ambiguous')
    BY <1>3, <2>1, NewTime DEF Seen
  <2>2. QED
    BY <1>3, <2>1 DEF Seen, Changed
<1>4. ASSUME Start PROVE Seen'
  BY <1>1, <1>4 DEF Seen, Start
<1>5. ASSUME UNCHANGED <<file, past>>, Load(file) PROVE Seen'
  BY <1>1, <1>5 DEF Seen, Load, Changed, Ambiguous
<1>6. ASSUME Replace, Load(file') PROVE Seen'
  <2>1. CASE file'.content \in Windows
    <3>1. mtime' = file.time
      BY <1>6, <2>1 DEF Load
    <3>2. (\E i \in DOMAIN past' : past'[i].time = file.time) /\ (file'.time = file.time => Ambiguous')
      BY <1>1, <1>6, NewTime
    <3>3. QED
      BY <3>1, <3>2 DEF Seen, Changed
  <2>2. CASE file'.content \notin Windows
    BY <1>3, <1>6, <2>2 DEF Load
  <2>3. QED
    BY <2>1, <2>2
<1>7. QED
  BY <1>2, <1>3, <1>4, <1>5, <1>6
  DEF NextCorrelation, cvars, handle_event, reload_correlation_config_if_changed

(* When the time of the file is the one recorded, its content is in force,  *)
(* for any number of replacements, wherever in a reload they fall.          *)
THEOREM FileInForce == SpecCorrelation => []ConfigIsFiles
<1>1. InitCorrelation => Seen
  BY DEF InitCorrelation, Seen
<1>2. SpecCorrelation => []CTypes
  BY InitTypes, NextTypes, NextIsNext, Inductive, WorkerBuildsGraph, PTL DEF SpecCorrelation
<1>3. Seen => ConfigIsFiles
  BY DEF Seen, ConfigIsFiles
<1>4. QED
  BY <1>1, <1>2, <1>3, NextSeen, PTL DEF SpecCorrelation

-----------------------------------------------------------------------------
(* Functions that are defined by recursion on numbers. *)

(* Every nonempty set of numbers has a least one. *)
LEMMA LeastNumber ==
  ASSUME NEW T \in SUBSET Nat, T # {}
  PROVE  \E m \in T : \A k \in T : ~(k < m)
<1>1. \E m \in T : \A k \in T : ~(<<k, m>> \in OpToRel(<, Nat))
  BY NatLessThanWellFounded, WFMin
<1>2. \A k, m \in T : k < m => <<k, m>> \in OpToRel(<, Nat)
  BY DEF OpToRel
<1>3. QED
  BY <1>1, <1>2

(* From the first value x each next one comes by the function f. *)
Follows(r, b, d, x, f) == r = [k \in b..d |-> IF k = b THEN x ELSE f[<<k, r[k - 1]>>]]

(* There is such a function, up to any number. *)
LEMMA Recursion ==
  ASSUME NEW V, NEW b \in Nat, NEW d \in Nat, NEW x \in V, NEW f \in [Nat \X V -> V]
  PROVE  \E r \in [b..d -> V] : Follows(r, b, d, x, f)
<1> DEFINE Fails == {c \in Nat : ~ \E r \in [b..c -> V] : Follows(r, b, c, x, f)}
<1> SUFFICES ASSUME d \in Fails PROVE FALSE
  OBVIOUS
<1>1. PICK m \in Fails : \A k \in Fails : ~(k < m)
  BY LeastNumber
<1>2. CASE m <= b
  <2> DEFINE r == [k \in b..m |-> x]
  <2>1. \A k \in b..m : k = b
    BY <1>2
  <2>2. r \in [b..m -> V] /\ r = [k \in b..m |-> IF k = b THEN x ELSE f[<<k, r[k - 1]>>]]
    BY <2>1
  <2>3. QED
    BY <1>1, <2>2 DEF Follows
<1>3. CASE b < m
  <2>1. m - 1 \in Nat /\ m - 1 < m /\ b <= m - 1
    BY <1>3
  <2>2. PICK q \in [b..(m - 1) -> V] : Follows(q, b, m - 1, x, f)
    BY <1>1, <2>1
  <2> DEFINE r == [k \in b..m |-> IF k = m THEN f[<<m, q[m - 1]>>] ELSE q[k]]
  <2>3. m - 1 \in b..(m - 1) /\ q[m - 1] \in V /\ f[<<m, q[m - 1]>>] \in V
    BY <2>1, <2>2
  <2>4. \A k \in b..m : k = m \/ k \in b..(m - 1)
    BY <1>3
  <2>5. r \in [b..m -> V]
    BY <2>2, <2>3, <2>4
  <2>6. ASSUME NEW k \in b..m
        PROVE  r[k] = IF k = b THEN x ELSE f[<<k, r[k - 1]>>]
    <3>1. CASE k = m
      <4>1. m - 1 \in b..m /\ m - 1 # m /\ m # b
        BY <1>3, <2>1
      <4>2. QED
        BY <3>1, <4>1
    <3>2. CASE k # m
      <4>1. k \in b..(m - 1) /\ r[k] = q[k]
        BY <2>4, <3>2
      <4>2. k # b => k - 1 \in b..m /\ k - 1 # m /\ r[k - 1] = q[k - 1]
        BY <2>1, <4>1
      <4>3. q[k] = IF k = b THEN x ELSE f[<<k, q[k - 1]>>]
        BY <2>2, <4>1 DEF Follows
      <4>4. QED
        BY <4>1, <4>2, <4>3
    <3>3. QED
      BY <3>1, <3>2
  <2>7. Follows(r, b, m, x, f)
    <3>1. r = [k \in b..m |-> r[k]]
      BY <2>5
    <3>2. QED
      BY <2>6, <3>1 DEF Follows
  <2>8. QED
    BY <1>1, <2>5, <2>7
<1>4. QED
  BY <1>1, <1>2, <1>3

-----------------------------------------------------------------------------
(* The search through the graph. *)

(* What the levels of the search are. *)
LEMMA ChainsFacts ==
  ASSUME NEW E, NEW a, NEW start, NEW depth \in Nat
  PROVE  LET R == Chains(E, a, start, depth)
         IN  /\ R \in [1..depth -> SUBSET DOMAIN E]
             /\ 1 \in 1..depth => R[1] = Into(E, E[a].target, start, E[a].stamp)
             /\ \A k \in 1..depth : k - 1 \in 1..depth => R[k] = Behind(E, start, R[k - 1])
<1> DEFINE V == SUBSET DOMAIN E
           x == Into(E, E[a].target, start, E[a].stamp)
           f == [c \in Nat \X V |-> Behind(E, start, c[2])]
           Is(r) == r = [k \in 1..depth |-> IF k = 1 THEN x ELSE Behind(E, start, r[k - 1])]
           R == CHOOSE r : Is(r)
<1>1. x \in V /\ \A S : Behind(E, start, S) \in V
  BY DEF Into, Behind
<1>2. Chains(E, a, start, depth) = R
  BY DEF Chains
<1> HIDE DEF x
<1>3. f \in [Nat \X V -> V]
  BY <1>1
<1>4. PICK r \in [1..depth -> V] : Follows(r, 1, depth, x, f)
  BY <1>1, <1>3, Recursion
<1>5. \A k \in 1..depth : k # 1 => k - 1 \in 1..depth /\ <<k, r[k - 1]>> \in Nat \X V
  BY <1>4
<1>6. \A k \in 1..depth : k # 1 => f[<<k, r[k - 1]>>] = Behind(E, start, r[k - 1])
  BY <1>5
<1> HIDE DEF f, V
<1>7. Is(r)
  BY <1>4, <1>6 DEF Follows
<1>8. Is(R)
  BY <1>7
<1>9. R \in [1..depth -> V]
  <2>1. \A k \in 1..depth : (IF k = 1 THEN x ELSE Behind(E, start, R[k - 1])) \in V
    BY <1>1 DEF V
  <2> HIDE DEF R
  <2>2. QED
    BY <1>8, <2>1
<1> HIDE DEF R
<1>10. QED
  BY <1>2, <1>8, <1>9 DEF x, V
-----------------------------------------------------------------------------
(* The search for a variant: each step is taken as early as it can be. *)

(* The edges p match the first k steps, one after another. *)
Matched(E, names, C, variant, p, k) ==
  /\ p \in [1..k -> C]
  /\ \A j \in 1..k : MatchesStep(E, names, variant, p[j], j)
  /\ \A j \in 2..k : E[p[j - 1]].stamp < E[p[j]].stamp

(* What the numbers of steps are. *)
LEMMA StepsFacts ==
  ASSUME NEW E, NEW names, NEW C, NEW variant
  PROVE  LET n == variant_steps(E, names, C, variant)
         IN  /\ n \in [0..MaxCalls -> Nat] /\ n[0] = 0
             /\ \A t \in 1..MaxCalls : t - 1 \in 0..MaxCalls /\ n[t] = Advance(E, names, C, variant, n[t - 1], t)
<1> DEFINE f == [c \in Nat \X Nat |-> Advance(E, names, C, variant, c[2], c[1])]
           Is(r) == r = [t \in 0..MaxCalls |-> IF t = 0 THEN 0 ELSE Advance(E, names, C, variant, r[t - 1], t)]
           n == CHOOSE r : Is(r)
<1>0. MaxCalls \in Nat /\ 0 \in Nat
  BY ImageFacts
<1>1. \A k \in Nat : \A t : Advance(E, names, C, variant, k, t) \in Nat
  BY DEF Advance
<1>2. variant_steps(E, names, C, variant) = n
  BY DEF variant_steps
<1>3. f \in [Nat \X Nat -> Nat]
  BY <1>1
<1>4. PICK r \in [0..MaxCalls -> Nat] : Follows(r, 0, MaxCalls, 0, f)
  BY <1>0, <1>3, Recursion
<1>5. \A t \in 0..MaxCalls : t # 0 => t - 1 \in 0..MaxCalls /\ <<t, r[t - 1]>> \in Nat \X Nat
  BY <1>0, <1>4
<1>6. \A t \in 0..MaxCalls : t # 0 => f[<<t, r[t - 1]>>] = Advance(E, names, C, variant, r[t - 1], t)
  BY <1>5
<1> HIDE DEF f
<1>7. Is(r)
  BY <1>4, <1>6 DEF Follows
<1>8. Is(n)
  BY <1>7
<1> HIDE DEF n
<1>9. /\ n[0] = 0
      /\ \A t \in 1..MaxCalls : t - 1 \in 0..MaxCalls /\ n[t] = Advance(E, names, C, variant, n[t - 1], t)
  BY <1>0, <1>8
<1>10. n \in [0..MaxCalls -> Nat]
  <2>1. n = r
    <3> DEFINE Differ == {t \in 0..MaxCalls : n[t] # r[t]}
    <3>1. DOMAIN n = 0..MaxCalls /\ n = [t \in 0..MaxCalls |-> n[t]] /\ r = [t \in 0..MaxCalls |-> r[t]]
      BY <1>4, <1>8
    <3>2. SUFFICES ASSUME Differ # {} PROVE FALSE
      BY <3>1
    <3> Differ \in SUBSET Nat
      BY <1>0
    <3>3. PICK m \in Differ : \A k \in Differ : ~(k < m)
      BY <3>2, LeastNumber
    <3>4. r[0] = 0 /\ m # 0 /\ m \in 1..MaxCalls /\ m - 1 \in 0..MaxCalls /\ m - 1 < m
      BY <1>0, <1>4, <1>9, <3>3 DEF Follows
    <3>5. n[m - 1] = r[m - 1]
      BY <3>3, <3>4
    <3>6. r[m] = Advance(E, names, C, variant, r[m - 1], m)
      BY <1>4, <1>6, <3>4 DEF Follows
    <3>7. QED
      BY <1>9, <3>3, <3>4, <3>5, <3>6
  <2>2. QED
    BY <1>4, <2>1
<1>11. QED
  BY <1>2, <1>9, <1>10

(* They grow by one at most, and not beyond the variant. *)
LEMMA StepsGrow ==
  ASSUME NEW E, NEW names, NEW C, NEW variant, Len(variant) \in Nat
  PROVE  LET n == variant_steps(E, names, C, variant)
         IN  /\ \A t \in 1..MaxCalls : n[t] = n[t - 1] \/ n[t] = n[t - 1] + 1
             /\ \A s, t \in 0..MaxCalls : s <= t => n[s] <= n[t]
             /\ \A t \in 0..MaxCalls : n[t] <= Len(variant)
<1> DEFINE n == variant_steps(E, names, C, variant)
<1>0. MaxCalls \in Nat
  BY ImageFacts
<1>1. /\ n \in [0..MaxCalls -> Nat] /\ n[0] = 0
      /\ \A t \in 1..MaxCalls : t - 1 \in 0..MaxCalls /\ n[t] = Advance(E, names, C, variant, n[t - 1], t)
  BY StepsFacts
<1> HIDE DEF n
<1>2. \A t \in 1..MaxCalls :
        n[t] = n[t - 1] \/ (n[t] = n[t - 1] + 1 /\ n[t - 1] + 1 <= Len(variant))
  BY <1>1 DEF Advance, MatchesStep
<1>3. \A s, t \in 0..MaxCalls : s <= t => n[s] <= n[t]
  <2> SUFFICES ASSUME NEW s \in 0..MaxCalls
               PROVE  \A t \in 0..MaxCalls : s <= t => n[s] <= n[t]
    OBVIOUS
  <2> DEFINE Fails == {t \in 0..MaxCalls : s <= t /\ ~(n[s] <= n[t])}
  <2> SUFFICES ASSUME Fails # {} PROVE FALSE
    OBVIOUS
  <2> Fails \in SUBSET Nat
    BY <1>0
  <2>1. PICK m \in Fails : \A k \in Fails : ~(k < m)
    BY LeastNumber
  <2>2. n[s] \in Nat /\ n[m] \in Nat /\ m # s
    <3>1. n[s] \in Nat /\ n[m] \in Nat /\ m \in 0..MaxCalls /\ ~(n[s] <= n[m])
      BY <1>1, <2>1
    <3>2. QED
      BY <3>1
  <2>3. m \in 1..MaxCalls /\ m - 1 \in 0..MaxCalls /\ s <= m - 1 /\ m - 1 < m
    BY <1>0, <2>1, <2>2
  <2>4. n[s] <= n[m - 1] /\ n[m - 1] \in Nat
    BY <1>1, <2>1, <2>3
  <2>5. QED
    BY <1>2, <2>1, <2>2, <2>3, <2>4
<1>4. \A t \in 0..MaxCalls : n[t] <= Len(variant)
  <2> DEFINE Fails == {t \in 0..MaxCalls : ~(n[t] <= Len(variant))}
  <2> SUFFICES ASSUME Fails # {} PROVE FALSE
    OBVIOUS
  <2> Fails \in SUBSET Nat
    BY <1>0
  <2>1. PICK m \in Fails : \A k \in Fails : ~(k < m)
    BY LeastNumber
  <2>2. m # 0 /\ m \in 1..MaxCalls /\ m - 1 \in 0..MaxCalls /\ m - 1 < m
    BY <1>0, <1>1, <2>1
  <2>3. n[m - 1] <= Len(variant) /\ n[m - 1] \in Nat
    BY <1>1, <2>1, <2>2
  <2>4. QED
    BY <1>2, <2>1, <2>2, <2>3
<1>5. QED
  BY <1>2, <1>3, <1>4 DEF n

(* The steps that are counted are matched by edges one after another ... *)
LEMMA StepsAreMatched ==
  ASSUME NEW E, NEW names, NEW C, NEW variant, Len(variant) \in Nat,
         NEW t \in 0..MaxCalls, NEW k \in 1..variant_steps(E, names, C, variant)[t]
  PROVE  \E p : Matched(E, names, C, variant, p, k) /\ E[p[k]].stamp <= t /\ E[p[k]].stamp \in 1..MaxCalls
<1> DEFINE n == variant_steps(E, names, C, variant)
           Good(u, j) == \E p : Matched(E, names, C, variant, p, j) /\ E[p[j]].stamp <= u /\ E[p[j]].stamp \in 1..MaxCalls
           Fails == {u \in 0..MaxCalls : \E j \in 1..n[u] : ~ Good(u, j)}
<1>0. MaxCalls \in Nat
  BY ImageFacts
<1>1. /\ n \in [0..MaxCalls -> Nat] /\ n[0] = 0
      /\ \A u \in 1..MaxCalls : u - 1 \in 0..MaxCalls /\ n[u] = Advance(E, names, C, variant, n[u - 1], u)
  BY StepsFacts
<1>2. k \in 1..n[t]
  OBVIOUS
<1> HIDE DEF n, Good
<1> SUFFICES ASSUME Fails # {} PROVE FALSE
  BY <1>2 DEF Good
<1> Fails \in SUBSET Nat
  BY <1>0
<1>3. PICK u \in Fails : \A s \in Fails : ~(s < u)
  BY LeastNumber
<1>4. PICK j \in 1..n[u] : ~ Good(u, j)
  BY <1>3
<1>5. u # 0 /\ u \in 1..MaxCalls /\ u - 1 \in 0..MaxCalls /\ u - 1 < u /\ n[u - 1] \in Nat
  BY <1>0, <1>1, <1>3, <1>4
<1>6. \A i \in 1..n[u - 1] : Good(u - 1, i)
  BY <1>3, <1>5
<1>7. \A i \in Nat : Good(u - 1, i) => Good(u, i)
  <2>1. \A s \in 1..MaxCalls : s <= u - 1 => s <= u
    BY <1>5
  <2>2. QED
    BY <2>1 DEF Good
<1>8. j \notin 1..n[u - 1] /\ j \in Nat /\ j >= 1
  BY <1>1, <1>3, <1>4, <1>6, <1>7
<1>9. /\ j = n[u - 1] + 1
      /\ \E i \in C : E[i].stamp = u /\ MatchesStep(E, names, variant, i, n[u - 1] + 1)
  <2>1. n[u] = Advance(E, names, C, variant, n[u - 1], u) /\ n[u] # n[u - 1]
    BY <1>1, <1>4, <1>5, <1>8
  <2>2. /\ n[u] = n[u - 1] + 1
        /\ \E i \in C : E[i].stamp = u /\ MatchesStep(E, names, variant, i, n[u - 1] + 1)
    BY <2>1 DEF Advance
  <2>3. QED
    BY <1>4, <1>5, <1>8, <2>2
<1>10. PICK i \in C : E[i].stamp = u /\ MatchesStep(E, names, variant, i, j)
  BY <1>9
<1>11. CASE j = 1
  <2> DEFINE p == [h \in 1..1 |-> i]
  <2>1. Matched(E, names, C, variant, p, j) /\ p[j] = i
    BY <1>10, <1>11 DEF Matched
  <2>2. E[p[j]].stamp <= u /\ E[p[j]].stamp \in 1..MaxCalls
    BY <1>5, <1>10, <2>1
  <2> HIDE DEF p
  <2>3. Good(u, j)
    BY <2>1, <2>2 DEF Good
  <2>4. QED
    BY <1>4, <2>3
<1>12. CASE j # 1
  <2>1. j - 1 \in 1..n[u - 1] /\ j - 1 \in Nat
    <3>1. j = n[u - 1] + 1 /\ n[u - 1] \in Nat /\ j # 1
      BY <1>5, <1>9, <1>12
    <3>2. \A a \in Nat : a + 1 # 1 => (a + 1) - 1 \in 1..a /\ (a + 1) - 1 \in Nat
      OBVIOUS
    <3>3. QED
      BY <3>1, <3>2
  <2>2. PICK q : Matched(E, names, C, variant, q, j - 1) /\ E[q[j - 1]].stamp <= u - 1
                 /\ E[q[j - 1]].stamp \in 1..MaxCalls
    BY <1>6, <2>1 DEF Good
  <2> DEFINE p == [h \in 1..j |-> IF h = j THEN i ELSE q[h]]
  <2>3. \A h \in 1..j : h = j \/ (h # j /\ h \in 1..(j - 1))
    BY <1>8
  <2>4. p \in [1..j -> C] /\ p[j] = i
    BY <1>8, <2>2, <2>3 DEF Matched
  <2>5. \A h \in 1..j : MatchesStep(E, names, variant, p[h], h)
    BY <1>10, <2>2, <2>3 DEF Matched
  <2>6. E[q[j - 1]].stamp < u
    BY <1>5, <2>2
  <2>7. ASSUME NEW h \in 2..j
        PROVE  E[p[h - 1]].stamp < E[p[h]].stamp
    <3>1. h - 1 \in 1..j /\ h - 1 # j /\ h \in 1..j /\ p[h - 1] = q[h - 1]
      BY <1>8
    <3>2. CASE h = j
      BY <1>10, <2>4, <2>6, <3>1, <3>2
    <3>3. CASE h # j
      <4>1. h \in 2..(j - 1) /\ p[h] = q[h]
        BY <3>1, <3>3, <1>8
      <4>2. QED
        BY <2>2, <3>1, <4>1 DEF Matched
    <3>4. QED
      BY <3>2, <3>3
  <2> HIDE DEF p
  <2>8. Matched(E, names, C, variant, p, j)
    BY <2>4, <2>5, <2>7 DEF Matched
  <2>9. Good(u, j)
    <3>1. u <= u
      BY <1>5
    <3>2. QED
      BY <1>5, <1>10, <2>4, <2>8, <3>1 DEF Good
  <2>10. QED
    BY <1>4, <2>9
<1>13. QED
  BY <1>11, <1>12

(* ... and all that are matched are counted. *)
LEMMA MatchedAreSteps ==
  ASSUME NEW E, NEW names, NEW C, NEW variant, Len(variant) \in Nat,
         \A i \in C : E[i].stamp \in 1..MaxCalls,
         NEW p, NEW k \in Nat \ {0}, Matched(E, names, C, variant, p, k)
  PROVE  E[p[k]].stamp \in 1..MaxCalls /\ k <= variant_steps(E, names, C, variant)[E[p[k]].stamp]
<1> DEFINE n == variant_steps(E, names, C, variant)
           At(j) == E[p[j]].stamp
           Fails == {j \in 1..k : ~(j <= n[At(j)])}
<1>0. MaxCalls \in Nat
  BY ImageFacts
<1>1. /\ n \in [0..MaxCalls -> Nat] /\ n[0] = 0
      /\ \A u \in 1..MaxCalls : u - 1 \in 0..MaxCalls /\ n[u] = Advance(E, names, C, variant, n[u - 1], u)
  BY StepsFacts
<1>2. /\ \A u \in 1..MaxCalls : n[u] = n[u - 1] \/ n[u] = n[u - 1] + 1
      /\ \A s, u \in 0..MaxCalls : s <= u => n[s] <= n[u]
  BY StepsGrow
<1>3. \A j \in 1..k : p[j] \in C /\ At(j) \in 1..MaxCalls /\ At(j) \in 0..MaxCalls
                      /\ MatchesStep(E, names, variant, p[j], j)
  BY <1>0 DEF Matched
<1>4. \A j \in 2..k : At(j - 1) < At(j)
  BY DEF Matched
<1>5. k \in 1..k
  OBVIOUS
<1> HIDE DEF n
<1> SUFFICES ASSUME Fails # {} PROVE FALSE
  BY <1>3, <1>5 DEF n
<1> Fails \in SUBSET Nat
  BY <1>0
<1>6. PICK m \in Fails : \A j \in Fails : ~(j < m)
  BY LeastNumber
<1> DEFINE t == At(m)
<1>7. m \in 1..k /\ t \in 1..MaxCalls /\ t - 1 \in 0..MaxCalls /\ ~(m <= n[t]) /\ p[m] \in C
      /\ MatchesStep(E, names, variant, p[m], m) /\ E[p[m]].stamp = t /\ t \in 0..MaxCalls
  BY <1>0, <1>3, <1>6
<1>8. m - 1 <= n[t - 1]
  <2>1. CASE m = 1
    BY <1>1, <1>7, <2>1
  <2>2. CASE m # 1
    <3>1. m - 1 \in 1..k /\ m \in 2..k /\ m - 1 < m
      BY <1>7, <2>2
    <3>2. m - 1 <= n[At(m - 1)]
      BY <1>6, <3>1
    <3>3. At(m - 1) <= t - 1 /\ At(m - 1) \in 0..MaxCalls
      <4>1. At(m - 1) < t /\ At(m - 1) \in 1..MaxCalls /\ At(m - 1) \in 0..MaxCalls
        BY <1>3, <1>4, <3>1
      <4> HIDE DEF At
      <4>2. QED
        BY <1>0, <1>7, <4>1
    <3>4. n[At(m - 1)] <= n[t - 1]
      BY <1>2, <1>7, <3>3
    <3> HIDE DEF At
    <3>5. QED
      BY <1>1, <1>7, <3>1, <3>2, <3>3, <3>4
  <2>3. QED
    BY <2>1, <2>2
<1>9. n[t - 1] \in Nat /\ n[t] \in Nat /\ n[t - 1] <= n[t] /\ t - 1 <= t /\ m \in Nat
  <2>1. t - 1 <= t /\ t \in 0..MaxCalls
    BY <1>0, <1>7
  <2>2. QED
    BY <1>1, <1>2, <1>7, <2>1
<1>10. n[t - 1] = m - 1
  <2>1. ~ (m <= n[t])
    BY <1>7
  <2> HIDE DEF t
  <2>2. QED
    BY <1>8, <1>9, <2>1
<1>11. n[t - 1] + 1 = m
  BY <1>9, <1>10
<1>12. n[t] = m
  BY <1>1, <1>7, <1>11 DEF Advance
<1>13. QED
  BY <1>7, <1>9, <1>12

(* The variants of the pattern: what all their steps have in common. *)
LEMMA VariantFacts ==
  /\ DOMAIN Variants = {1, 2}
  /\ Len(Variants[1]) = 4 /\ Len(Variants[2]) = 5
  /\ \A v \in DOMAIN Variants :
        /\ \A k \in 1..Len(Variants[v]) :
            /\ Variants[v][k].event \in {"touch", "clone", "exec"}
            /\ Variants[v][k].source \in {"package_manager", "lifecycle_shell", "script_runtime", "shell_child"}
        /\ Variants[v][2] = Step("package_manager", "lifecycle_shell", "clone")
        /\ Variants[v][Len(Variants[v])].target = "install_script"
<1> DEFINE One == <<Step("package_manager", "package_manifest", "touch"),
                    Step("package_manager", "lifecycle_shell", "clone"),
                    Step("lifecycle_shell", "script_runtime", "exec"),
                    Step("script_runtime", "install_script", "touch")>>
           Two == <<Step("package_manager", "package_manifest", "touch"),
                    Step("package_manager", "lifecycle_shell", "clone"),
                    Step("lifecycle_shell", "shell_child", "clone"),
                    Step("shell_child", "script_runtime", "exec"),
                    Step("script_runtime", "install_script", "touch")>>
<1>1. Variants = <<One, Two>>
  BY DEF Variants
<1>2. Len(One) = 4 /\ Len(Two) = 5
  OBVIOUS
<1>3. /\ One[1] = Step("package_manager", "package_manifest", "touch")
      /\ One[2] = Step("package_manager", "lifecycle_shell", "clone")
      /\ One[3] = Step("lifecycle_shell", "script_runtime", "exec")
      /\ One[4] = Step("script_runtime", "install_script", "touch")
  OBVIOUS
<1>4. /\ Two[1] = Step("package_manager", "package_manifest", "touch")
      /\ Two[2] = Step("package_manager", "lifecycle_shell", "clone")
      /\ Two[3] = Step("lifecycle_shell", "shell_child", "clone")
      /\ Two[4] = Step("shell_child", "script_runtime", "exec")
      /\ Two[5] = Step("script_runtime", "install_script", "touch")
  OBVIOUS
<1> HIDE DEF One, Two
<1>5. DOMAIN Variants = {1, 2} /\ Variants[1] = One /\ Variants[2] = Two
  BY <1>1
<1>6. /\ \A k \in 1..4 : k \in {1, 2, 3, 4}
      /\ \A k \in 1..5 : k \in {1, 2, 3, 4, 5}
  OBVIOUS
<1>7. /\ \A k \in 1..4 :
            /\ One[k].event \in {"touch", "clone", "exec"}
            /\ One[k].source \in {"package_manager", "lifecycle_shell", "script_runtime", "shell_child"}
      /\ One[4].target = "install_script"
  BY <1>3, <1>6 DEF Step
<1>8. /\ \A k \in 1..5 :
            /\ Two[k].event \in {"touch", "clone", "exec"}
            /\ Two[k].source \in {"package_manager", "lifecycle_shell", "script_runtime", "shell_child"}
      /\ Two[5].target = "install_script"
  BY <1>4, <1>6 DEF Step
<1>9. QED
  BY <1>2, <1>3, <1>4, <1>5, <1>7, <1>8

(* Times of edges. *)
LEMMA EdgeTimes ==
  ASSUME OrderIInv
  PROVE  /\ \A i \in DOMAIN edges : edges[i] \in Edges /\ edges[i].stamp \in 1..MaxCalls
         /\ \A i, j \in DOMAIN edges :
                edges[i].stamp = edges[j].stamp => i = j \/ edges[i].kind \in {"request", "rename"}
<1>1. \A i \in DOMAIN edges : edges[i] \in Edges
  BY DEF Edges
<1>2. clock \in Nat /\ clock <= MaxCalls /\ MaxCalls \in Nat
  BY ImageFacts DEF OrderIInv, NodesIInv, IInv, MachineOK, Stamps
<1>3. \A e \in Edges : e.stamp \in 1..clock
  BY DEF OrderIInv, OrderInv, TimesFit
<1>4. QED
  BY <1>1, <1>2, <1>3 DEF OrderIInv, OrderInv, StampsOnce

(* A variant is complete if its steps are matched by edges one after another. *)
LEMMA CompleteIsMatched ==
  ASSUME NEW v \in DOMAIN Variants, NEW C, NEW z
  PROVE  Complete(C, v, z) <=>
            \E p : Matched(edges, comm, C, Variants[v], p, Len(Variants[v])) /\ p[Len(Variants[v])] = z
<1>1. Len(Variants[v]) \in Nat /\ Len(Variants[v]) \in 1..Len(Variants[v])
  BY VariantFacts
<1>2. \A k \in 1..Len(Variants[v]) : \A i :
        MatchesStep(edges, comm, Variants[v], i, k) <=> check_in_patterns(comm, edges[i], Variants[v][k])
  BY <1>1 DEF MatchesStep
<1>3. QED
  BY <1>1, <1>2 DEF Complete, Matched

(* The last edge of a match is not one of a rename, which has the time of another. *)
LEMMA MatchedOnce ==
  ASSUME OrderIInv, NEW v \in DOMAIN Variants, NEW C \in SUBSET DOMAIN edges, NEW p, NEW names,
         Matched(edges, names, C, Variants[v], p, Len(Variants[v])), NEW a \in DOMAIN edges,
         edges[p[Len(Variants[v])]].stamp = edges[a].stamp
  PROVE  p[Len(Variants[v])] = a
<1> DEFINE n == Len(Variants[v])
<1>1. n \in 1..n
  BY VariantFacts
<1>2. p[n] \in DOMAIN edges /\ MatchesStep(edges, names, Variants[v], p[n], n)
  BY <1>1 DEF Matched
<1>3. edges[p[n]].kind \in {"touch", "clone", "exec"}
  BY <1>1, <1>2, VariantFacts DEF MatchesStep, check_in_patterns
<1>4. QED
  BY <1>2, <1>3, EdgeTimes

(* Taking each step as early as possible finds what is first to complete a variant. *)
LEMMA GreedyIsFirst ==
  ASSUME OrderIInv, NEW v \in DOMAIN Variants, NEW a \in DOMAIN edges,
         NEW C \in SUBSET DOMAIN edges, \A i \in C : edges[i].stamp <= edges[a].stamp
  PROVE  CompletedAt(variant_steps(edges, comm, C, Variants[v]), edges[a].stamp, Len(Variants[v]))
            <=> CompletesFirst(C, v, a)
<1> DEFINE variant == Variants[v]
           L == Len(variant)
           n == variant_steps(edges, comm, C, variant)
           t == edges[a].stamp
           Found(z) == \E p : Matched(edges, comm, C, variant, p, L) /\ p[L] = z
<1>0. MaxCalls \in Nat
  BY ImageFacts
<1>1. L \in Nat \ {0} /\ L \in 1..L
  BY VariantFacts
<1>2. t \in 1..MaxCalls /\ t \in 0..MaxCalls /\ t - 1 \in 0..MaxCalls /\ t \in Nat
      /\ \A i \in C : edges[i].stamp \in 1..MaxCalls
  BY <1>0, EdgeTimes
<1>3. \A z : Complete(C, v, z) <=> Found(z)
  BY CompleteIsMatched
<1>4. n \in [0..MaxCalls -> Nat]
  BY StepsFacts
<1>5. /\ \A s, u \in 0..MaxCalls : s <= u => n[s] <= n[u]
      /\ \A u \in 0..MaxCalls : n[u] <= L
  BY <1>1, StepsGrow
<1>6. ASSUME NEW u \in 0..MaxCalls, n[u] = L
      PROVE  \E z \in C : Found(z) /\ edges[z].stamp <= u
  <2>1. L \in 1..n[u]
    BY <1>1, <1>6
  <2>2. PICK p : Matched(edges, comm, C, variant, p, L) /\ edges[p[L]].stamp <= u
    BY <1>1, <2>1, StepsAreMatched
  <2>3. p[L] \in C
    BY <1>1, <2>2 DEF Matched
  <2>4. QED
    BY <2>2, <2>3
<1>7. ASSUME NEW z, Found(z)
      PROVE  /\ z \in C /\ edges[z].stamp \in 1..MaxCalls /\ L <= n[edges[z].stamp]
             /\ edges[z].stamp <= t /\ (edges[z].stamp = t => z = a)
  <2>1. PICK p : Matched(edges, comm, C, variant, p, L) /\ p[L] = z
    BY <1>7
  <2>2. z \in C
    BY <1>1, <2>1 DEF Matched
  <2>3. edges[z].stamp \in 1..MaxCalls /\ L <= n[edges[z].stamp]
    BY <1>1, <1>2, <2>1, MatchedAreSteps
  <2>4. edges[z].stamp = t => z = a
    BY <2>1, MatchedOnce
  <2>5. QED
    BY <2>2, <2>3, <2>4
<1> HIDE DEF n, Found, L, t
<1>8. ASSUME n[t] = L, n[t - 1] < L
      PROVE  Found(a) /\ \A z \in C \ {a} : ~ Found(z)
  <2>1. ASSUME NEW z, Found(z)
        PROVE  z = a
    <3>1. edges[z].stamp \in 1..MaxCalls /\ L <= n[edges[z].stamp] /\ edges[z].stamp <= t
      BY <1>7, <2>1
    <3>2. CASE edges[z].stamp <= t - 1
      <4>1. n[edges[z].stamp] <= n[t - 1] /\ n[edges[z].stamp] \in Nat /\ n[t - 1] \in Nat
        BY <1>2, <1>4, <1>5, <3>1, <3>2
      <4>2. QED
        BY <1>1, <1>8, <3>1, <4>1
    <3>3. CASE edges[z].stamp = t
      BY <1>7, <2>1, <3>3
    <3>4. QED
      BY <1>2, <3>1, <3>2, <3>3
  <2>2. \E z \in C : Found(z)
    BY <1>2, <1>6, <1>8
  <2>3. QED
    BY <2>1, <2>2
<1>9. ASSUME Found(a), \A z \in C \ {a} : ~ Found(z)
      PROVE  n[t] = L /\ n[t - 1] < L
  <2>1. n[t] = L
    <3>1. L <= n[t] /\ n[t] <= L /\ n[t] \in Nat
      BY <1>2, <1>4, <1>5, <1>7, <1>9 DEF t
    <3>2. QED
      BY <1>1, <3>1
  <2>2. n[t - 1] # L
    <3>1. SUFFICES ASSUME n[t - 1] = L PROVE FALSE
      OBVIOUS
    <3>2. PICK z \in C : Found(z) /\ edges[z].stamp <= t - 1
      BY <1>2, <1>6, <3>1
    <3>3. z # a
      BY <1>2, <3>2 DEF t
    <3>4. QED
      BY <1>9, <3>2, <3>3
  <2>3. n[t - 1] \in Nat /\ n[t - 1] <= L
    BY <1>2, <1>4, <1>5
  <2>4. QED
    BY <1>1, <2>1, <2>2, <2>3
<1>10. CompletesFirst(C, v, a) <=> Found(a) /\ \A z \in C \ {a} : ~ Found(z)
  BY <1>3 DEF CompletesFirst
<1>11. CompletedAt(n, t, L) <=> n[t] = L /\ n[t - 1] < L
  BY DEF CompletedAt
<1>12. CompletedAt(n, t, L) <=> CompletesFirst(C, v, a)
  BY <1>8, <1>9, <1>10, <1>11
<1>13. QED
  BY <1>12 DEF n, t, L
-----------------------------------------------------------------------------
(* No process ends while the worker runs, so no process id is used again. *)

Alone ==
  /\ shared = {}
  /\ \A p \in Pids : image[p] = NoImage <=> born[p] = NoImage

(* It is so at the start. *)
LEMMA InitAlone == Init => Alone
  BY DEF Init, Alone

(* Every step keeps it. *)
LEMMA NextAlone ==
  ASSUME IInv, Alone, [NextCorrelation]_cvars
  PROVE  Alone'
<1>1. ASSUME UNCHANGED <<image, born, shared>> PROVE Alone'
  BY <1>1 DEF Alone
<1>2. ASSUME NEW c \in calls, NEW child \in Pids, Fork(c, child) PROVE Alone'
  <2> DEFINE new == [proc |-> child, since |-> c.time, name |-> c.by.name]
  <2>1. new \in Images /\ new # NoImage
    <3>1. c \in Calls
      BY DEF IInv, MachineOK
    <3>2. QED
      BY <3>1, ImageFacts DEF Calls
  <2> HIDE DEF new
  <2>2. /\ image[child] = NoImage /\ image' = [image EXCEPT ![child] = new]
        /\ born' = [born EXCEPT ![child] = IF @ = NoImage THEN new ELSE @]
        /\ shared' = shared \cup {p \in {child} : born[p] # NoImage}
    BY <1>2 DEF Fork, new
  <2>3. born[child] = NoImage /\ shared' = {}
    <3>1. born[child] = NoImage /\ shared = {}
      BY <2>2 DEF Alone
    <3>2. {p \in {child} : born[p] # NoImage} = {}
      BY <3>1
    <3>3. QED
      BY <2>2, <3>1, <3>2
  <2>4. /\ image \in [Pids -> Images \cup {NoImage}] /\ born \in [Pids -> Images \cup {NoImage}]
    BY DEF IInv, MachineOK
  <2>5. \A p \in Pids : /\ image'[p] = IF p = child THEN new ELSE image[p]
                        /\ born'[p] = IF p = child THEN new ELSE born[p]
    BY <2>2, <2>3, <2>4
  <2>6. QED
    BY <2>1, <2>3, <2>5 DEF Alone
<1>3. ASSUME NEW c \in calls, Execute(c) PROVE Alone'
  <2> DEFINE new == [proc |-> c.proc, since |-> c.time, name |-> c.what]
  <2>1. c \in Calls /\ SortOf(c.kind, c.what) /\ c.kind = "exec" /\ image[c.proc] # NoImage
    BY <1>3 DEF IInv, MachineOK, Execute
  <2>2. new \in Images /\ new # NoImage
    BY <2>1, ImageFacts DEF Calls, SortOf
  <2> HIDE DEF new
  <2>3. image' = [image EXCEPT ![c.proc] = new] /\ born' = born /\ shared' = shared
    BY <1>3 DEF Execute, new
  <2>4. image \in [Pids -> Images \cup {NoImage}]
    BY DEF IInv, MachineOK
  <2>5. \A p \in Pids : image'[p] = IF p = c.proc THEN new ELSE image[p]
    BY <2>3, <2>4
  <2>6. QED
    BY <2>1, <2>2, <2>3, <2>5 DEF Alone
<1>4. CASE Running
  BY <1>1, <1>2, <1>3, <1>4 DEF Running, Begin, Return, ExecuteFails
<1>5. CASE UNCHANGED vars
  BY <1>1, <1>5 DEF vars
<1>6. CASE handle_event
  BY <1>1, <1>6 DEF handle_event, Handle, kernel
<1>7. QED
  BY <1>4, <1>5, <1>6 DEF NextCorrelation, cvars

-----------------------------------------------------------------------------
(* The search finds the causes of a call. *)

(* Edges of the graph, by their positions. *)
Near(a, start) == {i \in DOMAIN edges : edges[i].stamp \in start..edges[a].stamp}
Closed(C, a, start) ==
  /\ \A i \in Near(a, start) : edges[i].target = edges[a].target => i \in C
  /\ \A j \in C : \A i \in Near(a, start) : RestsOn(edges[j], edges[i]) => i \in C

(* What causes are. *)
LEMMA CausesFacts ==
  ASSUME NEW a, NEW start
  PROVE  /\ \A C \in SUBSET Near(a, start) : Closed(C, a, start) => Causes(a, start) \subseteq C
         /\ \A i \in Near(a, start) :
                (\A C \in SUBSET Near(a, start) : Closed(C, a, start) => i \in C) => i \in Causes(a, start)
  BY DEF Causes, Near, Closed

(* Where the search goes back, it goes to what the call rests on. *)
LEMMA SearchRests ==
  ASSUME OrderIInv, shared = {}, NEW i \in DOMAIN edges, NEW j \in DOMAIN edges,
         edges[i].target = edges[j].source, edges[i].stamp <= edges[j].stamp
  PROVE  RestsOn(edges[j], edges[i])
<1> DEFINE e == edges[j]
           f == edges[i]
<1> USE DEF OrderIInv, NodesIInv, OrderInv
<1>1. f \in Edges /\ e \in Edges
  BY DEF Edges
<1>2. CASE e.source.type = "process"
  <2>1. /\ e \in ByProcess /\ e.source.id = e.by.proc
        /\ e.by.proc \in Pids /\ NoPid \notin Pids
    <3>1. e \in ByProcess
      BY <1>1, <1>2 DEF ByProcess
    <3>2. e.by.proc \in Pids
      BY <1>1, KnownFacts, ImageFacts
    <3>3. QED
      BY <3>1, <3>2, EventGraphAssumption DEF EventGraphAssumption, NodesInv, EdgesFit
  <2>2. f.made \in Images /\ f.target.id = f.made.proc
    BY <1>1, <1>2, <2>1 DEF NodesInv, EdgesFit
  <2>3. f.made # NoImage /\ f.made.proc = e.by.proc
    BY <2>1, <2>2, ImageFacts
  <2>4. /\ f.made.since = f.stamp
        /\ \/ f.target = ProcessNode(f.source.id, f.stamp)
           \/ f.target = Logical(f.made.proc) /\ f.made = born[f.made.proc]
    BY <1>1, <2>3 DEF MadeFits
  <2>5. born[e.by.proc].since <= e.by.since /\ e.source.exec <= e.by.since
    BY <2>1 DEF ImagesInTurn, EdgesInTurn
  <2>6. f.made.since <= e.by.since
    <3>1. CASE f.target = ProcessNode(f.source.id, f.stamp)
      BY <2>4, <2>5, <3>1 DEF ProcessNode
    <3>2. CASE f.made = born[f.made.proc]
      BY <2>3, <2>5, <3>2
    <3>3. QED
      BY <2>4, <3>1, <3>2
  <2>7. QED
    BY <1>2, <2>3, <2>6 DEF RestsOn
<1>3. CASE e.source.type # "process"
  BY <1>3 DEF RestsOn
<1>4. QED
  BY <1>2, <1>3

(* All that the search finds are causes. *)
LEMMA SearchIsCaused ==
  ASSUME OrderIInv, shared = {}, NEW a \in DOMAIN edges, NEW start \in Int, NEW depth \in Nat
  PROVE  get_subgraph(edges, a, start, depth) \subseteq Causes(a, start)
<1> DEFINE R == Chains(edges, a, start, depth)
<1>1. /\ R \in [1..depth -> SUBSET DOMAIN edges]
      /\ 1 \in 1..depth => R[1] = Into(edges, edges[a].target, start, edges[a].stamp)
      /\ \A k \in 1..depth : k - 1 \in 1..depth => R[k] = Behind(edges, start, R[k - 1])
  BY ChainsFacts
<1>2. get_subgraph(edges, a, start, depth) = UNION {R[k] : k \in 1..depth}
  BY DEF get_subgraph
<1> HIDE DEF R
<1>3. \A i \in DOMAIN edges : edges[i].stamp \in Nat
  BY EdgeTimes
<1>4. ASSUME NEW C \in SUBSET Near(a, start), Closed(C, a, start)
      PROVE  \A k \in 1..depth : R[k] \subseteq C
  <2> DEFINE Fails == {k \in 1..depth : ~(R[k] \subseteq C)}
  <2> SUFFICES ASSUME Fails # {} PROVE FALSE
    OBVIOUS
  <2> Fails \in SUBSET Nat
    OBVIOUS
  <2>1. PICK m \in Fails : \A k \in Fails : ~(k < m)
    BY LeastNumber
  <2>2. CASE m = 1
    <3>1. R[1] \subseteq C
      BY <1>1, <1>4, <2>1, <2>2 DEF Into, Closed, Near
    <3>2. QED
      BY <2>1, <2>2, <3>1
  <2>3. CASE m # 1
    <3>1. m - 1 \in 1..depth /\ m - 1 < m
      BY <2>1, <2>3
    <3>2. R[m - 1] \subseteq C
      BY <2>1, <3>1
    <3>3. PICK i \in R[m] : i \notin C
      BY <2>1
    <3>4. PICK j \in R[m - 1] : i \in Into(edges, edges[j].source, start, edges[j].stamp)
      BY <1>1, <2>1, <3>1, <3>3 DEF Behind
    <3>5. /\ i \in DOMAIN edges /\ edges[i].target = edges[j].source
          /\ edges[i].stamp \in start..edges[j].stamp
      BY <3>4 DEF Into
    <3>6. j \in C /\ j \in DOMAIN edges /\ edges[j].stamp \in start..edges[a].stamp
      BY <3>2, <3>4 DEF Near
    <3>7. i \in Near(a, start)
      <4>1. edges[i].stamp \in Nat /\ edges[j].stamp \in Nat /\ edges[a].stamp \in Nat
        BY <1>3, <3>5, <3>6
      <4>2. edges[i].stamp \in start..edges[a].stamp
        BY <3>5, <3>6, <4>1
      <4>3. QED
        BY <3>5, <4>2 DEF Near
    <3>8. RestsOn(edges[j], edges[i])
      <4>1. edges[i].stamp <= edges[j].stamp
        BY <1>3, <3>5, <3>6
      <4>2. QED
        BY <3>5, <3>6, <4>1, SearchRests
    <3>9. QED
      BY <1>4, <3>3, <3>6, <3>7, <3>8 DEF Closed
  <2>4. QED
    BY <2>2, <2>3
<1>5. \A k \in 1..depth : R[k] \subseteq Near(a, start)
  <2>1. Closed(Near(a, start), a, start)
    BY DEF Closed
  <2>2. QED
    BY <1>4, <2>1
<1>6. QED
  BY <1>2, <1>4, <1>5, CausesFacts

(* A step back from an edge that the search found is one that it finds, if no chain is
   as long as its depth. *)
LEMMA SearchGoesOn ==
  ASSUME OrderIInv, NEW a \in DOMAIN edges, NEW start \in Int, NEW depth \in Nat \ {0},
         Chains(edges, a, start, depth)[depth] = {},
         NEW j \in get_subgraph(edges, a, start, depth),
         NEW i \in DOMAIN edges, edges[i].target = edges[j].source,
         start <= edges[i].stamp, edges[i].stamp <= edges[j].stamp
  PROVE  i \in get_subgraph(edges, a, start, depth)
<1> DEFINE R == Chains(edges, a, start, depth)
<1>1. \A k \in 1..depth : k - 1 \in 1..depth => R[k] = Behind(edges, start, R[k - 1])
  BY ChainsFacts
<1>2. get_subgraph(edges, a, start, depth) = UNION {R[k] : k \in 1..depth}
  BY DEF get_subgraph
<1>3. R \in [1..depth -> SUBSET DOMAIN edges]
  BY ChainsFacts
<1>4. R[depth] = {}
  OBVIOUS
<1> HIDE DEF R
<1>5. PICK k \in 1..depth : j \in R[k]
  BY <1>2
<1>6. k + 1 \in 1..depth /\ k + 1 - 1 = k
  <2>1. k # depth
    BY <1>4, <1>5
  <2>2. QED
    BY <2>1
<1>7. edges[i].stamp \in start..edges[j].stamp
  <2>1. j \in DOMAIN edges
    BY <1>3, <1>5
  <2>2. edges[i].stamp \in Nat /\ edges[j].stamp \in Nat
    BY <2>1, EdgeTimes
  <2>3. QED
    BY <2>2
<1>8. i \in R[k + 1]
  BY <1>1, <1>5, <1>6, <1>7 DEF Behind, Into
<1>9. QED
  BY <1>2, <1>6, <1>8

(* The call that brought a process to its node, if one did, is between those that made
   the process before and those that it makes there. *)
LEMMA NodeEntered ==
  ASSUME OrderIInv, shared = {}, NEW i \in DOMAIN edges, NEW j \in DOMAIN edges,
         edges[j].source.type = "process", edges[i].made # NoImage,
         edges[i].made.proc = edges[j].by.proc, i # j, edges[i].target # edges[j].source,
         \/ edges[i].made.since <= edges[j].by.since
         \/ edges[j] \in ByExecve /\ edges[i].stamp <= edges[j].stamp
  PROVE  \E h \in DOMAIN edges :
            /\ edges[h].source.type = "process" /\ edges[h].target = edges[j].source
            /\ edges[h].by.proc = edges[j].by.proc /\ edges[h] \in ByExecve
            /\ edges[i].stamp <= edges[h].stamp /\ edges[h].stamp < edges[j].stamp
            /\ edges[h].stamp = edges[j].source.exec
            /\ edges[h].source.exec < edges[j].source.exec
<1> DEFINE e == edges[j]
           f == edges[i]
           p == e.source.id
<1> USE DEF OrderIInv, NodesIInv, OrderInv
<1>1. /\ e \in Edges /\ f \in Edges /\ e \in ByProcess
      /\ e.stamp \in Nat /\ f.stamp \in Nat /\ e.source.exec \in Nat
  BY EdgeTypes DEF Edges, ByProcess
<1>2. \A x \in ByProcess : x.source.id = x.by.proc
  BY DEF NodesInv, EdgesFit
<1>3. p = e.by.proc /\ f.made.proc = p
  BY <1>1, <1>2
<1>4. /\ e.source = ProcessNode(p, e.source.exec) /\ p \in Pids
  <2>1. e.source \in ProcessNodes
    <3>1. e.source \in GraphNodes
      BY <1>1, EdgeTypes
    <3>2. QED
      BY <3>1 DEF GraphNodes, ObjectNodes
  <2>2. p \in Pids
    BY <1>1, <1>3, KnownFacts, ImageFacts
  <2>3. QED
    BY <2>1, <2>2 DEF ProcessNodes, ProcessNode
<1>5. /\ f.source.type = "process" /\ f.made.since = f.stamp
      /\ \/ f.kind = "exec" /\ p = f.source.id /\ f.target = ProcessNode(p, f.stamp)
         \/ f.kind = "clone" /\ f.target = ProcessNode(p, 0) /\ f.made = born[p]
  <2>1. /\ f.source.type = "process" /\ f.made.since = f.stamp
        /\ \/ /\ f.kind = "exec" /\ f.made.proc = f.source.id
              /\ f.target = ProcessNode(f.source.id, f.stamp)
           \/ /\ f.kind = "clone" /\ f.target = Logical(f.made.proc)
              /\ f.made = born[f.made.proc]
    BY <1>1 DEF MadeFits
  <2>2. QED
    BY <1>3, <2>1 DEF Logical
<1>6. e.source.exec # 0 \/ (f.kind = "exec" /\ f.stamp # e.source.exec)
  BY <1>4, <1>5
<1>7. f.kind = "exec" => f.stamp <= e.source.exec /\ f.stamp # e.source.exec /\ f.stamp < e.source.exec
  <2>1. SUFFICES ASSUME f.kind = "exec" PROVE f.stamp <= e.source.exec /\ f.stamp # e.source.exec
    BY <1>1
  <2>2. f \in ByExecve /\ f.source.id = e.source.id /\ f.stamp # e.source.exec
    BY <1>1, <1>4, <1>5, <2>1 DEF ByExecve, ByProcess
  <2>3. f.stamp <= e.source.exec \/ (f.stamp <= e.stamp /\ e.stamp <= f.stamp)
    BY <1>1, <1>5, <2>2 DEF NodesEntered
  <2>4. e.stamp # f.stamp
    BY <2>1, EdgeTimes
  <2>5. QED
    BY <1>1, <2>2, <2>3, <2>4
<1>8. e.source.exec # 0
  <2>1. f.stamp # 0
    BY EdgeTimes
  <2>2. QED
    BY <1>1, <1>6, <1>7
<1>9. PICK g \in ByProcess : g.target = e.source /\ g.stamp = e.source.exec /\ g.source.id = p
  BY <1>1, <1>8 DEF NodesEntered, Entered
<1>10. /\ e.source.exec < e.stamp /\ g.source.exec < g.stamp
  BY <1>1, <1>9 DEF NodesEntered
<1>11. f.stamp <= g.stamp
  <2>1. CASE f.kind = "exec"
    BY <1>7, <1>9, <2>1
  <2>2. CASE f.kind = "clone"
    <3>1. f.made = born[p] /\ f.made.since = f.stamp
      BY <1>5, <2>2
    <3>2. born[p].since <= g.by.since
      BY <1>4, <1>9 DEF ImagesInTurn, EdgesInTurn
    <3>3. g.by.since < g.stamp
      BY <1>9 DEF TimesFit, ByProcess
    <3>4. g.stamp \in Nat /\ g.by.since \in Nat
      BY <1>9, EdgeTypes DEF ByProcess
    <3>5. QED
      BY <1>1, <3>1, <3>2, <3>3, <3>4
  <2>3. QED
    BY <1>5, <2>1, <2>2
<1>12. PICK h \in DOMAIN edges : edges[h] = g
  BY <1>9 DEF ByProcess, Edges
<1>13. g.source.type = "process" /\ g.by.proc = p /\ g \in ByExecve
  <2>1. g \in Edges /\ g.source.type = "process" /\ g.by.proc = p
    BY <1>2, <1>9 DEF ByProcess
  <2>2. g.target.type = "process" /\ g.target.id # NoPid /\ g.target.exec # 0
    BY <1>4, <1>8, <1>9, EventGraphAssumption DEF EventGraphAssumption, ProcessNode
  <2>3. g.made # NoImage
    BY <2>1, <2>2, ImageFacts DEF NodesInv, EdgesFit
  <2>4. g.kind = "exec"
    <3>1. g.kind = "exec" \/ g.target = Logical(g.made.proc)
      BY <2>1, <2>3 DEF MadeFits
    <3>2. Logical(g.made.proc).exec = 0
      BY DEF Logical, ProcessNode
    <3>3. QED
      BY <2>2, <3>1, <3>2
  <2>5. QED
    BY <1>9, <2>1, <2>3, <2>4 DEF ByExecve
<1>14. QED
  BY <1>3, <1>9, <1>10, <1>11, <1>12, <1>13

(* All causes are found, if no chain is as long as the depth. *)
LEMMA CausesAreFound ==
  ASSUME OrderIInv, shared = {}, NEW a \in DOMAIN edges, NEW start \in Int,
         NEW depth \in Nat \ {0}, Chains(edges, a, start, depth)[depth] = {}
  PROVE  Causes(a, start) \subseteq get_subgraph(edges, a, start, depth)
<1> DEFINE G == get_subgraph(edges, a, start, depth)
           R == Chains(edges, a, start, depth)
           N == Near(a, start)
<1>1. \A i \in DOMAIN edges : edges[i] \in Edges /\ edges[i].stamp \in Nat /\ edges[i].source.exec \in Nat
  BY EdgeTypes DEF Edges, OrderIInv, NodesIInv
<1>2. G \subseteq N
  <2>1. G \subseteq Causes(a, start)
    BY SearchIsCaused
  <2>2. Causes(a, start) \subseteq N
    BY DEF Causes, Near
  <2>3. QED
    BY <2>1, <2>2
<1>3. \A i \in N : edges[i].target = edges[a].target => i \in G
  <2>1. R[1] = Into(edges, edges[a].target, start, edges[a].stamp) /\ 1 \in 1..depth
    BY ChainsFacts
  <2>2. R[1] \subseteq G
    BY <2>1 DEF get_subgraph
  <2>3. QED
    BY <2>1, <2>2 DEF Into, Near
<1>4. ASSUME NEW j \in G, NEW i \in N, edges[i].target = edges[j].source, edges[i].stamp <= edges[j].stamp
      PROVE  i \in G
  <2>1. i \in DOMAIN edges /\ start <= edges[i].stamp
    BY DEF Near
  <2>2. QED
    BY <1>4, <2>1, SearchGoesOn
<1> HIDE DEF G, R, N
<1>5. ASSUME NEW j0 \in G, NEW i \in N, edges[j0].source.type = "process",
             edges[i].made # NoImage, edges[i].made.proc = edges[j0].by.proc,
             edges[i].made.since <= edges[j0].by.since
      PROVE  i \in G
  <2> DEFINE At(j) == /\ j \in G /\ edges[j].source.type = "process"
                      /\ edges[i].made.proc = edges[j].by.proc /\ edges[i].stamp <= edges[j].stamp
                      /\ edges[i].made.since <= edges[j].by.since \/ edges[j] \in ByExecve
             Fails == {edges[j].source.exec : j \in {k \in G : At(k)}}
  <2>0. \A j \in G : j \in DOMAIN edges /\ edges[j].stamp \in start..edges[a].stamp
    BY <1>2 DEF N, Near
  <2> SUFFICES ASSUME i \notin G PROVE FALSE
    OBVIOUS
  <2> Fails \in SUBSET Nat
    BY <1>1, <2>0
  <2>1. At(j0) /\ Fails # {}
    <3>1. /\ edges[i].made.since = edges[i].stamp /\ edges[j0].by.since < edges[j0].stamp
          /\ edges[i].stamp \in Nat /\ edges[j0].stamp \in Nat /\ edges[j0].by.since \in Nat
      <4>1. edges[i] \in Edges /\ edges[j0] \in Edges
        BY <2>0 DEF N, Near, Edges
      <4>2. QED
        BY <1>5, <4>1, EdgeTypes DEF OrderIInv, NodesIInv, OrderInv, MadeFits, TimesFit
    <3>2. edges[i].stamp <= edges[j0].stamp
      BY <1>5, <3>1
    <3>3. QED
      BY <1>5, <3>2
  <2>2. PICK m \in Fails : \A k \in Fails : ~(k < m)
    BY <2>1, LeastNumber
  <2>3. PICK j \in G : At(j) /\ edges[j].source.exec = m
    BY <2>2
  <2>4. /\ i \in DOMAIN edges /\ j \in DOMAIN edges /\ i # j
        /\ edges[i].stamp \in start..edges[a].stamp
        /\ edges[i].target # edges[j].source
    BY <1>4, <2>0, <2>3 DEF N, Near
  <2>5. PICK h \in DOMAIN edges :
            /\ edges[h].source.type = "process" /\ edges[h].target = edges[j].source
            /\ edges[h].by.proc = edges[j].by.proc /\ edges[h] \in ByExecve
            /\ edges[i].stamp <= edges[h].stamp /\ edges[h].stamp < edges[j].stamp
            /\ edges[h].source.exec < edges[j].source.exec
    BY <1>5, <2>3, <2>4, NodeEntered
  <2>6. h \in N
    <3>1. /\ edges[h].stamp \in Nat /\ edges[j].stamp \in Nat /\ edges[i].stamp \in Nat
          /\ edges[a].stamp \in Nat /\ edges[j].stamp \in start..edges[a].stamp
      BY <1>1, <2>0, <2>4
    <3>2. edges[h].stamp \in start..edges[a].stamp
      BY <2>4, <2>5, <3>1
    <3>3. QED
      BY <3>2 DEF N, Near
  <2>7. h \in G
    <3>1. edges[h].stamp <= edges[j].stamp
      BY <1>1, <2>4, <2>5
    <3>2. QED
      BY <1>4, <2>5, <2>6, <3>1
  <2>8. At(h)
    BY <2>3, <2>5, <2>7
  <2>9. QED
    BY <2>2, <2>3, <2>5, <2>7, <2>8
<1>6. \A j \in G : \A i \in N : RestsOn(edges[j], edges[i]) => i \in G
  <2> SUFFICES ASSUME NEW j \in G, NEW i \in N, RestsOn(edges[j], edges[i]) PROVE i \in G
    OBVIOUS
  <2>1. CASE edges[j].source.type = "process"
    BY <1>5, <2>1 DEF RestsOn
  <2>2. CASE edges[j].source.type # "process"
    BY <1>4, <2>2 DEF RestsOn
  <2>3. QED
    BY <2>1, <2>2
<1>7. Closed(G, a, start)
  BY <1>3, <1>6 DEF Closed, N
<1>8. QED
  BY <1>2, <1>7, CausesFacts DEF G, N

(* A call that matches a step is one of a process; the last is no call on a process. *)
LEMMA MatchFacts ==
  ASSUME NEW v \in DOMAIN Variants, NEW names, NEW e, NEW k \in 1..Len(Variants[v]),
         check_in_patterns(names, e, Variants[v][k])
  PROVE  /\ e.source.type = "process"
         /\ k = Len(Variants[v]) => e.target.type # "process"
<1>1. DOMAIN FileGroups = {"package_manifest", "install_script"}
  BY DEF FileGroups
<1>2. DOMAIN ProcessGroups = {"package_manager", "lifecycle_shell", "script_runtime"}
  BY DEF ProcessGroups
<1>3. Matches(names, Variants[v][k].source, e.source) /\ Matches(names, Variants[v][k].target, e.target)
  BY DEF check_in_patterns
<1>4. Variants[v][k].source \in {"package_manager", "lifecycle_shell", "script_runtime", "shell_child"}
  BY VariantFacts
<1>5. e.source.type = "process"
  BY <1>1, <1>3, <1>4 DEF Matches
<1>6. k = Len(Variants[v]) => e.target.type # "process"
  BY <1>2, <1>3, VariantFacts DEF Matches
<1>7. QED
  BY <1>5, <1>6

(* Only calls of processes count. *)
LEMMA CompleteInMore ==
  ASSUME NEW v \in DOMAIN Variants, NEW C, NEW D, NEW z, Complete(C, v, z),
         \A i \in C : edges[i].source.type = "process" => i \in D
  PROVE  Complete(D, v, z) /\ edges[z].target.type # "process"
<1> DEFINE n == Len(Variants[v])
           Match(i, k) == check_in_patterns(comm, edges[i], Variants[v][k])
<1>1. n \in Nat /\ n \in 1..n
  BY VariantFacts
<1>2. PICK p \in [1..n -> C] :
        /\ p[n] = z
        /\ \A k \in 1..n : Match(p[k], k)
        /\ \A k \in 2..n : edges[p[k - 1]].stamp < edges[p[k]].stamp
  BY DEF Complete
<1>3. \A k \in 1..n : edges[p[k]].source.type = "process"
  BY <1>2, MatchFacts
<1>4. p \in [1..n -> D]
  BY <1>2, <1>3
<1>5. Match(z, n) /\ edges[z].target.type # "process"
  BY <1>1, <1>2, MatchFacts
<1>6. QED
  BY <1>2, <1>4, <1>5 DEF Complete

(* The candidates of the search, and the calls behind an edge. *)
LEMMA CandidatesAreCalls ==
  ASSUME OrderIInv, shared = {}, NEW a \in DOMAIN edges, NEW start \in Int,
         edges[a].target.type # "process"
  PROVE  /\ candidate_edges(edges, a, start) \subseteq CallsBehind(a, start)
         /\ ~ TooDeep(a, start) =>
                \A i \in CallsBehind(a, start) :
                    edges[i].source.type = "process" => i \in candidate_edges(edges, a, start)
<1> DEFINE G == get_subgraph(edges, a, start, TraversalDepth + 1)
<1>1. TraversalDepth + 1 \in Nat \ {0} /\ TraversalDepth + 1 \in Nat
  BY CorrelationAssumption DEF CorrelationAssumption
<1>2. G \subseteq Causes(a, start)
  BY <1>1, SearchIsCaused
<1>3. ~ TooDeep(a, start) => Causes(a, start) \subseteq G
  BY <1>1, CausesAreFound DEF TooDeep
<1>4. Lineage(edges, a, start) =
        {x \in {edges[a].target} \cup {edges[i].source : i \in G} : x.type = "process"}
  BY DEF Lineage
<1> HIDE DEF G
<1>5. Lineage(edges, a, start) = {x \in {edges[i].source : i \in G} : x.type = "process"}
  BY <1>4
<1>6. CallsBehind(a, start) =
        {i \in DOMAIN edges : /\ edges[i].source \in {edges[j].source : j \in Causes(a, start)}
                              /\ edges[i].stamp \in start..edges[a].stamp}
  BY DEF CallsBehind
<1>7. candidate_edges(edges, a, start) =
        {i \in DOMAIN edges : /\ edges[i].stamp \in start..edges[a].stamp
                              /\ edges[i].source \in Lineage(edges, a, start)}
  BY DEF candidate_edges
<1>8. QED
  BY <1>2, <1>3, <1>5, <1>6, <1>7

(* What the search finds among its candidates is what is there among the calls behind
   the edge. *)
LEMMA SearchIsRight ==
  ASSUME OrderIInv, shared = {}, NEW a \in DOMAIN edges, NEW start \in Int, NEW v \in DOMAIN Variants
  PROVE  LET C == candidate_edges(edges, a, start)
             D == CallsBehind(a, start)
         IN  /\ Complete(C, v, a) => Complete(D, v, a)
             /\ ~ TooDeep(a, start) => (CompletesFirst(C, v, a) <=> CompletesFirst(D, v, a))
<1> DEFINE C == candidate_edges(edges, a, start)
           D == CallsBehind(a, start)
<1>1. \A A, B : (\A i \in A : edges[i].source.type = "process" => i \in B) =>
        \A z : Complete(A, v, z) => Complete(B, v, z)
  BY CompleteInMore
<1>2. \A A : Complete(A, v, a) => edges[a].target.type # "process"
  BY CompleteInMore
<1>3. edges[a].target.type # "process" =>
        /\ C \subseteq D
        /\ ~ TooDeep(a, start) => \A i \in D : edges[i].source.type = "process" => i \in C
  BY CandidatesAreCalls
<1> HIDE DEF C, D
<1>4. Complete(C, v, a) => Complete(D, v, a)
  BY <1>1, <1>2, <1>3
<1>5. ASSUME ~ TooDeep(a, start), edges[a].target.type # "process"
      PROVE  \A z : Complete(C, v, z) <=> Complete(D, v, z)
  BY <1>1, <1>3, <1>5
<1>6. ASSUME ~ TooDeep(a, start), edges[a].target.type # "process"
      PROVE  CompletesFirst(C, v, a) <=> CompletesFirst(D, v, a)
  <2>1. \A A : \A z : Complete(A, v, z) => z \in A
    <3>1. Len(Variants[v]) \in 1..Len(Variants[v])
      BY VariantFacts
    <3>2. QED
      BY <3>1 DEF Complete
  <2>2. \A z : Complete(C, v, z) <=> Complete(D, v, z)
    BY <1>5, <1>6
  <2>3. QED
    BY <2>1, <2>2 DEF CompletesFirst
<1>7. ASSUME edges[a].target.type = "process"
      PROVE  ~ CompletesFirst(C, v, a) /\ ~ CompletesFirst(D, v, a)
  BY <1>2, <1>7 DEF CompletesFirst
<1>8. QED
  BY <1>4, <1>6, <1>7 DEF C, D

(* What the similarity says of the variants. *)
LEMMA SimilarityFacts ==
  ASSUME NEW E, NEW names, NEW a, NEW start
  PROVE  LET C == candidate_edges(E, a, start)
             Is(v) == CompletedAt(variant_steps(E, names, C, Variants[v]), E[a].stamp, Len(Variants[v]))
             s == get_pattern_similarity(E, names, a, start)
         IN  /\ s \in Nat
             /\ s > 0 => \E v \in DOMAIN Variants : s = Len(Variants[v]) /\ Is(v)
             /\ s = 0 => \A v \in DOMAIN Variants : ~ Is(v)
<1> DEFINE C == candidate_edges(E, a, start)
           Is(v) == CompletedAt(variant_steps(E, names, C, Variants[v]), E[a].stamp, Len(Variants[v]))
           Found == {v \in DOMAIN Variants : Is(v)}
           s == get_pattern_similarity(E, names, a, start)
           least == CHOOSE v \in Found : \A w \in Found : v <= w
<1>1. s = IF Found = {} THEN 0 ELSE Len(Variants[least])
  BY DEF get_pattern_similarity
<1> HIDE DEF s
<1>2. Found \subseteq {1, 2}
  BY VariantFacts
<1>3. Found # {} => least \in Found
  <2> HIDE DEF Is
  <2>1. Found # {} => \E v \in Found : \A w \in Found : v <= w
    BY <1>2
  <2>2. QED
    BY <2>1
<1> HIDE DEF least
<1>4. \A v \in DOMAIN Variants : Len(Variants[v]) \in Nat /\ Len(Variants[v]) > 0
  BY VariantFacts
<1> HIDE DEF Is
<1>5. /\ s \in Nat
      /\ s > 0 => \E v \in DOMAIN Variants : s = Len(Variants[v]) /\ Is(v)
      /\ s = 0 => \A v \in DOMAIN Variants : ~ Is(v)
  BY <1>1, <1>3, <1>4
<1>6. QED
  BY <1>5 DEF Is, s
-----------------------------------------------------------------------------
(* The alerts. *)

(* The graph when x was raised, and what the search found in it. *)
Pre(x) == [i \in 1..x.edge |-> edges[i]]
FoundIn(x) == get_pattern_similarity(Pre(x), x.names, x.edge, x.start)

(* An alert says what the search found in the graph and the names of its time, which
   are those of now if no edge came since; and without an alert it found nothing. *)
AlertsInv ==
  /\ \A x \in alerts :
        /\ x.edge \in 1..Len(edges) /\ x.start \in Int
        /\ x.steps > 0 /\ x.steps = FoundIn(x)
        /\ \A i \in 1..x.edge : \A n \in {edges[i].source, edges[i].target} :
                n.type = "process" => n \in DOMAIN x.names
        /\ x.edge = Len(edges) => x.names = comm
  /\ LET a == Len(edges)
     IN  edges # <<>> /\ (\A x \in alerts : x.edge # a) =>
            get_pattern_similarity(edges, comm, a, edges[a].stamp - config) = 0

WorkerInv == OrderIInv /\ Alone /\ CTypes /\ AlertsInv

(* There is no alert at the start. *)
LEMMA InitAlerts == InitCorrelation => AlertsInv
  BY DEF InitCorrelation, Init, AlertsInv

(* The alerts stay as they are, and so do the graph and the configuration. *)
LEMMA AlertsKept ==
  ASSUME AlertsInv, edges' = edges, comm' = comm, config' = config, alerts' = alerts
  PROVE  AlertsInv'
<1>1. \A x : FoundIn(x)' = FoundIn(x)
  BY DEF FoundIn, Pre
<1>2. QED
  BY <1>1 DEF AlertsInv

(* The edge that the search starts from is the one the event added last. *)
LEMMA AnchorIsLast ==
  ASSUME OrderIInv, IInv', Handle
  PROVE  /\ Anchors(edges', Head(queue)) \subseteq {Len(edges')}
         /\ Len(edges) \in Nat /\ Len(edges') \in Nat /\ Len(edges') > Len(edges)
         /\ \A i \in 1..Len(edges) : edges'[i] = edges[i]
         /\ DOMAIN edges' = 1..Len(edges') /\ edges' = [i \in 1..Len(edges') |-> edges'[i]]
<1> DEFINE e == queue[1]
           m == Len(edges)
<1> USE DEF OrderIInv, NodesIInv
<1>1. queue # <<>>
  BY DEF Handle
<1>2. Head(queue) = e /\ e \in Events /\ 1 \in 1..Len(queue)
  BY <1>1, HeadFacts
<1>3. /\ \A i \in 1..m : edges'[i] = edges[i]
      /\ Len(edges') = m + 1 \/ Len(edges') = m + 2
      /\ \A i \in (m + 1)..Len(edges') : AddedAs(e, edges'[i])
      /\ edges'[Len(edges')].kind = e.kind
      /\ Len(edges') = m + 2 => edges'[m + 1].kind = "request"
  BY HandleExtends DEF Extends
<1>4. m \in Nat /\ DOMAIN edges = 1..m
  BY EdgeTypes
<1>5. edges' \in Seq(EdgeRecs)
  BY DEF IInv, GraphOK
<1>6. DOMAIN edges' = 1..Len(edges') /\ Len(edges') \in Nat /\ edges' = [i \in 1..Len(edges') |-> edges'[i]]
  BY <1>5
<1>7. \A i \in 1..m : edges[i].stamp # e.stamp
  BY <1>2, <1>4 DEF OrderInv, StampsOnce, Edges
<1>8. e.kind # "request"
  BY <1>2 DEF Events, Kinds
<1>9. ASSUME NEW a \in Anchors(edges', Head(queue))
      PROVE  a = Len(edges')
  <2>1. a \in 1..Len(edges') /\ edges'[a].stamp = e.stamp /\ edges'[a].kind = e.kind
    BY <1>2, <1>6 DEF Anchors
  <2>2. a \notin 1..m
    BY <1>3, <1>7, <2>1
  <2>3. a = m + 1 \/ a = m + 2
    BY <1>3, <1>4, <2>1, <2>2
  <2>4. CASE Len(edges') = m + 1
    BY <1>4, <2>1, <2>3, <2>4
  <2>5. CASE Len(edges') = m + 2
    <3>1. a # m + 1
      BY <1>3, <1>8, <2>1, <2>5
    <3>2. QED
      BY <2>3, <2>5, <3>1
  <2>6. QED
    BY <1>3, <2>4, <2>5
<1>10. Len(edges') > m
  BY <1>3, <1>4
<1>11. QED
  BY <1>3, <1>4, <1>6, <1>9, <1>10

(* The worker handles an event. *)
LEMMA HandleAlerts ==
  ASSUME WorkerInv, IInv', config' \in Windows, handle_event
  PROVE  AlertsInv'
<1> DEFINE a == Len(edges')
           start == edges'[a].stamp - config'
           s == get_pattern_similarity(edges', comm', a, start)
<1>1. /\ Anchors(edges', Head(queue)) \subseteq {a}
      /\ Len(edges) \in Nat /\ a \in Nat /\ a > Len(edges)
      /\ \A i \in 1..Len(edges) : edges'[i] = edges[i]
      /\ DOMAIN edges' = 1..a /\ edges' = [i \in 1..a |-> edges'[i]]
  BY AnchorIsLast DEF WorkerInv, handle_event
<1>2. /\ \A x \in alerts' : x \in alerts \/ (s > 0 /\ x = [edge |-> a, start |-> start, steps |-> s, names |-> comm'])
      /\ s > 0 => \E x \in alerts' : x.edge = a
  <2>1. PICK b \in Anchors(edges', Head(queue)) :
          LET st == edges'[b].stamp - config'
              steps == get_pattern_similarity(edges', comm', b, st)
          IN  alerts' = IF steps > 0
                        THEN alerts \cup {[edge |-> b, start |-> st, steps |-> steps, names |-> comm']}
                        ELSE alerts
    BY DEF handle_event, get_context_weight
  <2>2. b = a
    BY <1>1, <2>1
  <2>3. alerts' = IF s > 0 THEN alerts \cup {[edge |-> a, start |-> start, steps |-> s, names |-> comm']}
                  ELSE alerts
    BY <2>1, <2>2
  <2> HIDE DEF s, a, start
  <2> DEFINE new == [edge |-> a, start |-> start, steps |-> s, names |-> comm']
  <2>4. new.edge = a
    OBVIOUS
  <2> HIDE DEF new
  <2>5. alerts' = IF s > 0 THEN alerts \cup {new} ELSE alerts
    BY <2>3 DEF new
  <2>6. (\A x \in alerts' : x \in alerts \/ (s > 0 /\ x = new)) /\ (s > 0 => new \in alerts')
    BY <2>5
  <2>7. QED
    BY <2>4, <2>6 DEF new
<1>3. s \in Nat
  BY SimilarityFacts
<1>4. start \in Int /\ a \in 1..a
  <2>1. a \in 1..a
    BY <1>1
  <2>2. edges'[a] \in EdgeRecs
    BY <1>1, <2>1, ElementOfSeq DEF IInv, GraphOK
  <2>3. edges'[a].stamp \in Nat /\ config' \in Nat
    BY <2>2, ImageFacts, CorrelationAssumption DEF EdgeRecs, Stamps, CorrelationAssumption
  <2>4. QED
    BY <2>1, <2>3
<1>5. ASSUME NEW x \in alerts
      PROVE  /\ x.edge \in 1..a /\ x.edge # a /\ x.start \in Int
             /\ x.steps > 0 /\ x.steps = FoundIn(x)'
             /\ \A i \in 1..x.edge : \A n \in {edges'[i].source, edges'[i].target} :
                    n.type = "process" => n \in DOMAIN x.names
  <2>1. /\ x.edge \in 1..Len(edges) /\ x.start \in Int /\ x.steps > 0 /\ x.steps = FoundIn(x)
        /\ \A i \in 1..x.edge : \A n \in {edges[i].source, edges[i].target} :
                n.type = "process" => n \in DOMAIN x.names
    BY DEF WorkerInv, AlertsInv
  <2>2. x.edge \in 1..a /\ x.edge # a
    BY <1>1, <2>1
  <2>3. \A i \in 1..x.edge : edges'[i] = edges[i]
    BY <1>1, <2>1
  <2>4. Pre(x)' = Pre(x)
    BY <2>3 DEF Pre
  <2>5. FoundIn(x)' = FoundIn(x)
    BY <2>4 DEF FoundIn
  <2>6. QED
    BY <2>1, <2>2, <2>3, <2>5
<1>6. ASSUME NEW x, s > 0, x = [edge |-> a, start |-> start, steps |-> s, names |-> comm']
      PROVE  /\ x.edge = a /\ x.start \in Int /\ x.steps > 0 /\ x.steps = FoundIn(x)'
             /\ \A i \in 1..x.edge : \A n \in {edges'[i].source, edges'[i].target} :
                    n.type = "process" => n \in DOMAIN x.names
             /\ x.names = comm'
  <2>1. x.edge = a /\ x.start = start /\ x.steps = s /\ x.names = comm'
    BY <1>6
  <2>2. Pre(x)' = edges'
    BY <1>1, <2>1 DEF Pre
  <2>3. FoundIn(x)' = s
    BY <2>1, <2>2 DEF FoundIn
  <2>4. \A i \in 1..a : \A n \in {edges'[i].source, edges'[i].target} :
            n.type = "process" => n \in DOMAIN comm'
    BY <1>1 DEF IInv, GraphOK, Edges
  <2> HIDE DEF s, a, start
  <2>5. QED
    BY <1>4, <1>6, <2>1, <2>3, <2>4
<1> HIDE DEF a, start, s
<1>7. \A x \in alerts' :
        /\ x.edge \in 1..a /\ x.start \in Int
        /\ x.steps > 0 /\ x.steps = FoundIn(x)'
        /\ \A i \in 1..x.edge : \A n \in {edges'[i].source, edges'[i].target} :
                n.type = "process" => n \in DOMAIN x.names
        /\ x.edge = a => x.names = comm'
  <2> TAKE x \in alerts'
  <2>1. CASE x \in alerts
    BY <1>5, <2>1
  <2>2. CASE s > 0 /\ x = [edge |-> a, start |-> start, steps |-> s, names |-> comm']
    BY <1>4, <1>6, <2>2
  <2>3. QED
    BY <1>2, <2>1, <2>2
<1>8. (\A x \in alerts' : x.edge # a) => s = 0
  BY <1>2, <1>3
<1>9. QED
  BY <1>7, <1>8 DEF AlertsInv, a, s, start

(* Every step keeps what is known of the alerts. *)
LEMMA NextWorker ==
  ASSUME WorkerInv, [NextCorrelation]_cvars
  PROVE  WorkerInv'
<1>1. OrderIInv' /\ IInv'
  BY NextOrder, NextIsNext DEF WorkerInv, OrderIInv, NodesIInv
<1>2. Alone' /\ CTypes'
  BY NextAlone, NextTypes DEF WorkerInv, OrderIInv, NodesIInv
<1>3. CASE Running /\ UNCHANGED <<configuration, alerts>>
  <2>1. UNCHANGED analyzer
    BY <1>3 DEF Running, Begin, Fork, Return, Execute, ExecuteFails
  <2>2. QED
    BY <1>1, <1>2, <1>3, <2>1, AlertsKept DEF WorkerInv, analyzer, configuration
<1>4. CASE Replace /\ UNCHANGED <<vars, phase, config, mtime, alerts>>
  BY <1>1, <1>2, <1>4, AlertsKept DEF WorkerInv, vars, analyzer
<1>5. CASE Start /\ UNCHANGED <<vars, alerts>>
  BY <1>1, <1>2, <1>5, AlertsKept DEF WorkerInv, Start, vars, analyzer
<1>6. CASE handle_event
  <2>1. config' \in Windows
    BY <1>2 DEF CTypes
  <2>2. QED
    BY <1>1, <1>2, <1>6, <2>1, HandleAlerts DEF WorkerInv
<1>7. CASE UNCHANGED cvars
  BY <1>1, <1>2, <1>7, AlertsKept DEF WorkerInv, cvars, vars, analyzer, configuration
<1>8. QED
  BY <1>3, <1>4, <1>5, <1>6, <1>7 DEF NextCorrelation

(* The strengthened invariant of the worker: no process id is used twice, and every  *)
(* alert says what the search found when it was raised.                              *)
THEOREM WorkerInductive == SpecCorrelation => []WorkerInv
<1>1. InitCorrelation => WorkerInv
  BY InitIInv, InitNodes, InitOrder, InitAlone, InitTypes, InitAlerts
  DEF InitCorrelation, WorkerInv, OrderIInv, NodesIInv
<1>2. WorkerInv /\ [NextCorrelation]_cvars => WorkerInv'
  BY NextWorker
<1>3. QED
  BY <1>1, <1>2, PTL DEF SpecCorrelation

(* What the search finds now is right. *)
LEMMA FoundIsSpecified ==
  ASSUME OrderIInv, shared = {}, NEW a \in DOMAIN edges, NEW start \in Int
  PROVE  LET s == get_pattern_similarity(edges, comm, a, start)
             D == CallsBehind(a, start)
             IsFirst == \E v \in DOMAIN Variants : CompletesFirst(D, v, a)
         IN  /\ s > 0 => /\ \E v \in DOMAIN Variants : Len(Variants[v]) = s /\ Complete(D, v, a)
                         /\ IsFirst \/ TooDeep(a, start)
             /\ s = 0 => ~ IsFirst \/ TooDeep(a, start)
<1> DEFINE s == get_pattern_similarity(edges, comm, a, start)
           C == candidate_edges(edges, a, start)
           D == CallsBehind(a, start)
           Is(v) == CompletedAt(variant_steps(edges, comm, C, Variants[v]), edges[a].stamp, Len(Variants[v]))
<1>1. /\ s > 0 => \E v \in DOMAIN Variants : s = Len(Variants[v]) /\ Is(v)
      /\ s = 0 => \A v \in DOMAIN Variants : ~ Is(v)
  BY SimilarityFacts
<1>2. C \in SUBSET DOMAIN edges /\ \A i \in C : edges[i].stamp <= edges[a].stamp
  <2>1. \A i \in C : i \in DOMAIN edges /\ edges[i].stamp \in start..edges[a].stamp
    BY DEF candidate_edges
  <2> HIDE DEF C
  <2>2. \A i \in DOMAIN edges : edges[i].stamp \in Nat
    BY EdgeTimes
  <2>3. QED
    BY <2>1, <2>2
<1>3. \A v \in DOMAIN Variants : Is(v) <=> CompletesFirst(C, v, a)
  BY <1>2, GreedyIsFirst
<1>4. \A v \in DOMAIN Variants :
        /\ Complete(C, v, a) => Complete(D, v, a)
        /\ ~ TooDeep(a, start) => (CompletesFirst(C, v, a) <=> CompletesFirst(D, v, a))
  BY SearchIsRight
<1> HIDE DEF s, C, D, Is
<1>5. /\ s > 0 => /\ \E v \in DOMAIN Variants : Len(Variants[v]) = s /\ Complete(D, v, a)
                  /\ (\E v \in DOMAIN Variants : CompletesFirst(D, v, a)) \/ TooDeep(a, start)
      /\ s = 0 => ~ (\E v \in DOMAIN Variants : CompletesFirst(D, v, a)) \/ TooDeep(a, start)
  BY <1>1, <1>3, <1>4 DEF CompletesFirst
<1>6. QED
  BY <1>5 DEF s, D

(* The newest edge raises an alert if and only if it is the first call to complete a  *)
(* variant of the pattern among the calls it rests on, unless the search ended at its *)
(* depth; and it raises none if no calls behind it match.                             *)
THEOREM AlertsRight == SpecCorrelation => []AlertsAsSpecified
<1>1. WorkerInv => AlertsAsSpecified
  <2> SUFFICES ASSUME WorkerInv, edges # <<>>
               PROVE  LET a == Len(edges)
                          Raised == {x \in alerts : x.edge = a}
                          IsFirst(start) ==
                              \E v \in DOMAIN Variants : CompletesFirst(CallsBehind(a, start), v, a)
                      IN  /\ \A x \in Raised :
                              /\ \E v \in DOMAIN Variants :
                                  Len(Variants[v]) = x.steps /\ Complete(CallsBehind(a, x.start), v, a)
                              /\ IsFirst(x.start) \/ TooDeep(a, x.start)
                          /\ Raised = {} =>
                              LET start == edges[a].stamp - config IN ~IsFirst(start) \/ TooDeep(a, start)
    BY DEF AlertsAsSpecified
  <2> DEFINE a == Len(edges)
             Raised == {x \in alerts : x.edge = a}
             IsFirst(start) == \E v \in DOMAIN Variants : CompletesFirst(CallsBehind(a, start), v, a)
  <2>1. OrderIInv /\ shared = {} /\ AlertsInv /\ config \in Nat
    BY CorrelationAssumption DEF WorkerInv, Alone, CTypes, CorrelationAssumption
  <2>2. a \in DOMAIN edges /\ edges[a].stamp \in Nat /\ DOMAIN edges = 1..a
    <3>1. edges \in Seq(EdgeRecs)
      BY <2>1 DEF OrderIInv, NodesIInv, IInv, GraphOK
    <3>2. a \in DOMAIN edges /\ DOMAIN edges = 1..a
      BY <3>1, EmptySeq
    <3>3. QED
      BY <2>1, <3>2, EdgeTimes
  <2>3. ASSUME NEW x \in Raised
        PROVE  /\ \E v \in DOMAIN Variants :
                    Len(Variants[v]) = x.steps /\ Complete(CallsBehind(a, x.start), v, a)
               /\ IsFirst(x.start) \/ TooDeep(a, x.start)
    <3>1. x.edge = a /\ x.start \in Int /\ x.steps > 0 /\ x.steps = FoundIn(x) /\ x.names = comm
      BY <2>1 DEF AlertsInv
    <3>2. Pre(x) = edges
      <4>1. edges = [i \in 1..a |-> edges[i]]
        <5>1. edges \in Seq(EdgeRecs)
          BY <2>1 DEF OrderIInv, NodesIInv, IInv, GraphOK
        <5>2. QED
          BY <5>1
      <4>2. QED
        BY <3>1, <4>1 DEF Pre
    <3>3. x.steps = get_pattern_similarity(edges, comm, a, x.start)
      BY <3>1, <3>2 DEF FoundIn
    <3>4. QED
      BY <2>1, <2>2, <3>1, <3>3, FoundIsSpecified
  <2>4. ASSUME Raised = {}
        PROVE  ~ IsFirst(edges[a].stamp - config) \/ TooDeep(a, edges[a].stamp - config)
    <3>1. get_pattern_similarity(edges, comm, a, edges[a].stamp - config) = 0
      BY <2>1, <2>4 DEF AlertsInv
    <3>2. edges[a].stamp - config \in Int
      BY <2>1, <2>2
    <3>3. QED
      BY <2>1, <2>2, <3>1, <3>2, FoundIsSpecified
  <2>5. QED
    BY <2>3, <2>4
<1>2. QED
  BY <1>1, WorkerInductive, PTL

(* In a graph that has more edges the search finds more, from an edge with the same
   target that is later, in a window that begins before all edges. *)
LEMMA CandidatesGrow ==
  ASSUME NEW E, NEW F, NEW a, NEW b, NEW s \in Int, NEW t \in Int, t <= 1,
         DOMAIN E \subseteq DOMAIN F, \A i \in DOMAIN E : F[i] = E[i] /\ E[i].stamp \in Nat \ {0},
         E[a].target = F[b].target, E[a].stamp \in Nat, F[b].stamp \in Nat, E[a].stamp <= F[b].stamp
  PROVE  candidate_edges(E, a, s) \subseteq candidate_edges(F, b, t)
<1> DEFINE depth == TraversalDepth + 1
           R == Chains(E, a, s, depth)
           Q == Chains(F, b, t, depth)
<1>1. depth \in Nat
  BY CorrelationAssumption DEF CorrelationAssumption
<1>2. /\ R \in [1..depth -> SUBSET DOMAIN E]
      /\ 1 \in 1..depth => R[1] = Into(E, E[a].target, s, E[a].stamp)
      /\ \A k \in 1..depth : k - 1 \in 1..depth => R[k] = Behind(E, s, R[k - 1])
  BY <1>1, ChainsFacts
<1>3. /\ 1 \in 1..depth => Q[1] = Into(F, F[b].target, t, F[b].stamp)
      /\ \A k \in 1..depth : k - 1 \in 1..depth => Q[k] = Behind(F, t, Q[k - 1])
  BY <1>1, ChainsFacts
<1>4. get_subgraph(E, a, s, depth) = UNION {R[k] : k \in 1..depth}
      /\ get_subgraph(F, b, t, depth) = UNION {Q[k] : k \in 1..depth}
  BY DEF get_subgraph
<1>5. candidate_edges(E, a, s) =
        {i \in DOMAIN E : /\ E[i].stamp \in s..E[a].stamp
                          /\ E[i].source \in {n \in {E[a].target} \cup {E[j].source : j \in get_subgraph(E, a, s, depth)} : n.type = "process"}}
  BY DEF candidate_edges, Lineage
<1>6. candidate_edges(F, b, t) =
        {i \in DOMAIN F : /\ F[i].stamp \in t..F[b].stamp
                          /\ F[i].source \in {n \in {F[b].target} \cup {F[j].source : j \in get_subgraph(F, b, t, depth)} : n.type = "process"}}
  BY DEF candidate_edges, Lineage
<1> HIDE DEF R, Q, depth
<1>7. \A n, u, w : \A i \in Into(E, n, s, u) :
        u \in Nat /\ w \in Nat /\ u <= w => i \in Into(F, n, t, w)
  <2> SUFFICES ASSUME NEW n, NEW u \in Nat, NEW w \in Nat, u <= w, NEW i \in Into(E, n, s, u)
               PROVE  i \in Into(F, n, t, w)
    OBVIOUS
  <2>1. i \in DOMAIN E /\ E[i].target = n /\ E[i].stamp \in s..u
    BY DEF Into
  <2>2. E[i].stamp \in t..w
    <3>1. E[i].stamp \in Nat \ {0}
      BY <2>1
    <3>2. QED
      BY <2>1, <3>1
  <2>3. QED
    BY <2>1, <2>2 DEF Into
<1>8. \A k \in 1..depth : R[k] \subseteq Q[k]
  <2> DEFINE Fails == {k \in 1..depth : ~(R[k] \subseteq Q[k])}
  <2> SUFFICES ASSUME Fails # {} PROVE FALSE
    OBVIOUS
  <2> Fails \in SUBSET Nat
    BY <1>1
  <2>1. PICK m \in Fails : \A k \in Fails : ~(k < m)
    BY LeastNumber
  <2>2. PICK i \in R[m] : i \notin Q[m]
    BY <2>1
  <2>3. CASE m = 1
    BY <1>2, <1>3, <1>7, <2>1, <2>2, <2>3
  <2>4. CASE m # 1
    <3>1. m \in 1..depth /\ m - 1 \in 1..depth /\ m - 1 < m
      BY <1>1, <2>1, <2>4
    <3>2. R[m - 1] \subseteq Q[m - 1] /\ R[m - 1] \subseteq DOMAIN E
      BY <1>2, <2>1, <3>1
    <3>3. PICK j \in R[m - 1] : i \in Into(E, E[j].source, s, E[j].stamp)
      <4>1. i \in Behind(E, s, R[m - 1])
        BY <1>2, <2>2, <3>1
      <4>2. QED
        BY <4>1 DEF Behind
    <3>4. j \in DOMAIN E /\ j \in Q[m - 1] /\ F[j] = E[j] /\ E[j].stamp \in Nat
      BY <3>2, <3>3
    <3>5. E[j].stamp <= E[j].stamp
      BY <3>4
    <3>6. i \in Into(F, F[j].source, t, F[j].stamp)
      BY <1>7, <3>3, <3>4, <3>5
    <3>7. i \in Q[m]
      BY <1>3, <3>1, <3>4, <3>6 DEF Behind
    <3>8. QED
      BY <2>2, <3>7
  <2>5. QED
    BY <2>3, <2>4
<1>9. get_subgraph(E, a, s, depth) \subseteq get_subgraph(F, b, t, depth)
      /\ get_subgraph(E, a, s, depth) \subseteq DOMAIN E
  BY <1>2, <1>4, <1>8
<1>10. ASSUME NEW i \in candidate_edges(E, a, s)
       PROVE  i \in candidate_edges(F, b, t)
  <2>1. i \in DOMAIN E /\ i \in DOMAIN F /\ F[i] = E[i] /\ E[i].stamp \in s..E[a].stamp
        /\ E[i].stamp \in Nat \ {0}
    BY <1>5, <1>10
  <2>2. F[i].stamp \in t..F[b].stamp
    BY <2>1
  <2>3. {E[j].source : j \in get_subgraph(E, a, s, depth)}
            \subseteq {F[j].source : j \in get_subgraph(F, b, t, depth)}
    BY <1>9
  <2>4. QED
    BY <1>5, <1>6, <1>10, <2>1, <2>2, <2>3
<1>11. QED
  BY <1>10

(* What an alert rests on: edges of the graph of its time that match a variant. *)
LEMMA AlertFacts ==
  ASSUME WorkerInv, NEW x \in alerts
  PROVE  /\ x.edge \in DOMAIN edges /\ x.start \in Int
         /\ DOMAIN Pre(x) = 1..x.edge /\ DOMAIN Pre(x) \subseteq DOMAIN edges
         /\ \A i \in DOMAIN Pre(x) : Pre(x)[i] = edges[i] /\ edges[i].stamp \in 1..MaxCalls
         /\ x.edge \in DOMAIN Pre(x)
         /\ LET C == candidate_edges(Pre(x), x.edge, x.start)
            IN  /\ \A i \in C : i \in DOMAIN Pre(x) /\ edges[i].stamp \in x.start..edges[x.edge].stamp
                /\ \E v \in DOMAIN Variants :
                    /\ x.steps = Len(Variants[v])
                    /\ CompletedAt(variant_steps(Pre(x), x.names, C, Variants[v]),
                                   edges[x.edge].stamp, Len(Variants[v]))
                    /\ \E p : /\ Matched(Pre(x), x.names, C, Variants[v], p, Len(Variants[v]))
                              /\ edges[p[Len(Variants[v])]].stamp <= edges[x.edge].stamp
<1> DEFINE E == Pre(x)
           C == candidate_edges(E, x.edge, x.start)
           t == edges[x.edge].stamp
<1>0. MaxCalls \in Nat
  BY ImageFacts
<1>1. OrderIInv /\ x.edge \in 1..Len(edges) /\ x.start \in Int /\ x.steps > 0 /\ x.steps = FoundIn(x)
  BY DEF WorkerInv, AlertsInv
<1>2. DOMAIN edges = 1..Len(edges) /\ Len(edges) \in Nat
  BY <1>1, EdgeTypes DEF OrderIInv, NodesIInv
<1>3. \A i \in DOMAIN edges : edges[i].stamp \in 1..MaxCalls
  BY <1>1, EdgeTimes
<1>4. /\ x.edge \in DOMAIN edges /\ DOMAIN E = 1..x.edge /\ x.edge \in 1..x.edge
      /\ \A i \in 1..x.edge : i \in DOMAIN edges /\ E[i] = edges[i]
  BY <1>1, <1>2 DEF Pre
<1>5. x.steps = get_pattern_similarity(E, x.names, x.edge, x.start)
  BY <1>1 DEF FoundIn
<1> HIDE DEF E
<1>6. C \subseteq DOMAIN E /\ \A i \in C : E[i].stamp \in x.start..E[x.edge].stamp
  BY DEF candidate_edges
<1>7. PICK v \in DOMAIN Variants :
        /\ x.steps = Len(Variants[v])
        /\ CompletedAt(variant_steps(E, x.names, C, Variants[v]), E[x.edge].stamp, Len(Variants[v]))
  BY <1>1, <1>5, SimilarityFacts
<1> DEFINE L == Len(Variants[v])
<1>8. L \in Nat /\ L \in 1..L
  BY VariantFacts
<1>9. E[x.edge] = edges[x.edge] /\ t \in 1..MaxCalls /\ t \in 0..MaxCalls
  BY <1>0, <1>3, <1>4
<1> HIDE DEF C
<1>10. L \in 1..variant_steps(E, x.names, C, Variants[v])[t]
  BY <1>7, <1>8, <1>9 DEF CompletedAt
<1>11. PICK p : Matched(E, x.names, C, Variants[v], p, L) /\ E[p[L]].stamp <= t
  BY <1>8, <1>9, <1>10, StepsAreMatched
<1>12. p[L] \in C /\ E[p[L]] = edges[p[L]]
  BY <1>4, <1>6, <1>8, <1>11 DEF Matched
<1>13. \A i \in C : i \in DOMAIN E /\ edges[i].stamp \in x.start..t
  BY <1>4, <1>6, <1>9
<1>14. QED
  BY <1>1, <1>3, <1>4, <1>7, <1>9, <1>11, <1>12, <1>13 DEF C, E

(* Names that agree on the process ends of an edge match the same steps. *)
LEMMA SameMatch ==
  ASSUME NEW E, NEW F, NEW names, NEW more, NEW variant, NEW i, NEW k,
         E[i] = F[i], MatchesStep(E, names, variant, i, k),
         \A n \in {E[i].source, E[i].target} : n.type = "process" => more[n] = names[n]
  PROVE  MatchesStep(F, more, variant, i, k)
  BY DEF MatchesStep, check_in_patterns, Matches

(* The calls of an installation raise one alert for each way in which they match:    *)
(* opening the script again, later and inside the window, raises no other.           *)
THEOREM OneAlertEach == SpecCorrelation => []OneAlert
<1>1. WorkerInv => OneAlert
  <2> SUFFICES ASSUME WorkerInv, NEW x \in alerts, NEW y \in alerts,
                      x.edge < y.edge, y.start <= 1, x.steps = y.steps,
                      edges[x.edge].target = edges[y.edge].target,
                      \A n \in DOMAIN x.names : y.names[n] = x.names[n],
                      ~ (edges[y.edge].stamp < edges[x.edge].stamp)
               PROVE  FALSE
    BY DEF OneAlert
  <2> DEFINE E == Pre(x)
             F == Pre(y)
             C == candidate_edges(E, x.edge, x.start)
             D == candidate_edges(F, y.edge, y.start)
             s == edges[x.edge].stamp
             t == edges[y.edge].stamp
  <2>0. MaxCalls \in Nat
    BY ImageFacts
  <2>1. /\ x.edge \in DOMAIN edges /\ x.start \in Int /\ DOMAIN E = 1..x.edge
        /\ \A i \in DOMAIN E : E[i] = edges[i] /\ edges[i].stamp \in 1..MaxCalls
        /\ x.edge \in DOMAIN E /\ DOMAIN E \subseteq DOMAIN edges
        /\ \A i \in C : i \in DOMAIN E
    BY AlertFacts
  <2>2. /\ y.edge \in DOMAIN edges /\ y.start \in Int /\ DOMAIN F = 1..y.edge
        /\ \A i \in DOMAIN F : F[i] = edges[i] /\ edges[i].stamp \in 1..MaxCalls
        /\ y.edge \in DOMAIN F
        /\ \A i \in D : i \in DOMAIN F
    BY AlertFacts
  <2>3. PICK v \in DOMAIN Variants :
            /\ x.steps = Len(Variants[v])
            /\ \E p : /\ Matched(E, x.names, C, Variants[v], p, Len(Variants[v]))
                      /\ edges[p[Len(Variants[v])]].stamp <= s
    BY AlertFacts
  <2>4. PICK w \in DOMAIN Variants :
            /\ y.steps = Len(Variants[w])
            /\ CompletedAt(variant_steps(F, y.names, D, Variants[w]), t, Len(Variants[w]))
            /\ \E p : /\ Matched(F, y.names, D, Variants[w], p, Len(Variants[w]))
                      /\ edges[p[Len(Variants[w])]].stamp <= t
    BY AlertFacts
  <2>5. v = w
    <3>1. v \in {1, 2} /\ w \in {1, 2} /\ Len(Variants[1]) = 4 /\ Len(Variants[2]) = 5
      BY VariantFacts
    <3>2. Len(Variants[v]) = Len(Variants[w])
      BY <2>3, <2>4
    <3>3. SUFFICES ASSUME v # w PROVE FALSE
      OBVIOUS
    <3>4. (v = 1 /\ w = 2) \/ (v = 2 /\ w = 1)
      BY <3>1, <3>3
    <3>5. Len(Variants[1]) = Len(Variants[2])
      BY <3>2, <3>4
    <3>6. QED
      BY <3>1, <3>5
  <2> DEFINE L == Len(Variants[v])
  <2>6. L \in Nat \ {0} /\ L \in Nat /\ L \in 1..L
    BY VariantFacts
  <2>7. PICK p : Matched(E, x.names, C, Variants[v], p, L) /\ edges[p[L]].stamp <= s
    BY <2>3
  <2>8. s \in 1..MaxCalls /\ t \in 1..MaxCalls /\ s <= t
    <3>1. s \in 1..MaxCalls /\ t \in 1..MaxCalls
      BY <2>1, <2>2
    <3>2. QED
      BY <3>1
  <2>9. DOMAIN E \subseteq DOMAIN F
    <3>1. \A i \in 1..x.edge : i \in 1..y.edge
      <4>1. x.edge \in Nat /\ y.edge \in Nat
        BY EdgeTypes DEF WorkerInv, AlertsInv, OrderIInv, NodesIInv
      <4>2. QED
        BY <4>1
    <3>2. QED
      BY <2>1, <2>2, <3>1
  <2>10. C \subseteq D
    <3>1. \A i \in DOMAIN E : F[i] = E[i] /\ E[i].stamp \in Nat \ {0}
      BY <2>0, <2>1, <2>2, <2>9
    <3>2. /\ E[x.edge].target = F[y.edge].target /\ E[x.edge].stamp \in Nat /\ F[y.edge].stamp \in Nat
          /\ E[x.edge].stamp <= F[y.edge].stamp
      BY <2>0, <2>1, <2>2, <2>8
    <3> HIDE DEF E, F
    <3>3. QED
      BY <2>1, <2>2, <2>9, <3>1, <3>2, CandidatesGrow
  <2> HIDE DEF C, D, E, F
  <2>11. Matched(F, y.names, D, Variants[v], p, L)
    <3>1. p \in [1..L -> D]
      BY <2>7, <2>10 DEF Matched
    <3>2. \A k \in 1..L : p[k] \in C /\ p[k] \in DOMAIN E /\ E[p[k]] = F[p[k]]
      BY <2>1, <2>2, <2>7, <2>9 DEF Matched
    <3>3. ASSUME NEW k \in 1..L
          PROVE  MatchesStep(F, y.names, Variants[v], p[k], k)
      <4>1. MatchesStep(E, x.names, Variants[v], p[k], k)
        BY <2>7 DEF Matched
      <4>2. p[k] \in 1..x.edge /\ E[p[k]] = edges[p[k]]
        BY <2>1, <3>2
      <4>3. \A n \in {E[p[k]].source, E[p[k]].target} : n.type = "process" => n \in DOMAIN x.names
        BY <4>2 DEF WorkerInv, AlertsInv
      <4>4. QED
        BY <3>2, <4>1, <4>3, SameMatch
    <3>4. \A k \in 2..L : F[p[k - 1]].stamp < F[p[k]].stamp
      <4> TAKE k \in 2..L
      <4>1. k \in 1..L /\ k - 1 \in 1..L
        BY <2>6
      <4>2. QED
        BY <2>7, <3>2, <4>1 DEF Matched
    <3>5. QED
      BY <3>1, <3>3, <3>4 DEF Matched
  <2> DEFINE n == variant_steps(F, y.names, D, Variants[v])
  <2>12. p[L] \in DOMAIN F /\ F[p[L]] = edges[p[L]] /\ p[L] \in DOMAIN E
    BY <2>1, <2>2, <2>6, <2>7, <2>9 DEF Matched
  <2>13. \A i \in D : F[i].stamp \in 1..MaxCalls
    BY <2>2
  <2>14. L <= n[F[p[L]].stamp] /\ F[p[L]].stamp \in 1..MaxCalls
    BY <2>6, <2>11, <2>13, MatchedAreSteps
  <2>15. s # t
    <3>1. SUFFICES ASSUME s = t PROVE FALSE
      OBVIOUS
    <3>2. PICK q : /\ Matched(F, y.names, D, Variants[v], q, L)
                   /\ edges[q[L]].stamp <= t
      BY <2>4, <2>5
    <3>3. edges[p[L]].stamp = t
      <4>1. n[t - 1] < L
        BY <2>4, <2>5 DEF CompletedAt
      <4>2. edges[p[L]].stamp <= t - 1 => n[F[p[L]].stamp] <= n[t - 1]
        <5>1. t - 1 \in 0..MaxCalls /\ F[p[L]].stamp \in 0..MaxCalls
          BY <2>0, <2>8, <2>14
        <5>2. QED
          BY <2>6, <2>12, <5>1, StepsGrow
      <4>3. n \in [0..MaxCalls -> Nat]
        BY StepsFacts
      <4>4. n[t - 1] \in Nat /\ n[F[p[L]].stamp] \in Nat
        <5>1. t - 1 \in 0..MaxCalls
          BY <2>0, <2>8
        <5>2. F[p[L]].stamp \in 0..MaxCalls
          BY <2>0, <2>14
        <5> HIDE DEF n
        <5>3. QED
          BY <4>3, <5>1, <5>2
      <4> HIDE DEF n
      <4>5. edges[p[L]].stamp \in 1..MaxCalls
        BY <2>12, <2>14
      <4>6. ~ (edges[p[L]].stamp <= t - 1)
        BY <2>6, <2>14, <4>1, <4>2, <4>4
      <4>7. QED
        BY <2>7, <2>8, <3>1, <4>5, <4>6
    <3>4. edges[p[L]].kind \in {"touch", "clone", "exec"}
      <4>1. MatchesStep(F, y.names, Variants[v], p[L], L)
        BY <2>6, <2>11 DEF Matched
      <4>2. QED
        BY <2>6, <2>12, <4>1, VariantFacts DEF MatchesStep, check_in_patterns
    <3>5. p[L] = x.edge /\ p[L] = y.edge
      <4>1. p[L] \in DOMAIN edges
        BY <2>1, <2>12
      <4>2. edges[p[L]].stamp = edges[x.edge].stamp /\ edges[p[L]].stamp = edges[y.edge].stamp
        BY <3>1, <3>3
      <4>3. QED
        BY <2>1, <2>2, <3>4, <4>1, <4>2, EdgeTimes DEF WorkerInv
    <3>6. QED
      BY <3>5, EdgeTypes DEF WorkerInv, AlertsInv, OrderIInv, NodesIInv
  <2>16. n[t - 1] < L
    BY <2>4, <2>5 DEF CompletedAt
  <2>17. F[p[L]].stamp \in 0..MaxCalls /\ t - 1 \in 0..MaxCalls /\ F[p[L]].stamp <= t - 1
    BY <2>0, <2>7, <2>8, <2>12, <2>14, <2>15
  <2>18. n[F[p[L]].stamp] <= n[t - 1]
    BY <2>6, <2>17, StepsGrow
  <2>19. n[t - 1] \in Nat /\ n[F[p[L]].stamp] \in Nat
    <3>1. n \in [0..MaxCalls -> Nat]
      BY StepsFacts
    <3> HIDE DEF n
    <3>2. QED
      BY <2>17, <3>1
  <2> HIDE DEF n
  <2>20. QED
    BY <2>6, <2>14, <2>16, <2>18, <2>19
<1>2. QED
  BY <1>1, WorkerInductive, PTL

(* A process has a thread that has not the name of its program. *)
Renamed(k) == edges[k].as # edges[k].by.name

(* The clone of a shell by a package manager, with the names that the graph has at this
   time, needs a report that was lost, or a thread with a name of its own. *)
LEMMA ShellNeedsLoss ==
  ASSUME OrderIInv, shared = {}, NEW i \in DOMAIN edges,
         check_in_patterns(comm, edges[i], Step("package_manager", "lifecycle_shell", "clone"))
  PROVE  /\ edges[i].kind = "clone" /\ edges[i].made # NoImage
         /\ LET Both == {edges[i].by.proc, edges[i].made.proc}
            IN  \/ \E l \in lost : l.kind = "exec" /\ l.by.proc \in Both
                \/ \E k \in DOMAIN edges : edges[k].by.proc \in Both /\ Renamed(k)
<1> DEFINE e == edges[i]
           managers == {"npm", "npx", "yarn", "pnpm", "bun", "bpm"}
           shells == {"sh", "dash", "bash"}
<1> USE DEF OrderIInv, NodesIInv, OrderInv, NodesInv
<1>1. /\ e.kind = "clone"
      /\ Matches(comm, "package_manager", e.source) /\ Matches(comm, "lifecycle_shell", e.target)
  BY DEF check_in_patterns, Step
<1>2. /\ e.source.type = "process" /\ comm[e.source] \in managers
      /\ e.target.type = "process" /\ comm[e.target] \in shells
  <2>1. "package_manager" \notin DOMAIN FileGroups /\ "lifecycle_shell" \notin DOMAIN FileGroups
    BY DEF FileGroups
  <2>2. /\ ProcessGroups["package_manager"] = managers
        /\ ProcessGroups["lifecycle_shell"] = shells
    BY DEF ProcessGroups
  <2>3. QED
    BY <1>1, <2>1, <2>2 DEF Matches
<1>3. e \in Edges /\ e \in ByProcess
  BY <1>2 DEF Edges, ByProcess
<1>4. /\ e.source \in DOMAIN comm /\ e.target \in DOMAIN comm
      /\ comm[e.target] # Unknown
  <2>1. Unknown \notin ProcessGroups["lifecycle_shell"]
    BY NamesAssumption DEF NamesAssumption, ProcessGroups
  <2>2. ProcessGroups["lifecycle_shell"] = shells
    BY DEF ProcessGroups
  <2>3. QED
    BY <1>2, <1>3, <2>1, <2>2 DEF IInv, GraphOK
<1>5. /\ e.by \in Images /\ Known(e.by) /\ e.source.id = e.by.proc /\ e.by.proc \in Pids
      /\ \A f \in ByProcess :
            /\ f.by \in Images /\ Known(f.by) /\ f.source.id = f.by.proc /\ f.by.proc \in Pids
            /\ \E k \in DOMAIN edges : edges[k] = f
  <2>1. \A f \in ByProcess : f.by \in Images /\ Known(f.by)
    BY KnownFacts DEF ByProcess
  <2>2. \A f \in ByProcess : f.source.id = f.by.proc /\ f.by.proc \in Pids
    BY <2>1, ImageFacts DEF EdgesFit
  <2>3. \A f \in ByProcess : \E k \in DOMAIN edges : edges[k] = f
    BY DEF ByProcess, Edges
  <2>4. QED
    BY <1>3, <2>1, <2>2, <2>3
<1>6. PICK f \in ByProcess : f.source = e.target /\ f.as = comm[e.target]
  <2>1. NoPid \notin Pids
    BY EventGraphAssumption DEF EventGraphAssumption
  <2>2. e.target.exec = 0 \/ e.target.id = NoPid
    <3>1. CASE e.made = NoImage
      BY <1>2, <1>3, <3>1, ImageFacts DEF EdgesFit
    <3>2. CASE e.made # NoImage
      <4>1. e.target = Logical(e.made.proc)
        BY <1>1, <1>3, <3>2 DEF MadeFits
      <4>2. Logical(e.made.proc).exec = 0
        BY DEF Logical, ProcessNode
      <4>3. QED
        BY <4>1, <4>2
    <3>3. QED
      BY <3>1, <3>2
  <2>3. QED
    BY <1>4, <2>2 DEF NamesGiven
<1>7. PICK g \in ByProcess : g.source = e.source /\ g.as = comm[e.source]
  BY <1>3, <1>4 DEF NamesGiven
<1>8. /\ e.made \in Images /\ Known(e.made) /\ e.made # NoImage
      /\ e.made.name = e.by.name
      /\ e.target.id = e.made.proc /\ e.target = NodeFor(e.made)
  <2>1. e.target.id # NoPid
    BY <1>5, <1>6, EventGraphAssumption DEF EventGraphAssumption
  <2>2. e.made \in Images /\ e.target.id = e.made.proc /\ e.target = NodeFor(e.made)
    BY <1>2, <1>3, <2>1 DEF EdgesFit
  <2>3. e.made # NoImage /\ Known(e.made)
    BY <1>3, <2>2, KnownFacts, ImageFacts
  <2>4. QED
    BY <1>1, <1>3, <2>2, <2>3 DEF MadeFits
<1> DEFINE Both == {e.by.proc, e.made.proc}
<1>9. ASSUME \A l \in lost : ~ (l.kind = "exec" /\ l.by.proc \in Both),
             \A k \in DOMAIN edges : edges[k].by.proc \in Both => ~ Renamed(k)
      PROVE  FALSE
  <2>1. \A im \in Images : im.proc \in Both => ~ Excused(im)
    BY <1>9, ImageFacts DEF Excused, Unseen, LostMade
  <2>2. f.by = e.made
    <3>1. f.by.proc = e.made.proc /\ ~ Excused(f.by)
      BY <1>5, <1>6, <1>8, <2>1
    <3>2. NodeFor(f.by) = NodeFor(e.made)
      BY <1>6, <1>8, <3>1 DEF EdgesFit
    <3>3. QED
      BY <1>5, <1>8, <3>2, NodesDiffer
  <2>3. g.by = e.by
    <3>1. g.by.proc = e.by.proc /\ ~ Excused(g.by) /\ ~ Excused(e.by)
      BY <1>5, <1>7, <2>1
    <3>2. NodeFor(g.by) = NodeFor(e.by)
      BY <1>3, <1>7, <3>1 DEF EdgesFit
    <3>3. QED
      BY <1>5, <3>2, NodesDiffer
  <2>4. f.as = f.by.name /\ g.as = g.by.name
    BY <1>5, <1>9, <2>2, <2>3 DEF Renamed
  <2>5. QED
    BY <1>2, <1>6, <1>7, <1>8, <2>2, <2>3, <2>4
<1>10. QED
  BY <1>1, <1>8, <1>9

(* What AlertNeedsLoss says of one alert. *)
NeedsLoss(x) ==
  \E i \in 1..x.edge :
    /\ edges[i].kind = "clone" /\ edges[i].made # NoImage /\ edges[i].stamp >= x.start
    /\ LET Both == {edges[i].by.proc, edges[i].made.proc}
       IN  \/ \E l \in lost : l.kind = "exec" /\ l.by.proc \in Both
           \/ \E k \in 1..x.edge : edges[k].by.proc \in Both /\ Renamed(k)

(* An alert about the newest edge does. *)
NewAlertNeedsLoss == \A x \in alerts : x.edge = Len(edges) => NeedsLoss(x)

(* It does, by what the search found. *)
LEMMA NewAlert == WorkerInv => NewAlertNeedsLoss
<1> SUFFICES ASSUME WorkerInv, NEW x \in alerts, x.edge = Len(edges)
             PROVE  NeedsLoss(x)
  BY DEF NewAlertNeedsLoss
<1> DEFINE C == candidate_edges(Pre(x), x.edge, x.start)
<1>1. x.names = comm /\ OrderIInv /\ shared = {}
  BY DEF WorkerInv, AlertsInv, Alone
<1>2. /\ x.edge \in DOMAIN edges /\ x.start \in Int
      /\ DOMAIN Pre(x) = 1..x.edge /\ DOMAIN Pre(x) \subseteq DOMAIN edges
      /\ \A i \in DOMAIN Pre(x) : Pre(x)[i] = edges[i] /\ edges[i].stamp \in 1..MaxCalls
      /\ \A i \in C : i \in DOMAIN Pre(x) /\ edges[i].stamp \in x.start..edges[x.edge].stamp
  BY AlertFacts
<1>3. PICK v \in DOMAIN Variants : \E p : Matched(Pre(x), x.names, C, Variants[v], p, Len(Variants[v]))
  <2>1. \E v \in DOMAIN Variants : \E p : Matched(Pre(x), x.names, C, Variants[v], p, Len(Variants[v]))
    BY AlertFacts
  <2>2. QED
    BY <2>1
<1>3a. PICK p : Matched(Pre(x), x.names, C, Variants[v], p, Len(Variants[v]))
  BY <1>3
<1> HIDE DEF C
<1>4. 2 \in 1..Len(Variants[v])
  BY VariantFacts
<1>5. p[2] \in C /\ MatchesStep(Pre(x), x.names, Variants[v], p[2], 2)
  BY <1>4, <1>3a DEF Matched
<1>6. /\ p[2] \in 1..x.edge /\ p[2] \in DOMAIN edges /\ Pre(x)[p[2]] = edges[p[2]]
      /\ edges[p[2]].stamp \in x.start..edges[x.edge].stamp /\ edges[p[2]].stamp \in 1..MaxCalls
  BY <1>2, <1>5
<1>7. check_in_patterns(comm, edges[p[2]], Step("package_manager", "lifecycle_shell", "clone"))
  BY <1>1, <1>5, <1>6, VariantFacts DEF MatchesStep
<1>8. /\ edges[p[2]].kind = "clone" /\ edges[p[2]].made # NoImage
      /\ LET Both == {edges[p[2]].by.proc, edges[p[2]].made.proc}
         IN  \/ \E l \in lost : l.kind = "exec" /\ l.by.proc \in Both
             \/ \E k \in DOMAIN edges : edges[k].by.proc \in Both /\ Renamed(k)
  BY <1>1, <1>6, <1>7, ShellNeedsLoss
<1>9. edges[p[2]].stamp >= x.start /\ DOMAIN edges = 1..x.edge
  BY <1>1, <1>2, <1>6, EdgeTypes DEF OrderIInv, NodesIInv
<1>10. QED
  BY <1>6, <1>8, <1>9 DEF NeedsLoss

(* An alert that was raised is older, or about the newest edge; what was lost stays lost. *)
LEMMA LossStays == WorkerInv /\ AlertNeedsLoss /\ NewAlertNeedsLoss' /\ [NextCorrelation]_cvars => AlertNeedsLoss'
<1> SUFFICES ASSUME WorkerInv, AlertNeedsLoss, NewAlertNeedsLoss', [NextCorrelation]_cvars
             PROVE  AlertNeedsLoss'
  OBVIOUS
<1>0. /\ AlertNeedsLoss <=> \A x \in alerts : NeedsLoss(x)
      /\ AlertNeedsLoss' <=> \A x \in alerts' : NeedsLoss(x)'
  BY DEF AlertNeedsLoss, NeedsLoss, Renamed
<1>1. ASSUME edges' = edges, alerts' = alerts, lost \subseteq lost'
      PROVE  AlertNeedsLoss'
  BY <1>0, <1>1 DEF NeedsLoss, Renamed
<1>2. CASE Running /\ UNCHANGED <<configuration, alerts>>
  <2>1. edges' = edges
    BY <1>2 DEF Running, Begin, Fork, Return, Execute, ExecuteFails, analyzer
  <2>2. lost \subseteq lost'
    BY <1>2 DEF Running, Begin, Fork, Return, Execute, ExecuteFails, Report
  <2>3. QED
    BY <1>1, <1>2, <2>1, <2>2
<1>3. CASE UNCHANGED <<vars, alerts>>
  BY <1>1, <1>3 DEF vars, analyzer
<1>4. CASE handle_event
  <2>1. /\ Anchors(edges', Head(queue)) \subseteq {Len(edges')}
        /\ \A i \in 1..Len(edges) : edges'[i] = edges[i]
        /\ lost' = lost
    BY <1>4, NextIsNext, NextNodes, AnchorIsLast DEF handle_event, Handle, kernel, WorkerInv, OrderIInv, NodesIInv
  <2>2. \A x \in alerts' : x \in alerts \/ x.edge = Len(edges')
    <3>1. PICK a \in Anchors(edges', Head(queue)) : \A x \in alerts' : x \in alerts \/ x.edge = a
      BY <1>4 DEF handle_event, get_context_weight
    <3>2. QED
      BY <2>1, <3>1
  <2>3. ASSUME NEW x \in alerts
        PROVE  NeedsLoss(x)'
    <3>1. \A i \in 1..x.edge : edges'[i] = edges[i]
      <4>1. x.edge \in 1..Len(edges) /\ Len(edges) \in Nat
        BY EdgeTypes DEF WorkerInv, AlertsInv, OrderIInv, NodesIInv
      <4>2. QED
        BY <2>1, <4>1
    <3>2. NeedsLoss(x)
      BY <1>0
    <3>3. QED
      BY <2>1, <3>1, <3>2 DEF NeedsLoss, Renamed
  <2>4. QED
    BY <1>0, <2>2, <2>3 DEF NewAlertNeedsLoss
<1>5. QED
  BY <1>2, <1>3, <1>4 DEF NextCorrelation, cvars

(* No alert without a lost execve, or a thread with a name of its own. *)
THEOREM AlertsNeedLoss == SpecCorrelation => []AlertNeedsLoss
<1>1. InitCorrelation => AlertNeedsLoss
  BY DEF InitCorrelation, AlertNeedsLoss
<1>2. QED
  BY <1>1, NewAlert, LossStays, WorkerInductive, PTL DEF SpecCorrelation
-----------------------------------------------------------------------------
(* The search that module Subgraph describes step by step, in this graph. *)

(* An edge as Subgraph has it, and the graph that it makes. *)
Searched(E, i) == [source |-> E[i].source, target |-> E[i].target, key |-> i, time |-> E[i].stamp]
Multigraph(E) == {Searched(E, i) : i \in DOMAIN E}

(* A search from edge a that has ended, having visited the edges in found. *)
Search(E, a, start, depth, found) == INSTANCE Subgraph WITH
    Nodes <- {E[i].source : i \in DOMAIN E} \cup {E[i].target : i \in DOMAIN E},
    Graphs <- {Multigraph(E)},
    Times <- Nat,
    Anchor <- E[a].target,
    AnchorTime <- E[a].stamp,
    WindowStart <- start,
    MaxDepth <- depth,
    graph <- Multigraph(E),
    frontier <- <<>>,
    visited <- found

(* The chains of k edges are those of Subgraph. *)
LEMMA ChainsAreReached ==
  ASSUME NEW E, \A i \in DOMAIN E : E[i].stamp \in Nat,
         NEW a \in DOMAIN E, NEW start \in Int, NEW depth \in Nat, NEW found,
         NEW k \in 1..depth, NEW i \in DOMAIN E
  PROVE  i \in Chains(E, a, start, depth)[k]
            <=> Search(E, a, start, depth, found)!Reached(Searched(E, i), k)
<1> DEFINE R == Chains(E, a, start, depth)
           Reaches(e, n) == Search(E, a, start, depth, found)!Reached(e, n)
           Chain(p, n) == Search(E, a, start, depth, found)!IsChain(p, n)
           G == Multigraph(E)
           Fails == {n \in 1..depth : \E j \in DOMAIN E : ~ (j \in R[n] <=> Reaches(Searched(E, j), n))}
<1>1. /\ R \in [1..depth -> SUBSET DOMAIN E]
      /\ 1 \in 1..depth => R[1] = Into(E, E[a].target, start, E[a].stamp)
      /\ \A n \in 1..depth : n - 1 \in 1..depth => R[n] = Behind(E, start, R[n - 1])
  BY ChainsFacts
<1>2. \A e, n : Reaches(e, n) <=> \E p \in [1..n -> G] : Chain(p, n) /\ p[n] = e
  BY DEF Search!Reached
<1>3. \A p, n : Chain(p, n) <=>
        /\ n > 0
        /\ p \in [1..n -> G]
        /\ p[1].target = E[a].target
        /\ p[1].time <= E[a].stamp
        /\ \A j \in 1..n : p[j].time >= start
        /\ \A j \in 1..n : j < n => p[j + 1].target = p[j].source /\ p[j + 1].time <= p[j].time
  BY DEF Search!IsChain, Search!InWindow
<1> HIDE DEF R, Reaches, Chain
<1>4. \A e \in G : \E j \in DOMAIN E : e = Searched(E, j)
  BY DEF Multigraph
<1>5. \A j \in DOMAIN E :
        /\ Searched(E, j) \in G
        /\ Searched(E, j).source = E[j].source /\ Searched(E, j).target = E[j].target
        /\ Searched(E, j).time = E[j].stamp /\ Searched(E, j).key = j
  BY DEF Multigraph, Searched
<1> HIDE DEF G
<1>6. \A e \in G : e.time \in Nat
  BY <1>4, <1>5
<1>7. ASSUME NEW j \in DOMAIN E, 1 \in 1..depth
      PROVE  j \in R[1] <=> Reaches(Searched(E, j), 1)
  <2>1. ASSUME j \in R[1] PROVE Reaches(Searched(E, j), 1)
    <3> DEFINE p == [n \in 1..1 |-> Searched(E, j)]
    <3>1. p \in [1..1 -> G] /\ p[1] = Searched(E, j) /\ 1..1 = {1}
      BY <1>5
    <3>2. E[j].target = E[a].target /\ E[j].stamp \in start..E[a].stamp
      BY <1>1, <1>7, <2>1 DEF Into
    <3> HIDE DEF p
    <3>3. Chain(p, 1)
      <4>1. p[1].target = E[a].target /\ p[1].time <= E[a].stamp /\ p[1].time >= start
        BY <1>5, <3>1, <3>2
      <4>2. \A m \in 1..1 : m = 1 /\ ~ (m < 1)
        OBVIOUS
      <4>3. \A m \in 1..1 : p[m].time >= start
        BY <4>1, <4>2
      <4>4. \A m \in 1..1 : m < 1 => p[m + 1].target = p[m].source /\ p[m + 1].time <= p[m].time
        BY <4>2
      <4>5. 1 > 0
        OBVIOUS
      <4>6. QED
        BY <1>3, <3>1, <4>1, <4>3, <4>4, <4>5
    <3>4. QED
      BY <1>2, <3>1, <3>3
  <2>2. ASSUME Reaches(Searched(E, j), 1) PROVE j \in R[1]
    <3>1. PICK p \in [1..1 -> G] : Chain(p, 1) /\ p[1] = Searched(E, j)
      BY <1>2, <2>2
    <3>2. E[j].target = E[a].target /\ E[j].stamp <= E[a].stamp /\ E[j].stamp >= start
      BY <1>3, <1>5, <3>1
    <3>3. E[j].stamp \in start..E[a].stamp
      BY <3>2
    <3>4. QED
      BY <1>1, <1>7, <3>2, <3>3 DEF Into
  <2>3. QED
    BY <2>1, <2>2
<1>8. ASSUME NEW n \in 1..depth, n - 1 \in 1..depth, NEW j \in DOMAIN E,
             \A h \in DOMAIN E : h \in R[n - 1] <=> Reaches(Searched(E, h), n - 1)
      PROVE  j \in R[n] <=> Reaches(Searched(E, j), n)
  <2>0. n \in Nat /\ n - 1 \in Nat /\ n - 1 > 0
    BY <1>8
  <2>1. ASSUME j \in R[n] PROVE Reaches(Searched(E, j), n)
    <3>1. PICK h \in R[n - 1] : j \in Into(E, E[h].source, start, E[h].stamp)
      BY <1>1, <1>8, <2>1 DEF Behind
    <3>2. h \in DOMAIN E
      BY <1>1, <1>8, <3>1
    <3>3. E[j].target = E[h].source /\ E[j].stamp \in start..E[h].stamp
      BY <3>1 DEF Into
    <3>4. PICK q \in [1..(n - 1) -> G] : Chain(q, n - 1) /\ q[n - 1] = Searched(E, h)
      BY <1>2, <1>8, <3>1, <3>2
    <3> DEFINE p == [m \in 1..n |-> IF m = n THEN Searched(E, j) ELSE q[m]]
    <3>5. /\ p \in [1..n -> G] /\ p[n] = Searched(E, j)
          /\ \A m \in 1..(n - 1) : p[m] = q[m]
      <4>1. \A m \in 1..n : m # n => m \in 1..(n - 1)
        BY <2>0
      <4>2. \A m \in 1..(n - 1) : m \in 1..n /\ m # n
        BY <2>0
      <4>3. n \in 1..n
        BY <2>0
      <4>4. QED
        BY <1>5, <3>4, <4>1, <4>2, <4>3
    <3> HIDE DEF p
    <3>6. /\ p[1].target = E[a].target /\ p[1].time <= E[a].stamp
          /\ \A m \in 1..(n - 1) : p[m].time >= start
          /\ \A m \in 1..(n - 1) : m < n - 1 => p[m + 1].target = p[m].source /\ p[m + 1].time <= p[m].time
      <4>1. 1 \in 1..(n - 1) /\ \A m \in 1..(n - 1) : m < n - 1 => m + 1 \in 1..(n - 1)
        BY <2>0
      <4>2. QED
        BY <1>3, <3>4, <3>5, <4>1
    <3>7. p[n].time >= start
      BY <1>5, <3>3, <3>5
    <3>8. p[n].target = p[n - 1].source /\ p[n].time <= p[n - 1].time
      <4>1. p[n - 1] = Searched(E, h)
        BY <1>8, <3>4, <3>5, <2>0
      <4>2. QED
        BY <1>5, <3>2, <3>3, <3>5, <4>1
    <3>9. \A m \in 1..n : m \in 1..(n - 1) \/ m = n
      BY <2>0
    <3>10. \A m \in 1..n : m < n => m = n - 1 \/ (m \in 1..(n - 1) /\ m < n - 1)
      BY <2>0
    <3>11. \A m \in 1..n : p[m].time >= start
      BY <3>6, <3>7, <3>9
    <3>12. \A m \in 1..n : m < n => p[m + 1].target = p[m].source /\ p[m + 1].time <= p[m].time
      <4> SUFFICES ASSUME NEW m \in 1..n, m < n
                   PROVE  p[m + 1].target = p[m].source /\ p[m + 1].time <= p[m].time
        OBVIOUS
      <4>1. CASE m = n - 1
        <5>1. m + 1 = n
          BY <2>0, <4>1
        <5>2. QED
          BY <3>8, <4>1, <5>1
      <4>2. CASE m \in 1..(n - 1) /\ m < n - 1
        BY <3>6, <4>2
      <4>3. QED
        BY <3>10, <4>1, <4>2
    <3>13. Chain(p, n)
      <4>1. n > 0
        BY <2>0
      <4>2. QED
        BY <1>3, <3>5, <3>6, <3>11, <3>12, <4>1
    <3>14. QED
      BY <1>2, <3>5, <3>13
  <2>2. ASSUME Reaches(Searched(E, j), n) PROVE j \in R[n]
    <3>1. PICK p \in [1..n -> G] : Chain(p, n) /\ p[n] = Searched(E, j)
      BY <1>2, <2>2
    <3> DEFINE q == [m \in 1..(n - 1) |-> p[m]]
    <3>2. q \in [1..(n - 1) -> G] /\ \A m \in 1..(n - 1) : q[m] = p[m] /\ m \in 1..n /\ m < n
      BY <2>0
    <3> HIDE DEF q
    <3>3. PICK h \in DOMAIN E : p[n - 1] = Searched(E, h)
      <4>1. n - 1 \in 1..n
        BY <2>0
      <4>2. QED
        BY <1>4, <3>1, <4>1
    <3>4. Chain(q, n - 1)
      <4>1. 1 \in 1..(n - 1) /\ \A m \in 1..(n - 1) : m < n - 1 => m + 1 \in 1..(n - 1)
        BY <2>0
      <4>2. \A m \in 1..(n - 1) : q[m].time >= start
        BY <1>3, <3>1, <3>2
      <4>3. \A m \in 1..(n - 1) : m < n - 1 => q[m + 1].target = q[m].source /\ q[m + 1].time <= q[m].time
        BY <1>3, <3>1, <3>2, <4>1
      <4>4. q[1].target = E[a].target /\ q[1].time <= E[a].stamp
        BY <1>3, <3>1, <3>2, <4>1
      <4>5. QED
        BY <1>3, <2>0, <3>2, <4>2, <4>3, <4>4
    <3>5. h \in R[n - 1]
      <4>1. n - 1 \in 1..(n - 1)
        BY <2>0
      <4>2. Reaches(Searched(E, h), n - 1)
        BY <1>2, <3>2, <3>3, <3>4, <4>1
      <4>3. QED
        BY <1>8, <4>2
    <3>6. /\ p[n].target = p[n - 1].source /\ p[n].time <= p[n - 1].time /\ p[n].time >= start
      <4>1. n - 1 \in 1..n /\ n - 1 < n /\ n - 1 + 1 = n /\ n \in 1..n
        BY <2>0
      <4>2. p[n - 1 + 1].target = p[n - 1].source /\ p[n - 1 + 1].time <= p[n - 1].time
        BY <1>3, <3>1, <4>1
      <4>3. QED
        BY <1>3, <3>1, <4>1, <4>2
    <3>7. E[j].target = E[h].source /\ E[j].stamp \in start..E[h].stamp
      BY <1>5, <3>1, <3>3, <3>6
    <3>8. QED
      BY <1>1, <1>8, <3>5, <3>7 DEF Behind, Into
  <2>3. QED
    BY <2>1, <2>2
<1>9. Fails = {}
  <2> SUFFICES ASSUME Fails # {} PROVE FALSE
    OBVIOUS
  <2> Fails \in SUBSET Nat
    OBVIOUS
  <2>1. PICK m \in Fails : \A n \in Fails : ~ (n < m)
    BY LeastNumber
  <2>2. CASE m = 1
    BY <1>7, <2>1, <2>2
  <2>3. CASE m # 1
    <3>1. m \in 1..depth /\ m - 1 \in 1..depth /\ m - 1 < m
      BY <2>1, <2>3
    <3>2. m - 1 \notin Fails
      BY <2>1, <3>1
    <3>3. QED
      BY <1>8, <2>1, <3>1, <3>2
  <2>4. QED
    BY <2>2, <2>3
<1>10. QED
  BY <1>9 DEF R, Reaches

(* What module Subgraph says of the edges that its search has visited at its end makes  *)
(* them those that Correlation works with, in every graph E: none is too many, and none *)
(* is missing as long as no chain is as long as the depth.                              *)
THEOREM SearchIsSubgraph ==
  ASSUME NEW E, \A i \in DOMAIN E : E[i].stamp \in Nat,
         NEW a \in DOMAIN E, NEW start \in Int, NEW depth \in Nat \ {0},
         NEW found \in SUBSET Multigraph(E),
         Search(E, a, start, depth, found)!OnlyCausalEdges,
         Search(E, a, start, depth, found)!CompleteUnlessCut
  PROVE  LET all == {Searched(E, i) : i \in get_subgraph(E, a, start, depth)}
         IN  /\ found \subseteq all
             /\ Chains(E, a, start, depth)[depth] = {} => found = all
<1> DEFINE R == Chains(E, a, start, depth)
           Reaches(e, n) == Search(E, a, start, depth, found)!Reached(e, n)
           all == {Searched(E, i) : i \in get_subgraph(E, a, start, depth)}
<1>1. \A n \in 1..depth : \A i \in DOMAIN E : i \in R[n] <=> Reaches(Searched(E, i), n)
  BY ChainsAreReached
<1>2. R \in [1..depth -> SUBSET DOMAIN E]
  BY ChainsFacts
<1>3. get_subgraph(E, a, start, depth) = UNION {R[k] : k \in 1..depth}
  BY DEF get_subgraph
<1>4. \A e \in found : \E n \in 1..depth : Reaches(e, n)
  BY DEF Search!OnlyCausalEdges
<1>5. (\A e \in Multigraph(E) : ~ Reaches(e, depth))
        => \A n \in 1..depth : \A e \in Multigraph(E) : Reaches(e, n) => e \in found
  BY DEF Search!CompleteUnlessCut, Search!Done
<1> HIDE DEF R, Reaches
<1>6. \A e \in Multigraph(E) : \E i \in DOMAIN E : e = Searched(E, i)
  BY DEF Multigraph
<1>7. \A i \in DOMAIN E : Searched(E, i) \in Multigraph(E)
  BY DEF Multigraph
<1>8. found \subseteq all
  BY <1>1, <1>3, <1>4, <1>6
<1>9. ASSUME R[depth] = {} PROVE all \subseteq found
  <2>1. depth \in 1..depth
    OBVIOUS
  <2>2. \A e \in Multigraph(E) : ~ Reaches(e, depth)
    BY <1>1, <1>6, <1>9, <2>1
  <2>3. QED
    BY <1>1, <1>2, <1>3, <1>5, <1>7, <2>2
<1>10. QED
  BY <1>8, <1>9 DEF R
=============================================================================
