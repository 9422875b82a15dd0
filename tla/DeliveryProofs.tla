---------------------------- MODULE DeliveryProofs ----------------------------
(* Proofs of the safety properties of Delivery, for any number of events,    *)
(* connections and faults, and any sizes of the queues, and that it          *)
(* implements Intake.                                                        *)
EXTENDS Delivery, SequenceTheorems, TLAPS

-----------------------------------------------------------------------------
(* Sequences: what they hold, and what they hold before what.               *)

Elems(q)        == {q[i] : i \in DOMAIN q}
Before(q, x, y) == \E i, j \in DOMAIN q : i < j /\ q[i] = x /\ q[j] = y

(* Of two events of one connection the earlier was sent first. *)
Ordered(q) == \A x, y : Before(q, x, y) /\ x.via = y.via => x.id < y.id

(* An empty sequence has no elements. *)
LEMMA EmptyFacts ==
  /\ Elems(<<>>) = {}
  /\ \A x, y : ~ Before(<<>>, x, y)
  BY DEF Elems, Before

(* The elements of a sequence of one. *)
LEMMA OneFacts ==
  ASSUME NEW S, NEW a \in S
  PROVE  /\ <<a>> \in Seq(S) /\ Elems(<<a>>) = {a}
         /\ \A x, y : ~ Before(<<a>>, x, y)
<1>1. <<a>> \in Seq(S) /\ DOMAIN <<a>> = {1} /\ <<a>>[1] = a
  OBVIOUS
<1>2. QED
  BY <1>1 DEF Elems, Before

(* Elements are of the type of the sequence. *)
LEMMA ElemsTyped ==
  ASSUME NEW S, NEW q \in Seq(S)
  PROVE  Elems(q) \subseteq S
  BY LenProperties, ElementOfSeq DEF Elems

(* The elements of two sequences one after the other, and their order. *)
LEMMA ConcatFacts ==
  ASSUME NEW S, NEW p \in Seq(S), NEW q \in Seq(S)
  PROVE  /\ p \o q \in Seq(S)
         /\ Elems(p \o q) = Elems(p) \cup Elems(q)
         /\ \A x, y : Before(p \o q, x, y) <=> \/ Before(p, x, y) \/ Before(q, x, y)
                                               \/ x \in Elems(p) /\ y \in Elems(q)
<1>1. /\ Len(p) \in Nat /\ DOMAIN p = 1..Len(p)
      /\ Len(q) \in Nat /\ DOMAIN q = 1..Len(q)
      /\ p \o q \in Seq(S) /\ DOMAIN (p \o q) = 1..(Len(p) + Len(q))
      /\ \A i \in 1..(Len(p) + Len(q)) :
           (p \o q)[i] = IF i <= Len(p) THEN p[i] ELSE q[i - Len(p)]
  BY ConcatProperties, LenProperties
<1> DEFINE r == p \o q
<1>2. /\ DOMAIN r = 1..(Len(p) + Len(q))
      /\ \A i \in DOMAIN p : i \in DOMAIN r /\ r[i] = p[i]
      /\ \A i \in DOMAIN q : i + Len(p) \in DOMAIN r /\ r[i + Len(p)] = q[i]
      /\ \A i \in DOMAIN r : \/ i \in DOMAIN p
                             \/ ~ (i <= Len(p)) /\ i - Len(p) \in DOMAIN q /\ r[i] = q[i - Len(p)]
  BY <1>1
<1> HIDE DEF r
<1>3. Elems(r) = Elems(p) \cup Elems(q)
  BY <1>2 DEF Elems
<1>4. ASSUME NEW x, NEW y, Before(r, x, y)
      PROVE  Before(p, x, y) \/ Before(q, x, y) \/ (x \in Elems(p) /\ y \in Elems(q))
  <2>1. PICK i \in DOMAIN r, j \in DOMAIN r : i < j /\ r[i] = x /\ r[j] = y
    BY <1>4 DEF Before
  <2>2. CASE i \in DOMAIN p /\ j \in DOMAIN p
    BY <1>2, <2>1, <2>2 DEF Before
  <2>3. CASE i \in DOMAIN p /\ j \notin DOMAIN p
    BY <1>2, <2>1, <2>3 DEF Elems
  <2>4. CASE i \notin DOMAIN p
    <3>1. ~ (i <= Len(p)) /\ i - Len(p) \in DOMAIN q /\ r[i] = q[i - Len(p)]
      BY <1>2, <2>1, <2>4
    <3>2. j - Len(p) \in DOMAIN q /\ r[j] = q[j - Len(p)] /\ i - Len(p) < j - Len(p)
      BY <1>1, <1>2, <2>1, <3>1
    <3>3. QED
      BY <2>1, <3>1, <3>2 DEF Before
  <2>5. QED
    BY <2>2, <2>3, <2>4
<1>5. ASSUME NEW x, NEW y
      PROVE  /\ Before(p, x, y) => Before(r, x, y)
             /\ Before(q, x, y) => Before(r, x, y)
             /\ x \in Elems(p) /\ y \in Elems(q) => Before(r, x, y)
  <2>1. Before(p, x, y) => Before(r, x, y)
    BY <1>2 DEF Before
  <2>2. ASSUME NEW i \in DOMAIN q, NEW j \in DOMAIN q, i < j
        PROVE  i + Len(p) < j + Len(p)
    BY <1>1, <2>2
  <2>3. Before(q, x, y) => Before(r, x, y)
    BY <1>2, <2>2 DEF Before
  <2>4. ASSUME NEW i \in DOMAIN p, NEW j \in DOMAIN q
        PROVE  i < j + Len(p)
    BY <1>1
  <2>5. x \in Elems(p) /\ y \in Elems(q) => Before(r, x, y)
    BY <1>2, <2>4 DEF Before, Elems
  <2>6. QED
    BY <2>1, <2>3, <2>5
<1>6. QED
  BY <1>1, <1>3, <1>4, <1>5 DEF r

(* A sequence is its first element and the rest. *)
LEMMA HeadTail ==
  ASSUME NEW S, NEW q \in Seq(S), q # <<>>
  PROVE  /\ Head(q) \in S /\ Tail(q) \in Seq(S) /\ <<Head(q)>> \in Seq(S)
         /\ q = <<Head(q)>> \o Tail(q)
         /\ Len(q) \in Nat /\ Len(Tail(q)) = Len(q) - 1
  OBVIOUS

(* A sequence of one place holds at most one. *)
LEMMA OnePlace ==
  ASSUME NEW S, NEW q \in Seq(S), Len(q) <= 1, q # <<>>
  PROVE  q[1] \in S /\ q = <<q[1]>>
<1>1. Len(q) = 1
  <2>1. Len(q) \in Nat \ {0}
    BY EmptySeq
  <2>2. QED
    BY <2>1
<1>2. q[1] \in S /\ <<q[1]>> \in Seq(S) /\ Len(<<q[1]>>) = 1
  BY <1>1, ElementOfSeq
<1>3. \A i \in 1..Len(q) : q[i] = <<q[1]>>[i]
  BY <1>1
<1>4. QED
  BY <1>1, <1>2, <1>3, SeqEqual

(* The order in which sequences are joined does not matter. *)
LEMMA EventsJoin == \A p, q, r \in Seq(Events) : (p \o q) \o r = p \o (q \o r)
  BY ConcatAssociative

LEMMA IdsJoin == \A p, q, r \in Seq(Ids) : (p \o q) \o r = p \o (q \o r)
  BY ConcatAssociative

(* The head of a queue moves to the place behind it: nothing is reordered. *)
LEMMA MoveHead ==
  ASSUME NEW S, NEW p \in Seq(S), NEW q \in Seq(S), q # <<>>
  PROVE  (p \o <<Head(q)>>) \o Tail(q) = (p \o <<>>) \o q
<1>1. Tail(q) \in Seq(S) /\ <<Head(q)>> \in Seq(S) /\ q = <<Head(q)>> \o Tail(q)
  BY HeadTail
<1>2. (p \o <<Head(q)>>) \o Tail(q) = p \o (<<Head(q)>> \o Tail(q))
  BY <1>1, ConcatAssociative
<1>3. p \o <<>> = p
  BY ConcatEmptySeq
<1>4. QED
  BY <1>1, <1>2, <1>3, Zenon

(* A place is emptied into the queue behind it. *)
LEMMA MovePlace ==
  ASSUME NEW S, NEW p \in Seq(S), NEW a \in S, NEW q \in Seq(S)
  PROVE  (Append(p, a) \o <<>>) \o q = (p \o <<a>>) \o q
<1>1. Append(p, a) \in Seq(S) /\ Append(p, a) = p \o <<a>>
  BY AppendProperties, AppendIsConcat
<1>2. Append(p, a) \o <<>> = Append(p, a)
  BY <1>1, ConcatEmptySeq
<1>3. QED
  BY <1>1, <1>2, Zenon

-----------------------------------------------------------------------------
(* The inductive invariant. *)

(* What is sent was taken before, and the record at hand was not sent. *)
Counts ==
  /\ sent \subseteq 1..taken
  /\ agent = "sending" => taken \in Ids /\ taken \notin sent
  /\ dialer = "dialed" => nconns \in Conns

There == Elems(Merged) \cup UNION {Elems(InAnalyzer(c)) : c \in Conns}

(* A line is by the connection it came by, and an id is of one event. *)
Own    == \A c \in Conns : \A x \in Elems(InAnalyzer(c)) : x.via = c
Unique == \A x, y \in There : x.id = y.id => x = y

InOrder  == \A c \in Conns : Ordered(PathOf(c))
Settled  == LET ids == {x.id : x \in There} IN sent = ids \cup lost /\ ids \cap lost = {}

Flow == Own /\ Unique /\ InOrder /\ Settled
IInv == TypeOK /\ Counts /\ Flow /\ AlertsFollowAnalysis

(* The types of the sequences an event goes through. *)
LEMMA FlowTypes ==
  ASSUME TypeOK
  PROVE  /\ analysed \in Seq(Events) /\ event \in Seq(Events) /\ event_queue \in Seq(Events)
         /\ Merged \in Seq(Events)
         /\ \A c \in Conns : /\ line[c] \in Seq(Events) /\ held[c] \in Seq(Events)
                             /\ InAnalyzer(c) \in Seq(Events)
<1>1. /\ analysed \in Seq(Events) /\ event \in Seq(Events) /\ event_queue \in Seq(Events)
      /\ \A c \in Conns : line[c] \in Seq(Events) /\ held[c] \in Seq(Events)
  BY DEF TypeOK
<1>2. analysed \o event \in Seq(Events)
  BY <1>1, ConcatProperties
<1>3. Merged \in Seq(Events)
  BY <1>1, <1>2, ConcatProperties DEF Merged
<1>4. ASSUME NEW c \in Conns PROVE InAnalyzer(c) \in Seq(Events)
  BY <1>1, ConcatProperties DEF InAnalyzer
<1>5. QED
  BY <1>1, <1>3, <1>4

-----------------------------------------------------------------------------
(* Types and counts. *)

(* A family of sequences stays one, and short, when one of them changes. *)
LEMMA OneChanges ==
  ASSUME NEW S, NEW f \in [Conns -> Seq(S)], NEW c \in Conns, NEW s \in Seq(S),
         NEW n, Len(s) <= n, \A d \in Conns : Len(f[d]) <= n,
         NEW g, g = [f EXCEPT ![c] = s]
  PROVE  g \in [Conns -> Seq(S)] /\ \A d \in Conns : Len(g[d]) <= n
  OBVIOUS

(* The parts of TypeOK: the control state and the sequences. *)
ControlTyped ==
  /\ agent \in {"down", "starting", "reading", "sending"} /\ stopping \in BOOLEAN
  /\ dialer \in {"idle", "dialing", "dialed"}
  /\ analyzerConn \in Conns \cup {NoConn}
  /\ taken \in 0..MaxEvents /\ nconns \in 0..MaxConns /\ faults \in 0..MaxFaults
  /\ sent \subseteq Ids /\ lost \subseteq Ids
  /\ link \in [Conns -> {"unused", "open", "finished", "reset", "closed"}]
  /\ up \in BOOLEAN /\ handler \in [Conns -> {"none", "reading", "ended"}]

LineTyped   == line \in [Conns -> Seq(Events)] /\ \A c \in Conns : Len(line[c]) <= WireSize
HeldTyped   == held \in [Conns -> Seq(Events)] /\ \A c \in Conns : Len(held[c]) <= 1
EventsTyped == /\ event_queue \in Seq(Events) /\ Len(event_queue) <= QueueSize
               /\ event \in Seq(Events) /\ Len(event) <= 1
               /\ analysed \in Seq(Events)
AlertsTyped == /\ alert_queue \in Seq(Ids) /\ Len(alert_queue) <= AlertQueueSize
               /\ alert \in Seq(Ids) /\ Len(alert) <= 1
               /\ posted \in Seq(Ids)

LEMMA TypeParts ==
  /\ TypeOK <=> ControlTyped /\ LineTyped /\ HeldTyped /\ EventsTyped /\ AlertsTyped
  /\ TypeOK' <=> ControlTyped' /\ LineTyped' /\ HeldTyped' /\ EventsTyped' /\ AlertsTyped'
  BY DEF TypeOK, ControlTyped, LineTyped, HeldTyped, EventsTyped, AlertsTyped

(* What does not change stays typed. *)
LEMMA Unchanged ==
  /\ LineTyped /\ UNCHANGED line => LineTyped'
  /\ HeldTyped /\ UNCHANGED held => HeldTyped'
  /\ EventsTyped /\ UNCHANGED <<event_queue, event, analysed>> => EventsTyped'
  /\ AlertsTyped /\ UNCHANGED <<alert_queue, alert, posted>> => AlertsTyped'
  BY DEF LineTyped, HeldTyped, EventsTyped, AlertsTyped

(* Connecting keeps the types. *)
LEMMA ConnectTypes ==
  ASSUME TypeOK, Counts, connectToAnalyzer
  PROVE  TypeOK' /\ Counts'
<1> USE DeliveryAssumption DEF TypeOK, Counts, Conns, Ids, Events, NoConn, analyzerVars, Dialed
<1>1. CASE DialStart
  BY <1>1 DEF DialStart
<1>2. CASE Dial
  <2>1. CASE up /\ nconns < MaxConns
    <3>1. nconns' \in Conns /\ nconns' \in 0..MaxConns
      BY <1>2, <2>1 DEF Dial
    <3>2. link' \in [Conns -> {"unused", "open", "finished", "reset", "closed"}]
      BY <1>2, <2>1 DEF Dial
    <3>3. dialer' = "dialed" /\ UNCHANGED agent
      BY <1>2, <2>1 DEF Dial
    <3>4. UNCHANGED <<stopping, analyzerConn, taken, sent, analyzerVars, line, faults, lost>>
      BY <1>2 DEF Dial
    <3>5. TypeOK'
      BY <3>1, <3>2, <3>3, <3>4
    <3>6. QED
      BY <3>1, <3>3, <3>4, <3>5
  <2>2. CASE ~ (up /\ nconns < MaxConns)
    <3>1. Dialed /\ UNCHANGED <<nconns, link>>
      BY <1>2, <2>2 DEF Dial
    <3>2. /\ dialer' = "idle" /\ agent' \in {"down", "starting", "reading", "sending"}
          /\ agent' = "sending" => agent = "sending"
      BY <3>1
    <3>3. UNCHANGED <<stopping, analyzerConn, taken, sent, analyzerVars, line, faults, lost>>
      BY <1>2 DEF Dial
    <3>4. TypeOK'
      BY <3>1, <3>2, <3>3
    <3>5. QED
      BY <3>1, <3>2, <3>3, <3>4
  <2>3. QED
    BY <2>1, <2>2
<1>3. CASE Install
  BY <1>3 DEF Install
<1>4. QED
  BY <1>1, <1>2, <1>3 DEF connectToAnalyzer

(* So does sending. *)
LEMMA SendTypes ==
  ASSUME TypeOK, Counts, sendAnalyzerEvent
  PROVE  TypeOK' /\ Counts'
<1>1. /\ agent = "sending" /\ agent' = "reading" /\ taken \in Ids /\ taken \in Nat
      /\ UNCHANGED <<stopping, dialer, taken, nconns, analyzerVars, faults>>
  <2>1. agent = "sending" /\ UNCHANGED <<stopping, dialer, taken, nconns, analyzerVars, faults>>
    BY DEF sendAnalyzerEvent
  <2>2. agent' = "reading"
    BY DEF sendAnalyzerEvent, NotConnected, Write, WriteToNobody, WriteFails
  <2>3. taken \in Ids /\ taken \in Nat
    BY <2>1, DeliveryAssumption DEF TypeOK, Counts
  <2>4. QED
    BY <2>1, <2>2, <2>3
<1>2. ControlTyped /\ LineTyped /\ HeldTyped /\ EventsTyped /\ AlertsTyped
  BY TypeParts
<1>3. HeldTyped' /\ EventsTyped' /\ AlertsTyped'
  BY <1>1, <1>2, Unchanged DEF analyzerVars
<1>4. CASE NotConnected
  <2>1. ControlTyped'
    BY <1>1, <1>2, <1>4 DEF NotConnected, ControlTyped, analyzerVars
  <2>2. LineTyped'
    BY <1>2, <1>4, Unchanged DEF NotConnected
  <2>3. Counts'
    BY <1>1, <1>4 DEF NotConnected, Counts
  <2>4. QED
    BY <1>3, <2>1, <2>2, <2>3, TypeParts
<1>5. ASSUME NEW c \in Conns, Write(c) PROVE TypeOK' /\ Counts'
  <2>1. [id |-> taken, via |-> c] \in Events
    BY <1>1 DEF Events
  <2>2. /\ line[c] \in Seq(Events) /\ Len(line[c]) < WireSize
        /\ line' = [line EXCEPT ![c] = Append(line[c], [id |-> taken, via |-> c])]
    BY <1>2, <1>5 DEF Write, LineTyped
  <2>3. /\ Append(line[c], [id |-> taken, via |-> c]) \in Seq(Events)
        /\ Len(line[c]) \in Nat
        /\ Len(Append(line[c], [id |-> taken, via |-> c])) = Len(line[c]) + 1
    BY <2>1, <2>2, AppendProperties, LenProperties
  <2>4. Len(Append(line[c], [id |-> taken, via |-> c])) <= WireSize
    BY <2>2, <2>3, DeliveryAssumption
  <2>5. LineTyped'
    BY <1>2, <2>2, <2>3, <2>4, OneChanges DEF LineTyped
  <2>6. ControlTyped'
    BY <1>1, <1>2, <1>5 DEF Write, ControlTyped, analyzerVars
  <2>7. Counts'
    BY <1>1, <1>5 DEF Write, Counts, Ids
  <2>8. QED
    BY <1>3, <2>5, <2>6, <2>7, TypeParts
<1>6. ASSUME NEW c \in Conns, WriteToNobody(c) PROVE TypeOK' /\ Counts'
  <2>1. ControlTyped'
    BY <1>1, <1>2, <1>6 DEF WriteToNobody, ControlTyped, analyzerVars
  <2>2. LineTyped'
    BY <1>2, <1>6, Unchanged DEF WriteToNobody
  <2>3. Counts'
    BY <1>1, <1>6 DEF WriteToNobody, Counts, Ids
  <2>4. QED
    BY <1>3, <2>1, <2>2, <2>3, TypeParts
<1>7. ASSUME NEW c \in Conns, WriteFails(c) PROVE TypeOK' /\ Counts'
  <2>1. ControlTyped'
    BY <1>1, <1>2, <1>7 DEF WriteFails, CountWritten, DropConn, ControlTyped, analyzerVars
  <2>2. LineTyped'
    BY <1>2, <1>7, Unchanged DEF WriteFails
  <2>3. Counts'
    BY <1>1, <1>7 DEF WriteFails, CountWritten, Counts
  <2>4. QED
    BY <1>3, <2>1, <2>2, <2>3, TypeParts
<1>8. QED
  BY <1>4, <1>5, <1>6, <1>7 DEF sendAnalyzerEvent

(* So do the other steps of the agent. *)
LEMMA AgentTypes ==
  ASSUME TypeOK, Counts, ReadRecord \/ StartAgent \/ Signal \/ Stop \/ Crash
  PROVE  TypeOK' /\ Counts'
<1>1. ControlTyped /\ LineTyped /\ HeldTyped /\ EventsTyped /\ AlertsTyped
  BY TypeParts
<1>2. LineTyped' /\ HeldTyped' /\ EventsTyped' /\ AlertsTyped'
  <2>1. UNCHANGED <<line, analyzerVars>>
    BY DEF ReadRecord, StartAgent, Signal, Stop, Crash, Ended
  <2>2. QED
    BY <1>1, <2>1, Unchanged DEF analyzerVars
<1>3. ControlTyped' /\ Counts'
  <2> USE <1>1, DeliveryAssumption DEF ControlTyped, Counts, analyzerVars
  <2>1. CASE ReadRecord
    BY <2>1 DEF ReadRecord, Ids
  <2>2. CASE StartAgent
    BY <2>2 DEF StartAgent
  <2>3. CASE Signal
    BY <2>3 DEF Signal
  <2>4. CASE Stop \/ Crash
    <3>1. Ended /\ faults' \in 0..MaxFaults
      BY <2>4 DEF Stop, Crash
    <3>2. QED
      BY <3>1 DEF Ended
  <2>5. QED
    BY <2>1, <2>2, <2>3, <2>4
<1>4. QED
  BY <1>2, <1>3, TypeParts

(* No step of the analyzer concerns the agent. *)
LEMMA AgentUntouched ==
  ASSUME ControlTyped, Counts, AnalyzerStep, UNCHANGED link,
         lost' \subseteq Ids, handler' \in [Conns -> {"none", "reading", "ended"}]
  PROVE  ControlTyped' /\ Counts'
  BY DEF ControlTyped, Counts, AnalyzerStep, agentVars

(* So does a handler of the analyzer. *)
LEMMA HandlerTypes ==
  ASSUME TypeOK, Counts, NEW c \in Conns, Accept(c) \/ handle_agent(c)
  PROVE  TypeOK' /\ Counts'
<1>1. ControlTyped /\ LineTyped /\ HeldTyped /\ EventsTyped /\ AlertsTyped
  BY TypeParts
<1>2. AnalyzerStep /\ UNCHANGED link /\ handler' \in [Conns -> {"none", "reading", "ended"}]
  BY <1>1 DEF ControlTyped, Accept, handle_agent, ReadLine, PutEvent, EndOfAgent
<1>3. AlertsTyped'
  <2>1. UNCHANGED <<alert_queue, alert, posted>>
    BY DEF Accept, handle_agent, ReadLine, PutEvent, EndOfAgent
  <2>2. QED
    BY <1>1, <2>1, Unchanged
<1>4. CASE Accept(c) \/ EndOfAgent(c)
  <2>1. UNCHANGED <<line, held, event_queue, event, analysed, lost>>
    BY <1>4 DEF Accept, EndOfAgent
  <2>2. LineTyped' /\ HeldTyped' /\ EventsTyped'
    BY <1>1, <2>1, Unchanged
  <2>3. ControlTyped' /\ Counts'
    BY <1>1, <1>2, <2>1, AgentUntouched DEF ControlTyped
  <2>4. QED
    BY <1>3, <2>2, <2>3, TypeParts
<1>5. CASE ReadLine(c)
  <2>1. /\ line[c] \in Seq(Events) /\ line[c] # <<>> /\ Len(line[c]) <= WireSize
        /\ held' = [held EXCEPT ![c] = <<Head(line[c])>>]
        /\ line' = [line EXCEPT ![c] = Tail(line[c])]
        /\ UNCHANGED <<event_queue, event, analysed, lost>>
    BY <1>1, <1>5 DEF ReadLine, LineTyped
  <2>2. /\ Tail(line[c]) \in Seq(Events) /\ <<Head(line[c])>> \in Seq(Events)
        /\ Len(line[c]) \in Nat /\ Len(Tail(line[c])) = Len(line[c]) - 1
        /\ Len(<<Head(line[c])>>) <= 1
    BY <2>1, HeadTail
  <2>3. Len(Tail(line[c])) <= WireSize
    BY <2>1, <2>2, DeliveryAssumption
  <2>4. LineTyped'
    BY <1>1, <2>1, <2>2, <2>3, OneChanges DEF LineTyped
  <2>5. HeldTyped'
    BY <1>1, <2>1, <2>2, OneChanges DEF HeldTyped
  <2>6. EventsTyped'
    BY <1>1, <2>1, Unchanged
  <2>7. ControlTyped' /\ Counts'
    BY <1>1, <1>2, <2>1, AgentUntouched DEF ControlTyped
  <2>8. QED
    BY <1>3, <2>4, <2>5, <2>6, <2>7, TypeParts
<1>6. CASE PutEvent(c)
  <2>1. held[c] # <<>> /\ held[c] \in Seq(Events) /\ Len(held[c]) <= 1
    BY <1>1, <1>6 DEF PutEvent, HeldTyped
  <2>2. held[c][1] \in Events
    BY <2>1, OnePlace
  <2>3. HeldTyped'
    <3>1. held' = [held EXCEPT ![c] = <<>>]
      BY <1>6 DEF PutEvent
    <3>2. <<>> \in Seq(Events) /\ Len(<<>>) <= 1
      OBVIOUS
    <3>3. QED
      BY <1>1, <3>1, <3>2, OneChanges DEF HeldTyped
  <2>4. lost' \subseteq Ids
    BY <1>1, <1>6, <2>2 DEF PutEvent, Events, ControlTyped
  <2>5. EventsTyped'
    <3>1. CASE QueueFull
      BY <1>1, <1>6, <3>1, Unchanged DEF PutEvent
    <3>2. CASE ~ QueueFull
      <4>1. event_queue \in Seq(Events) /\ UNCHANGED <<event, analysed>>
        BY <1>1, <1>6 DEF EventsTyped, PutEvent
      <4>2. Len(event_queue) \in Nat /\ Len(event_queue) < QueueSize
        BY <3>2, <4>1, LenProperties, DeliveryAssumption DEF QueueFull
      <4>3. event_queue' = Append(event_queue, held[c][1])
        BY <1>6, <3>2 DEF PutEvent, PutLast
      <4>4. /\ Append(event_queue, held[c][1]) \in Seq(Events)
            /\ Len(Append(event_queue, held[c][1])) = Len(event_queue) + 1
        BY <2>2, <4>1, AppendProperties
      <4>5. event_queue' \in Seq(Events) /\ Len(event_queue') <= QueueSize
        BY <4>2, <4>3, <4>4, DeliveryAssumption
      <4>6. QED
        BY <1>1, <4>1, <4>5 DEF EventsTyped
    <3>3. QED
      BY <3>1, <3>2
  <2>6. LineTyped'
    BY <1>1, <1>6, Unchanged DEF PutEvent
  <2>7. ControlTyped' /\ Counts'
    BY <1>1, <1>2, <2>4, AgentUntouched
  <2>8. QED
    BY <1>3, <2>3, <2>5, <2>6, <2>7, TypeParts
<1>7. QED
  BY <1>4, <1>5, <1>6 DEF handle_agent

(* So does the worker. *)
LEMMA WorkerTypes ==
  ASSUME TypeOK, Counts, correlation_worker
  PROVE  TypeOK' /\ Counts'
<1>1. ControlTyped /\ LineTyped /\ HeldTyped /\ EventsTyped /\ AlertsTyped
  BY TypeParts
<1>2. ControlTyped' /\ Counts' /\ LineTyped' /\ HeldTyped'
  <2>1. AnalyzerStep /\ UNCHANGED <<handler, held, line, link, lost>>
    BY DEF correlation_worker, GetEvent, Handle
  <2>2. lost' \subseteq Ids /\ handler' \in [Conns -> {"none", "reading", "ended"}]
    BY <1>1, <2>1 DEF ControlTyped
  <2>3. QED
    BY <1>1, <2>1, <2>2, AgentUntouched, Unchanged
<1>3. CASE GetEvent
  <2>1. /\ event_queue # <<>> /\ event' = <<Head(event_queue)>>
        /\ event_queue' = Tail(event_queue)
        /\ UNCHANGED <<analysed, alert_queue, alert, posted>>
    BY <1>3 DEF GetEvent
  <2>2. event_queue \in Seq(Events) /\ Len(event_queue) <= QueueSize
    BY <1>1 DEF EventsTyped
  <2>3. /\ event' \in Seq(Events) /\ Len(event') <= 1
        /\ event_queue' \in Seq(Events) /\ Len(event_queue') <= QueueSize
    BY <2>1, <2>2, HeadTail, DeliveryAssumption
  <2>4. EventsTyped'
    BY <1>1, <2>1, <2>3 DEF EventsTyped
  <2>5. AlertsTyped'
    BY <1>1, <2>1, Unchanged
  <2>6. QED
    BY <1>2, <2>4, <2>5, TypeParts
<1>4. CASE Handle
  <2>1. event # <<>> /\ event[1] \in Events /\ event[1].id \in Ids
    BY <1>1, <1>4, OnePlace DEF Handle, Events, EventsTyped
  <2>2. EventsTyped'
    <3>1. analysed \in Seq(Events)
      BY <1>1 DEF EventsTyped
    <3>2. analysed' \in Seq(Events)
      BY <1>4, <2>1, <3>1, AppendProperties DEF Handle
    <3>3. event' = <<>> /\ UNCHANGED event_queue
      BY <1>4 DEF Handle
    <3>4. <<>> \in Seq(Events) /\ Len(<<>>) <= 1
      OBVIOUS
    <3>5. QED
      BY <1>1, <3>2, <3>3, <3>4 DEF EventsTyped
  <2>3. AlertsTyped'
    <3>1. CASE alert_queue' = Append(alert_queue, event[1].id)
               /\ Len(alert_queue) < AlertQueueSize
      <4>1. alert_queue \in Seq(Ids) /\ UNCHANGED <<alert, posted>>
        BY <1>1, <1>4 DEF Handle, AlertsTyped
      <4>2. alert_queue' \in Seq(Ids) /\ Len(alert_queue') <= AlertQueueSize
        BY <2>1, <3>1, <4>1, AppendProperties, LenProperties, DeliveryAssumption
      <4>3. QED
        BY <1>1, <4>1, <4>2 DEF AlertsTyped
    <3>2. CASE UNCHANGED alert_queue
      BY <1>1, <1>4, <3>2, Unchanged DEF Handle
    <3>3. QED
      BY <1>4, <3>1, <3>2 DEF Handle, publish_alert
  <2>4. QED
    BY <1>2, <2>2, <2>3, TypeParts
<1>5. QED
  BY <1>3, <1>4 DEF correlation_worker

(* So does the publisher. *)
LEMMA PublisherTypes ==
  ASSUME TypeOK, Counts, alert_publisher
  PROVE  TypeOK' /\ Counts'
<1>1. ControlTyped /\ LineTyped /\ HeldTyped /\ EventsTyped /\ AlertsTyped
  BY TypeParts
<1>2. ControlTyped' /\ Counts' /\ LineTyped' /\ HeldTyped' /\ EventsTyped'
  <2>1. /\ AnalyzerStep
        /\ UNCHANGED <<handler, held, event_queue, event, analysed, line, link, lost>>
    BY DEF alert_publisher, GetAlert, PostAlert
  <2>2. lost' \subseteq Ids /\ handler' \in [Conns -> {"none", "reading", "ended"}]
    BY <1>1, <2>1 DEF ControlTyped
  <2>3. QED
    BY <1>1, <2>1, <2>2, AgentUntouched, Unchanged
<1>3. alert_queue \in Seq(Ids) /\ Len(alert_queue) <= AlertQueueSize
  BY <1>1 DEF AlertsTyped
<1>4. AlertsTyped'
  <2>1. CASE GetAlert
    <3>1. /\ alert_queue # <<>> /\ alert' = <<Head(alert_queue)>>
          /\ alert_queue' = Tail(alert_queue) /\ UNCHANGED posted
      BY <2>1 DEF GetAlert
    <3>2. /\ alert' \in Seq(Ids) /\ Len(alert') <= 1
          /\ alert_queue' \in Seq(Ids) /\ Len(alert_queue') <= AlertQueueSize
      BY <1>3, <3>1, HeadTail, DeliveryAssumption
    <3>3. QED
      BY <1>1, <3>1, <3>2 DEF AlertsTyped
  <2>2. CASE PostAlert
    <3>1. posted \in Seq(Ids) /\ alert \in Seq(Ids)
      BY <1>1 DEF AlertsTyped
    <3>2. posted \o alert \in Seq(Ids)
      BY <3>1, ConcatProperties
    <3>3. posted' \in Seq(Ids) /\ alert' = <<>> /\ UNCHANGED alert_queue
      BY <2>2, <3>1, <3>2 DEF PostAlert, NoRetry
    <3>4. <<>> \in Seq(Ids) /\ Len(<<>>) <= 1
      OBVIOUS
    <3>5. QED
      BY <1>3, <3>3, <3>4 DEF AlertsTyped
  <2>3. QED
    BY <2>1, <2>2 DEF alert_publisher
<1>5. QED
  BY <1>2, <1>4, TypeParts

(* Ids of events that are there are ids. *)
LEMMA IdsTyped ==
  ASSUME NEW q \in Seq(Events)
  PROVE  /\ IdsOf(q) = {x.id : x \in Elems(q)}
         /\ IdsOf(q) \subseteq Ids
<1>1. IdsOf(q) = {x.id : x \in Elems(q)}
  BY DEF IdsOf, Elems
<1>2. Elems(q) \subseteq Events
  BY ElemsTyped
<1>3. QED
  BY <1>1, <1>2 DEF Events

(* The analyzer starts or ends: the types are kept. *)
LEMMA AnalyzerTypes ==
  ASSUME TypeOK, Counts, StartAnalyzer \/ CrashAnalyzer
  PROVE  TypeOK' /\ Counts'
<1> USE DEF TypeOK, Counts, agentVars
<1>1. CASE StartAnalyzer
  BY <1>1 DEF StartAnalyzer
<1>2. CASE CrashAnalyzer
  <2>1. lost' \subseteq Ids
    <3>1. IdsOf(event) \subseteq Ids /\ IdsOf(event_queue) \subseteq Ids
      BY IdsTyped
    <3>2. ASSUME NEW c \in Conns PROVE IdsOf(InAnalyzer(c)) \subseteq Ids
      BY FlowTypes, IdsTyped
    <3>3. lost' = lost \cup IdsOf(event) \cup IdsOf(event_queue)
                       \cup UNION {IdsOf(InAnalyzer(c)) : c \in Conns}
      BY <1>2 DEF CrashAnalyzer
    <3>4. QED
      BY <3>1, <3>2, <3>3
  <2>2. link' \in [Conns -> {"unused", "open", "finished", "reset", "closed"}]
    BY <1>2 DEF CrashAnalyzer
  <2>3. {line', held'} \subseteq [Conns -> Seq(Events)]
    BY <1>2, EmptySeq DEF CrashAnalyzer
  <2>4. \A c \in Conns : Len(line'[c]) <= WireSize /\ Len(held'[c]) <= 1
    BY <1>2, EmptySeq, DeliveryAssumption DEF CrashAnalyzer
  <2>5. /\ event' = <<>> /\ event_queue' = <<>> /\ alert' = <<>> /\ alert_queue' = <<>>
        /\ up' \in BOOLEAN
        /\ UNCHANGED <<agentVars, analysed, posted>>
    BY <1>2 DEF CrashAnalyzer
  <2>6. handler' \in [Conns -> {"none", "reading", "ended"}]
    BY <1>2 DEF CrashAnalyzer
  <2>7. faults' \in 0..MaxFaults
    BY <1>2, DeliveryAssumption DEF CrashAnalyzer
  <2>8. /\ event' \in Seq(Events) /\ Len(event') <= 1
        /\ event_queue' \in Seq(Events) /\ Len(event_queue') <= QueueSize
        /\ alert' \in Seq(Ids) /\ Len(alert') <= 1
        /\ alert_queue' \in Seq(Ids) /\ Len(alert_queue') <= AlertQueueSize
    BY <2>5, EmptySeq, DeliveryAssumption
  <2>9. TypeOK'
    BY <2>1, <2>2, <2>3, <2>4, <2>5, <2>6, <2>7, <2>8
  <2>10. QED
    BY <2>5, <2>9
<1>3. QED
  BY <1>1, <1>2

-----------------------------------------------------------------------------
(* The flow of events.  A step moves events on their way, adds one at its   *)
(* beginning, or takes some off it.                                         *)

(* Nothing is there at the start. *)
LEMMA InitFlow == Init => Flow
<1> SUFFICES ASSUME Init PROVE Flow
  OBVIOUS
<1>1. Merged = <<>> /\ \A c \in Conns : InAnalyzer(c) = <<>> /\ PathOf(c) = <<>>
  <2>1. <<>> \o <<>> = <<>>
    OBVIOUS
  <2>2. QED
    BY <2>1 DEF Init, Merged, InAnalyzer, PathOf
<1>2. There = {}
  BY <1>1, EmptyFacts DEF There
<1>3. QED
  BY <1>1, <1>2, EmptyFacts DEF Init, Flow, Own, Unique, InOrder, Ordered, Settled

(* Own, Unique and Settled are about what there is, InOrder about the order.*)
LEMMA QuietFlow ==
  ASSUME Flow, UNCHANGED <<Merged, sent, lost>>,
         \A c \in Conns : InAnalyzer(c)' = InAnalyzer(c)
  PROVE  Flow'
<1>1. /\ There' = There
      /\ \A c \in Conns : PathOf(c)' = PathOf(c)
  BY DEF There, PathOf
<1>2. QED
  BY <1>1 DEF Flow, Own, Unique, InOrder, Settled

(* What a path holds. *)
LEMMA PathFacts ==
  ASSUME TypeOK, NEW c \in Conns
  PROVE  /\ Elems(PathOf(c)) = Elems(Merged) \cup Elems(InAnalyzer(c))
         /\ Elems(PathOf(c)) \subseteq There
         /\ PathOf(c) \in Seq(Events)
  BY FlowTypes, ConcatFacts DEF PathOf, There

(* What is there are events. *)
LEMMA ThereTyped == TypeOK => There \subseteq Events
  BY FlowTypes, ElemsTyped DEF There

(* A new event at the end of the line of its connection. *)
LEMMA WriteFlow ==
  ASSUME TypeOK, Counts, Flow, agent = "sending", NEW c \in Conns, Write(c),
         UNCHANGED <<held, event_queue, event, analysed>>
  PROVE  Flow'
<1> DEFINE e == [id |-> taken, via |-> c]
<1>1. e \in Events /\ e.id = taken /\ e.via = c /\ taken \notin sent /\ taken \in Nat
  BY DeliveryAssumption DEF Counts, TypeOK, Events
<1>2. /\ line' = [line EXCEPT ![c] = Append(line[c], e)]
      /\ sent' = sent \cup {taken} /\ lost' = lost
  BY DEF Write
<1> HIDE DEF e
<1>3. /\ line[c] \in Seq(Events) /\ held[c] \in Seq(Events)
      /\ Merged \in Seq(Events) /\ InAnalyzer(c) \in Seq(Events) /\ <<e>> \in Seq(Events)
  BY <1>1, FlowTypes, OneFacts
<1>4. Merged' = Merged /\ \A d \in Conns \ {c} : InAnalyzer(d)' = InAnalyzer(d)
  BY <1>2 DEF Merged, InAnalyzer, TypeOK
<1>5. InAnalyzer(c)' = InAnalyzer(c) \o <<e>>
  <2>1. line'[c] = line[c] \o <<e>>
    BY <1>1, <1>2, <1>3, AppendIsConcat DEF TypeOK
  <2>2. (held[c] \o line[c]) \o <<e>> = held[c] \o (line[c] \o <<e>>)
    <3>1. line[c] \in Seq(Events) /\ held[c] \in Seq(Events) /\ <<e>> \in Seq(Events)
      BY <1>3
    <3>2. QED
      BY <3>1, EventsJoin
  <2>3. QED
    BY <2>1, <2>2 DEF InAnalyzer
<1>6. PathOf(c)' = PathOf(c) \o <<e>>
  <2>1. (Merged \o InAnalyzer(c)) \o <<e>> = Merged \o (InAnalyzer(c) \o <<e>>)
    <3>1. Merged \in Seq(Events) /\ InAnalyzer(c) \in Seq(Events) /\ <<e>> \in Seq(Events)
      BY <1>3
    <3>2. QED
      BY <3>1, EventsJoin
  <2>2. QED
    BY <1>4, <1>5, <2>1 DEF PathOf
<1>7. Elems(InAnalyzer(c)') = Elems(InAnalyzer(c)) \cup {e}
  BY <1>1, <1>3, <1>5, ConcatFacts, OneFacts
<1>8. There' = There \cup {e}
  BY <1>4, <1>7 DEF There
<1>9. \A x \in There : x.id \in Nat /\ x.id # taken /\ x.id < taken
  (* It is in sent, so it was taken before. *)
  <2>1. \A x \in There : x.id \in sent
    BY DEF Flow, Settled
  <2>2. \A i \in sent : i \in 1..taken
    BY DEF Counts
  <2>3. QED
    BY <1>1, <2>1, <2>2
<1>10. Own'
  BY <1>1, <1>4, <1>7 DEF Flow, Own
<1>11. Unique'
  BY <1>1, <1>8, <1>9 DEF Flow, Unique
<1>12. InOrder'
  <2>1. Ordered(PathOf(c)')
    <3>1. PathOf(c) \in Seq(Events) /\ Elems(PathOf(c)) \subseteq There
      BY PathFacts
    <3>2. \A x, y : Before(PathOf(c)', x, y) =>
                      Before(PathOf(c), x, y) \/ (x \in There /\ y = e)
      <4>1. \A x, y : Before(PathOf(c) \o <<e>>, x, y) <=>
                        \/ Before(PathOf(c), x, y) \/ Before(<<e>>, x, y)
                        \/ x \in Elems(PathOf(c)) /\ y \in Elems(<<e>>)
        BY <1>3, <3>1, ConcatFacts, Zenon
      <4>2. Elems(<<e>>) = {e} /\ \A x, y : ~ Before(<<e>>, x, y)
        BY <1>1, OneFacts
      <4>3. QED
        BY <1>6, <3>1, <4>1, <4>2
    <3>3. QED
      BY <1>1, <1>9, <3>2 DEF Flow, InOrder, Ordered
  <2>2. \A d \in Conns \ {c} : PathOf(d)' = PathOf(d)
    BY <1>4 DEF PathOf
  <2>3. QED
    BY <2>1, <2>2 DEF Flow, InOrder
<1>13. Settled'
  <2>1. {x.id : x \in There'} = {x.id : x \in There} \cup {taken}
    BY <1>1, <1>8
  <2>2. taken \notin lost
    BY <1>1 DEF Flow, Settled
  <2>3. QED
    BY <1>2, <2>1, <2>2 DEF Flow, Settled
<1>14. QED
  BY <1>10, <1>11, <1>12, <1>13 DEF Flow

(* An event that is written to nobody is sent and lost at once. *)
LEMMA WriteToNobodyFlow ==
  ASSUME Counts, Flow, agent = "sending", NEW c \in Conns, WriteToNobody(c),
         UNCHANGED <<held, event_queue, event, analysed>>
  PROVE  Flow'
<1>1. Merged' = Merged /\ There' = There
  BY DEF WriteToNobody, Merged, InAnalyzer, There
<1>2. \A d \in Conns : InAnalyzer(d)' = InAnalyzer(d) /\ PathOf(d)' = PathOf(d)
  BY <1>1 DEF WriteToNobody, InAnalyzer, PathOf
<1>3. sent' = sent \cup {taken} /\ lost' = lost \cup {taken} /\ taken \notin sent
  BY DEF WriteToNobody, Counts
<1>4. QED
  BY <1>1, <1>2, <1>3 DEF Flow, Own, Unique, InOrder, Settled

(* Everything that is there stays there, or is taken off and lost: what     *)
(* remains is in the order it was in.                                       *)
LEMMA LossFlow ==
  ASSUME TypeOK, Flow, There' \subseteq There, UNCHANGED sent,
         lost' = lost \cup {x.id : x \in There \ There'},
         \A c \in Conns : Elems(InAnalyzer(c)') \subseteq Elems(InAnalyzer(c)),
         \A c \in Conns : \A x, y : Before(PathOf(c)', x, y) => Before(PathOf(c), x, y)
  PROVE  Flow'
<1>1. Own' /\ Unique'
  BY DEF Flow, Own, Unique
<1>2. InOrder'
  BY DEF Flow, InOrder, Ordered
<1>3. Settled'
  <2>1. {x.id : x \in There} = {x.id : x \in There'} \cup {x.id : x \in There \ There'}
    OBVIOUS
  <2>2. {x.id : x \in There'} \cap {x.id : x \in There \ There'} = {}
    BY DEF Flow, Unique
  <2>3. QED
    BY <2>1, <2>2 DEF Flow, Settled
<1>4. QED
  BY <1>1, <1>2, <1>3 DEF Flow

(* The steps of the analyzer that move events without losing or reordering  *)
(* any: a handler reads a line, the worker gets an event and handles it.    *)

(* A handler reads a line. *)
LEMMA ReadLineFlow ==
  ASSUME TypeOK, Flow, NEW c \in Conns, ReadLine(c)
  PROVE  Flow'
<1>1. /\ line[c] \in Seq(Events) /\ line[c] # <<>> /\ held[c] = <<>>
      /\ held' = [held EXCEPT ![c] = <<Head(line[c])>>]
      /\ line' = [line EXCEPT ![c] = Tail(line[c])]
      /\ UNCHANGED <<event_queue, event, analysed, sent, lost>>
  BY DEF TypeOK, ReadLine, AnalyzerStep, agentVars
<1>2. InAnalyzer(c)' = InAnalyzer(c)
  <2>1. held'[c] = <<Head(line[c])>> /\ line'[c] = Tail(line[c])
    BY <1>1 DEF TypeOK
  <2>2. line[c] = <<Head(line[c])>> \o Tail(line[c])
    BY <1>1, HeadTail
  <2>3. <<>> \o line[c] = line[c]
    BY <1>1, ConcatEmptySeq
  <2>4. QED
    BY <1>1, <2>1, <2>2, <2>3 DEF InAnalyzer
<1>3. \A d \in Conns \ {c} : InAnalyzer(d)' = InAnalyzer(d)
  BY <1>1 DEF InAnalyzer, TypeOK
<1>4. Merged' = Merged
  BY <1>1 DEF Merged
<1>5. QED
  BY <1>1, <1>2, <1>3, <1>4, QuietFlow

(* The worker takes an event, or is done with it. *)
LEMMA WorkerFlow ==
  ASSUME TypeOK, Flow, correlation_worker
  PROVE  Flow'
<1>1. UNCHANGED <<held, line, sent, lost>>
  BY DEF correlation_worker, GetEvent, Handle, AnalyzerStep, agentVars
<1>2. /\ analysed \in Seq(Events) /\ event \in Seq(Events) /\ event_queue \in Seq(Events)
      /\ Len(event) <= 1
  BY DEF TypeOK
<1>3. CASE GetEvent
  <2>1. /\ event = <<>> /\ event_queue # <<>> /\ analysed' = analysed
        /\ event' = <<Head(event_queue)>> /\ event_queue' = Tail(event_queue)
    BY <1>3 DEF GetEvent
  <2>2. (analysed \o <<Head(event_queue)>>) \o Tail(event_queue)
          = (analysed \o <<>>) \o event_queue
    BY <1>2, <2>1, MoveHead
  <2>3. Merged' = Merged
    BY <2>1, <2>2 DEF Merged
  <2>4. QED
    BY <1>1, <2>3, QuietFlow DEF InAnalyzer
<1>4. CASE Handle
  <2>1. /\ event # <<>> /\ event' = <<>> /\ analysed' = Append(analysed, event[1])
        /\ event_queue' = event_queue
    BY <1>4 DEF Handle
  <2>2. event[1] \in Events /\ event = <<event[1]>>
    BY <1>2, <2>1, OnePlace
  <2>3. (Append(analysed, event[1]) \o <<>>) \o event_queue
          = (analysed \o <<event[1]>>) \o event_queue
    BY <1>2, <2>2, MovePlace
  <2>4. Merged' = Merged
    BY <2>1, <2>2, <2>3 DEF Merged
  <2>5. QED
    BY <1>1, <2>4, QuietFlow DEF InAnalyzer
<1>5. QED
  BY <1>3, <1>4 DEF correlation_worker

(* A handler puts its event into the queue, behind those of its own         *)
(* connection and others, or drops it.                                      *)
LEMMA PutFlow ==
  ASSUME TypeOK, Flow, NEW c \in Conns, PutEvent(c)
  PROVE  Flow'
<1> DEFINE e == held[c][1]
<1>1. /\ held[c] = <<e>> /\ e \in Events /\ held' = [held EXCEPT ![c] = <<>>]
      /\ UNCHANGED <<line, event, analysed, sent>>
      /\ IF QueueFull THEN lost' = lost \cup {e.id} /\ UNCHANGED event_queue
                      ELSE event_queue' = Append(event_queue, e) /\ UNCHANGED lost
  <2>1. held[c] # <<>> /\ held[c] \in Seq(Events) /\ Len(held[c]) <= 1
    BY DEF TypeOK, PutEvent
  <2>2. QED
    BY <2>1, OnePlace DEF PutEvent, PutLast, AnalyzerStep, agentVars
<1> HIDE DEF e
<1>2. /\ <<e>> \in Seq(Events) /\ Elems(<<e>>) = {e} /\ \A x, y : ~ Before(<<e>>, x, y)
      /\ line[c] \in Seq(Events) /\ Merged \in Seq(Events) /\ event_queue \in Seq(Events)
      /\ analysed \o event \in Seq(Events)
  BY <1>1, OneFacts, FlowTypes, ConcatProperties
<1>3. /\ InAnalyzer(c) = <<e>> \o line[c] /\ InAnalyzer(c)' = line[c]
      /\ \A d \in Conns \ {c} : InAnalyzer(d)' = InAnalyzer(d)
  <2>1. held'[c] = <<>> /\ \A d \in Conns \ {c} : held'[d] = held[d]
    BY <1>1 DEF TypeOK
  <2>2. <<>> \o line[c] = line[c]
    BY <1>2, ConcatEmptySeq
  <2>3. QED
    BY <1>1, <2>1, <2>2 DEF InAnalyzer
<1>4. /\ Elems(InAnalyzer(c)) = {e} \cup Elems(line[c])
      /\ \A x, y : Before(line[c], x, y) => Before(InAnalyzer(c), x, y)
      /\ \A y \in Elems(line[c]) : Before(InAnalyzer(c), e, y)
  <2>1. /\ Elems(<<e>> \o line[c]) = Elems(<<e>>) \cup Elems(line[c])
        /\ \A x, y : Before(<<e>> \o line[c], x, y) <=>
                       \/ Before(<<e>>, x, y) \/ Before(line[c], x, y)
                       \/ x \in Elems(<<e>>) /\ y \in Elems(line[c])
    BY <1>2, ConcatFacts, Zenon
  <2>2. /\ Elems(<<e>>) = {e} /\ \A x, y : ~ Before(<<e>>, x, y)
        /\ InAnalyzer(c) = <<e>> \o line[c]
    BY <1>2, <1>3
  <2>3. QED
    BY <2>1, <2>2, Zenon
<1>5. ASSUME NEW d \in Conns
      PROVE  /\ Elems(PathOf(d)) = Elems(Merged) \cup Elems(InAnalyzer(d))
             /\ \A x, y : Before(PathOf(d), x, y) <=>
                            \/ Before(Merged, x, y) \/ Before(InAnalyzer(d), x, y)
                            \/ x \in Elems(Merged) /\ y \in Elems(InAnalyzer(d))
  BY FlowTypes, ConcatFacts DEF PathOf
<1>6. e.via = c /\ \A d \in Conns : \A x \in Elems(InAnalyzer(d)) : x.via = d
  BY <1>4 DEF Flow, Own
<1>7. \A d \in Conns : Ordered(PathOf(d))
  BY DEF Flow, InOrder
<1>8. CASE QueueFull
  <2>1. Merged' = Merged
    BY <1>1, <1>8 DEF Merged
  <2>2. e \notin Elems(Merged) /\ e \notin Elems(line[c])
    (* It would be before itself. *)
    <3>1. e \in Elems(InAnalyzer(c)) /\ e.id \in Nat
      BY <1>1, <1>4, DeliveryAssumption DEF Events, Ids
    <3>2. ~ Before(PathOf(c), e, e)
      BY <1>7, <3>1 DEF Ordered
    <3>3. QED
      BY <1>4, <1>5, <3>1, <3>2
  <2>3. \A d \in Conns \ {c} : e \notin Elems(InAnalyzer(d))
    BY <1>6
  <2>4. /\ There' = Elems(Merged) \cup Elems(line[c])
                      \cup UNION {Elems(InAnalyzer(d)) : d \in Conns \ {c}}
        /\ There = {e} \cup There'
    BY <1>3, <1>4, <2>1 DEF There
  <2>5. e \notin There' /\ There \ There' = {e}
    BY <2>2, <2>3, <2>4
  <2>6. lost' = lost \cup {x.id : x \in There \ There'}
    BY <1>1, <1>8, <2>5
  <2>7. \A d \in Conns : Elems(InAnalyzer(d)') \subseteq Elems(InAnalyzer(d))
    BY <1>3, <1>4
  <2>8. ASSUME NEW d \in Conns
        PROVE  \A x, y : Before(PathOf(d)', x, y) => Before(PathOf(d), x, y)
    <3>1. CASE d = c
      <4>1. PathOf(c)' = Merged \o line[c]
        BY <1>3, <2>1 DEF PathOf
      <4>2. \A x, y : Before(Merged \o line[c], x, y) =>
                        \/ Before(Merged, x, y) \/ Before(line[c], x, y)
                        \/ x \in Elems(Merged) /\ y \in Elems(line[c])
        BY <1>2, ConcatFacts, Zenon
      <4>3. QED
        BY <1>4, <1>5, <3>1, <4>1, <4>2
    <3>2. CASE d # c
      BY <1>3, <2>1, <3>2 DEF PathOf
    <3>3. QED
      BY <3>1, <3>2
  <2>9. QED
    BY <1>1, <2>4, <2>6, <2>7, <2>8, LossFlow
<1>9. CASE ~ QueueFull
  <2>1. Merged' = Merged \o <<e>>
    <3>1. event_queue' = event_queue \o <<e>>
      BY <1>1, <1>2, <1>9, AppendIsConcat
    <3>2. /\ analysed \o event \in Seq(Events) /\ event_queue \in Seq(Events)
          /\ <<e>> \in Seq(Events)
      BY <1>2
    <3>3. ((analysed \o event) \o event_queue) \o <<e>>
            = (analysed \o event) \o (event_queue \o <<e>>)
      BY <3>2, EventsJoin
    <3>4. QED
      BY <1>1, <3>1, <3>3 DEF Merged
  <2>2. /\ Merged' \in Seq(Events)
        /\ Elems(Merged') = Elems(Merged) \cup {e}
        /\ \A x, y : Before(Merged', x, y) <=>
                       Before(Merged, x, y) \/ (x \in Elems(Merged) /\ y = e)
    <3>1. /\ Merged \o <<e>> \in Seq(Events)
          /\ Elems(Merged \o <<e>>) = Elems(Merged) \cup Elems(<<e>>)
          /\ \A x, y : Before(Merged \o <<e>>, x, y) <=>
                         \/ Before(Merged, x, y) \/ Before(<<e>>, x, y)
                         \/ x \in Elems(Merged) /\ y \in Elems(<<e>>)
      BY <1>2, ConcatFacts, Zenon
    <3>2. QED
      BY <1>2, <2>1, <3>1
  <2>3. There' = There
    <3>1. There = Elems(Merged) \cup Elems(InAnalyzer(c))
                    \cup UNION {Elems(InAnalyzer(d)) : d \in Conns \ {c}}
      BY DEF There
    <3>2. There' = Elems(Merged') \cup Elems(line[c])
                     \cup UNION {Elems(InAnalyzer(d)) : d \in Conns \ {c}}
      BY <1>3 DEF There
    <3>3. QED
      BY <1>4, <2>2, <3>1, <3>2
  <2>4. Own' /\ Unique' /\ Settled'
    BY <1>1, <1>3, <1>4, <1>9, <2>3 DEF Flow, Own, Unique, Settled
  <2>5. ASSUME NEW d \in Conns PROVE Ordered(PathOf(d)')
    <3>1. InAnalyzer(d)' \in Seq(Events)
      BY <1>2, <1>3, FlowTypes
    <3>2. \A x, y : Before(PathOf(d)', x, y) =>
                      \/ Before(Merged', x, y) \/ Before(InAnalyzer(d)', x, y)
                      \/ x \in Elems(Merged') /\ y \in Elems(InAnalyzer(d)')
      BY <2>2, <3>1, ConcatFacts DEF PathOf
    <3>3. CASE d = c
      <4>1. ASSUME NEW x, NEW y, Before(PathOf(c)', x, y)
            PROVE  Before(PathOf(c), x, y)
        <5>1. \/ Before(Merged', x, y) \/ Before(line[c], x, y)
              \/ x \in Elems(Merged') /\ y \in Elems(line[c])
          BY <1>3, <3>2, <3>3, <4>1
        <5>2. CASE Before(Merged', x, y)
          BY <1>4, <1>5, <2>2, <5>2
        <5>3. CASE Before(line[c], x, y)
          BY <1>4, <1>5, <5>3
        <5>4. CASE x \in Elems(Merged') /\ y \in Elems(line[c])
          BY <1>4, <1>5, <2>2, <5>4
        <5>5. QED
          BY <5>1, <5>2, <5>3, <5>4
      <4>2. QED
        BY <1>7, <3>3, <4>1 DEF Ordered
    <3>4. CASE d # c
      (* The event put is none of the connection whose lines it now precedes. *)
      <4>1. InAnalyzer(d)' = InAnalyzer(d)
        BY <1>3, <3>4
      <4>2. ASSUME NEW x, NEW y, Before(PathOf(d)', x, y), x.via = y.via
            PROVE  Before(PathOf(d), x, y) \/ Before(PathOf(c), x, y)
        <5>1. CASE Before(Merged', x, y)
          BY <1>4, <1>5, <2>2, <5>1
        <5>2. CASE Before(InAnalyzer(d), x, y)
          BY <1>5, <5>2
        <5>3. CASE x \in Elems(Merged') /\ y \in Elems(InAnalyzer(d))
          BY <1>5, <1>6, <2>2, <3>4, <4>2, <5>3
        <5>4. QED
          BY <3>2, <4>1, <4>2, <5>1, <5>2, <5>3
      <4>3. QED
        BY <1>7, <4>2 DEF Ordered
    <3>5. QED
      BY <3>3, <3>4
  <2>6. QED
    BY <2>4, <2>5 DEF Flow, InOrder
<1>10. QED
  BY <1>8, <1>9

(* The end of the analyzer leaves what was analysed. *)
LEMMA CrashFlow ==
  ASSUME TypeOK, Flow, CrashAnalyzer
  PROVE  Flow'
<1>1. /\ event' = <<>> /\ event_queue' = <<>> /\ UNCHANGED <<analysed, sent>>
      /\ \A c \in Conns : line'[c] = <<>> /\ held'[c] = <<>>
      /\ lost' = lost \cup IdsOf(event) \cup IdsOf(event_queue)
                      \cup UNION {IdsOf(InAnalyzer(c)) : c \in Conns}
  BY DEF CrashAnalyzer, agentVars
<1>2. /\ analysed \in Seq(Events) /\ event \in Seq(Events) /\ event_queue \in Seq(Events)
      /\ analysed \o event \in Seq(Events) /\ Merged \in Seq(Events)
      /\ \A c \in Conns : InAnalyzer(c) \in Seq(Events)
  BY FlowTypes, ConcatProperties
<1>3. /\ Elems(Merged) = Elems(analysed) \cup Elems(event) \cup Elems(event_queue)
      /\ \A x, y : Before(analysed, x, y) => Before(Merged, x, y)
      /\ \A x \in Elems(analysed), y \in Elems(event) \cup Elems(event_queue) : Before(Merged, x, y)
  <2>1. /\ Elems(analysed \o event) = Elems(analysed) \cup Elems(event)
        /\ \A x, y : Before(analysed \o event, x, y) <=>
                       \/ Before(analysed, x, y) \/ Before(event, x, y)
                       \/ x \in Elems(analysed) /\ y \in Elems(event)
    BY <1>2, ConcatFacts, Zenon
  <2>2. /\ Elems((analysed \o event) \o event_queue)
             = Elems(analysed \o event) \cup Elems(event_queue)
        /\ \A x, y : Before((analysed \o event) \o event_queue, x, y) <=>
                       \/ Before(analysed \o event, x, y) \/ Before(event_queue, x, y)
                       \/ x \in Elems(analysed \o event) /\ y \in Elems(event_queue)
    BY <1>2, ConcatFacts, Zenon
  <2>3. QED
    BY <2>1, <2>2 DEF Merged
<1>4. Merged' = analysed
  <2>1. (analysed \o <<>>) \o <<>> = analysed
    BY <1>2, ConcatEmptySeq
  <2>2. QED
    BY <1>1, <2>1 DEF Merged
<1>5. \A c \in Conns : InAnalyzer(c)' = <<>> /\ PathOf(c)' = analysed
  <2>1. <<>> \o <<>> = <<>> /\ analysed \o <<>> = analysed
    BY <1>2, ConcatEmptySeq
  <2>2. QED
    BY <1>1, <1>4, <2>1 DEF InAnalyzer, PathOf
<1>6. There' = Elems(analysed)
  BY <1>4, <1>5, EmptyFacts DEF There
<1>7. ASSUME NEW c \in Conns
      PROVE  /\ \A x, y : Before(Merged, x, y) => Before(PathOf(c), x, y)
             /\ \A x \in Elems(Merged), y \in Elems(InAnalyzer(c)) : Before(PathOf(c), x, y)
  <2>1. \A x, y : Before(Merged \o InAnalyzer(c), x, y) <=>
                    \/ Before(Merged, x, y) \/ Before(InAnalyzer(c), x, y)
                    \/ x \in Elems(Merged) /\ y \in Elems(InAnalyzer(c))
    BY <1>2, ConcatFacts, Zenon
  <2>2. QED
    BY <2>1 DEF PathOf
<1>8. There' \subseteq There /\ \A c \in Conns : Elems(InAnalyzer(c)') \subseteq Elems(InAnalyzer(c))
  BY <1>3, <1>5, <1>6, EmptyFacts DEF There
<1>9. \A c \in Conns : \A x, y : Before(PathOf(c)', x, y) => Before(PathOf(c), x, y)
  BY <1>3, <1>5, <1>7
<1>10. lost' = lost \cup {x.id : x \in There \ There'}
  <2>1. \A y \in Elems(event) \cup Elems(event_queue) : y \notin Elems(analysed)
    (* It would be before itself, on the path of the connection it came by. *)
    <3>1. ASSUME NEW x \in Elems(analysed), x \in Elems(event) \cup Elems(event_queue)
          PROVE  FALSE
      <4>1. x \in Events
        BY <1>2, ElemsTyped
      <4>2. x.via \in Conns /\ x.id \in Nat
        BY <4>1, DeliveryAssumption DEF Events, Ids
      <4>3. Before(Merged, x, x)
        BY <1>3, <3>1
      <4>4. Before(PathOf(x.via), x, x)
        BY <1>7, <4>2, <4>3
      <4>5. QED
        BY <4>2, <4>4 DEF Flow, InOrder, Ordered
    <3>2. QED
      BY <3>1
  <2>2. ASSUME NEW c \in Conns, NEW y \in Elems(InAnalyzer(c)) PROVE y \notin Elems(analysed)
    <3>1. y.via = c /\ y \in Events
      BY <1>2, ElemsTyped DEF Flow, Own
    <3>2. y.id \in Nat
      BY <3>1, DeliveryAssumption DEF Events, Ids
    <3>3. ~ Before(PathOf(c), y, y)
      BY <3>2 DEF Flow, InOrder, Ordered
    <3>4. QED
      BY <1>3, <1>7, <3>3
  <2>3. There \ There' = Elems(event) \cup Elems(event_queue)
                           \cup UNION {Elems(InAnalyzer(c)) : c \in Conns}
    BY <1>3, <1>6, <2>1, <2>2 DEF There
  <2>4. /\ IdsOf(event) = {x.id : x \in Elems(event)}
        /\ IdsOf(event_queue) = {x.id : x \in Elems(event_queue)}
        /\ \A c \in Conns : IdsOf(InAnalyzer(c)) = {x.id : x \in Elems(InAnalyzer(c))}
    BY <1>2, IdsTyped
  <2>5. UNION {IdsOf(InAnalyzer(c)) : c \in Conns}
          = {x.id : x \in UNION {Elems(InAnalyzer(c)) : c \in Conns}}
    BY <2>4
  <2>6. QED
    BY <1>1, <2>3, <2>4, <2>5
<1>11. QED
  BY <1>1, <1>8, <1>9, <1>10, LossFlow

-----------------------------------------------------------------------------
(* The flow of alerts. *)

(* AlertsFollowAnalysis as one sequence of alerts, before a step ... *)
LEMMA AlertsFollowIs ==
  AlertsFollowAnalysis <=>
    /\ \A a \in Elems(Alerts) : \E x \in Elems(analysed) : x.id = a
    /\ \A a, b : Before(Alerts, a, b) =>
                   \E x, y : Before(analysed, x, y) /\ x.id = a /\ y.id = b
  BY DEF AlertsFollowAnalysis, Elems, Before, IdsOf

(* ... and after it. *)
LEMMA AlertsFollowWillBe ==
  AlertsFollowAnalysis' <=>
    /\ \A a \in Elems(Alerts') : \E x \in Elems(analysed') : x.id = a
    /\ \A a, b : Before(Alerts', a, b) =>
                   \E x, y : Before(analysed', x, y) /\ x.id = a /\ y.id = b
  BY DEF AlertsFollowAnalysis, Elems, Before, IdsOf

(* Fewer alerts of the same analysis. *)
LEMMA FewerAlerts ==
  ASSUME AlertsFollowAnalysis, UNCHANGED analysed,
         Elems(Alerts') \subseteq Elems(Alerts),
         \A a, b : Before(Alerts', a, b) => Before(Alerts, a, b)
  PROVE  AlertsFollowAnalysis'
  BY AlertsFollowIs, AlertsFollowWillBe

(* The alert, if any, of the event that was analysed last. *)
LEMMA HandleAlerts ==
  ASSUME TypeOK, AlertsFollowAnalysis, Handle
  PROVE  AlertsFollowAnalysis'
<1> DEFINE e == event[1]
<1>1. /\ e \in Events /\ analysed' = Append(analysed, e) /\ UNCHANGED <<posted, alert>>
      /\ alert_queue' = Append(alert_queue, e.id) \/ UNCHANGED alert_queue
  BY OnePlace DEF TypeOK, Handle, publish_alert
<1>2. e.id \in Ids
  BY <1>1 DEF Events
<1> HIDE DEF e
<1>3. /\ Elems(analysed') = Elems(analysed) \cup {e}
      /\ \A x, y : Before(analysed', x, y) <=>
                     Before(analysed, x, y) \/ (x \in Elems(analysed) /\ y = e)
  <2>1. /\ analysed \in Seq(Events) /\ <<e>> \in Seq(Events) /\ analysed' = analysed \o <<e>>
        /\ Elems(<<e>>) = {e} /\ \A x, y : ~ Before(<<e>>, x, y)
    BY <1>1, OneFacts, AppendIsConcat DEF TypeOK
  <2>2. /\ Elems(analysed \o <<e>>) = Elems(analysed) \cup Elems(<<e>>)
        /\ \A x, y : Before(analysed \o <<e>>, x, y) <=>
                       \/ Before(analysed, x, y) \/ Before(<<e>>, x, y)
                       \/ x \in Elems(analysed) /\ y \in Elems(<<e>>)
    BY <2>1, ConcatFacts, Zenon
  <2>3. QED
    BY <2>1, <2>2
<1>4. CASE alert_queue' = Append(alert_queue, e.id)
  <2>1. /\ posted \o alert \in Seq(Ids) /\ alert_queue \in Seq(Ids) /\ <<e.id>> \in Seq(Ids)
        /\ Elems(<<e.id>>) = {e.id} /\ \A x, y : ~ Before(<<e.id>>, x, y)
        /\ alert_queue' = alert_queue \o <<e.id>>
    BY <1>2, <1>4, ConcatProperties, OneFacts, AppendIsConcat DEF TypeOK
  <2>2. Alerts \in Seq(Ids)
    BY <2>1, ConcatProperties DEF Alerts
  <2>3. Alerts' = Alerts \o <<e.id>>
    <3>1. ((posted \o alert) \o alert_queue) \o <<e.id>>
            = (posted \o alert) \o (alert_queue \o <<e.id>>)
      BY <2>1, IdsJoin
    <3>2. QED
      BY <1>1, <2>1, <3>1 DEF Alerts
  <2>4. /\ Elems(Alerts \o <<e.id>>) = Elems(Alerts) \cup Elems(<<e.id>>)
        /\ \A x, y : Before(Alerts \o <<e.id>>, x, y) <=>
                       \/ Before(Alerts, x, y) \/ Before(<<e.id>>, x, y)
                       \/ x \in Elems(Alerts) /\ y \in Elems(<<e.id>>)
    BY <2>1, <2>2, ConcatFacts, Zenon
  <2>5. /\ Elems(Alerts') = Elems(Alerts) \cup {e.id}
        /\ \A a, b : Before(Alerts', a, b) =>
                       Before(Alerts, a, b) \/ (a \in Elems(Alerts) /\ b = e.id)
    BY <2>1, <2>3, <2>4
  <2>6. QED
    BY <1>3, <2>5, AlertsFollowIs, AlertsFollowWillBe
<1>5. CASE UNCHANGED alert_queue
  <2>1. Alerts' = Alerts
    BY <1>1, <1>5 DEF Alerts
  <2>2. QED
    BY <1>3, <2>1, AlertsFollowIs, AlertsFollowWillBe
<1>6. QED
  BY <1>1, <1>4, <1>5

(* An alert whose request failed is dropped, the others keep their order. *)
LEMMA PublisherAlerts ==
  ASSUME TypeOK, AlertsFollowAnalysis, alert_publisher
  PROVE  AlertsFollowAnalysis'
<1>1. /\ posted \in Seq(Ids) /\ alert \in Seq(Ids) /\ alert_queue \in Seq(Ids)
      /\ posted \o alert \in Seq(Ids) /\ UNCHANGED analysed
  BY ConcatProperties DEF TypeOK, alert_publisher, GetAlert, PostAlert
<1>2. CASE GetAlert
  <2>1. /\ alert = <<>> /\ alert_queue # <<>> /\ posted' = posted
        /\ alert' = <<Head(alert_queue)>> /\ alert_queue' = Tail(alert_queue)
    BY <1>2 DEF GetAlert
  <2>2. (posted \o <<Head(alert_queue)>>) \o Tail(alert_queue) = (posted \o <<>>) \o alert_queue
    BY <1>1, <2>1, MoveHead
  <2>3. Alerts' = Alerts
    BY <2>1, <2>2 DEF Alerts
  <2>4. QED
    BY <1>1, <2>3, FewerAlerts
<1>3. CASE PostAlert
  <2>1. /\ alert' = <<>> /\ alert_queue' = alert_queue
        /\ posted' = posted \o alert \/ posted' = posted
    BY <1>3 DEF PostAlert, NoRetry
  <2>2. (posted \o alert) \o <<>> = posted \o alert /\ posted \o <<>> = posted
    BY <1>1, ConcatEmptySeq
  <2>3. CASE posted' = posted \o alert
    BY <1>1, <2>1, <2>2, <2>3, FewerAlerts DEF Alerts
  <2>4. CASE posted' = posted
    <3>1. Alerts' = posted \o alert_queue
      BY <2>1, <2>2, <2>4 DEF Alerts
    <3>2. /\ Elems(posted \o alert) = Elems(posted) \cup Elems(alert)
          /\ \A x, y : Before(posted \o alert, x, y) <=>
                         \/ Before(posted, x, y) \/ Before(alert, x, y)
                         \/ x \in Elems(posted) /\ y \in Elems(alert)
      BY <1>1, ConcatFacts, Zenon
    <3>3. /\ Elems(Alerts) = Elems(posted \o alert) \cup Elems(alert_queue)
          /\ \A x, y : Before(Alerts, x, y) <=>
                         \/ Before(posted \o alert, x, y) \/ Before(alert_queue, x, y)
                         \/ x \in Elems(posted \o alert) /\ y \in Elems(alert_queue)
      BY <1>1, ConcatFacts, Zenon DEF Alerts
    <3>4. /\ Elems(posted \o alert_queue) = Elems(posted) \cup Elems(alert_queue)
          /\ \A x, y : Before(posted \o alert_queue, x, y) <=>
                         \/ Before(posted, x, y) \/ Before(alert_queue, x, y)
                         \/ x \in Elems(posted) /\ y \in Elems(alert_queue)
      BY <1>1, ConcatFacts, Zenon
    <3>5. QED
      BY <1>1, <3>1, <3>2, <3>3, <3>4, FewerAlerts
  <2>5. QED
    BY <2>1, <2>3, <2>4
<1>4. QED
  BY <1>2, <1>3 DEF alert_publisher

(* The end of the analyzer loses the alerts that were not posted. *)
LEMMA CrashAlerts ==
  ASSUME TypeOK, AlertsFollowAnalysis, CrashAnalyzer
  PROVE  AlertsFollowAnalysis'
<1>1. alert' = <<>> /\ alert_queue' = <<>> /\ UNCHANGED <<analysed, posted>>
  BY DEF CrashAnalyzer
<1>2. /\ posted \in Seq(Ids) /\ alert \in Seq(Ids) /\ alert_queue \in Seq(Ids)
      /\ posted \o alert \in Seq(Ids)
  BY ConcatProperties DEF TypeOK
<1>3. Alerts' = posted
  <2>1. (posted \o <<>>) \o <<>> = posted
    BY <1>2, ConcatEmptySeq
  <2>2. QED
    BY <1>1, <2>1 DEF Alerts
<1>4. /\ Elems(posted) \subseteq Elems(posted \o alert)
      /\ \A x, y : Before(posted, x, y) => Before(posted \o alert, x, y)
  BY <1>2, ConcatFacts
<1>5. /\ Elems(posted \o alert) \subseteq Elems(Alerts)
      /\ \A x, y : Before(posted \o alert, x, y) => Before(Alerts, x, y)
  <2>1. /\ Elems((posted \o alert) \o alert_queue) = Elems(posted \o alert) \cup Elems(alert_queue)
        /\ \A x, y : Before((posted \o alert) \o alert_queue, x, y) <=>
                       \/ Before(posted \o alert, x, y) \/ Before(alert_queue, x, y)
                       \/ x \in Elems(posted \o alert) /\ y \in Elems(alert_queue)
    BY <1>2, ConcatFacts, Zenon
  <2>2. QED
    BY <2>1 DEF Alerts
<1>6. QED
  BY <1>1, <1>3, <1>4, <1>5, FewerAlerts

-----------------------------------------------------------------------------
(* The invariant is inductive. *)

(* The invariant holds at the start. *)
LEMMA InitIInv == Init => IInv
<1> SUFFICES ASSUME Init PROVE IInv
  OBVIOUS
<1>1. TypeOK
  <2>1. /\ {line, held} \subseteq [Conns -> Seq(Events)]
        /\ \A c \in Conns : Len(line[c]) <= WireSize /\ Len(held[c]) <= 1
    BY DeliveryAssumption, EmptySeq DEF Init
  <2>2. /\ taken \in 0..MaxEvents /\ nconns \in 0..MaxConns /\ faults \in 0..MaxFaults
        /\ link \in [Conns -> {"unused", "open", "finished", "reset", "closed"}]
        /\ handler \in [Conns -> {"none", "reading", "ended"}]
    BY DeliveryAssumption DEF Init
  <2>3. /\ event_queue \in Seq(Events) /\ Len(event_queue) <= QueueSize
        /\ event \in Seq(Events) /\ Len(event) <= 1
        /\ alert_queue \in Seq(Ids) /\ Len(alert_queue) <= AlertQueueSize
        /\ alert \in Seq(Ids) /\ Len(alert) <= 1
        /\ analysed \in Seq(Events) /\ posted \in Seq(Ids)
    BY DeliveryAssumption, EmptySeq DEF Init
  <2>4. /\ agent = "down" /\ stopping = FALSE /\ dialer = "idle" /\ analyzerConn = NoConn
        /\ sent = {} /\ lost = {} /\ up = FALSE
    BY DEF Init
  <2>5. QED
    BY <2>1, <2>2, <2>3, <2>4 DEF TypeOK
<1>2. Counts
  BY DEF Init, Counts
<1>3. AlertsFollowAnalysis
  <2>1. Alerts = <<>>
    BY ConcatEmptySeq, EmptySeq DEF Init, Alerts
  <2>2. QED
    BY <2>1, EmptyFacts, AlertsFollowIs
<1>4. QED
  BY <1>1, <1>2, <1>3, InitFlow DEF IInv

(* Steps that touch no event on its way, and no alert. *)
LEMMA QuietIInv ==
  ASSUME IInv, TypeOK', Counts',
         UNCHANGED <<held, line, event_queue, event, analysed, alert_queue, alert, posted,
                     sent, lost>>
  PROVE  IInv'
<1>1. Flow'
  BY QuietFlow DEF IInv, Merged, InAnalyzer
<1>2. AlertsFollowAnalysis'
  BY DEF IInv, AlertsFollowAnalysis, Alerts, IdsOf
<1>3. QED
  BY <1>1, <1>2 DEF IInv

(* Steps that change neither the alerts nor what was analysed. *)
LEMMA SameAlerts ==
  ASSUME IInv, TypeOK', Counts', Flow', UNCHANGED <<analysed, alert_queue, alert, posted>>
  PROVE  IInv'
  BY DEF IInv, AlertsFollowAnalysis, Alerts, IdsOf

(* A step of the agent. *)
LEMMA AgentIInv ==
  ASSUME IInv, Agent \/ ReadRecord \/ StartAgent \/ Signal \/ Crash
  PROVE  IInv'
<1>1. TypeOK' /\ Counts'
  BY ConnectTypes, SendTypes, AgentTypes DEF IInv, Agent
<1>2. CASE connectToAnalyzer
  BY <1>1, <1>2, QuietIInv
  DEF connectToAnalyzer, DialStart, Dial, Install, analyzerVars
<1>3. CASE sendAnalyzerEvent
  <2>1. agent = "sending" /\ UNCHANGED analyzerVars
    BY <1>3 DEF sendAnalyzerEvent
  <2>2. CASE NotConnected
    BY <1>1, <2>1, <2>2, QuietIInv DEF NotConnected, analyzerVars
  <2>3. ASSUME NEW c \in Conns, Write(c) PROVE IInv'
    BY <1>1, <2>1, <2>3, WriteFlow, SameAlerts DEF IInv, analyzerVars
  <2>4. ASSUME NEW c \in Conns, WriteToNobody(c) PROVE IInv'
    BY <1>1, <2>1, <2>4, WriteToNobodyFlow, SameAlerts DEF IInv, analyzerVars
  <2>5. ASSUME NEW c \in Conns, WriteFails(c) PROVE IInv'
    BY <1>1, <2>1, <2>5, QuietIInv DEF WriteFails, CountWritten, analyzerVars
  <2>6. QED
    BY <1>3, <2>2, <2>3, <2>4, <2>5 DEF sendAnalyzerEvent
<1>4. CASE Stop \/ ReadRecord \/ StartAgent \/ Signal \/ Crash
  BY <1>1, <1>4, QuietIInv DEF Stop, ReadRecord, StartAgent, Signal, Crash, Ended, analyzerVars
<1>5. QED
  BY <1>2, <1>3, <1>4 DEF Agent

(* A step of the analyzer. *)
LEMMA AnalyzerIInv ==
  ASSUME IInv, Analyzer
  PROVE  IInv'
<1>1. ASSUME NEW c \in Conns, Accept(c) \/ handle_agent(c) PROVE IInv'
  <2>1. TypeOK' /\ Counts'
    BY <1>1, HandlerTypes DEF IInv
  <2>2. CASE Accept(c) \/ EndOfAgent(c)
    BY <2>1, <2>2, QuietIInv DEF Accept, EndOfAgent, AnalyzerStep, agentVars
  <2>3. CASE ReadLine(c)
    BY <2>1, <2>3, ReadLineFlow, SameAlerts DEF IInv, ReadLine
  <2>4. CASE PutEvent(c)
    BY <2>1, <2>4, PutFlow, SameAlerts DEF IInv, PutEvent
  <2>5. QED
    BY <1>1, <2>2, <2>3, <2>4 DEF handle_agent
<1>2. CASE correlation_worker
  <2>1. TypeOK' /\ Counts' /\ Flow'
    BY <1>2, WorkerTypes, WorkerFlow DEF IInv
  <2>2. CASE GetEvent
    BY <2>1, <2>2, SameAlerts DEF GetEvent
  <2>3. CASE Handle
    BY <2>1, <2>3, HandleAlerts DEF IInv
  <2>4. QED
    BY <1>2, <2>2, <2>3 DEF correlation_worker
<1>3. CASE alert_publisher
  <2>1. TypeOK' /\ Counts'
    BY <1>3, PublisherTypes DEF IInv
  <2>2. UNCHANGED <<held, line, event_queue, event, analysed, sent, lost>>
    BY <1>3 DEF alert_publisher, GetAlert, PostAlert, AnalyzerStep, agentVars
  <2>3. Flow'
    BY <2>2, QuietFlow DEF IInv, Merged, InAnalyzer
  <2>4. QED
    BY <1>3, <2>1, <2>3, PublisherAlerts DEF IInv
<1>4. QED
  BY <1>1, <1>2, <1>3 DEF Analyzer

(* Every step keeps the invariant. *)
LEMMA NextIInv == IInv /\ [Next]_vars => IInv'
<1> SUFFICES ASSUME IInv, [Next]_vars PROVE IInv'
  OBVIOUS
<1>1. CASE StartAnalyzer
  <2>1. TypeOK' /\ Counts'
    BY <1>1, AnalyzerTypes DEF IInv
  <2>2. QED
    BY <1>1, <2>1, QuietIInv DEF StartAnalyzer, agentVars
<1>2. CASE CrashAnalyzer
  BY <1>2, AnalyzerTypes, CrashFlow, CrashAlerts DEF IInv
<1>3. CASE UNCHANGED vars
  <2>1. TypeOK' /\ Counts'
    BY <1>3 DEF IInv, TypeOK, Counts, vars, agentVars, analyzerVars
  <2>2. QED
    BY <1>3, <2>1, QuietIInv DEF vars, agentVars, analyzerVars
<1>4. QED
  BY <1>1, <1>2, <1>3, AgentIInv, AnalyzerIInv DEF Next, World

-----------------------------------------------------------------------------
(* The strengthened invariant: ids are given out once, an event is of the   *)
(* connection it came by, and what is there and what is lost is what was    *)
(* sent.                                                                    *)
THEOREM Inductive == Spec => []IInv
  BY InitIInv, NextIInv, PTL DEF Spec

(* Types, and no queue or place holds more than it may. *)
THEOREM DeliveryTyped == Spec => []TypeOK
  BY Inductive, PTL DEF IInv

(* Handlers of several connections fill one queue, and the worker takes the *)
(* events of each in the order in which the agent sent them.                *)
THEOREM OrderKept == Spec => []InOrderPerConnection
<1>1. IInv => InOrderPerConnection
  <2> SUFFICES ASSUME IInv, NEW c \in Conns,
                      NEW i \in DOMAIN PathOf(c), NEW j \in DOMAIN PathOf(c),
                      i < j, PathOf(c)[i].via = PathOf(c)[j].via
               PROVE  PathOf(c)[i].id < PathOf(c)[j].id
    BY DEF InOrderPerConnection
  <2>1. Before(PathOf(c), PathOf(c)[i], PathOf(c)[j])
    BY DEF Before
  <2>2. QED
    BY <2>1 DEF IInv, Flow, InOrder, Ordered
<1>2. QED
  BY <1>1, Inductive, PTL

(* An event counted as sent is on its way, analysed or lost for one of the  *)
(* reasons the code has: its queue was full, or the analyzer ended.         *)
THEOREM SentAccounted == Spec => []SentIsAccountedFor
<1>1. IInv => SentIsAccountedFor
  <2> SUFFICES ASSUME IInv PROVE SentIsAccountedFor
    OBVIOUS
  <2>1. /\ IdsOf(Merged) = {x.id : x \in Elems(Merged)}
        /\ \A c \in Conns : IdsOf(InAnalyzer(c)) = {x.id : x \in Elems(InAnalyzer(c))}
    BY FlowTypes, IdsTyped DEF IInv
  <2>2. {x.id : x \in There} = IdsOf(Merged) \cup UNION {IdsOf(InAnalyzer(c)) : c \in Conns}
    BY <2>1 DEF There
  <2>3. QED
    BY <2>2 DEF IInv, Flow, Settled, SentIsAccountedFor
<1>2. QED
  BY <1>1, Inductive, PTL

(* Alerts are of events that were analysed, each posted once at most, and in *)
(* the order of the analysis, although requests fail and time out.          *)
THEOREM AlertsInOrder == Spec => []AlertsFollowAnalysis
  BY Inductive, PTL DEF IInv
-----------------------------------------------------------------------------
(* The refinement. *)

(* At the start nothing was sent. *)
LEMMA InitIntake == Init => Promise!IntakeInit
  BY DEF Init, Promise!IntakeInit

(* What was analysed comes first on every way, in the order in which it was. *)
LEMMA AnalysedFirst ==
  ASSUME TypeOK, NEW c \in Conns
  PROVE  /\ \A x, y : Before(analysed, x, y) => Before(PathOf(c), x, y)
         /\ \A x \in Elems(analysed) :
              \A y \in Elems(event) \cup Elems(event_queue) \cup Elems(InAnalyzer(c)) :
                Before(PathOf(c), x, y)
         /\ Elems(analysed) \cup Elems(event) \cup Elems(event_queue) \cup Elems(InAnalyzer(c))
              = Elems(PathOf(c))
<1> DEFINE p == analysed \o event
           m == p \o event_queue
           r == InAnalyzer(c)
           path == m \o r
<1>1. /\ analysed \in Seq(Events) /\ event \in Seq(Events) /\ event_queue \in Seq(Events)
      /\ r \in Seq(Events)
  BY FlowTypes
<1>2. /\ p \in Seq(Events) /\ Elems(p) = Elems(analysed) \cup Elems(event)
      /\ \A x, y : Before(analysed, x, y) => Before(p, x, y)
      /\ \A x, y : x \in Elems(analysed) /\ y \in Elems(event) => Before(p, x, y)
  BY <1>1, ConcatFacts
<1>3. PathOf(c) = path
  BY DEF Merged, PathOf
<1> HIDE DEF p, r
<1>4. /\ m \in Seq(Events) /\ Elems(m) = Elems(p) \cup Elems(event_queue)
      /\ \A x, y : Before(p, x, y) => Before(m, x, y)
      /\ \A x, y : x \in Elems(p) /\ y \in Elems(event_queue) => Before(m, x, y)
  BY <1>1, <1>2, ConcatFacts
<1> HIDE DEF m
<1>5. /\ Elems(path) = Elems(m) \cup Elems(r)
      /\ \A x, y : Before(m, x, y) => Before(path, x, y)
      /\ \A x, y : x \in Elems(m) /\ y \in Elems(r) => Before(path, x, y)
  BY <1>1, <1>4, ConcatFacts
<1> HIDE DEF path
<1>6. QED
  BY <1>2, <1>3, <1>4, <1>5, Zenon DEF r

(* What waits behind the analysis was sent, is not lost, and comes after what was    *)
(* analysed of its connection.                                                       *)
LEMMA WaitsBehind ==
  ASSUME IInv, NEW c \in Conns,
         NEW e \in Elems(event) \cup Elems(event_queue) \cup Elems(InAnalyzer(c))
  PROVE  /\ e \in Events /\ e.id \in sent /\ e.id \notin lost
         /\ \A x \in Elems(analysed) : x.id # e.id /\ (x.via = e.via => x.id < e.id)
<1>1. e \in There /\ Elems(analysed) \subseteq There
  BY AnalysedFirst, PathFacts DEF IInv
<1>2. e \in Events /\ e.id \in sent /\ e.id \notin lost
  BY <1>1, ThereTyped DEF IInv, Flow, Settled
<1>3. \A x \in Elems(analysed) : x.via = e.via => x.id < e.id
  BY AnalysedFirst DEF IInv, Flow, InOrder, Ordered
<1>4. ASSUME NEW x \in Elems(analysed), x.id = e.id PROVE FALSE
  <2>1. x = e
    BY <1>1, <1>4 DEF IInv, Flow, Unique
  <2>2. e.id < e.id /\ e.id \in Nat
    BY <1>2, <1>3, <2>1, DeliveryAssumption DEF Events, Ids
  <2>3. QED
    BY <2>2
<1>5. QED
  BY <1>2, <1>3, <1>4

(* The ids of what was analysed. *)
LEMMA AnalysedAre == Promise!Analysed = {x.id : x \in Elems(analysed)}
  BY DEF Promise!Analysed, Elems

(* An event is analysed once. *)
LEMMA AnalysedOnce ==
  ASSUME IInv, NEW i \in DOMAIN analysed, NEW j \in DOMAIN analysed, analysed[i].id = analysed[j].id
  PROVE  i = j
<1> DEFINE c == analysed[i].via
<1>1. analysed \in Seq(Events) /\ TypeOK
  BY DEF IInv, TypeOK
<1>2. DOMAIN analysed \subseteq Nat /\ analysed[i] \in Events
  BY <1>1, LenProperties, ElementOfSeq
<1>3. c \in Conns /\ analysed[i].id \in Nat
  BY <1>2, DeliveryAssumption DEF Events, Ids
<1>4. analysed[i] = analysed[j]
  <2>1. analysed[i] \in There /\ analysed[j] \in There
    BY <1>1, <1>3, AnalysedFirst, PathFacts DEF Elems
  <2>2. QED
    BY <2>1 DEF IInv, Flow, Unique
<1>5. ASSUME i # j PROVE FALSE
  <2>1. Before(analysed, analysed[i], analysed[i])
    BY <1>2, <1>4, <1>5 DEF Before
  <2>2. Before(PathOf(c), analysed[i], analysed[i])
    BY <1>1, <1>3, <2>1, AnalysedFirst
  <2>3. analysed[i].id < analysed[i].id
    BY <1>3, <2>2 DEF IInv, Flow, InOrder, Ordered
  <2>4. QED
    BY <1>3, <2>3
<1>6. QED
  BY <1>5

(* What counts as sent is the record taken last, or nothing is. *)
LEMMA SendSends ==
  ASSUME IInv, sendAnalyzerEvent
  PROVE  Promise!Send \/ UNCHANGED <<sent, lost, analysed, posted>>
<1>1. agent = "sending" /\ taken \in Ids /\ taken \notin sent /\ sent \subseteq 1..taken
      /\ UNCHANGED <<analysed, posted>>
  BY DEF IInv, Counts, sendAnalyzerEvent, analyzerVars
<1>2. \A f \in sent : f < taken
  BY <1>1, DeliveryAssumption DEF Ids
<1>3. CASE NotConnected
  BY <1>1, <1>3 DEF NotConnected
<1>4. ASSUME NEW c \in Conns, Write(c) PROVE Promise!Send
  BY <1>1, <1>2, <1>4 DEF Write, Promise!Send
<1>5. ASSUME NEW c \in Conns, WriteToNobody(c) PROVE Promise!Send
  BY <1>1, <1>2, <1>5 DEF WriteToNobody, Promise!Send
<1>6. ASSUME NEW c \in Conns, WriteFails(c) PROVE UNCHANGED <<sent, lost, analysed, posted>>
  BY <1>1, <1>6 DEF WriteFails, CountWritten
<1>7. QED
  BY <1>3, <1>4, <1>5, <1>6 DEF sendAnalyzerEvent

(* A full queue takes an event that was not analysed. *)
LEMMA PutLoses ==
  ASSUME IInv, NEW c \in Conns, PutEvent(c)
  PROVE  Promise!Lose \/ UNCHANGED <<sent, lost, analysed, posted>>
<1> DEFINE e == held[c][1]
<1>1. UNCHANGED <<sent, analysed, posted>> /\ (lost' = lost \cup {e.id} \/ lost' = lost)
  BY DEF PutEvent, AnalyzerStep, agentVars
<1>2. held[c] = <<e>> /\ e \in Events /\ held[c] \in Seq(Events) /\ line[c] \in Seq(Events)
  <2>1. held[c] # <<>> /\ held[c] \in Seq(Events) /\ Len(held[c]) <= 1 /\ line[c] \in Seq(Events)
    BY DEF IInv, TypeOK, PutEvent
  <2>2. QED
    BY <2>1, OnePlace
<1>3. e \in Elems(InAnalyzer(c))
  <2>1. e \in Elems(held[c])
    BY <1>2, OneFacts
  <2>2. QED
    BY <1>2, <2>1, ConcatFacts DEF InAnalyzer
<1>4. e.id \in sent /\ e.id \notin Promise!Analysed
  BY <1>3, WaitsBehind, AnalysedAre
<1>5. QED
  BY <1>1, <1>4 DEF Promise!Lose

(* The end of the analyzer takes what was not analysed. *)
LEMMA CrashLoses ==
  ASSUME IInv, CrashAnalyzer
  PROVE  Promise!Lose
<1> DEFINE some == IdsOf(event) \cup IdsOf(event_queue) \cup UNION {IdsOf(InAnalyzer(c)) : c \in Conns}
<1>1. lost' = lost \cup some /\ UNCHANGED <<sent, analysed, posted>>
  BY DEF CrashAnalyzer, agentVars
<1>2. /\ IdsOf(event) = {x.id : x \in Elems(event)}
      /\ IdsOf(event_queue) = {x.id : x \in Elems(event_queue)}
      /\ \A c \in Conns : IdsOf(InAnalyzer(c)) = {x.id : x \in Elems(InAnalyzer(c))}
  BY FlowTypes, IdsTyped DEF IInv
<1>3. \A c \in Conns : \A e \in Elems(event) \cup Elems(event_queue) \cup Elems(InAnalyzer(c)) :
        e.id \in sent \ Promise!Analysed
  BY WaitsBehind, AnalysedAre
<1>4. \A e \in Elems(event) \cup Elems(event_queue) : e \in Events
  BY FlowTypes, ElemsTyped DEF IInv
<1>5. \A e \in Elems(event) \cup Elems(event_queue) : e.id \in sent \ Promise!Analysed
  BY <1>3, <1>4 DEF Events
<1>6. some \in SUBSET (sent \ Promise!Analysed)
  BY <1>2, <1>3, <1>5
<1> HIDE DEF some
<1>7. QED
  BY <1>1, <1>6 DEF Promise!Lose

(* The event at hand is the next of its connection. *)
LEMMA HandleAnalyses ==
  ASSUME IInv, Handle
  PROVE  Promise!Analyse
<1> DEFINE e == event[1]
<1>1. /\ event = <<e>> /\ e \in Events /\ analysed' = Append(analysed, e)
      /\ UNCHANGED <<sent, lost, posted>>
  BY OnePlace DEF IInv, TypeOK, Handle, AnalyzerStep, agentVars
<1>2. e \in Elems(event)
  BY <1>1, OneFacts
<1>3. e.via \in Conns /\ e = [id |-> e.id, via |-> e.via]
  BY <1>1 DEF Events
<1>4. /\ e.id \in sent /\ e.id \notin lost
      /\ \A x \in Elems(analysed) : x.id # e.id /\ (x.via = e.via => x.id < e.id)
  BY <1>2, <1>3, WaitsBehind
<1>5. e \in [id : sent \ (lost \cup Promise!Analysed), via : Conns]
  BY <1>3, <1>4, AnalysedAre
<1>6. \A i \in DOMAIN analysed : analysed[i].via = e.via => analysed[i].id < e.id
  BY <1>4 DEF Elems
<1> HIDE DEF e
<1>7. QED
  BY <1>1, <1>5, <1>6 DEF Promise!Analyse

(* An alert that is posted is of an event analysed after all that have alerts. *)
LEMMA PostAlerts ==
  ASSUME IInv, PostAlert
  PROVE  Promise!Alert \/ UNCHANGED <<sent, lost, analysed, posted>>
<1> DEFINE a == alert[1]
<1>1. /\ alert = <<a>> /\ a \in Ids /\ UNCHANGED <<sent, lost, analysed>>
      /\ posted' = posted \o <<a>> \/ UNCHANGED posted
  BY OnePlace DEF IInv, TypeOK, PostAlert, AnalyzerStep, agentVars
<1>2. posted \in Seq(Ids) /\ alert_queue \in Seq(Ids) /\ analysed \in Seq(Events)
  BY DEF IInv, TypeOK
<1>3. /\ a \in Elems(Alerts)
      /\ \A i \in DOMAIN posted : Before(Alerts, posted[i], a)
  <2> DEFINE one == <<a>>
             p == posted \o one
  <2>1. one \in Seq(Ids) /\ Elems(one) = {a}
    BY <1>1, OneFacts
  <2>2. Alerts = p \o alert_queue /\ \A i \in DOMAIN posted : posted[i] \in Elems(posted)
    BY <1>1 DEF Alerts, Elems
  <2> HIDE DEF one
  <2>3. /\ p \in Seq(Ids) /\ Elems(p) = Elems(posted) \cup Elems(one)
        /\ \A x, y : x \in Elems(posted) /\ y \in Elems(one) => Before(p, x, y)
    BY <1>2, <2>1, ConcatFacts
  <2> HIDE DEF p
  <2>4. /\ Elems(p) \subseteq Elems(Alerts)
        /\ \A x, y : Before(p, x, y) => Before(Alerts, x, y)
    BY <1>2, <2>2, <2>3, ConcatFacts
  <2>5. QED
    BY <2>1, <2>2, <2>3, <2>4
<1>4. PICK k \in DOMAIN analysed : analysed[k].id = a
  <2>1. \E x \in Elems(analysed) : x.id = a
    BY <1>3, AlertsFollowIs DEF IInv
  <2>2. QED
    BY <2>1 DEF Elems
<1>5. \A i \in DOMAIN posted : \E j \in 1..(k - 1) : analysed[j].id = posted[i]
  <2> SUFFICES ASSUME NEW i \in DOMAIN posted PROVE \E j \in 1..(k - 1) : analysed[j].id = posted[i]
    OBVIOUS
  <2>1. PICK x, y : Before(analysed, x, y) /\ x.id = posted[i] /\ y.id = a
    BY <1>3, AlertsFollowIs DEF IInv
  <2>2. PICK j \in DOMAIN analysed, l \in DOMAIN analysed : j < l /\ analysed[j] = x /\ analysed[l] = y
    BY <2>1 DEF Before
  <2>3. l = k
    BY <1>4, <2>1, <2>2, AnalysedOnce
  <2>4. DOMAIN analysed = 1..Len(analysed) /\ Len(analysed) \in Nat
    BY <1>2, LenProperties
  <2>5. j \in 1..(k - 1)
    BY <2>2, <2>3, <2>4
  <2>6. QED
    BY <2>1, <2>2, <2>5
<1>6. posted \o <<a>> = Append(posted, a)
  BY <1>1, <1>2, AppendIsConcat
<1> HIDE DEF a
<1>7. QED
  BY <1>1, <1>4, <1>5, <1>6 DEF Promise!Alert

(* Every step is one that Intake allows, or it sees none. *)
LEMMA NextIntake == IInv /\ [Next]_vars => [Promise!IntakeNext]_(Promise!intakeVars)
<1> SUFFICES ASSUME IInv, [Next]_vars
             PROVE  Promise!IntakeNext \/ UNCHANGED <<sent, lost, analysed, posted>>
  BY DEF Promise!intakeVars
<1>1. CASE Agent
  <2>1. CASE connectToAnalyzer \/ Stop
    BY <2>1 DEF connectToAnalyzer, DialStart, Dial, Install, Stop, Ended, analyzerVars
  <2>2. QED
    BY <1>1, <2>1, SendSends DEF Agent, Promise!IntakeNext
<1>2. CASE Analyzer
  <2>1. ASSUME NEW c \in Conns, Accept(c) \/ handle_agent(c)
        PROVE  Promise!Lose \/ UNCHANGED <<sent, lost, analysed, posted>>
    <3>1. CASE Accept(c) \/ ReadLine(c) \/ EndOfAgent(c)
      BY <3>1 DEF Accept, ReadLine, EndOfAgent, AnalyzerStep, agentVars
    <3>2. QED
      BY <2>1, <3>1, PutLoses DEF handle_agent
  <2>2. CASE GetEvent \/ GetAlert
    BY <2>2 DEF GetEvent, GetAlert, AnalyzerStep, agentVars
  <2>3. CASE Handle
    BY <2>3, HandleAnalyses DEF Promise!IntakeNext
  <2>4. CASE PostAlert
    BY <2>4, PostAlerts DEF Promise!IntakeNext
  <2>5. QED
    BY <1>2, <2>1, <2>2, <2>3, <2>4
    DEF Analyzer, correlation_worker, alert_publisher, Promise!IntakeNext
<1>3. CASE World
  <2>1. CASE ReadRecord \/ StartAgent \/ Signal \/ Crash \/ StartAnalyzer
    BY <2>1 DEF ReadRecord, StartAgent, Signal, Crash, Ended, StartAnalyzer, agentVars, analyzerVars
  <2>2. CASE CrashAnalyzer
    BY <2>2, CrashLoses DEF Promise!IntakeNext
  <2>3. QED
    BY <1>3, <2>1, <2>2 DEF World
<1>4. CASE UNCHANGED vars
  BY <1>4 DEF vars, agentVars, analyzerVars
<1>5. QED
  BY <1>1, <1>2, <1>3, <1>4 DEF Next

(* Agent and analyzer keep the promises of Intake: what is sent is analysed  *)
(* once at most, in order, or lost, and alerts follow, whatever crashes.     *)
THEOREM DeliveryImplementsIntake == Spec => ImplementsIntake
<1>1. Spec => Promise!IntakeInit /\ [][Promise!IntakeNext]_(Promise!intakeVars)
  BY InitIntake, NextIntake, Inductive, PTL DEF Spec
<1>2. QED
  BY <1>1, PTL DEF ImplementsIntake, Promise!IntakeSpec
=============================================================================
