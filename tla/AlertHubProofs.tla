---------------------------- MODULE AlertHubProofs ----------------------------
(* Proofs of the safety properties of AlertHub, and that it implements       *)
(* AlertFeed, for any number of streams and any capacities.                  *)
EXTENDS AlertHub, SequenceTheorems, TLAPS

(* A connection starts with alerts that were posted before it. *)
OldestOK == \A s \in Streams : oldest[s] <= posted + 1

IInv == TypeOK /\ OldestOK /\ HistoryIsNewest /\ SubscribedWhileServed /\ OnceInOrder

-----------------------------------------------------------------------------
(* Sequences. *)

Increasing(q) == \A i, j \in DOMAIN q : i < j => q[i] < q[j]
Members(q)    == {q[i] : i \in DOMAIN q}

(* What a sequence with one element more is. *)
LEMMA AppendFacts ==
  ASSUME NEW S, NEW q \in Seq(S), NEW x \in S
  PROVE  /\ Append(q, x) \in Seq(S)
         /\ Len(q) \in Nat /\ Len(Append(q, x)) = Len(q) + 1
         /\ \A i \in 1..Len(q) : Append(q, x)[i] = q[i]
         /\ Append(q, x)[Len(q) + 1] = x
  OBVIOUS

(* What is left of a sequence without its first element. *)
LEMMA TailFacts ==
  ASSUME NEW S, NEW q \in Seq(S), q # <<>>
  PROVE  /\ Tail(q) \in Seq(S) /\ Head(q) \in S
         /\ Len(Tail(q)) = Len(q) - 1
         /\ q = <<Head(q)>> \o Tail(q)
  OBVIOUS

(* One alert more than all that are posted keeps the order. *)
LEMMA AppendNewest ==
  ASSUME NEW n \in Nat, NEW q \in Seq(1..n), Increasing(q)
  PROVE  /\ Increasing(Append(q, n + 1))
         /\ Members(Append(q, n + 1)) = Members(q) \cup {n + 1}
<1>1. q \in Seq(1..(n + 1)) /\ n + 1 \in 1..(n + 1)
  BY SeqMonotonic
<1>2. /\ Append(q, n + 1) \in Seq(1..(n + 1))
      /\ Len(q) \in Nat /\ Len(Append(q, n + 1)) = Len(q) + 1
      /\ \A i \in 1..Len(q) : Append(q, n + 1)[i] = q[i]
      /\ Append(q, n + 1)[Len(q) + 1] = n + 1
  BY <1>1, AppendFacts
<1>3. /\ DOMAIN q = 1..Len(q)
      /\ DOMAIN Append(q, n + 1) = 1..(Len(q) + 1)
      /\ \A i \in 1..Len(q) : q[i] \in 1..n
  BY <1>2, LenProperties, ElementOfSeq
<1>4. Increasing(Append(q, n + 1))
  BY <1>2, <1>3 DEF Increasing
<1>5. Members(Append(q, n + 1)) = Members(q) \cup {n + 1}
  BY <1>2, <1>3 DEF Members
<1>6. QED
  BY <1>4, <1>5

(* What moves from the front of one queue to the end of the one before it   *)
(* leaves the two in a row as they were.                                    *)
LEMMA MoveHead ==
  ASSUME NEW S, NEW p \in Seq(S), NEW q \in Seq(S), q # <<>>
  PROVE  Append(p, Head(q)) \o Tail(q) = p \o q
<1>1. Tail(q) \in Seq(S) /\ Head(q) \in S /\ q = <<Head(q)>> \o Tail(q)
  BY TailFacts
<1>2. <<Head(q)>> \in Seq(S) /\ Append(p, Head(q)) = p \o <<Head(q)>>
  BY <1>1, AppendIsConcat
<1>3. (p \o <<Head(q)>>) \o Tail(q) = p \o (<<Head(q)>> \o Tail(q))
  BY <1>1, <1>2, ConcatAssociative
<1>4. QED
  BY <1>1, <1>2, <1>3, Zenon

(* An element put behind the second of two sequences is put behind both. *)
LEMMA AppendToLast ==
  ASSUME NEW S, NEW p \in Seq(S), NEW q \in Seq(S), NEW x \in S
  PROVE  p \o Append(q, x) = Append(p \o q, x)
<1>1. <<x>> \in Seq(S) /\ Append(q, x) = q \o <<x>>
  BY AppendIsConcat
<1>2. p \o q \in Seq(S) /\ Append(p \o q, x) = (p \o q) \o <<x>>
  BY ConcatProperties, AppendIsConcat
<1>3. (p \o q) \o <<x>> = p \o (q \o <<x>>)
  BY <1>1, ConcatAssociative
<1>4. QED
  BY <1>1, <1>2, <1>3, Zenon

(* The head of what is still to be written is newer than all that was. *)
LEMMA HeadIsNext ==
  ASSUME NEW n \in Nat, NEW p \in Seq(1..n), NEW q \in Seq(1..n), q # <<>>,
         Increasing(p \o q)
  PROVE  /\ Head(q) \in Members(p \o q)
         /\ p # <<>> => p[Len(p)] < Head(q)
<1>1. /\ Len(p) \in Nat /\ Len(q) \in Nat \ {0} /\ Head(q) = q[1]
      /\ DOMAIN (p \o q) = 1..(Len(p) + Len(q))
      /\ \A i \in 1..(Len(p) + Len(q)) :
           (p \o q)[i] = IF i <= Len(p) THEN p[i] ELSE q[i - Len(p)]
  BY ConcatProperties, LenProperties, EmptySeq
<1>2. Len(p) + 1 \in DOMAIN (p \o q) /\ (p \o q)[Len(p) + 1] = Head(q)
  BY <1>1
<1>3. p # <<>> => Len(p) \in DOMAIN (p \o q) /\ (p \o q)[Len(p)] = p[Len(p)]
  BY <1>1, EmptySeq
<1>4. Head(q) \in Members(p \o q)
  BY <1>2 DEF Members
<1>5. ASSUME p # <<>> PROVE p[Len(p)] < Head(q)
  <2>1. Len(p) < Len(p) + 1
    BY <1>1
  <2>2. (p \o q)[Len(p)] < (p \o q)[Len(p) + 1]
    BY <1>2, <1>3, <1>5, <2>1, Zenon DEF Increasing
  <2>3. QED
    BY <1>2, <1>3, <1>5, <2>2
<1>6. QED
  BY <1>4, <1>5

-----------------------------------------------------------------------------
(* The parts of the invariant. *)

(* OnceInOrder in terms of the members of a path, before a step ... *)
LEMMA OnceInOrderIs ==
  OnceInOrder <=> \A s \in Streams : state[s] = "open" =>
                    /\ Increasing(Path(s))
                    /\ Members(Path(s)) = (oldest[s]..posted) \ dropped[s]
  BY DEF OnceInOrder, Increasing, Members

(* ... and after it. *)
LEMMA OnceInOrderWillBe ==
  OnceInOrder' <=> \A s \in Streams : state'[s] = "open" =>
                     /\ Increasing(Path(s)')
                     /\ Members(Path(s)') = (oldest'[s]..posted') \ dropped'[s]
  BY DEF OnceInOrder, Increasing, Members

(* A path is a sequence of alerts that were posted. *)
LEMMA PathIsSeq ==
  ASSUME TypeOK, NEW s \in Streams
  PROVE  /\ received[s] \o history[s] \in Seq(1..posted)
         /\ Path(s) \in Seq(1..posted)
  BY ConcatProperties DEF TypeOK, Path

(* The history as its members: the newest alerts, in order. *)
LEMMA HistoryFacts ==
  ASSUME TypeOK, HistoryIsNewest
  PROVE  /\ Len(alerts) = (IF posted < MaxHistory THEN posted ELSE MaxHistory)
         /\ \A i \in 1..Len(alerts) : alerts[i] = posted - Len(alerts) + i
         /\ Increasing(alerts)
         /\ Members(alerts) = (posted + 1 - Len(alerts))..posted
<1>1. /\ Len(alerts) = (IF posted < MaxHistory THEN posted ELSE MaxHistory)
      /\ DOMAIN alerts = 1..Len(alerts)
      /\ \A i \in 1..Len(alerts) : alerts[i] = posted - Len(alerts) + i
  BY AlertHubAssumption DEF TypeOK, HistoryIsNewest
<1>2. Len(alerts) \in Nat /\ posted \in Nat
  BY DEF TypeOK
<1>3. Increasing(alerts)
  BY <1>1, <1>2 DEF Increasing
<1>4. Members(alerts) = (posted + 1 - Len(alerts))..posted
  <2>1. ASSUME NEW a \in (posted + 1 - Len(alerts))..posted
        PROVE  a \in Members(alerts)
    <3>1. a - (posted - Len(alerts)) \in 1..Len(alerts)
      BY <1>2
    <3>2. alerts[a - (posted - Len(alerts))] = a
      BY <1>1, <1>2, <3>1
    <3>3. QED
      BY <1>1, <3>1, <3>2 DEF Members
  <2>2. ASSUME NEW i \in 1..Len(alerts)
        PROVE  alerts[i] \in (posted + 1 - Len(alerts))..posted
    BY <1>1, <1>2
  <2>3. QED
    BY <1>1, <2>1, <2>2 DEF Members
<1>5. QED
  BY <1>1, <1>3, <1>4

(* The invariant holds at the start. *)
LEMMA InitIInv == Init => IInv
<1> SUFFICES ASSUME Init PROVE IInv
  OBVIOUS
<1>1. TypeOK /\ OldestOK
  BY AlertHubAssumption, EmptySeq DEF Init, TypeOK, OldestOK
<1>2. HistoryIsNewest
  BY AlertHubAssumption DEF Init, HistoryIsNewest
<1>3. SubscribedWhileServed /\ OnceInOrder
  BY DEF Init, SubscribedWhileServed, OnceInOrder
<1>4. QED
  BY <1>1, <1>2, <1>3 DEF IInv

-----------------------------------------------------------------------------
(* POST /api/alerts. *)

(* Cutting the history at its limit leaves the newest. *)
LEMMA KeepsNewest ==
  ASSUME TypeOK, HistoryIsNewest, receiveAlert
  PROVE  /\ HistoryIsNewest'
         /\ alerts' \in Seq(1..posted') /\ Len(alerts') <= MaxHistory
<1> DEFINE L == Append(alerts, posted + 1)
           n == Len(alerts)
<1>1. /\ n = (IF posted < MaxHistory THEN posted ELSE MaxHistory)
      /\ posted \in Nat /\ MaxHistory \in Nat \ {0}
      /\ \A i \in 1..n : alerts[i] = posted - n + i
  BY HistoryFacts, AlertHubAssumption DEF TypeOK
<1>2. alerts \in Seq(1..(posted + 1)) /\ posted + 1 \in 1..(posted + 1)
  BY <1>1, SeqMonotonic DEF TypeOK
<1>3. /\ L \in Seq(1..(posted + 1)) /\ Len(L) = n + 1
      /\ DOMAIN L = 1..(n + 1)
      /\ \A i \in 1..(n + 1) : L[i] = posted - n + i
  BY <1>1, <1>2, AppendFacts, LenProperties
<1>4. alerts' = Keep(L, MaxHistory) /\ posted' = posted + 1
  BY DEF receiveAlert
<1> HIDE DEF L, n
<1>5. CASE posted < MaxHistory
  <2>1. alerts' = L
    BY <1>1, <1>3, <1>4, <1>5 DEF Keep
  <2>2. L = [i \in 1..posted' |-> posted' - posted' + i]
    BY <1>1, <1>3, <1>4, <1>5
  <2>3. posted' <= MaxHistory
    BY <1>1, <1>4, <1>5
  <2>4. HistoryIsNewest'
    BY <1>1, <1>4, <2>1, <2>2, <2>3 DEF HistoryIsNewest
  <2>5. QED
    BY <1>1, <1>3, <1>4, <1>5, <2>1, <2>4
<1>6. CASE ~ (posted < MaxHistory)
  <2>1. alerts' = SubSeq(L, 2, n + 1)
    <3>1. Len(L) > MaxHistory /\ Len(L) - MaxHistory + 1 = 2
      BY <1>1, <1>3, <1>6
    <3>2. QED
      BY <1>3, <1>4, <3>1 DEF Keep
  <2>2. ASSUME NEW i \in 2..(n + 1) PROVE L[i] \in 1..(posted + 1)
    <3>1. i \in 1..Len(L)
      BY <1>1, <1>3
    <3>2. QED
      BY <1>3, <3>1, ElementOfSeq
  <2>3. /\ alerts' \in Seq(1..(posted + 1)) /\ Len(alerts') = n
        /\ \A i \in 1..n : alerts'[i] = L[i + 1]
    BY <1>1, <2>1, <2>2, SubSeqProperties
  <2>4. ASSUME NEW i \in 1..n PROVE alerts'[i] = posted' - n + i
    <3>1. i + 1 \in 1..(n + 1) /\ n \in Nat
      BY <1>1
    <3>2. L[i + 1] = posted - n + (i + 1)
      BY <1>3, <3>1
    <3>3. QED
      BY <1>1, <1>4, <2>3, <3>1, <3>2
  <2>5. HistoryIsNewest'
    <3>1. alerts' = [i \in 1..n |-> posted' - n + i]
      BY <2>3, <2>4, LenProperties
    <3>2. n = MaxHistory /\ ~ (posted' < MaxHistory)
      BY <1>1, <1>4, <1>6
    <3>3. QED
      BY <3>1, <3>2 DEF HistoryIsNewest
  <2>6. QED
    BY <1>1, <1>4, <1>6, <2>3, <2>5
<1>7. QED
  BY <1>5, <1>6

(* A stream that is offered an alert has it last in its path, or its        *)
(* channel was full.                                                        *)
LEMMA OfferedPath ==
  ASSUME TypeOK, receiveAlert, NEW s \in Streams, s \in subscribers
  PROVE  IF HasRoom(s)
           THEN Path(s)' = Append(Path(s), posted + 1) /\ UNCHANGED dropped[s]
           ELSE UNCHANGED Path(s) /\ dropped'[s] = dropped[s] \cup {posted + 1}
<1>1. posted \in Nat /\ posted + 1 \in 1..(posted + 1)
  BY DEF TypeOK
<1>2. /\ received[s] \o history[s] \in Seq(1..(posted + 1))
      /\ updates[s] \in Seq(1..(posted + 1)) /\ Path(s) \in Seq(1..(posted + 1))
  <2>1. /\ received[s] \o history[s] \in Seq(1..posted)
        /\ Path(s) \in Seq(1..posted) /\ updates[s] \in Seq(1..posted)
    BY PathIsSeq DEF TypeOK
  <2>2. QED
    BY <1>1, <2>1, SeqMonotonic
<1>3. /\ updates'[s] = Offer(s, posted + 1)
      /\ UNCHANGED <<received, history>>
      /\ dropped'[s] = IF HasRoom(s) THEN dropped[s] ELSE dropped[s] \cup {posted + 1}
  BY DEF receiveAlert, TypeOK
<1>4. CASE HasRoom(s)
  <2>1. Path(s)' = (received[s] \o history[s]) \o Append(updates[s], posted + 1)
    BY <1>3, <1>4 DEF Offer, Path
  <2>2. (received[s] \o history[s]) \o Append(updates[s], posted + 1)
          = Append((received[s] \o history[s]) \o updates[s], posted + 1)
    <3> DEFINE p == received[s] \o history[s]
               q == updates[s]
    <3>1. p \in Seq(1..(posted + 1)) /\ q \in Seq(1..(posted + 1))
      BY <1>2
    <3> HIDE DEF p, q
    <3>2. p \o Append(q, posted + 1) = Append(p \o q, posted + 1)
      BY <1>1, <3>1, AppendToLast, SMTT(20)
    <3>3. QED
      BY <3>2 DEF p, q
  <2>3. QED
    BY <1>3, <1>4, <2>1, <2>2 DEF Path
<1>5. CASE ~ HasRoom(s)
  BY <1>3, <1>5 DEF Offer, Path
<1>6. QED
  BY <1>4, <1>5

(* An alert is posted. *)
LEMMA ReceiveIInv ==
  ASSUME IInv, receiveAlert
  PROVE  IInv'
<1>1. posted \in Nat /\ posted' = posted + 1
  BY DEF IInv, TypeOK, receiveAlert
<1>2. HistoryIsNewest' /\ alerts' \in Seq(1..posted') /\ Len(alerts') <= MaxHistory
  BY KeepsNewest DEF IInv
<1>3. ASSUME NEW s \in Streams
      PROVE  /\ updates'[s] \in Seq(1..posted') /\ Len(updates'[s]) <= Capacity
             /\ history'[s] \in Seq(1..posted') /\ received'[s] \in Seq(1..posted')
  <2>1. /\ updates[s] \in Seq(1..posted') /\ Len(updates[s]) <= Capacity
        /\ history[s] \in Seq(1..posted') /\ received[s] \in Seq(1..posted')
    BY <1>1, SeqMonotonic DEF IInv, TypeOK
  <2>2. /\ posted + 1 \in 1..posted'
        /\ Append(updates[s], posted + 1) \in Seq(1..posted')
        /\ Len(updates[s]) \in Nat
        /\ Len(Append(updates[s], posted + 1)) = Len(updates[s]) + 1
    BY <1>1, <2>1, AppendFacts
  <2>3. UNCHANGED <<history, received>>
    BY DEF receiveAlert
  <2>4. updates'[s] = IF s \in subscribers THEN Offer(s, posted + 1) ELSE updates[s]
    BY DEF receiveAlert
  <2>5. CASE s \in subscribers /\ HasRoom(s)
    <3>1. updates'[s] = Append(updates[s], posted + 1) /\ Len(updates[s]) < Capacity
      BY <2>4, <2>5 DEF Offer, HasRoom
    <3>2. Len(Append(updates[s], posted + 1)) <= Capacity
      BY <2>2, <3>1, AlertHubAssumption
    <3>3. QED
      BY <2>1, <2>2, <2>3, <3>1, <3>2
  <2>6. CASE ~ (s \in subscribers /\ HasRoom(s))
    <3>1. updates'[s] = updates[s]
      BY <2>4, <2>6 DEF Offer
    <3>2. QED
      BY <2>1, <2>3, <3>1
  <2>7. QED
    BY <2>5, <2>6
<1>4. TypeOK'
  <2>1. dropped' \in [Streams -> SUBSET (1..posted')]
    BY <1>1 DEF IInv, TypeOK, receiveAlert
  <2>2. {updates', history', received'} \subseteq [Streams -> Seq(1..posted')]
    BY <1>3 DEF IInv, TypeOK, receiveAlert
  <2>3. QED
    BY <1>1, <1>2, <1>3, <2>1, <2>2 DEF IInv, TypeOK, receiveAlert
<1>5. OldestOK' /\ SubscribedWhileServed'
  BY <1>1 DEF IInv, TypeOK, OldestOK, SubscribedWhileServed, receiveAlert
<1>6. OnceInOrder'
  <2> SUFFICES ASSUME NEW s \in Streams, state'[s] = "open"
               PROVE  /\ Increasing(Path(s)')
                      /\ Members(Path(s)') = (oldest'[s]..posted') \ dropped'[s]
    BY OnceInOrderWillBe
  <2>1. UNCHANGED <<state, oldest>>
    BY DEF receiveAlert
  <2>2. /\ Increasing(Path(s)) /\ Path(s) \in Seq(1..posted)
        /\ Members(Path(s)) = (oldest[s]..posted) \ dropped[s]
        /\ oldest[s] \in Nat /\ oldest[s] <= posted + 1 /\ dropped[s] \subseteq 1..posted
    BY <2>1, OnceInOrderIs, PathIsSeq DEF IInv, OldestOK, TypeOK
  <2>3. s \in subscribers
    BY <2>1 DEF IInv, SubscribedWhileServed
  <2>4. oldest[s]..(posted + 1) = (oldest[s]..posted) \cup {posted + 1}
    BY <1>1, <2>2
  <2>5. posted + 1 \notin dropped[s] /\ posted + 1 \notin oldest[s]..posted
    BY <1>1, <2>2
  <2>6. CASE HasRoom(s)
    <3>1. Path(s)' = Append(Path(s), posted + 1) /\ dropped'[s] = dropped[s]
      BY <2>3, <2>6, OfferedPath DEF IInv
    <3>2. /\ Increasing(Append(Path(s), posted + 1))
          /\ Members(Append(Path(s), posted + 1)) = Members(Path(s)) \cup {posted + 1}
      BY <1>1, <2>2, AppendNewest
    <3>3. QED
      BY <1>1, <2>1, <2>2, <2>4, <2>5, <3>1, <3>2
  <2>7. CASE ~ HasRoom(s)
    <3>1. Path(s)' = Path(s) /\ dropped'[s] = dropped[s] \cup {posted + 1}
      BY <2>3, <2>7, OfferedPath DEF IInv
    <3>2. QED
      BY <1>1, <2>1, <2>2, <2>4, <2>5, <3>1
  <2>8. QED
    BY <2>6, <2>7
<1>7. QED
  BY <1>2, <1>4, <1>5, <1>6 DEF IInv

-----------------------------------------------------------------------------
(* GET /api/alerts.  Only the actions of one stream change its path, and     *)
(* none of them the alerts posted.                                           *)

(* A step of one stream leaves the others as they are. *)
LEMMA StreamIInv ==
  ASSUME IInv, NEW t \in Streams, UNCHANGED <<posted, alerts>>, TypeOK', OldestOK',
         SubscribedWhileServed',
         \A s \in Streams \ {t} :
           UNCHANGED <<received[s], history[s], updates[s], state[s], oldest[s], dropped[s]>>,
         state'[t] = "open" => /\ Increasing(Path(t)')
                               /\ Members(Path(t)') = (oldest'[t]..posted) \ dropped'[t]
  PROVE  IInv'
<1>1. HistoryIsNewest'
  BY DEF IInv, HistoryIsNewest
<1>2. OnceInOrder'
  <2> SUFFICES ASSUME NEW s \in Streams, state'[s] = "open"
               PROVE  /\ Increasing(Path(s)')
                      /\ Members(Path(s)') = (oldest'[s]..posted') \ dropped'[s]
    BY OnceInOrderWillBe
  <2>1. CASE s = t
    BY <2>1
  <2>2. CASE s # t
    <3>1. Path(s)' = Path(s)
      BY <2>2 DEF Path
    <3>2. QED
      BY <2>2, <3>1, OnceInOrderIs DEF IInv
  <2>3. QED
    BY <2>1, <2>2
<1>3. QED
  BY <1>1, <1>2 DEF IInv

(* A browser connects. *)
LEMMA ConnectIInv ==
  ASSUME IInv, NEW t \in Streams, alertStream(t)
  PROVE  IInv'
<1>1. /\ Len(alerts) \in Nat /\ Len(alerts) <= posted /\ posted \in Nat
      /\ Increasing(alerts)
      /\ Members(alerts) = (posted + 1 - Len(alerts))..posted
  <2>1. /\ Len(alerts) = (IF posted < MaxHistory THEN posted ELSE MaxHistory)
        /\ Increasing(alerts)
        /\ Members(alerts) = (posted + 1 - Len(alerts))..posted
    BY HistoryFacts DEF IInv
  <2>2. Len(alerts) \in Nat /\ posted \in Nat
    BY DEF IInv, TypeOK
  <2>3. QED
    BY <2>1, <2>2, AlertHubAssumption
<1>2. TypeOK'
  BY <1>1, AlertHubAssumption, EmptySeq DEF IInv, TypeOK, alertStream, Copy
<1>3. OldestOK'
  BY <1>1 DEF IInv, TypeOK, OldestOK, alertStream
<1>4. SubscribedWhileServed'
  BY DEF IInv, TypeOK, SubscribedWhileServed, alertStream
<1>5. /\ received'[t] = <<>> /\ history'[t] = alerts /\ updates'[t] = <<>>
      /\ oldest'[t] = posted + 1 - Len(alerts) /\ dropped'[t] = {}
  BY DEF IInv, TypeOK, alertStream, Copy
<1>6. Path(t)' = alerts
  <2>1. alerts \in Seq(1..posted)
    BY DEF IInv, TypeOK
  <2>2. (<<>> \o alerts) \o <<>> = alerts
    BY <2>1, ConcatEmptySeq
  <2>3. QED
    BY <1>5, <2>2 DEF Path
<1>7. \A s \in Streams \ {t} :
        UNCHANGED <<received[s], history[s], updates[s], state[s], oldest[s], dropped[s]>>
  BY DEF IInv, TypeOK, alertStream
<1>8. UNCHANGED <<posted, alerts>>
  BY DEF alertStream
<1>9. QED
  BY <1>1, <1>2, <1>3, <1>4, <1>5, <1>6, <1>7, <1>8, StreamIInv

(* What the handler of an open stream writes was in its path already. *)
LEMMA WrittenPath ==
  ASSUME IInv, NEW t \in Streams, WriteHistory(t) \/ WriteUpdate(t), state[t] = "open"
  PROVE  Path(t)' = Path(t)
<1>1. /\ received[t] \in Seq(1..posted) /\ history[t] \in Seq(1..posted)
      /\ updates[t] \in Seq(1..posted)
  BY DEF IInv, TypeOK
<1>2. CASE WriteHistory(t)
  <2>1. /\ history[t] # <<>> /\ updates'[t] = updates[t]
        /\ received'[t] = Append(received[t], Head(history[t]))
        /\ history'[t] = Tail(history[t])
    BY <1>2 DEF IInv, TypeOK, WriteHistory, Written
  <2>2. Append(received[t], Head(history[t])) \o Tail(history[t]) = received[t] \o history[t]
    BY <1>1, <2>1, MoveHead
  <2>3. QED
    BY <2>1, <2>2 DEF Path
<1>3. CASE WriteUpdate(t)
  <2>1. /\ history[t] = <<>> /\ updates[t] # <<>> /\ history'[t] = <<>>
        /\ received'[t] = Append(received[t], Head(updates[t]))
        /\ updates'[t] = Tail(updates[t])
    BY <1>3 DEF IInv, TypeOK, WriteUpdate, Written, HistoryWritten
  <2>2. Append(received[t], Head(updates[t])) \o Tail(updates[t]) = received[t] \o updates[t]
    BY <1>1, <2>1, MoveHead
  <2>3. Append(received[t], Head(updates[t])) \in Seq(1..posted)
    BY <1>1, <2>1, TailFacts, AppendFacts
  <2>4. /\ received[t] \o <<>> = received[t]
        /\ Append(received[t], Head(updates[t])) \o <<>>
             = Append(received[t], Head(updates[t]))
    BY <1>1, <2>3, ConcatEmptySeq
  <2>5. QED
    BY <2>1, <2>2, <2>4 DEF Path
<1>4. QED
  BY <1>2, <1>3

(* The handler of a stream writes an alert. *)
LEMMA WriteIInv ==
  ASSUME IInv, NEW t \in Streams, WriteHistory(t) \/ WriteUpdate(t)
  PROVE  IInv'
<1>1. ASSUME NEW s \in Streams
      PROVE  /\ updates'[s] \in Seq(1..posted) /\ Len(updates'[s]) <= Capacity
             /\ history'[s] \in Seq(1..posted) /\ received'[s] \in Seq(1..posted)
  <2>1. /\ updates[s] \in Seq(1..posted) /\ Len(updates[s]) <= Capacity
        /\ history[s] \in Seq(1..posted) /\ received[s] \in Seq(1..posted)
    BY DEF IInv, TypeOK
  <2>2. history[s] # <<>> =>
          /\ Tail(history[s]) \in Seq(1..posted)
          /\ Append(received[s], Head(history[s])) \in Seq(1..posted)
    BY <2>1, TailFacts, AppendFacts
  <2>3. ASSUME updates[s] # <<>>
        PROVE  /\ Tail(updates[s]) \in Seq(1..posted) /\ Len(Tail(updates[s])) <= Capacity
               /\ Append(received[s], Head(updates[s])) \in Seq(1..posted)
    <3>1. /\ Tail(updates[s]) \in Seq(1..posted) /\ Head(updates[s]) \in 1..posted
          /\ Len(Tail(updates[s])) = Len(updates[s]) - 1
      BY <2>1, <2>3, TailFacts
    <3>2. Append(received[s], Head(updates[s])) \in Seq(1..posted)
      BY <2>1, <3>1, AppendFacts
    <3>3. Len(updates[s]) \in Nat
      BY <2>1, LenProperties
    <3>4. QED
      BY <2>1, <3>1, <3>2, <3>3, AlertHubAssumption
  <2>4. CASE WriteHistory(t)
    <3>1. /\ history[t] # <<>> /\ updates' = updates
          /\ history' = [history EXCEPT ![t] = Tail(history[t])]
          /\ \/ received' = received
             \/ received' = [received EXCEPT ![t] = Append(received[t], Head(history[t]))]
      BY <2>4 DEF WriteHistory, Written
    <3>2. QED
      BY <2>1, <2>2, <3>1 DEF IInv, TypeOK
  <2>5. CASE WriteUpdate(t)
    <3>1. /\ updates[t] # <<>> /\ history' = history
          /\ updates' = [updates EXCEPT ![t] = Tail(updates[t])]
          /\ \/ received' = received
             \/ received' = [received EXCEPT ![t] = Append(received[t], Head(updates[t]))]
      BY <2>5 DEF WriteUpdate, Written
    <3>2. QED
      BY <2>1, <2>3, <3>1 DEF IInv, TypeOK
  <2>6. QED
    BY <2>4, <2>5
<1>2. UNCHANGED <<posted, alerts, subscribers, state, oldest, dropped, connects>>
  BY DEF WriteHistory, WriteUpdate
<1>3. TypeOK'
  <2>1. /\ updates' = [s \in Streams |-> updates'[s]]
        /\ history' = [s \in Streams |-> history'[s]]
        /\ received' = [s \in Streams |-> received'[s]]
    BY DEF IInv, TypeOK, WriteHistory, WriteUpdate, Written
  <2>2. {updates', history', received'} \subseteq [Streams -> Seq(1..posted)]
    BY <1>1, <2>1
  <2>3. QED
    BY <1>1, <1>2, <2>2 DEF IInv, TypeOK
<1>4. OldestOK' /\ SubscribedWhileServed'
  BY <1>2 DEF IInv, OldestOK, SubscribedWhileServed
<1>5. \A s \in Streams \ {t} :
        UNCHANGED <<received[s], history[s], updates[s], state[s], oldest[s], dropped[s]>>
  BY DEF IInv, TypeOK, WriteHistory, WriteUpdate, Written
<1>6. state'[t] = "open" => /\ Increasing(Path(t)')
                            /\ Members(Path(t)') = (oldest'[t]..posted) \ dropped'[t]
  BY <1>2, WrittenPath, OnceInOrderIs DEF IInv
<1>7. QED
  BY <1>2, <1>3, <1>4, <1>5, <1>6, StreamIInv

(* A browser leaves. *)
LEMMA LeaveIInv ==
  ASSUME IInv, NEW t \in Streams, Disconnect(t) \/ Unsubscribe(t)
  PROVE  IInv'
<1>1. TypeOK'
  <2>1. subscribers' \subseteq Streams /\ state' \in [Streams -> {"closed", "open", "gone"}]
    BY DEF IInv, TypeOK, Disconnect, Unsubscribe, Without
  <2>2. UNCHANGED <<posted, alerts, updates, history, received, oldest, dropped, connects>>
    BY DEF Disconnect, Unsubscribe
  <2>3. QED
    BY <2>1, <2>2 DEF IInv, TypeOK
<1>2. OldestOK' /\ SubscribedWhileServed'
  <2>1. OldestOK'
    BY DEF IInv, TypeOK, OldestOK, Disconnect, Unsubscribe
  <2>2. SubscribedWhileServed'
    BY DEF IInv, TypeOK, SubscribedWhileServed, Disconnect, Unsubscribe, Without
  <2>3. QED
    BY <2>1, <2>2
<1>3. /\ UNCHANGED <<posted, alerts>> /\ state'[t] # "open"
      /\ \A s \in Streams \ {t} :
           UNCHANGED <<received[s], history[s], updates[s], state[s], oldest[s], dropped[s]>>
  BY DEF IInv, TypeOK, Disconnect, Unsubscribe
<1>4. QED
  BY <1>1, <1>2, <1>3, StreamIInv

(* Every step keeps the invariant. *)
LEMMA NextIInv == IInv /\ [Next]_vars => IInv'
<1> SUFFICES ASSUME IInv, [Next]_vars PROVE IInv'
  OBVIOUS
<1>1. CASE UNCHANGED vars
  <2>1. TypeOK' /\ OldestOK' /\ HistoryIsNewest' /\ SubscribedWhileServed'
    BY <1>1 DEF vars, IInv, TypeOK, OldestOK, HistoryIsNewest, SubscribedWhileServed
  <2>2. UNCHANGED <<state, oldest, posted, dropped>> /\ \A t \in Streams : Path(t)' = Path(t)
    BY <1>1 DEF vars, Path
  <2>3. OnceInOrder'
    BY <2>2 DEF IInv, OnceInOrder
  <2>4. QED
    BY <2>1, <2>3 DEF IInv
<1>2. QED
  BY <1>1, ReceiveIInv, ConnectIInv, WriteIInv, LeaveIInv DEF Next, Stream

-----------------------------------------------------------------------------
(* The strengthened invariant: the history is the newest alerts, and what a *)
(* stream has written and will write is, in order, what was posted since    *)
(* the oldest of its history but for what it had no room for.               *)
THEOREM Inductive == Spec => []IInv
  BY InitIInv, NextIInv, PTL DEF Spec

(* Types, and neither history nor channel grows past its capacity. *)
THEOREM HubTyped == Spec => []TypeOK
  BY Inductive, PTL DEF IInv

(* receiveAlert keeps the newest alerts, without a gap. *)
THEOREM KeepsTheNewest == Spec => []HistoryIsNewest
  BY Inductive, PTL DEF IInv

(* A browser sees every alert once and in order, but those its channel had  *)
(* no room for, although the history and the channel are read apart.        *)
THEOREM SeenOnceInOrder == Spec => []OnceInOrder
  BY Inductive, PTL DEF IInv

(* The deferred function of alertStream leaves no channel behind. *)
THEOREM NoChannelLeft == Spec => []SubscribedWhileServed
  BY Inductive, PTL DEF IInv

-----------------------------------------------------------------------------
(* The refinement. *)

(* An empty hub is an empty feed. *)
LEMMA InitFeed == Init => Feed!FeedInit
  BY DEF Init, Feed!FeedInit

(* A write to an open stream delivers the next alert of its path.  *)
LEMMA WriteDelivers ==
  ASSUME IInv, NEW t \in Streams, WriteHistory(t) \/ WriteUpdate(t), state[t] = "open"
  PROVE  Feed!Deliver(t)
<1>1. /\ received[t] \in Seq(1..posted) /\ history[t] \in Seq(1..posted)
      /\ updates[t] \in Seq(1..posted) /\ posted \in Nat /\ oldest[t] \in Nat \ {0}
      /\ received \in [Streams -> Seq(1..posted)]
  BY DEF IInv, TypeOK, WriteHistory, WriteUpdate, Written
<1>2. /\ Increasing(Path(t))
      /\ Members(Path(t)) = (oldest[t]..posted) \ dropped[t]
  BY OnceInOrderIs DEF IInv
<1>3. PICK q \in Seq(1..posted) :
        /\ q # <<>> /\ Path(t) = received[t] \o q
        /\ received' = [received EXCEPT ![t] = Append(received[t], Head(q))]
  <2>1. CASE WriteHistory(t)
    <3>1. history[t] # <<>> /\ received' = [received EXCEPT ![t] = Append(@, Head(history[t]))]
      BY <2>1 DEF WriteHistory, Written
    <3> DEFINE r == received[t]
               h == history[t]
               u == updates[t]
    <3>2. r \in Seq(1..posted) /\ h \in Seq(1..posted) /\ u \in Seq(1..posted) /\ h # <<>>
      BY <1>1, <3>1
    <3> HIDE DEF r, h, u
    <3>3. h \o u \in Seq(1..posted) /\ h \o u # <<>> /\ Head(h \o u) = Head(h)
      BY <3>2
    <3>4. (r \o h) \o u = r \o (h \o u)
      BY <3>2, ConcatAssociative, SMTT(20)
    <3>5. QED
      BY <3>1, <3>3, <3>4 DEF Path, r, h, u
  <2>2. CASE WriteUpdate(t)
    <3>1. /\ history[t] = <<>> /\ updates[t] # <<>>
          /\ received' = [received EXCEPT ![t] = Append(@, Head(updates[t]))]
      BY <2>2 DEF WriteUpdate, Written, HistoryWritten
    <3>2. Path(t) = received[t] \o updates[t]
      BY <1>1, <3>1, ConcatEmptySeq DEF Path
    <3>3. QED
      BY <1>1, <3>1, <3>2
  <2>3. QED
    BY <2>1, <2>2
<1>4. /\ Head(q) \in (oldest[t]..posted) \ dropped[t]
      /\ received[t] # <<>> => received[t][Len(received[t])] < Head(q)
  BY <1>1, <1>2, <1>3, HeadIsNext
<1>5. received[t] # <<>> => received[t][Len(received[t])] \in Nat
  BY <1>1, LenProperties, EmptySeq, ElementOfSeq
<1>6. Head(q) \in (Feed!Last(t) + 1)..posted
  BY <1>1, <1>4, <1>5, SMTT(20) DEF Feed!Last
<1>7. UNCHANGED <<posted, oldest>>
  BY DEF WriteHistory, WriteUpdate
<1>8. QED
  BY <1>3, <1>6, <1>7 DEF Feed!Deliver

(* Every step of the hub is one of the feed, or none. *)
LEMMA NextFeed == IInv /\ [Next]_vars => [Feed!FeedNext]_(Feed!feedVars)
<1> SUFFICES ASSUME IInv, [Next]_vars PROVE Feed!FeedNext \/ UNCHANGED Feed!feedVars
  OBVIOUS
<1>1. CASE receiveAlert
  BY <1>1 DEF receiveAlert, Feed!FeedNext, Feed!Post
<1>2. ASSUME NEW t \in Streams, alertStream(t) PROVE Feed!FeedNext
  <2>1. Len(alerts) \in Nat /\ Len(alerts) <= posted /\ posted \in Nat /\ Len(alerts) <= MaxHistory
    BY HistoryFacts, AlertHubAssumption DEF IInv, TypeOK
  <2>2. /\ posted + 1 - Len(alerts) \in 1..(posted + 1)
        /\ posted + 1 - (posted + 1 - Len(alerts)) <= MaxHistory
    BY <2>1
  <2>3. QED
    BY <1>2, <2>2 DEF alertStream, Feed!FeedNext, Feed!Connect
<1>3. ASSUME NEW t \in Streams, WriteHistory(t) \/ WriteUpdate(t)
      PROVE  Feed!FeedNext \/ UNCHANGED Feed!feedVars
  <2>1. CASE state[t] = "open"
    BY <1>3, <2>1, WriteDelivers DEF Feed!FeedNext
  <2>2. CASE state[t] # "open"
    BY <1>3, <2>2 DEF WriteHistory, WriteUpdate, Written, Feed!feedVars
  <2>3. QED
    BY <2>1, <2>2
<1>4. ASSUME NEW t \in Streams, Disconnect(t) \/ Unsubscribe(t)
      PROVE  UNCHANGED Feed!feedVars
  BY <1>4 DEF Disconnect, Unsubscribe, Feed!feedVars
<1>5. CASE UNCHANGED vars
  BY <1>5 DEF vars, Feed!feedVars
<1>6. QED
  BY <1>1, <1>2, <1>3, <1>4, <1>5 DEF Next, Stream

(* The alert stream keeps the promises of AlertFeed: alerts that were       *)
(* posted, in order, each at most once, none older than the history.        *)
THEOREM HubImplementsFeed == Spec => ImplementsFeed
<1>1. Spec => Feed!FeedInit /\ [][Feed!FeedNext]_(Feed!feedVars)
  BY InitFeed, NextFeed, Inductive, PTL DEF Spec
<1>2. QED
  BY <1>1, PTL DEF ImplementsFeed, Feed!FeedSpec
=============================================================================
