------------------------------ MODULE AlertHub -------------------------------
(* The alert stream of the web server (web/main.go): receiveAlert keeps the *)
(* last alerts and offers each new one to the channels of the subscribers;  *)
(* alertStream writes the history it found and then what its channel gives, *)
(* until the browser goes.  Alerts are numbered as they are accepted.       *)
EXTENDS Integers, Sequences

CONSTANTS
  Streams,      \* connections to GET /api/alerts that may be open at a time
  MaxHistory,   \* alerts kept (500 in the code)
  Capacity,     \* of a subscriber's channel (32 in the code)
  MaxAlerts,    \* bound: alerts posted
  MaxConnects   \* bound: connections made

ASSUME AlertHubAssumption ==
  /\ MaxHistory \in Nat \ {0}
  /\ Capacity \in Nat \ {0}
  /\ MaxAlerts \in Nat /\ MaxConnects \in Nat

VARIABLES
  posted,       \* number of alerts accepted
  alerts,       \* the history
  subscribers,  \* streams whose channel is registered
  updates,      \* stream -> its channel
  history,      \* stream -> what is left to write of the history it copied
  state,        \* stream -> closed, open, or gone: the browser went, the handler goes on
  received,     \* stream -> what it wrote to its present connection
  oldest,       \* history: stream -> first alert the connection should show
  dropped,      \* history: stream -> alerts its channel had no room for
  connects      \* connections made

vars == <<posted, alerts, subscribers, updates, history, state, received, oldest,
          dropped, connects>>

Init ==
  /\ posted = 0 /\ alerts = <<>> /\ subscribers = {}
  /\ updates = [s \in Streams |-> <<>>]
  /\ history = [s \in Streams |-> <<>>]
  /\ state = [s \in Streams |-> "closed"]
  /\ received = [s \in Streams |-> <<>>]
  /\ oldest = [s \in Streams |-> 1]
  /\ dropped = [s \in Streams |-> {}]
  /\ connects = 0

-----------------------------------------------------------------------------
(* POST /api/alerts. *)

(* The newest n members of a sequence.  Bug: one too few are dropped. *)
KeepLate(q, n) == IF Len(q) > n + 1 THEN SubSeq(q, 2, Len(q)) ELSE q
Keep(q, n)     == IF Len(q) > n THEN SubSeq(q, Len(q) - n + 1, Len(q)) ELSE q

HasRoom(s) == Len(updates[s]) < Capacity

(* What the channel of a stream holds after an offer: select with default   *)
(* leaves a full one as it is.  Bug: the oldest alert makes room.           *)
OfferNewest(s, a) == IF HasRoom(s) THEN Append(updates[s], a)
                     ELSE Append(Tail(updates[s]), a)
Offer(s, a)       == IF HasRoom(s) THEN Append(updates[s], a) ELSE updates[s]

(* The whole of it happens under app.mu. *)
receiveAlert ==
  LET a == posted + 1 IN
  /\ posted < MaxAlerts
  /\ posted' = a
  /\ alerts' = Keep(Append(alerts, a), MaxHistory)
  /\ updates' = [s \in Streams |-> IF s \in subscribers THEN Offer(s, a) ELSE updates[s]]
  /\ dropped' = [s \in Streams |-> IF s \in subscribers /\ ~ HasRoom(s)
                                     THEN dropped[s] \cup {a} ELSE dropped[s]]
  /\ UNCHANGED <<subscribers, history, state, received, oldest, connects>>

-----------------------------------------------------------------------------
(* GET /api/alerts. *)

(* The history a new stream starts from.  Bug: the newest alert is left to  *)
(* the channel, which it will not reach.                                    *)
CopyAllButNewest == SubSeq(alerts, 1, Len(alerts) - 1)
Copy             == alerts

(* The copy and the registration, in one critical section. *)
alertStream(s) ==
  /\ state[s] = "closed" /\ connects < MaxConnects
  /\ connects' = connects + 1
  /\ state' = [state EXCEPT ![s] = "open"]
  /\ updates' = [updates EXCEPT ![s] = <<>>]
  /\ history' = [history EXCEPT ![s] = Copy]
  /\ subscribers' = subscribers \cup {s}
  /\ received' = [received EXCEPT ![s] = <<>>]
  /\ oldest' = [oldest EXCEPT ![s] = posted + 1 - Len(alerts)]
  /\ dropped' = [dropped EXCEPT ![s] = {}]
  /\ UNCHANGED <<posted, alerts>>

(* A write to a connection whose browser went reaches nobody. *)
Written(s, a) == IF state[s] = "open" THEN [received EXCEPT ![s] = Append(@, a)] ELSE received

WriteHistory(s) ==
  /\ state[s] # "closed" /\ history[s] # <<>>
  /\ received' = Written(s, Head(history[s]))
  /\ history' = [history EXCEPT ![s] = Tail(history[s])]
  /\ UNCHANGED <<posted, alerts, subscribers, updates, state, oldest, dropped, connects>>

(* The history is written before the channel is read.  Bug: either first.   *)
AnyTime(s)        == TRUE
HistoryWritten(s) == history[s] = <<>>

WriteUpdate(s) ==
  /\ state[s] # "closed" /\ HistoryWritten(s) /\ updates[s] # <<>>
  /\ received' = Written(s, Head(updates[s]))
  /\ updates' = [updates EXCEPT ![s] = Tail(updates[s])]
  /\ UNCHANGED <<posted, alerts, subscribers, history, state, oldest, dropped, connects>>

(* The browser closes the page or loses the connection. *)
Disconnect(s) ==
  /\ state[s] = "open"
  /\ state' = [state EXCEPT ![s] = "gone"]
  /\ UNCHANGED <<posted, alerts, subscribers, updates, history, received, oldest,
                 dropped, connects>>

(* The deferred function takes the channel out.  Bug: it is left in.        *)
LeftIn(s)  == subscribers
Without(s) == subscribers \ {s}

(* r.Context().Done(), which select may prefer to the channel. *)
Unsubscribe(s) ==
  /\ state[s] = "gone" /\ history[s] = <<>>
  /\ state' = [state EXCEPT ![s] = "closed"]
  /\ subscribers' = Without(s)
  /\ UNCHANGED <<posted, alerts, updates, history, received, oldest, dropped, connects>>

Stream(s) == WriteHistory(s) \/ WriteUpdate(s) \/ Unsubscribe(s)

Next == receiveAlert \/ \E s \in Streams : alertStream(s) \/ Stream(s) \/ Disconnect(s)

(* The handler of a stream is a goroutine: it writes on while it can. *)
Spec == Init /\ [][Next]_vars /\ \A s \in Streams : WF_vars(Stream(s))

-----------------------------------------------------------------------------
(* Properties. *)

(* What a stream has written and will write, in this order. *)
Path(s) == received[s] \o history[s] \o updates[s]

TypeOK ==
  /\ posted \in Nat /\ connects \in Nat
  /\ alerts \in Seq(1..posted) /\ Len(alerts) <= MaxHistory
  /\ subscribers \subseteq Streams
  /\ state \in [Streams -> {"closed", "open", "gone"}]
  /\ oldest \in [Streams -> Nat \ {0}]
  /\ dropped \in [Streams -> SUBSET (1..posted)]
  /\ {updates, history, received} \subseteq [Streams -> Seq(1..posted)]
  /\ \A s \in Streams : Len(updates[s]) <= Capacity

(* The history is the newest alerts, as many as may be kept, without a gap. *)
HistoryIsNewest ==
  LET n == IF posted < MaxHistory THEN posted ELSE MaxHistory
  IN  alerts = [i \in 1..n |-> posted - n + i]

(* An open connection misses no alert between the oldest of its history and *)
(* the newest posted, however posts interleave with its start, except those *)
(* its channel was full for, and it has or will see each once, in order.    *)
OnceInOrder ==
  \A s \in Streams : state[s] = "open" =>
    /\ \A i, j \in DOMAIN Path(s) : i < j => Path(s)[i] < Path(s)[j]
    /\ {Path(s)[i] : i \in DOMAIN Path(s)} = (oldest[s]..posted) \ dropped[s]

(* Only a stream whose handler still runs is offered alerts, and every one  *)
(* of those is: a closed connection does not leave its channel behind.      *)
SubscribedWhileServed == subscribers = {s \in Streams : state[s] # "closed"}

(* Every alert that was not dropped reaches a browser that stays.  *)
DeliveredUnlessDropped ==
  \A s \in Streams, a \in 1..MaxAlerts :
    [](state[s] = "open" /\ a \in oldest[s]..posted
       => <>(\/ state[s] # "open" \/ a \in dropped[s]
             \/ \E i \in DOMAIN received[s] : received[s][i] = a))

(* The stream implements the feed its viewers are promised. *)
Feed == INSTANCE AlertFeed WITH Viewers <- Streams
ImplementsFeed == Feed!FeedSpec
=============================================================================
