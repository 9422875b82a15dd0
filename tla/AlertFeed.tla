------------------------------ MODULE AlertFeed ------------------------------
(* What the alert stream of the web server promises to a viewer: over one   *)
(* connection it receives alerts that were posted, in the order they were   *)
(* posted, each at most once, and none older than the history kept when it  *)
(* connected.  It does not promise to deliver every alert.                  *)
EXTENDS Naturals, Sequences

CONSTANTS Viewers, MaxHistory

VARIABLES
  posted,    \* number of alerts accepted so far
  oldest,    \* viewer -> the first alert its connection may deliver
  received   \* viewer -> alerts delivered over its connection

feedVars == <<posted, oldest, received>>

FeedInit ==
  /\ posted = 0
  /\ oldest = [v \in Viewers |-> 1]
  /\ received = [v \in Viewers |-> <<>>]

Last(v) == IF received[v] = <<>> THEN oldest[v] - 1 ELSE received[v][Len(received[v])]

Post == posted' = posted + 1 /\ UNCHANGED <<oldest, received>>

Connect(v) ==
  /\ \E o \in 1..(posted + 1) :
       /\ posted + 1 - o <= MaxHistory
       /\ oldest' = [oldest EXCEPT ![v] = o]
  /\ received' = [received EXCEPT ![v] = <<>>]
  /\ UNCHANGED posted

Deliver(v) ==
  /\ \E a \in (Last(v) + 1)..posted :
       received' = [received EXCEPT ![v] = Append(received[v], a)]
  /\ UNCHANGED <<posted, oldest>>

FeedNext == Post \/ \E v \in Viewers : Connect(v) \/ Deliver(v)

FeedSpec == FeedInit /\ [][FeedNext]_feedVars
=============================================================================
