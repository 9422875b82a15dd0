------------------------------- MODULE Intake --------------------------------
(* What agent and analyzer promise together, whatever stops or crashes: an   *)
(* event that counts as sent is analysed at most once, and not after it was  *)
(* lost; what came by one connection is analysed in the order in which it    *)
(* was sent; an alert is posted at most once for an event, and after those   *)
(* for events that were analysed before.  How events and alerts get there,   *)
(* and when they are lost on the way, is left open.                          *)
EXTENDS Naturals, Sequences

CONSTANTS Ids, Conns

VARIABLES
  sent,      \* events that count as sent
  lost,      \* events that were sent and will not be analysed
  analysed,  \* events analysed, with the connection they came by
  posted     \* events whose alert was accepted

intakeVars == <<sent, lost, analysed, posted>>

IntakeInit == sent = {} /\ lost = {} /\ analysed = <<>> /\ posted = <<>>

Analysed == {analysed[i].id : i \in DOMAIN analysed}

(* The next event is sent, perhaps to nobody. *)
Send ==
  /\ \E e \in Ids :
       /\ \A f \in sent : f < e
       /\ sent' = sent \cup {e}
       /\ lost' \in {lost, lost \cup {e}}
  /\ UNCHANGED <<analysed, posted>>

(* Only what was sent and not analysed is lost. *)
Lose ==
  /\ \E some \in SUBSET (sent \ Analysed) : lost' = lost \cup some
  /\ UNCHANGED <<sent, analysed, posted>>

Analyse ==
  /\ \E e \in [id : sent \ (lost \cup Analysed), via : Conns] :
       /\ \A i \in DOMAIN analysed : analysed[i].via = e.via => analysed[i].id < e.id
       /\ analysed' = Append(analysed, e)
  /\ UNCHANGED <<sent, lost, posted>>

Alert ==
  /\ \E k \in DOMAIN analysed :
       /\ \A i \in DOMAIN posted : \E j \in 1..(k - 1) : analysed[j].id = posted[i]
       /\ posted' = Append(posted, analysed[k].id)
  /\ UNCHANGED <<sent, lost, analysed>>

IntakeNext == Send \/ Lose \/ Analyse \/ Alert

IntakeSpec == IntakeInit /\ [][IntakeNext]_intakeVars
=============================================================================
