------------------------------ MODULE Delivery -------------------------------
(* The way of an event from the agent to an alert: the connection of the    *)
(* agent to the analyzer (host/agent/analyzer-api.go), and the threads and  *)
(* bounded queues of the analyzer (analyzer/analyzer.py).  Either process   *)
(* may stop at any point and be started again; both run on one host, so     *)
(* that a connection breaks only when one of its ends dies.                 *)
EXTENDS Naturals, Sequences

CONSTANTS
  MaxEvents,       \* bound: records the agent takes out of the ring buffer
  MaxConns,        \* bound: connections made
  MaxFaults,       \* bound: stops and crashes of either process
  WireSize,        \* lines a connection holds before Write blocks
  QueueSize,       \* maxsize of event_queue (10 000 in the code)
  AlertQueueSize   \* maxsize of alert_queue (1 000 in the code)

ASSUME DeliveryAssumption ==
  /\ MaxEvents \in Nat /\ MaxConns \in Nat /\ MaxFaults \in Nat
  /\ {WireSize, QueueSize, AlertQueueSize} \subseteq Nat \ {0}

Conns  == 1..MaxConns
NoConn == 0
Ids    == 1..MaxEvents
Events == [id : Ids, via : Conns]   \* an event and the connection it came by

VARIABLES
  agent,         \* the agent's main goroutine: down, starting, reading or sending
  stopping,      \* it was sent SIGTERM
  dialer,        \* connectToAnalyzer: idle, dialing, or dialed and not yet installed
  analyzerConn,
  taken,         \* records taken out of the ring buffer: the last is at hand
  sent,          \* events that count as sent
  link,          \* connection -> what its client end sees of it
  nconns,        \* connections made
  line,          \* connection -> lines written and not yet read
  up,            \* the analyzer is running
  handler,       \* connection -> its handle_agent thread: none, reading or ended
  held,          \* connection -> the event its handler puts, as a sequence
  event_queue,
  event,         \* of correlation_worker: the event at hand, as a sequence
  alert_queue,
  alert,         \* of alert_publisher: the alert at hand, as a sequence
  faults,
  analysed,      \* history: events handle_event was called with
  posted,        \* history: events whose alert the web server accepted
  lost           \* history: events sent that overflow or the end of the analyzer took

agentVars    == <<agent, stopping, dialer, analyzerConn, taken, sent, nconns>>
analyzerVars == <<up, handler, held, event_queue, event, alert_queue, alert, analysed, posted>>
vars == <<agentVars, analyzerVars, link, line, faults, lost>>

Init ==
  /\ agent = "down" /\ stopping = FALSE /\ dialer = "idle" /\ analyzerConn = NoConn
  /\ taken = 0 /\ sent = {} /\ nconns = 0
  /\ link = [c \in Conns |-> "unused"]
  /\ line = [c \in Conns |-> <<>>]
  /\ up = FALSE
  /\ handler = [c \in Conns |-> "none"]
  /\ held = [c \in Conns |-> <<>>]
  /\ event_queue = <<>> /\ event = <<>> /\ alert_queue = <<>> /\ alert = <<>>
  /\ faults = 0
  /\ analysed = <<>> /\ posted = <<>> /\ lost = {}

-----------------------------------------------------------------------------
(* connectToAnalyzer, called by main when it starts and by a goroutine at   *)
(* every tick of its timer.  It holds analyzerConnMu at both ends, not      *)
(* while it dials.                                                          *)

(* The call returns; main goes on to read events. *)
Dialed == dialer' = "idle" /\ agent' = IF agent = "starting" THEN "reading" ELSE agent

DialStart ==
  /\ agent # "down" /\ dialer = "idle" /\ analyzerConn = NoConn
  /\ dialer' = "dialing"
  /\ UNCHANGED <<agent, stopping, analyzerConn, taken, sent, nconns, analyzerVars,
                 link, line, faults, lost>>

(* The kernel accepts a connection while the analyzer listens. *)
Dial ==
  /\ dialer = "dialing"
  /\ IF up /\ nconns < MaxConns
       THEN /\ nconns' = nconns + 1
            /\ link' = [link EXCEPT ![nconns + 1] = "open"]
            /\ dialer' = "dialed" /\ UNCHANGED agent
       ELSE Dialed /\ UNCHANGED <<nconns, link>>
  /\ UNCHANGED <<stopping, analyzerConn, taken, sent, analyzerVars, line, faults, lost>>

Install ==
  /\ dialer = "dialed"
  /\ analyzerConn' = nconns
  /\ Dialed
  /\ UNCHANGED <<stopping, taken, sent, nconns, analyzerVars, link, line, faults, lost>>

connectToAnalyzer == DialStart \/ Dial \/ Install

-----------------------------------------------------------------------------
(* The main loop of the agent. *)

ReadRecord ==
  /\ agent = "reading" /\ ~ stopping /\ taken < MaxEvents
  /\ taken' = taken + 1 /\ agent' = "sending"
  /\ UNCHANGED <<stopping, dialer, analyzerConn, sent, nconns, analyzerVars,
                 link, line, faults, lost>>

(* After a failed write.  Bugs: the event was counted as sent before; the   *)
(* connection is kept.                                                      *)
CountAlways  == sent \cup {taken}
CountWritten == sent

KeepConn == analyzerConn
DropConn == NoConn

(* sendAnalyzerEvent.  Without a connection the event is given up; a write  *)
(* to an open one waits until its line fits; one to an end that is gone     *)
(* still succeeds when nothing was refused yet, and fails after.            *)
NotConnected ==
  /\ analyzerConn = NoConn
  /\ agent' = "reading"
  /\ UNCHANGED <<sent, analyzerConn, link, line, lost>>

Write(c) ==
  /\ analyzerConn = c /\ link[c] = "open" /\ Len(line[c]) < WireSize
  /\ line' = [line EXCEPT ![c] = Append(@, [id |-> taken, via |-> c])]
  /\ sent' = sent \cup {taken}
  /\ agent' = "reading"
  /\ UNCHANGED <<analyzerConn, link, lost>>

WriteToNobody(c) ==
  /\ analyzerConn = c /\ link[c] = "finished"
  /\ link' = [link EXCEPT ![c] = "reset"]
  /\ sent' = sent \cup {taken} /\ lost' = lost \cup {taken}
  /\ agent' = "reading"
  /\ UNCHANGED <<analyzerConn, line>>

WriteFails(c) ==
  /\ analyzerConn = c /\ link[c] \in {"reset", "closed"}
  /\ link' = [link EXCEPT ![c] = "closed"]
  /\ sent' = CountWritten /\ analyzerConn' = DropConn
  /\ agent' = "reading"
  /\ UNCHANGED <<line, lost>>

sendAnalyzerEvent ==
  /\ agent = "sending"
  /\ NotConnected \/ \E c \in Conns : Write(c) \/ WriteToNobody(c) \/ WriteFails(c)
  /\ UNCHANGED <<stopping, dialer, taken, nconns, analyzerVars, faults>>

StartAgent ==
  /\ agent = "down"
  /\ agent' = "starting" /\ stopping' = FALSE
  /\ UNCHANGED <<dialer, analyzerConn, taken, sent, nconns, analyzerVars,
                 link, line, faults, lost>>

Signal ==
  /\ agent # "down" /\ ~ stopping /\ faults < MaxFaults
  /\ stopping' = TRUE /\ faults' = faults + 1
  /\ UNCHANGED <<agent, dialer, analyzerConn, taken, sent, nconns, analyzerVars,
                 link, line, lost>>

(* The connections of the agent are closed; what was written can be read.   *)
Ended ==
  /\ agent' = "down" /\ stopping' = FALSE /\ dialer' = "idle" /\ analyzerConn' = NoConn
  /\ link' = [c \in Conns |-> IF link[c] = "unused" THEN "unused" ELSE "closed"]
  /\ UNCHANGED <<taken, sent, nconns, analyzerVars, line, lost>>

(* The error that ends the loop.  Bug: the loop goes on after any error.    *)
NoError == FALSE
Closed  == stopping

(* The reader is closed: the loop ends, and closeAnalyzerConnection is      *)
(* called. *)
Stop  == agent = "reading" /\ Closed /\ Ended /\ UNCHANGED faults
Crash == agent # "down" /\ faults < MaxFaults /\ Ended /\ faults' = faults + 1

-----------------------------------------------------------------------------
(* The analyzer. *)

AnalyzerStep == UNCHANGED <<agentVars, faults, up>>

Accept(c) ==
  /\ up /\ handler[c] = "none" /\ link[c] # "unused"
  /\ handler' = [handler EXCEPT ![c] = "reading"]
  /\ AnalyzerStep
  /\ UNCHANGED <<held, event_queue, event, alert_queue, alert, analysed, posted, link, line, lost>>

ReadLine(c) ==
  /\ handler[c] = "reading" /\ held[c] = <<>> /\ line[c] # <<>>
  /\ held' = [held EXCEPT ![c] = <<Head(line[c])>>]
  /\ line' = [line EXCEPT ![c] = Tail(line[c])]
  /\ AnalyzerStep
  /\ UNCHANGED <<handler, event_queue, event, alert_queue, alert, analysed, posted, link, lost>>

(* The stream of lines ends when the client closed it and all were read.    *)
(* Bug: when the client closed it.                                          *)
ClosedByClient(c) == link[c] = "closed"
EndOfStream(c)    == link[c] = "closed" /\ line[c] = <<>>

EndOfAgent(c) ==
  /\ handler[c] = "reading" /\ held[c] = <<>> /\ EndOfStream(c)
  /\ handler' = [handler EXCEPT ![c] = "ended"]
  /\ AnalyzerStep
  /\ UNCHANGED <<held, event_queue, event, alert_queue, alert, analysed, posted, link, line, lost>>

(* event_queue.put takes the last place.  Bug: the first. *)
PutFirst(q, e) == <<e>> \o q
PutLast(q, e)  == Append(q, e)

(* Bug: a queue of one more than its size. *)
QueueFullLate == Len(event_queue) > QueueSize
QueueFull     == Len(event_queue) >= QueueSize

(* put waits for a second while the queue is full, then the event is        *)
(* dropped.                                                                 *)
PutEvent(c) ==
  /\ held[c] # <<>>
  /\ held' = [held EXCEPT ![c] = <<>>]
  /\ IF QueueFull
       THEN lost' = lost \cup {held[c][1].id} /\ UNCHANGED event_queue
       ELSE event_queue' = PutLast(event_queue, held[c][1]) /\ UNCHANGED lost
  /\ AnalyzerStep
  /\ UNCHANGED <<handler, event, alert_queue, alert, analysed, posted, link, line>>

handle_agent(c) == ReadLine(c) \/ PutEvent(c) \/ EndOfAgent(c)

GetEvent ==
  /\ event = <<>> /\ event_queue # <<>>
  /\ event' = <<Head(event_queue)>> /\ event_queue' = Tail(event_queue)
  /\ AnalyzerStep
  /\ UNCHANGED <<handler, held, alert_queue, alert, analysed, posted, link, line, lost>>

(* publish_alert never waits for a place in the queue.                      *)
publish_alert(e) == IF Len(alert_queue) < AlertQueueSize THEN Append(alert_queue, e)
                    ELSE alert_queue

(* handle_event gives an alert or none, also when it raises an exception.   *)
Handle ==
  /\ event # <<>>
  /\ event' = <<>>
  /\ analysed' = Append(analysed, event[1])
  /\ \/ alert_queue' = publish_alert(event[1].id)
     \/ UNCHANGED alert_queue
  /\ AnalyzerStep
  /\ UNCHANGED <<handler, held, event_queue, alert, posted, link, line, lost>>

correlation_worker == GetEvent \/ Handle

GetAlert ==
  /\ alert = <<>> /\ alert_queue # <<>>
  /\ alert' = <<Head(alert_queue)>> /\ alert_queue' = Tail(alert_queue)
  /\ AnalyzerStep
  /\ UNCHANGED <<handler, held, event_queue, event, analysed, posted, link, line, lost>>

(* A request that failed or timed out is not made again.  Bug: it is.       *)
TryAgain == alert
NoRetry  == <<>>

(* The web server may have accepted an alert whose answer came too late.    *)
PostAlert ==
  /\ alert # <<>>
  /\ \/ posted' = posted \o alert /\ alert' = <<>>
     \/ posted' = posted \o alert /\ alert' = NoRetry
     \/ UNCHANGED posted /\ alert' = NoRetry
  /\ AnalyzerStep
  /\ UNCHANGED <<handler, held, event_queue, event, alert_queue, analysed, link, line, lost>>

alert_publisher == GetAlert \/ PostAlert

StartAnalyzer ==
  /\ ~ up /\ up' = TRUE
  /\ UNCHANGED <<agentVars, handler, held, event_queue, event, alert_queue, alert, analysed,
                 posted, link, line, faults, lost>>

InAnalyzer(c) == held[c] \o line[c]
IdsOf(q)      == {q[i].id : i \in DOMAIN q}

(* The end of the analyzer: its queues are gone, and its kernel refuses a   *)
(* connection at once when the socket holds unread lines, or else at the    *)
(* next write.                                                              *)
CrashAnalyzer ==
  /\ up /\ up' = FALSE /\ faults < MaxFaults /\ faults' = faults + 1
  /\ lost' = lost \cup IdsOf(event) \cup IdsOf(event_queue)
                  \cup UNION {IdsOf(InAnalyzer(c)) : c \in Conns}
  /\ \E end \in {"finished", "reset"} :
       link' = [c \in Conns |-> IF link[c] = "open" THEN end ELSE link[c]]
  /\ handler' = [c \in Conns |-> IF link[c] = "unused" THEN "none" ELSE "ended"]
  /\ line' = [c \in Conns |-> <<>>] /\ held' = [c \in Conns |-> <<>>]
  /\ event_queue' = <<>> /\ event' = <<>> /\ alert_queue' = <<>> /\ alert' = <<>>
  /\ UNCHANGED <<agentVars, analysed, posted>>

-----------------------------------------------------------------------------
Agent    == connectToAnalyzer \/ sendAnalyzerEvent \/ Stop
Analyzer == correlation_worker \/ alert_publisher \/ \E c \in Conns : Accept(c) \/ handle_agent(c)
World    == ReadRecord \/ StartAgent \/ Signal \/ Crash \/ StartAnalyzer \/ CrashAnalyzer

Next == Agent \/ Analyzer \/ World

(* Every goroutine and thread of a running process runs on: the timer of    *)
(* the reconnection ticks, a queue wakes who waits for it, put gives up.    *)
Fairness ==
  /\ WF_vars(connectToAnalyzer) /\ WF_vars(sendAnalyzerEvent) /\ WF_vars(Stop)
  /\ WF_vars(correlation_worker) /\ WF_vars(alert_publisher)
  /\ \A c \in Conns : WF_vars(Accept(c)) /\ WF_vars(handle_agent(c))

Spec == Init /\ [][Next]_vars /\ Fairness

-----------------------------------------------------------------------------
(* Properties. *)

(* Events of all connections, from the first analysed to the last queued,   *)
(* and what came and comes by one, to the last line written.                *)
Merged    == analysed \o event \o event_queue
PathOf(c) == Merged \o InAnalyzer(c)

(* Alerts posted, at hand and waiting. *)
Alerts == posted \o alert \o alert_queue

TypeOK ==
  /\ agent \in {"down", "starting", "reading", "sending"} /\ stopping \in BOOLEAN
  /\ dialer \in {"idle", "dialing", "dialed"}
  /\ analyzerConn \in Conns \cup {NoConn}
  /\ taken \in 0..MaxEvents /\ nconns \in 0..MaxConns /\ faults \in 0..MaxFaults
  /\ sent \subseteq Ids /\ lost \subseteq Ids
  /\ link \in [Conns -> {"unused", "open", "finished", "reset", "closed"}]
  /\ up \in BOOLEAN /\ handler \in [Conns -> {"none", "reading", "ended"}]
  /\ {line, held} \subseteq [Conns -> Seq(Events)]
  /\ \A c \in Conns : Len(line[c]) <= WireSize /\ Len(held[c]) <= 1
  /\ event_queue \in Seq(Events) /\ Len(event_queue) <= QueueSize
  /\ event \in Seq(Events) /\ Len(event) <= 1
  /\ alert_queue \in Seq(Ids) /\ Len(alert_queue) <= AlertQueueSize
  /\ alert \in Seq(Ids) /\ Len(alert) <= 1
  /\ analysed \in Seq(Events) /\ posted \in Seq(Ids)

(* An event is in the analyzer once at most, and the events of a connection *)
(* stay in the order in which the agent sent them on their whole way,       *)
(* although handlers of several connections fill one queue.                 *)
InOrderPerConnection ==
  \A c \in Conns : \A i, j \in DOMAIN PathOf(c) :
    i < j /\ PathOf(c)[i].via = PathOf(c)[j].via => PathOf(c)[i].id < PathOf(c)[j].id

(* An event counted as sent is on its way or analysed, or the end of the    *)
(* analyzer or a full queue took it: nothing else loses an event, and one   *)
(* that is lost is not analysed after all.                                  *)
SentIsAccountedFor ==
  LET there == IdsOf(Merged) \cup UNION {IdsOf(InAnalyzer(c)) : c \in Conns}
  IN  sent = there \cup lost /\ there \cap lost = {}

(* Alerts are posted at most once each and in the order of the analysis.    *)
AlertsFollowAnalysis ==
  /\ \A i \in DOMAIN Alerts : Alerts[i] \in IdsOf(analysed)
  /\ \A i, j \in DOMAIN Alerts : i < j =>
       \E k, l \in DOMAIN analysed :
         k < l /\ analysed[k].id = Alerts[i] /\ analysed[l].id = Alerts[j]

(* All of this together, and that nothing lost comes back: agent and        *)
(* analyzer keep the promises of Intake.                                    *)
Promise == INSTANCE Intake
ImplementsIntake == Promise!IntakeSpec

(* What the agent sent is analysed in the end, or taken by overflow or the  *)
(* end of the analyzer, also after the agent closed the connection: no      *)
(* thread waits for ever.                                                   *)
SentIsSettled ==
  \A e \in Ids : e \in sent ~> e \in lost \cup IdsOf(analysed)

(* While both run, an agent whose write failed gets another connection.     *)
Connected == analyzerConn # NoConn /\ link[analyzerConn] # "closed"

Reconnects == []<>(agent = "down" \/ ~ up \/ nconns = MaxConns \/ Connected)

(* An agent told to stop does, although it may wait in Write, with the lock *)
(* held that closing the connection takes.                                  *)
StopsWhenTold == stopping ~> agent = "down"
=============================================================================
