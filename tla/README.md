# Formal verification of EAD

EAD watches a Linux host with eBPF programs, forwards what they see to a
correlation engine and shows alerts in a web console. This directory holds TLA+
models of its components, the TLC configurations that check them on small
instances, and TLAPS proofs of their safety properties for instances of any size. Every
definition is translated from the source; `PROJECT.json` ("map") names the lines each one
stands for.

## 1. The system and its parts

```
 kernel                     agent (Go)                analyzer (Python)          web server (Go)
 sys_enter -> pending map                             handle_agent threads       receiveAlert
 sys_exit  -> ring buffer -> handleEvent -> TCP :9000 -> event_queue              history, channels
                 ^           watchConfig                 correlation_worker  ->  alertStream -> browser
            config_map  <----- |  ^                      alert_queue -> POST     putConfig
                               |  bpf-config.json <------------------------------ |
```

| Part | State it keeps | Operations | How it meets the others |
|---|---|---|---|
| Collector, `host/ebpf/collector.bpf.c` | one pending map per family of calls, the ring buffer, `config_map` | 23 programs at system call entry, 23 at return, 2 at one point | runs in the context of any thread; the agent writes `config_map` and reads the ring |
| Agent configuration, `host/agent/config.go`, `watchConfig` | `agentConfig`, `lastModTime` | load, poll, apply | the file is replaced by the web server; the event goroutine copies `agentConfig` |
| Agent events, `host/agent/agent.go` | cache of opened paths, counters | resolve a path, filter, convert, send | one goroutine, fed by the ring |
| Analyzer connection, `host/agent/analyzer-api.go` | `analyzerConn` | connect, reconnect each minute, send, close | shared by three goroutines under `analyzerConnMu` |
| Analyzer intake and alerts, `analyzer/analyzer.py` | `event_queue`, `alert_queue` | one handler thread per connection, one worker, one publisher | TCP from the agent, HTTP to the web server |
| Event graph, `analyzer/graph.py`, `add_event_to_graph` | multigraph, current node of each process | one edge (or two) per event | built and read by the worker only |
| Correlation, `analyzer/correlation.py`, `patterns.py` | none | subgraph behind an edge, pattern match, weight | reads the graph |
| Correlation configuration, `correlation_config.py` | configuration and modification time | reload before each event | the file is replaced by the web server |
| Web alerts, `web/main.go` | history, subscribers | accept an alert, stream alerts | analyzer posts, browsers read |
| Web configuration, `web/main.go` | none | replace a file atomically | agent and analyzer poll the files |

What is hard about each, and what makes it correct:

* **Collector.** Entry and return of a call are seen by two programs that share
  nothing but a map entry under a thread id. Thread ids are reused, execve can
  change one in the middle of a call, clone returns twice, programs are attached
  one at a time while calls run, the configuration changes between entry and
  return, maps and ring fill up. Correct means: a record joins the arguments and
  the result of one call, each call is reported once, in the order of its thread,
  or there is a reason why not, and no arguments stay behind.
* **Configuration.** An edit passes through a rename, a polled modification time,
  a parse, a map update and an assignment, none of them atomic with the next.
  Correct means: kernel and agent filter by the same whole configuration, and an
  edit that stays in the file takes effect.
* **Connection, intake, alerts.** Two processes that may end at any point, a
  blocking write under a lock, threads that share bounded queues, timeouts.
  Correct means: what counts as sent is analysed once, in order for each
  connection, or lost for one of two reasons; nobody waits for ever.
* **Event paths.** The agent reads an event after the call: descriptors were closed or
  given out again, directories changed, processes ended, ids used again. Correct
  means: a call on a descriptor is reported by the path the descriptor had then.
* **Alert stream.** Browsers join and leave while alerts arrive. Correct means: no
  gap and no repetition between the history and the live stream, and a slow
  browser harms only itself.
* **Graph and correlation.** Sequential, but sensitive to order: process ids are
  reused, events arrive out of the order of their time stamps, the anchor edge is
  searched by time stamp and operation. Correct means: events hang at the image
  that caused them, the subgraph holds the causally earlier edges, the match
  ignores unrelated processes, and an alert is raised by the edge that completes a
  pattern, once.

`PROJECT.json` lists these hazards one by one at the line where they bite.

## 2. Modules

### Collector.tla: the kernel half

Data are abstracted to the number of the call they come from, in the order of
entry, which is the order of the time stamps. `pending[f][t]` is the entry of
thread id `t` in the map of family `f`, as a call number; `log` is every record
submitted, and the ring buffer is the part of it after `nread`.

| Code | Model |
|---|---|
| `save_*_event` and the `sys_enter` programs that call them | `save_*_event(t)`: who calls, which system call, what the filters and user pointers let through; the common end is `Enter` |
| `save_*_event_exit` and the `sys_exit` programs | `save_*_event_exit(t)`, by `Return` and `ExitProgram` |
| `bpf_map_update_elem`, `bpf_map_delete_elem`, `bpf_ringbuf_reserve` | `HasRoom`/`StoreEntry`, `DeleteEntry`, `RingFull` |
| `trace_tcp_state`, `trace_lsm_file_open` | actions of the same name |
| `attachPrograms`, `configMap.Put`, `reader.Read` in the agent | `Attach`, `PutConfig`, `ReadRecord` |
| the kernel: clone, exit, execve of a thread | `NewTask`, `TaskExit`, `ReturnToNewImage` |

Two history variables say what cannot be held against the collector: `missed`,
the calls whose return no exit program saw under their own thread id, and
`excused`, the calls that were filtered, or that a bad pointer, a full map or a
full ring kept out. The fields a program leaves unwritten (`tid`, `res` of a TCP
record) are chosen freely.

### ConfigReload.tla: an edit on its way into force

`file` and `temporary` are the web server's side (`putConfig`, `Rename`,
`Abandon`); `pc` walks through `main` (`Load`, `PutFirst`, `WatchStart`) and then
through one tick of `watchConfig` after another (`Stat`, `Parse`, `Put`, `Lock`,
`Publish`). `agentConfig` has two halves because the assignment is not atomic for
a reader without the lock; `handleEvent` copies it under the read lock, and
`CloneMode`/`ClonePaths` are the second look the clone case takes without it.
`Clock` is the clock of the file system, which may stamp several writes alike.

### Delivery.tla and Intake.tla: from the agent to an alert

`connectToAnalyzer` is three steps (`DialStart`, `Dial`, `Install`) because it
does not hold the lock while it dials. `sendAnalyzerEvent` is one step that may
have to wait: whoever waits in `Write` holds `analyzerConnMu`, and since
`analyzerConn` is not nil then, no step that needs the lock is possible in the
model but another `Write`, so no lock variable is needed. `line[c]` is the way from
the socket to the handler; `link[c]` is what the client end knows of the
connection: after the analyzer died a write may still succeed once
(`WriteToNobody`) and fails from then on (`WriteFails`). The analyzer's threads are
`Accept`, `handle_agent(c)`, `correlation_worker` and `alert_publisher`; `held`,
`event` and `alert` are the items they have at hand. `CrashAnalyzer` forgets the
queues, `Crash` and `Stop` end the agent and leave its lines to be read.

`Intake` is what the two processes promise together, without connections, threads and
queues: ids count as sent in increasing order, an event that was not analysed may be lost, one
that was neither is analysed in the order of its connection, and an alert is posted only for an
event analysed after all that have alerts. `Delivery` is checked and proved to implement it
(`Promise == INSTANCE Intake`, with the variables of the same names).

### AlertHub.tla and AlertFeed.tla: the alert stream

`AlertHub` is the code: `receiveAlert` and the start of `alertStream` are each one
critical section of `app.mu`; the handler then writes the copied history
(`WriteHistory`) and its channel (`WriteUpdate`) until the browser is gone
(`Unsubscribe`). `AlertFeed` is what a viewer is promised: numbers that only grow,
from a start no older than the history. `AlertHub` is checked to implement it by
`Feed == INSTANCE AlertFeed WITH Viewers <- Streams`; the history variables `oldest` and
`received` are the mapping.

### EventGraph.tla: who did what

The first half is the machine: `image` is the program that runs under each
process id, a call is made (`Begin`, which takes the time stamp and
the name, as the collector's entry programs do), forks or executes, and returns
(`Return`, `Execute`, `ExecuteFails`); its event is submitted then, so events are
in the order of returns, or lost (`Report`, for the calls in `Lossy`). Processes end
and their ids are used again (`Exit`). Which calls which programs make is a
parameter (`Workload`), and so is the name of the thread that makes each (`as`): the
collector records the name of the calling thread (`bpf_get_current_comm`), which the
program may have changed (prctl, `process.title`, a thread with a name of its own, as
in the sample event at analyzer.py:310-314). Other threads begin calls while one is in
execve, and these have returned when the execve does, since the kernel ends the threads
first. A clone may fail: it returns without a child and its event has the child `NoPid`,
which is -1 (collector.bpf.c:1026-1029). A clone that makes a thread is one whose child
makes no calls: the calls of a thread are those of its process.

The second half is the analyzer: `current` is
`_current_process_nodes`, `comm` the process nodes with the name that
`add_process` gave them last, `edges` the edges in insertion order, and the
branches of `add_event_to_graph` are actions (`AddObject` stands for every kind of
call with one target). There is one machine: agents dial 127.0.0.1 only, and the
agent's host name, `localhost`, qualifies every process id alike. Events and edges carry two history fields,
`by` and `made`, which the analyzer does not have, and edges a third, `as`, the name the
call was made under, which the analyzer gives to the node and not to the edge; all
properties compare the graph with them.

Two histories excuse the graph: `lost`, of which a lost execve makes the analyzer
take the calls of the new image for those of the old one (`Unseen`), and `shared`, the
process ids that belonged to more than one process, at whose last node the next
process goes on. `ImageIsOneNode` holds without any excuse.

What a node is called is the name of the thread whose event came last. It need not be that
of the program: a thread named `Compositor` names the node of a browser. `NamedAsCalled` says
what does hold: the name is one under which this program made one of its calls, never one of
the program before or after an execve, nor that of the parent or `<unknown>` because the clone
came late. If the threads of a program have its name, it is the name of the program.

Left out: the conversion of time stamps (`eventRealtimeTimestamp`), which
the model takes as exact although the offset is measured anew for each event.

### Subgraph.tla: get_subgraph

`frontier` is the stack, `visited` the visited edges; one turn of the loop is
`Cut` or `Expand`. The order of the incoming edges of a node, which is that of
their arrival, is left open. `Reached` is the reference: an edge is the end of a
chain back from the anchor with times that do not increase. It is stated with a
function on `1..n` and not recursively, so that it can be reasoned about.

Together: `Subgraph` shows that get_subgraph returns chains, and `EventGraph` that
each link of a chain through a process is a real one (`OnlyCausallyRelated`). That `Correlation`
works with what `Subgraph` returns is proved as well (SearchIsSubgraph).

### Correlation.tla: the worker as a whole

`Correlation` extends `EventGraph` by the rest of `handle_event`: the reload of the
configuration (`reload_correlation_config_if_changed`) and, on the new graph, the search
for SH-1 (`get_context_weight`, `get_pattern_similarity`, `check_in_patterns`, `Anchors` for
`_find_anchor_edge`). One turn of the worker is one step, since nothing else reads or
writes the graph; only the configuration file changes under it, and `Replace` can fall
between the stat and the load inside that step, and between the load and the stat of
the start. `get_subgraph` is the function that `SubgraphProofs` shows the search to
compute when no chain is as long as the depth, which `TraversalDepth` is chosen for.
Groups, variants and steps are those of `patterns.py`, in the words of the code. `past`
(history) is the files there were, in order.
`alerts` (history) holds the edges that raised an alert, with the start of their window, the
number of steps that matched and the names of the nodes at that time. No process ends in
this module (`Exit` is not among its steps): what a process id used twice does to the graph
is the subject of EventGraph.

The reference that `AlertsAsSpecified` compares the alerts with (`Causes`, `CallsBehind`,
`CompletesFirst`) knows who made whom (`by`, `made`), uses no traversal from the code and no
greedy match: some calls, in the order of time, of the programs that the newest edge rests on
match the steps of a variant, and no other call ends such a match. `TooDeep` excuses a chain
of calls that goes on behind `traversal_depth`, where the search stops.

`OneAlert` compares alerts with each other. Two for one installation are possible: one for
each variant, since the variants end with the same two steps, and one more after a node got
another name, which makes steps match that did not. What the property excludes is a second
alert from a later call on the same object.

`AlertNeedsLoss` is the other half of what the run correlation_installation finds: not only
does an installation reported in full raise no alert, but every alert there is has a clone in
its window of which one side, the process that called or the one it made, has lost an execve
or made a call by a thread with another name than that of its program. The second happens:
when a thread of the shell that bears the name of the package manager creates the process
that executes the runtime, the clone is taken for the second step of the pattern; `Titled`
puts such a call into the run.

Left out: the weights, which decide nothing; the patterns SH-02 and later, which the
program does not search for; parts of a path that are not its last name.

### EventPaths.tla: what the agent calls a file

A process opens files by absolute and relative paths, gets the lowest free descriptor,
closes it, inherits descriptors or gets them in ways that are not reported, changes its
directory, ends and is replaced by another of the same id. A call has its effect
(`Open`, `Use`) and returns later (`Return`), so the events of two threads may be in
another order than their effects. `handleEvent` reads the next event when it comes to
it: `resolveEventPath` looks into the tables of that moment as `/proc` does, `cache` is
`openedFilePaths`. fchmod and the file probes go the same way and are one kind, `use`.
chmod has a kind of its own: it takes a path only, and the collector saves it as relative
to descriptor 0 (collector.bpf.c:641-650), not to the working directory, so the agent puts
a relative path behind whatever the process has open as descriptor 0. `Chmod` does that.
The path reported for it may be wrong, and nothing in the repository promises it right;
`DescriptorNamed` is about calls that name a descriptor, and shows that these events do no
harm to the cache.
`DescriptorNamed` compares the name at the reading with the path at the call, and
excuses a descriptor that the agent was never told of, calls of two threads that
overlap on one descriptor, and an open whose relative path was resolved too late. TLC
finds it violated when any one of these is taken out: a descriptor from dup, socket or
a parent that has the number of a file opened before is reported by the path of that
file.

### Mutants

Some operators of the models come with a twin defined just above them, introduced
by "Bug:" in the comment. The twin is a plausible mistake at that place
(`ProcessKey` for `PendingKey`, `TimeNow` for `TimeApplied`, ...). `PROJECT.json`
names, for every property of every run, a twin with which TLC finds it violated,
so no property holds whatever the code does.

## 3. What the runs check

| Run | Module, configuration | Question | Bounds |
|---|---|---|---|
| collector_threads | CollectorMC, CollectorThreads | do threads, reused ids, clone and execve keep calls apart, is no call lost without a reason, also while programs are being attached | 2 thread ids, `execve clone openat`, the programs of openat attached late, maps of 1, ring of 2, 4 numbered events |
| collector_families | CollectorMC, CollectorFamilies | is every entry freed on every path, in five families, with the configuration changing | 2 ids, 5 calls, 2 configurations, maps of 1, ring of 2, 3 events |
| collector_thread_exec | CollectorMC, CollectorThreadExec | is every execve reported: **no** | as collector_threads, all attached |
| config_reload | ConfigReloadMC, ConfigReload | do kernel, agent and file agree, whatever the interleaving | 2 valid contents and an invalid one, 2 handlers, 3 times, 2 edits, 1 failed map update |
| config_reload_applied | ConfigReloadMC, ConfigReloadApplied | does every edit take effect: **no** | as above |
| delivery | Delivery, Delivery | order, accounting and progress between agent and web server, with stops and crashes, and is `Intake` implemented | 3 events, 3 connections, 2 stops or crashes, an event queue of 2, the other buffers of 1 |
| alert_hub | AlertHubMC, AlertHub | does a browser see each alert once, in order, and does the hub implement the feed | 2 browsers, 4 alerts, 2 connections, history of 2, channels of 1 |
| event_graph | EventGraphMC, EventGraph | does every edge hang at the image that made the call, and has its node a name of that program | 2 process ids, reused, 2 programs, of which one has a thread with another name, 4 calls, 2 at a time; clones may fail, clones and executions of the shell may be lost; 1.8 million states |
| correlation | CorrelationMC, Correlation | does an alert come exactly with the first edge that completes the pattern, and is the configuration that of the file | 3 process ids, 2 threads, the 5 calls of an installation and a clone by a thread of the shell named `npm`, 6 calls in all, each execve and clone once; executions of the shell may be lost; 2 windows and an invalid file, 2 replacements before the second call; 0.6 million states |
| correlation_installation | CorrelationMC, CorrelationInstallation | does an installation alert when nothing is lost: **no** | 2 process ids, 5 calls, 1 window |
| event_paths | EventPathsMC, EventPaths | is a call on a descriptor reported by its path | 1 process id, reused, 2 threads, 2 descriptors, 0 one of them, 2 directories with a file each, 3 calls that open, use or chmod, 2 events unread; 3.2 million states |
| subgraph | SubgraphMC, Subgraph | does the search return chains only, all of them, and end | every graph of 3 edges on 3 nodes, 4 with parallel edges, 5 on 4 nodes; depth 3 |

Why the bounds are enough for the interesting cases: two thread ids are the least
with which one can be reused while the other is in a call, and with which an
execve can change one; a map of one entry is full with one; a ring of two is full
with two records and can be drained in between; four numbered events allow a
leftover entry, the call that ends over it, and the call it is joined with. Three
times and two edits allow two edits at one time, in order and in reverse. Three
connections with two ends allow two handlers to work at once and a reconnection
after each end; three events overflow a queue of two that the worker has not reached.
Four calls allow a clone whose child executes and makes a call before the clone
returns. Six calls are a whole installation and one call more: of another process, or the
script opened twice. Two threads are the least whose calls overlap, two descriptors
allow an open relative to another, and three opens and uses allow a number to stand
for one file, then another, and be used.
Four nodes are needed for a chain of the full depth: an edge into a node
that was expanded is not taken again.
An alert history of two overflows with the third of four alerts, and a channel of
one with the second that a browser did not read.
Symmetry is used for thread ids in the runs of the collector and for the process ids
that do not run at the beginning in that of Correlation, which check invariants only.

`CHECK_DEADLOCK FALSE` in every configuration: the bounds let the models end, and
programs may stop (the agent when its first configuration is invalid).

**Fairness.** Collector, EventGraph, Correlation and EventPaths have none, they have no
liveness property.
Subgraph assumes it of the loop, which waits for nothing. ConfigReload
assumes it of `main` and of `watchConfig`, whose ticker never stops and which
waits for nothing but a read lock held for a copy. Delivery assumes it of each
goroutine and thread separately: the ticker of the reconnection, the sender, the
shutdown, each handler (`put` has a timeout), the worker (it catches every
exception), the publisher (its request has a timeout). Starts, stops, crashes,
posts and renames are never fair. AlertHub assumes it of a stream's handler: a
write returns, because the browser reads or the connection ends.

### What the runs found

* **collector_thread_exec.** README.md:49 lists execve with its result. A thread
  that is not the leader of its process continues after execve under the id of
  the process, where the exit program finds nothing: the execution is not reported
  and the entry stays.
* **config_reload_applied.** README.md:56 says edits are applied without a
  restart. An edit is not applied if it falls between the parse in `main` and the
  first `os.Stat` of `watchConfig`, if it has the same modification time as what it
  replaces, or if it was written before and renamed after another.
* **correlation_installation.** patterns.py:39 calls SH-1 the installation of a
  malicious package. Its second step wants a clone by the package manager that leads
  to a process named `sh`, `dash` or `bash`. A clone leads to the logical node of the child;
  all that the child does before its execve, the execve included, is reported by the
  name of its parent, and the shell has a node of its own. The step matches only if the
  execve of the shell was not reported, so that the calls of the shell name the logical
  node, or if a thread bears the name of another program.

For each the passing run beside it states what does hold: `NothingLostUnexcused`,
`AppliedInOrder`, and `AlertsAsSpecified` with `AlertNeedsLoss`.

A case that no run shows and the models contain: while only the enter program of a call
is attached, the first call of a thread leaves its arguments in the map; if its next
call is filtered at entry and the exit program is attached meanwhile, they are submitted
with the result of that call. It is what `JoinsOneCallUnlessMissed` excuses, and the
proof says that it is the only such case.

## 4. What is proved

`CollectorProofs.tla` proves, for any set of thread ids that is finite, any set of
traced calls and configurations, any state of attachment, any capacities, and
any number of calls:

| Theorem | Property |
|---|---|
| TypeCorrect | `TypeOK`: types, and the ring and the maps never exceed their capacity |
| NoStaleEntry | `PendingIsInFlight` |
| JoinCorrect | `JoinsOneCallUnlessMissed` |
| ReportedOnce | `NoDuplicateRecord` |
| InThreadOrder | `OrderPerThread` |
| Accounted | `NothingLostUnexcused` |

The only assumption is `CollectorAssumption`, which TLC evaluates in every run.

The argument: the properties are about records and entries, but what makes them
true is which call each thread is in. The inductive invariant `IInv` therefore
adds to `TypeOK` that threads that are not alive are idle, that calls in flight are
distinct and numbered so far (`Numbered`), that no call is saved twice
(`PendingDistinct`), that a record's result belongs to a call that ended and a
record's arguments are in no map any more (`Recorded`), that the arguments are not
later than the result (`Earlier`), and the property `PendingIsInFlight` in its
stronger form (`Saved`). Every step of the collector is one of three kinds, and the
proof has one lemma for each: quiet steps, which move no call (`QuietCore`), a call
beginning (`NewCallCore`) and a call returning (`ReturnCore`); `StepKinds` shows that
there are no others. Order and accounting are proved on top of `IInv` in the same
three cases. The inductive invariant was checked with TLC before it was proved.

`SubgraphProofs.tla` proves, for every set of finite multigraphs, any anchor, window
and depth (`SubgraphAssumption`):

| Theorem | Property |
|---|---|
| SearchTypeOK | `TypeOK`: the search stays inside the depth |
| SubgraphSound | `OnlyCausalEdges` |
| SubgraphComplete | `CompleteUnlessCut` |

Soundness needs `FrontierReached`, that each entry of the stack stands behind a
visited edge that was reached at the entry's depth: with it an expansion extends a
chain by one edge (`ChainExtends`). Completeness needs `Closed`, that an edge that was
visited still waits on the stack or has been expanded in full. At the end nothing
waits; were an edge missing, take one with the shortest chain (`LeastNumber`): the
chain without its last edge (`ChainShrinks`) ends at a visited edge, whose expansion
took it.

`ConfigReloadProofs.tla` proves, for any configurations, handlers, times and numbers of
edits and of failing updates (`ConfigReloadAssumption`):

| Theorem | Property |
|---|---|
| ReloadTyped | `TypeOK` |
| AgentAndCollectorAgree | `HalvesAgree` |
| CopiesAreWhole | `CopyIsWhole` |
| NoSkips | `NoEditSkipped` |

The invariant adds what a tick knows between its steps: what is in force is one accepted
configuration as a whole, but between the two halves of the assignment (`InForce`); what a
tick has parsed is what it puts and publishes (`TickHalves`); until `watchConfig` looks at the
file, the first configuration is in both halves (`FirstLoad`); and a tick holds applied
nothing newer than what it looked at, while what it parsed is the file if the file still has
that time (`TickTimes`), which is why an edit that falls between the two is seen by the next
tick.

`AlertHubProofs.tla` proves, for any streams, capacities and number of alerts
(`AlertHubAssumption`):

| Theorem | Property |
|---|---|
| HubTyped | `TypeOK` |
| KeepsTheNewest | `HistoryIsNewest` |
| SeenOnceInOrder | `OnceInOrder` |
| NoChannelLeft | `SubscribedWhileServed` |
| HubImplementsFeed | `ImplementsFeed`: the hub implements `AlertFeed` |

The invariant is these properties and that `oldest` is a number of an alert
(`OldestOK`). A stream is described by one sequence, what was written, what is left of the
copied history and what is in the channel; a write moves an element inside it
(`WrittenPath`), a post appends the newest, a stream that starts has the history. For the
refinement each action is a step of the feed under the mapping or changes nothing the feed
sees (`NextFeed`).

`DeliveryProofs.tla` proves, for any sizes of the queues and any number of events,
connections, stops and crashes (`DeliveryAssumption`):

| Theorem | Property |
|---|---|
| DeliveryTyped | `TypeOK` |
| OrderKept | `InOrderPerConnection` |
| SentAccounted | `SentIsAccountedFor` |
| AlertsInOrder | `AlertsFollowAnalysis`, which speaks of the alerts that wait as well |
| DeliveryImplementsIntake | `ImplementsIntake`: agent and analyzer implement `Intake` |

The invariant sees the way of an event as sequences one behind the other: `Merged`, what
was analysed, is at hand or waits in `event_queue`, and `InAnalyzer(c)`, what waits behind
it on connection `c`. It says that ids are given out once (`Unique`), that an event is on
the way of its own connection (`Own`), that each way is in the order of ids (`InOrder`) and
that what was sent is there or lost (`Settled`). A step moves an element from one end of a
sequence to the other end of the next, takes one out, or forgets some; there is one lemma
for each kind (`WriteFlow`, `PutFlow`, `LossFlow`, `CrashFlow`), in terms of the elements of a
sequence and which comes before which (`ConcatFacts`).

For the refinement, what waits anywhere behind the analysis was sent, is not lost and comes after
what was analysed of its connection (`WaitsBehind`), so the worker's step is `Analyse`, and what
overflow or a crash takes is what `Lose` may take. An alert at hand is of an event analysed
after those of all alerts posted, and there is one such position only (`AnalysedOnce`).

`EventGraphProofs.tla` proves, for any process ids, programs, workloads, lost calls, number
of threads and of calls (`EventGraphAssumption`):

| Theorem | Property |
|---|---|
| GraphTyped | `TypeOK` |
| CallsAtOneNode | `ImageIsOneNode` |
| NodeOfOneImage | `NodeIsOneImage` |
| CausesOnly | `OnlyCausallyRelated` |
| NamesOfCallers | `NamedAsCalled` |

The invariant has three layers. The first (`IInv`) is what makes an image one node: types of
machine, queue and graph, no image known before the call that makes it (`Fresh`), and the
events under way and the calls in flight handled at the node the graph has for their image,
if it has one (`QueueFits`, `RunningFits`). The second (`NodesInv`) is which node that is:
`NodeFor(image)` is the logical node of a process for its first image and that of the execve
for the others, and edges, events and calls lead there (`EdgesFit`, `EventsFit`, `CallsFit`)
unless the image is `Excused`, because an execve of it was lost or its process id was shared.
Two images that are not excused have different nodes (`NodesDiffer`), and two more
properties follow. Nothing is assumed of the order of events but that those of one
image that were made by returning calls are submitted at the return.

The third layer (`OrderInv`, theorem OrderInductive) adds time, ancestry and names: a call is
later than the image that makes it
(`TimesFit`), no two calls have one time stamp (`StampsOnce`), a call is later than the start of
every image of its process whose events came before its own (`ExecOrder`; but not earlier than an
execve during which it was made), each node at
which calls were made was entered by an execve that is in the graph, the last one before the
image that calls there (`NodesEntered`), an edge with a known effect points to the node
of what it made (`MadeFits`), and the images of a process that has its id alone run after its
birth and after the execves that the analyzer heard of before (`ImagesInTurn`). `NamesGiven`
says where names come from: a node at which calls were made has the name under which one of
them was made, any other logical node has none. With `NodeIsOneImage` it gives `NamedAsCalled`,
the last of the properties; all of the layer is needed for those of the search.

`CorrelationProofs.tla` proves, for any windows, times and number of replacements
(`CorrelationAssumption`, `EventGraphAssumption`, and `NamesAssumption`, that the name
`<unknown>` is in no group of the patterns):

| Theorem | Property |
|---|---|
| WorkerBuildsGraph | `SpecCorrelation` implies the specification of `EventGraph`, so that all of the above holds of the worker's graph |
| WorkerTyped | `CorrelationTypeOK` |
| FileInForce | `ConfigIsFiles` |
| AlertsRight | `AlertsAsSpecified` |
| OneAlertEach | `OneAlert` |
| AlertsNeedLoss | `AlertNeedsLoss` |

`ConfigIsFiles` alone is not inductive: it says nothing while the file has another time than
the one kept. `Seen` adds that the time kept was that of some file there was, so that a file
that comes back to it has a time that was there before.

The alerts need `WorkerInv` (theorem WorkerInductive): the three layers of EventGraph, that no
process id is used twice (`Alone`), the types, and that every alert says what the search found
in the graph as it was then, whose edges have not changed since, and under the names of that
time (`AlertsInv`). With it the properties are about functions, in three parts:

* *The search finds the causes.* An edge that `get_subgraph` returns is in every set that is
  closed under `RestsOn` (`SearchIsCaused`): a link of a chain through a process enters its node,
  so it is the execve or the clone that made it (`SearchRests`). Conversely the search returns
  such a closed set if no chain is as long as the depth (`CausesAreFound`). `RestsOn` goes from a
  call to everything that made its process, the search back from node to node; that it gets
  there is shown from the node with the earliest execve that the search reached: were a cause
  missing there, the execve by which the process entered that node would lead the search to an
  earlier one (`NodeEntered`). So the candidates are calls behind the edge, and all those of
  processes if nothing is too deep (`CandidatesAreCalls`).
* *The greedy match is the first.* `variant_steps` counts the steps matched up to a time. It
  never falls and grows by one at most (`StepsGrow`); k steps counted by a time have k candidates
  behind them in the order of time (`StepsAreMatched`), and k candidates in the order of time
  are counted by the time of the last (`MatchedAreSteps`). So the count reaches the length of the
  variant at the time of the new edge, and not before, exactly if this edge is the first to
  complete it (`GreedyIsFirst`).
* *Names.* The clone that matched the second step leads from a node with the name of a package
  manager to a logical node with that of a shell (`ShellNeedsLoss`). Calls were made at both
  under these names (`NamesGiven`). They are the names of the programs unless a thread has
  another; the programs are the caller and its child unless an execve was lost, and a child is
  created with the name of its parent. `ProcessGroups` has no name in both groups.

The theorem SearchIsSubgraph closes the gap between the operator `get_subgraph` of this module
and the loop that Subgraph models step by step: instantiated with any graph, its
chains are those of `Chains` (`ChainsAreReached`), and any set of visited edges for which the two
properties proved of that loop hold at its end is part of what the operator gives, and all of it
if no chain is as long as the depth.

The recursive functions over depth and time are unfolded once (`ChainsFacts`, `StepsFacts`), and
what holds at every depth and time is shown by a least counterexample (`LeastNumber`), since an
induction theorem cannot be applied to a predicate here.

`EventPathsProofs.tla` proves, for any processes, descriptors, directories, number of threads
and of calls (`EventPathsAssumption`):

| Theorem | Property |
|---|---|
| PathsTyped | `TypeOK` |
| NamedByPath | `DescriptorNamed` |

`Kept` says what the agent will know of an opening once it has read the first `n` events: the
last of them that opens the descriptor is of that opening, or there is none and the cache has
its path. It holds of every descriptor that is open, unless the opening itself is still in
flight (`OpenKept`), of every call in flight that uses one (`UseKept`) and of every event
(`EventKept`), each with the exception of contested openings. Reading an event does not change
what `Kept` says (`KeptRead`), and an event that is read first has nothing before it, so its
path is in the cache.

All inductive invariants were checked with TLC before they were proved.

Only model-checked:

* All liveness properties (`AppliedInOrder`, `DeliveredUnlessDropped`, `SentIsSettled`,
  `Reconnects`, `StopsWhenTold`, `Ends` of the search) and the runs that expect a violation.

Every invariant that a passing run checks is proved, and the refinements of AlertFeed and Intake. Liveness
under fairness, `ENABLED` and `RECURSIVE` operators are out of reach of the prover used here.

## 5. What is not modelled

* `visualization.py`, the pages and counters of the web server, `userspace/`, Docker,
  Prometheus, the Makefiles, `tools/`: input, output and configuration without
  behaviour of their own. `vmlinux.h` is generated.
* The fields of events beyond what the properties tell apart, the arithmetic of
  time stamps and of weights (real numbers). Two calls never have one time stamp, and
  stamps are in the order of the calls, which the conversion in the agent, done anew for
  each event, does not ensure.
* The lists of path filters (`checkPath`) but for the set of paths they let through, the
  executable by which TCP and clone events are filtered, and the length that paths are
  cut to.
* Several machines: the agent connects to an analyzer on its own host.

## 6. Plan

In this order, the most important behaviour first:

1. **Collector** and its proofs. Done.
2. **ConfigReload** and its proofs. Done.
3. **AlertHub** implementing **AlertFeed**, proved. Done.
4. **Delivery** implementing **Intake**, proved. Done. Open: Intake and AlertFeed composed into
   a **Pipeline** whose property is: a browser sees no alert that was not analysed.
5. **EventGraph** and its proofs. Done.
6. **Subgraph** and its proofs. Done.
7. **Correlation**, on top of EventGraph, with the reload of its configuration, the search and
   the proofs about both. Done.
8. **EventPaths** and its proofs. Done. Open: several processes in one run of TLC, which the
   proof covers.

## 7. Running

```
tlc -workers 2 -config CollectorThreads.cfg CollectorMC
tlc -workers 2 -config Delivery.cfg Delivery
for m in Collector ConfigReload AlertHub Delivery EventGraph Subgraph Correlation EventPaths
do tlapm ${m}Proofs.tla; done
```
