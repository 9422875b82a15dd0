----------------------------- MODULE EventGraph -----------------------------
(***************************************************************************)
(* The event graph of the analyzer (analyzer/graph.py, EventGraph, and     *)
(* analyzer/analyzer.py, add_event_to_graph), built from the events of     *)
(* processes that run, create processes, execute programs and end.         *)
(*                                                                         *)
(* A process runs one image after another: the one it was created with and *)
(* one more for each execve.  The graph has a node for each of them: the   *)
(* logical node of the process id, then a node for each execve.  Events    *)
(* arrive in the order in which calls return, which is not the order in    *)
(* which they were made: that of a clone may come after those of the child.*)
(*                                                                         *)
(* The fields by and made of events and edges, and as of edges, are        *)
(* history: which image made the call, which image the call made, and the  *)
(* comm of the thread that made it.  The analyzer does not have them, the  *)
(* properties compare the graph with them.                                 *)
(***************************************************************************)
EXTENDS Naturals, Sequences, FiniteSets

CONSTANTS
    Pids,           \* process ids
    NoPid,          \* -1, which a failed clone returns
    First,          \* the process id that runs at the beginning
    Names,          \* names of programs and threads
    FirstName,      \* the program of the first process
    Unknown,        \* "<unknown>"
    Objects,        \* files and addresses
    NoImage,        \* no image: the process id is free
    Workload,       \* which calls which programs make
    Lossy,          \* kind and object of calls whose events may be lost
    Repeats,        \* bound: how often each call of the workload is made
    Threads,        \* bound: calls of one process at a time
    MaxCalls,       \* bound: calls made
    MaxQueue        \* bound: events on their way when the machine makes a step

Kinds == {"touch", "rename", "clone", "exec"}

\* An image: its process, since when it runs, its name.
Images == [proc: Pids, since: 0..MaxCalls, name: Names]

\* Every call every program can make, by a thread that has the name of the program
\* or another: of a file or address, of two files, of none, of a program.
AllCalls ==
    UNION {[name: Names, as: Names, kind: {"touch"}, what: Objects],
           [name: Names, as: Names, kind: {"rename"}, what: Objects \X Objects],
           [name: Names, as: Names, kind: {"clone"}, what: {Unknown}],
           [name: Names, as: Names, kind: {"exec"}, what: Names]}

ASSUME EventGraphAssumption ==
    /\ First \in Pids /\ NoPid \notin Pids
    /\ FirstName \in Names
    /\ Unknown \notin Names
    /\ NoImage \notin Images
    /\ Workload \subseteq AllCalls
    /\ Lossy \subseteq {<<w.kind, w.what>> : w \in Workload}
    /\ Repeats \in [Workload -> Nat]
    /\ Threads \in Nat /\ MaxCalls \in Nat /\ MaxQueue \in Nat

VARIABLES
    image,          \* the image that runs under each process id
    born,           \* the image that each process id was first given to (history)
    shared,         \* process ids of more than one process (history)
    calls,          \* system calls in flight
    clock,          \* system calls made so far
    issued,         \* how often each call of the workload was made
    lost,           \* calls whose event was lost on the way (history)
    queue,          \* events on their way to the analyzer
    current,        \* _current_process_nodes
    comm,           \* the process nodes of the graph and their comm
    edges           \* the edges of the graph in the order they were added

kernel == <<image, born, shared, calls, clock, issued, lost>>
analyzer == <<current, comm, edges>>
vars == <<image, born, shared, calls, clock, issued, lost, queue, current, comm, edges>>

-----------------------------------------------------------------------------
(* Node ids.  The agent names its host "localhost": a process id is all     *)
(* that tells processes apart.                                              *)

ProcessNode(pid, t) == [type |-> "process", id |-> pid, exec |-> t]
ObjectNode(x) == [type |-> "object", id |-> x, exec |-> 0]
Logical(pid) == ProcessNode(pid, 0)

Init ==
    /\ image = [p \in Pids |->
                    IF p = First THEN [proc |-> p, since |-> 0, name |-> FirstName] ELSE NoImage]
    /\ born = image
    /\ shared = {}
    /\ calls = {}
    /\ clock = 0
    /\ issued = [w \in Workload |-> 0]
    /\ lost = {}
    /\ queue = <<>>
    /\ current = [pid \in Pids |-> Logical(pid)]
    /\ comm = [n \in {} |-> Unknown]
    /\ edges = <<>>

-----------------------------------------------------------------------------
(* The machine *)

CallsOf(p) == {c \in calls : c.proc = p}

\* A thread of p makes a call; its time stamp and its comm, which may be another
\* name than that of the program (prctl, process.title), are taken now.  The other
\* threads go on while one is in execve.
Begin(p, w) ==
    /\ clock < MaxCalls /\ issued[w] < Repeats[w]
    /\ image[p] # NoImage /\ image[p].name = w.name
    /\ Cardinality(CallsOf(p)) < Threads
    /\ clock' = clock + 1
    /\ issued' = [issued EXCEPT ![w] = @ + 1]
    /\ calls' = calls \cup
        {[proc |-> p, kind |-> w.kind, what |-> w.what, time |-> clock', comm |-> w.as,
          by |-> image[p], made |-> NoImage]}
    /\ UNCHANGED <<image, born, shared, lost, queue, analyzer>>

\* A clone makes a process, which runs while its parent is still in the call.
Fork(c, child) ==
    /\ c.kind = "clone" /\ c.made = NoImage
    /\ image[child] = NoImage
    /\ LET new == [proc |-> child, since |-> c.time, name |-> c.by.name] IN
       /\ image' = [image EXCEPT ![child] = new]
       /\ born' = [born EXCEPT ![child] = IF @ = NoImage THEN new ELSE @]
       /\ calls' = (calls \ {c}) \cup {[c EXCEPT !.made = new]}
    /\ shared' = shared \cup {p \in {child} : born[p] # NoImage}
    /\ UNCHANGED <<clock, issued, lost, queue, analyzer>>

\* The event of c is submitted when it returns, or lost: the ring is full, the
\* agent is not connected, or a path filter drops it.
Report(c, ok, made) ==
    \/ /\ queue' = Append(queue,
            [pid |-> c.proc, kind |-> c.kind, what |-> c.what, ok |-> ok, stamp |-> c.time,
             comm |-> c.comm, by |-> c.by, made |-> made])
       /\ UNCHANGED lost
    \/ /\ <<c.kind, c.what>> \in Lossy
       /\ lost' = lost \cup {[kind |-> c.kind, by |-> c.by, made |-> made]}
       /\ UNCHANGED queue

\* A clone that made no process failed.  Of these calls the analyzer does not ask
\* for the result.
Return(c) ==
    /\ c.kind # "exec"
    /\ calls' = calls \ {c}
    /\ Report(c, TRUE, c.made)
    /\ UNCHANGED <<image, born, shared, clock, issued, analyzer>>

\* execve ends the other threads, and their calls, before it returns.
Execute(c) ==
    /\ c.kind = "exec" /\ CallsOf(c.proc) = {c}
    /\ LET new == [proc |-> c.proc, since |-> c.time, name |-> c.what] IN
       /\ image' = [image EXCEPT ![c.proc] = new]
       /\ Report(c, TRUE, new)
    /\ calls' = calls \ {c}
    /\ UNCHANGED <<born, shared, clock, issued, analyzer>>

ExecuteFails(c) ==
    /\ c.kind = "exec"
    /\ calls' = calls \ {c}
    /\ Report(c, FALSE, NoImage)
    /\ UNCHANGED <<image, born, shared, clock, issued, analyzer>>

Exit(p) ==
    /\ image[p] # NoImage /\ CallsOf(p) = {}
    /\ image' = [image EXCEPT ![p] = NoImage]
    /\ UNCHANGED <<born, shared, calls, clock, issued, lost, queue, analyzer>>

Running ==
    /\ Len(queue) < MaxQueue
    /\ \/ \E p \in Pids : \E w \in Workload : Begin(p, w)
       \/ \E c \in calls :
            \/ \E child \in Pids : Fork(c, child)
            \/ Return(c)
            \/ Execute(c)
            \/ ExecuteFails(c)

Machine == Running \/ \E p \in Pids : Exit(p)

-----------------------------------------------------------------------------
(* The analyzer *)

(* Bug: attributes are updated, but a node that is new is not added. *)
Updated(names, n, name) == [m \in DOMAIN names |-> IF m = n THEN name ELSE names[m]]

\* add_process: the attributes of a node are those of the last call.
Named(names, n, name) == [m \in DOMAIN names \cup {n} |-> IF m = n THEN name ELSE names[m]]

(* Bug: a child is entered into the map anew, although it may run already. *)
RegisterAnew(cur, n) == [cur EXCEPT ![n.id] = n]

\* register_process_node.  A process that is not in the map has its logical
\* node, which setdefault enters, so nothing changes.
Register(cur, n) == cur

SetNode(pid, n) == [current EXCEPT ![pid] = n]

(* Bug: the clone points to the node that the child has by now. *)
ChildNow(e) == IF e.made = NoImage THEN Logical(NoPid) ELSE current[e.made.proc]

\* The node a clone points to: the child as it was created, or a process -1.
ChildNode(e) == Logical(IF e.made = NoImage THEN NoPid ELSE e.made.proc)

(* Bug: a child that is in the graph already loses its name. *)
AddChildAlways(names, n) == Named(names, n, Unknown)

AddChild(names, n) == IF n \in DOMAIN names THEN names ELSE Named(names, n, Unknown)

Edge(e, kind, source, target) ==
    [source |-> source, target |-> target, stamp |-> e.stamp, kind |-> kind,
     as |-> e.comm, by |-> e.by, made |-> e.made]

(* Bug: the node that calls execve gets the name of the new program. *)
AddExecuteRenaming(e) ==
    LET node == ProcessNode(e.pid, e.stamp)
    IN  /\ e.kind = "exec" /\ e.ok
        /\ comm' = Named(Named(comm, current[e.pid], e.what), node, e.what)
        /\ edges' = Append(edges, Edge(e, e.kind, current[e.pid], node))
        /\ current' = SetNode(e.pid, node)

(* Bug: an execve counts as successful whatever it returned. *)
AddExecuteUnchecked(e) ==
    LET node == ProcessNode(e.pid, e.stamp)
    IN  /\ e.kind = "exec"
        /\ comm' = Named(Named(comm, current[e.pid], e.comm), node, e.what)
        /\ edges' = Append(edges, Edge(e, e.kind, current[e.pid], node))
        /\ current' = SetNode(e.pid, node)

AddExecute(e) ==
    LET subject == current[e.pid]
        node == ProcessNode(e.pid, e.stamp)
    IN  /\ e.kind = "exec" /\ e.ok
        /\ comm' = Named(Named(comm, subject, e.comm), node, e.what)
        /\ edges' = Append(edges, Edge(e, e.kind, subject, node))
        /\ current' = SetNode(e.pid, node)

AddObject(e) ==
    LET subject == current[e.pid]
    IN  /\ e.kind = "touch" \/ (e.kind = "exec" /\ ~e.ok)
        /\ comm' = Named(comm, subject, e.comm)
        /\ edges' = Append(edges, Edge(e, e.kind, subject, ObjectNode(e.what)))
        /\ UNCHANGED current

AddRename(e) ==
    LET subject == current[e.pid]
        old == ObjectNode(e.what[1])
        new == ObjectNode(e.what[2])
    IN  /\ e.kind = "rename"
        /\ comm' = Named(comm, subject, e.comm)
        /\ edges' = edges \o <<Edge(e, "request", subject, old), Edge(e, e.kind, old, new)>>
        /\ UNCHANGED current

AddClone(e) ==
    LET subject == current[e.pid]
        child == ChildNode(e)
    IN  /\ e.kind = "clone"
        /\ comm' = AddChild(Named(comm, subject, e.comm), child)
        /\ edges' = Append(edges, Edge(e, e.kind, subject, child))
        /\ current' = Register(current, child)

add_event_to_graph(e) == AddExecute(e) \/ AddObject(e) \/ AddRename(e) \/ AddClone(e)

\* The worker takes the next event.
Handle ==
    /\ queue # <<>>
    /\ add_event_to_graph(Head(queue))
    /\ queue' = Tail(queue)
    /\ UNCHANGED kernel

Next == Machine \/ Handle

Spec == Init /\ [][Next]_vars

-----------------------------------------------------------------------------
(* Properties *)

Edges == {edges[i] : i \in DOMAIN edges}
ByProcess == {e \in Edges : e.source.type = "process"}

\* Types; and every process at an end of an edge is a node with attributes, not
\* one that networkx adds without them.
TypeOK ==
    /\ image \in [Pids -> Images \cup {NoImage}]
    /\ born \in [Pids -> Images \cup {NoImage}]
    /\ shared \subseteq {p \in Pids : born[p] # NoImage}
    /\ clock \in 0..MaxCalls
    /\ \A c \in calls : c.proc \in Pids /\ c.by \in Images /\ c.time \in 1..clock
    /\ DOMAIN current = Pids
    /\ \A pid \in Pids : current[pid] \in {ProcessNode(pid, t) : t \in 0..MaxCalls}
    /\ \A n \in DOMAIN comm : comm[n] \in Names \cup {Unknown}
    /\ \A e \in Edges : \A n \in {e.source, e.target} : n.type = "process" => n \in DOMAIN comm

\* The execve that made an image was not reported: its calls are taken for those
\* of the image before.
Unseen(im) == \E l \in lost : l.kind = "exec" /\ l.made = im

\* The calls at one node are those of one image (analyzer.py:187-189, 242): what
\* a process did before an execve that was reported does not count as done by the
\* program after it.  A process id that was used before goes on at the last node
\* of its former process (graph.py:59-63).
NodeIsOneImage ==
    \A e, f \in ByProcess : e.source = f.source =>
        e.by = f.by \/ Unseen(e.by) \/ Unseen(f.by) \/ e.source.id \in shared

\* All calls of one image are at one node, also those of a child that arrive
\* before the clone that made it (analyzer.py:286-292), whatever is lost and
\* whatever used the process id before.
ImageIsOneNode == \A e, f \in ByProcess : e.by = f.by => e.source = f.source

\* README.md:65, "only earlier causally related edges": where get_subgraph goes
\* from a call to what made the process that called (graph.py:23-40), it did make
\* it, or what it was before an execve that was not reported, unless the process
\* id belonged to another process before.
OnlyCausallyRelated ==
    \A e, f \in Edges :
        e.source.type = "process" /\ f.target = e.source /\ f.stamp <= e.stamp =>
            \/ f.made = e.by
            \/ Unseen(e.by) /\ f.made.proc = e.by.proc
            \/ e.source.id \in shared

\* The name of a node, by which the patterns recognise it, is one under which the
\* program that made its calls made some (analyzer.py:190-196, 286-291): never that of
\* the program before or after an execve, of the parent, or none, unless an execve of
\* that process was not reported or its id was used before.
NamedAsCalled ==
    \A e \in ByProcess :
        \/ \E f \in ByProcess : f.by = e.by /\ f.as = comm[e.source]
        \/ \E l \in lost : l.kind = "exec" /\ l.by.proc = e.by.proc
        \/ e.source.id \in shared
=============================================================================
