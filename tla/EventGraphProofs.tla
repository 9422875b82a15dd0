-------------------------- MODULE EventGraphProofs --------------------------
(* Proofs about EventGraph, for every value of its constants: any number of *)
(* processes, calls, threads and events under way, any workload, any loss.  *)
EXTENDS EventGraph, SequenceTheorems, TLAPS

-----------------------------------------------------------------------------
(* The inductive invariant *)

NamesOrNone == Names \cup {Unknown}
Targets == Objects \cup (Objects \X Objects) \cup NamesOrNone
Stamps == 0..MaxCalls

\* What a call of each kind is of.
SortOf(kind, what) ==
    /\ kind = "exec" => what \in Names
    /\ kind = "touch" => what \in Objects
    /\ kind = "rename" => what \in Objects \X Objects

Calls ==
    [proc : Pids, kind : Kinds, what : Targets, time : Stamps, comm : Names, by : Images,
     made : Images \cup {NoImage}]

Events ==
    [pid : Pids, kind : Kinds, what : Targets, ok : BOOLEAN, stamp : Stamps,
     comm : Names, by : Images, made : Images \cup {NoImage}]

ProcessNodes == [type : {"process"}, id : Pids \cup {NoPid}, exec : Stamps]
ObjectNodes == [type : {"object"}, id : Objects \cup Names, exec : {0}]
GraphNodes == ProcessNodes \cup ObjectNodes

EdgeRecs ==
    [source : GraphNodes, target : GraphNodes, stamp : Stamps, kind : Kinds \cup {"request"},
     as : Names, by : Images, made : Images \cup {NoImage}]

\* The machine: an image runs under its own process id, a call in flight is made
\* by the image that runs, and no two calls have one time stamp.
MachineOK ==
    /\ clock \in Stamps
    /\ image \in [Pids -> Images \cup {NoImage}]
    /\ \A p \in Pids : image[p] # NoImage => image[p].proc = p
    /\ born \in [Pids -> Images \cup {NoImage}]
    /\ \A p \in Pids : born[p] # NoImage => born[p].proc = p
    /\ \A p \in Pids : image[p] # NoImage => born[p] # NoImage
    /\ born[First] # NoImage /\ born[First].since = 0
    /\ shared \subseteq {p \in Pids : born[p] # NoImage}
    /\ \A c \in calls :
        /\ c \in Calls /\ SortOf(c.kind, c.what)
        /\ image[c.proc] # NoImage /\ c.by = image[c.proc]
        /\ c.time \in 1..clock
        /\ c.made # NoImage => c.kind = "clone"
    /\ \A c, d \in calls : c.time = d.time => c = d

\* The events are those of calls that returned.
QueueOK ==
    /\ queue \in Seq(Events)
    /\ \A j \in 1..Len(queue) :
        /\ SortOf(queue[j].kind, queue[j].what)
        /\ queue[j].by.proc = queue[j].pid

\* The process nodes with their names.
Attributes(names) ==
    DOMAIN names \subseteq ProcessNodes /\ \A n \in DOMAIN names : names[n] \in NamesOrNone

GraphOK ==
    /\ current \in [Pids -> ProcessNodes]
    /\ \A p \in Pids : current[p].id = p
    /\ Attributes(comm)
    /\ edges \in Seq(EdgeRecs)
    /\ \A e \in Edges : \A n \in {e.source, e.target} : n.type = "process" => n \in DOMAIN comm

\* An image that the machine, an event or an edge tells of.
Known(im) ==
    \/ \E p \in Pids : im \in {image[p], born[p]}
    \/ \E c \in calls : im = c.made
    \/ \E j \in 1..Len(queue) : im \in {queue[j].by, queue[j].made}
    \/ \E e \in Edges : im \in {e.by, e.made}

\* No two images have run since the same time, and the image a call in flight may
\* yet make is one that nothing tells of.
Fresh ==
    /\ \A a, b \in Images : Known(a) /\ Known(b) /\ a.since = b.since => a = b
    /\ \A im \in Images : Known(im) =>
        /\ im.since <= clock
        /\ born[im.proc] # NoImage
        /\ \A c \in calls : c.made = NoImage => im.since # c.time

\* The event after which the analyzer enters a new node for its process.
Ends(x) == x.kind = "exec" /\ x.ok

\* The events under way are handled at the node of the image that made the call:
\* at the current one, if the graph knows the image and no execve is in between;
\* and after an execve no event of the image before it comes.
QueueFits ==
    /\ \A e \in ByProcess : \A j \in 1..Len(queue) :
        queue[j].by = e.by => e.source = current[queue[j].pid]
    /\ \A e \in ByProcess : \A i, j \in 1..Len(queue) :
        i < j /\ Ends(queue[i]) /\ queue[i].pid = queue[j].pid => e.by # queue[j].by
    /\ \A i, j, k \in 1..Len(queue) :
        k <= i /\ i < j /\ Ends(queue[i]) /\ queue[i].pid = queue[j].pid =>
            queue[k].by # queue[j].by

\* The same of the events yet to come, which are those of the image that runs.
RunningFits ==
    \A p \in Pids : image[p] # NoImage =>
        /\ \A e \in ByProcess : e.by = image[p] => e.source = current[p]
        /\ \A i \in 1..Len(queue) : Ends(queue[i]) /\ queue[i].pid = p =>
            /\ \A e \in ByProcess : e.by # image[p]
            /\ \A k \in 1..i : queue[k].by # image[p]

IInv ==
    /\ MachineOK /\ QueueOK /\ GraphOK
    /\ Fresh /\ QueueFits /\ RunningFits
    /\ ImageIsOneNode

-----------------------------------------------------------------------------
(* The second layer: whose node is whose *)

\* The analyzer cannot tell the image from the one before it.
Excused(im) == im.proc \in shared \/ Unseen(im)

\* The node of an image: the logical one for the first of a process.
NodeFor(im) == ProcessNode(im.proc, IF im = born[im.proc] THEN 0 ELSE im.since)

EndOf(q, i, p) == Ends(q[i]) /\ q[i].pid = p

\* A process id that no process had yet is at its logical node.
FirstNode == \A p \in Pids : born[p] = NoImage => current[p] = Logical(p)

\* A clone made the first image of its process, if any, an execve another.
CallsMade ==
    \A c \in calls : c.made # NoImage => c.made = born[c.made.proc] \/ c.made.proc \in shared

QueueMade ==
    \A j \in 1..Len(queue) :
        /\ queue[j].kind = "clone" /\ queue[j].made # NoImage =>
            queue[j].made = born[queue[j].made.proc] \/ queue[j].made.proc \in shared
        /\ Ends(queue[j]) =>
            /\ queue[j].made \in Images /\ queue[j].made.proc = queue[j].pid
            /\ queue[j].made.since = queue[j].stamp /\ queue[j].made.name = queue[j].what
            /\ queue[j].made # born[queue[j].pid]

LostMade == \A l \in lost : l.kind = "exec" /\ l.made # NoImage => l.by.proc = l.made.proc

\* An edge leaves the node of the image that called, and enters that of the image
\* that the call made.
EdgesFit ==
    /\ \A e \in ByProcess :
        /\ e.source.id = e.by.proc
        /\ ~ Excused(e.by) => e.source = NodeFor(e.by)
    /\ \A e \in Edges : e.target.type = "process" /\ e.target.id # NoPid =>
        /\ e.made \in Images /\ e.target.id = e.made.proc
        /\ e.made.proc \notin shared => e.target = NodeFor(e.made)

\* An event under way will be handled at the node of the image that called.
EventsFit ==
    /\ \A j \in 1..Len(queue) :
        ~ Excused(queue[j].by) /\ (\A k \in 1..(j - 1) : ~ EndOf(queue, k, queue[j].pid)) =>
            current[queue[j].pid] = NodeFor(queue[j].by)
    /\ \A i, j \in 1..Len(queue) :
        /\ i < j /\ EndOf(queue, i, queue[j].pid) /\ ~ Excused(queue[j].by)
        /\ \A k \in (i + 1)..(j - 1) : ~ EndOf(queue, k, queue[j].pid)
        => queue[j].by = queue[i].made

\* And so will the events yet to come.
CallsFit ==
    \A p \in Pids : image[p] # NoImage /\ ~ Excused(image[p]) =>
        /\ (\A k \in 1..Len(queue) : ~ EndOf(queue, k, p)) => current[p] = NodeFor(image[p])
        /\ \A i \in 1..Len(queue) :
            EndOf(queue, i, p) /\ (\A k \in (i + 1)..Len(queue) : ~ EndOf(queue, k, p)) =>
                image[p] = queue[i].made

NodesInv == FirstNode /\ CallsMade /\ QueueMade /\ LostMade /\ EdgesFit /\ EventsFit /\ CallsFit

-----------------------------------------------------------------------------
(* Lemmas about sequences and about the values of the model *)

(* What a sequence with one element more is. *)
LEMMA AppendFacts ==
  ASSUME NEW S, NEW s \in Seq(S), NEW x \in S
  PROVE  /\ Append(s, x) \in Seq(S)
         /\ Len(s) \in Nat /\ Len(Append(s, x)) = Len(s) + 1
         /\ \A i \in 1..Len(s) : Append(s, x)[i] = s[i]
         /\ Append(s, x)[Len(s) + 1] = x
  OBVIOUS

(* What is left of a sequence without its first element. *)
LEMMA TailFacts ==
  ASSUME NEW S, NEW s \in Seq(S), s # <<>>
  PROVE  /\ Tail(s) \in Seq(S)
         /\ Len(s) \in Nat /\ Len(s) >= 1 /\ Len(Tail(s)) = Len(s) - 1
         /\ Head(s) = s[1] /\ s[1] \in S
         /\ \A i \in 1..Len(Tail(s)) : i + 1 \in 1..Len(s) /\ Tail(s)[i] = s[i + 1]
  OBVIOUS

\* An edge more is a member more, two are two.
LEMMA RangeOfAppend ==
  ASSUME NEW S, NEW s \in Seq(S), NEW x \in S
  PROVE  Range(Append(s, x)) = Range(s) \cup {x}
  <1>1. Append(s, x) = s \o <<x>> /\ <<x>> \in Seq(S)
    BY AppendIsConcat
  <1>2. Range(<<x>>) = {x}
    BY DEF Range
  <1>3. Range(s \o <<x>>) = Range(s) \cup Range(<<x>>)
    BY <1>1, RangeConcatenation, ZenonT(40)
  <1> QED  BY <1>1, <1>2, <1>3

(* What a sequence with two elements more holds. *)
LEMMA RangeOfTwo ==
  ASSUME NEW S, NEW s \in Seq(S), NEW x \in S, NEW y \in S
  PROVE  /\ s \o <<x, y>> \in Seq(S)
         /\ Range(s \o <<x, y>>) = Range(s) \cup {x, y}
  <1>1. <<x, y>> \in Seq(S) /\ s \o <<x, y>> \in Seq(S)
    OBVIOUS
  <1>2. Range(<<x, y>>) = {x, y}
    <2>1. DOMAIN <<x, y>> = {1, 2} /\ <<x, y>>[1] = x /\ <<x, y>>[2] = y
      OBVIOUS
    <2> QED  BY <2>1 DEF Range
  <1>3. Range(s \o <<x, y>>) = Range(s) \cup Range(<<x, y>>)
    BY <1>1, RangeConcatenation, ZenonT(40)
  <1> QED  BY <1>1, <1>2, <1>3

\* The edges of the graph are what the sequence of its edges holds.
LEMMA EdgesRange == Edges = Range(edges) /\ Edges' = Range(edges')
  BY DEF Edges, Range

\* The calls of the workload are calls that programs make.
LEMMA WorkloadFacts ==
  ASSUME NEW w \in Workload
  PROVE  /\ w.as \in Names /\ w.kind \in Kinds /\ w.what \in Targets
         /\ SortOf(w.kind, w.what)
  <1>1. w \in AllCalls
    BY EventGraphAssumption DEF EventGraphAssumption
  <1>2. CASE w \in [name: Names, as: Names, kind: {"touch"}, what: Objects]
    BY <1>2 DEF SortOf, Kinds, Targets, NamesOrNone
  <1>3. CASE w \in [name: Names, as: Names, kind: {"rename"}, what: Objects \X Objects]
    BY <1>3 DEF SortOf, Kinds, Targets, NamesOrNone
  <1>4. CASE w \in [name: Names, as: Names, kind: {"clone"}, what: {Unknown}]
    BY <1>4 DEF SortOf, Kinds, Targets, NamesOrNone
  <1>5. CASE w \in [name: Names, as: Names, kind: {"exec"}, what: Names]
    BY <1>5 DEF SortOf, Kinds, Targets, NamesOrNone
  <1> QED  BY <1>1, <1>2, <1>3, <1>4, <1>5 DEF AllCalls

(* What an image consists of. *)
LEMMA ImageFacts ==
  /\ MaxCalls \in Nat
  /\ NoImage \notin Images
  /\ \A im \in Images : im.proc \in Pids /\ im.since \in Stamps /\ im.name \in Names
  /\ \A p \in Pids, t \in Stamps, n \in Names :
        [proc |-> p, since |-> t, name |-> n] \in Images
  BY EventGraphAssumption DEF EventGraphAssumption, Images, Stamps

-----------------------------------------------------------------------------
(* The initial states *)

(* The invariant holds at the start. *)
LEMMA InitIInv == Init => IInv
  <1> SUFFICES ASSUME Init PROVE IInv
    OBVIOUS
  <1> DEFINE first == [proc |-> First, since |-> 0, name |-> FirstName]
  <1>1. first \in Images /\ NoImage \notin Images /\ 0 \in Stamps
    BY ImageFacts, EventGraphAssumption DEF EventGraphAssumption, Stamps
  <1>2. /\ image \in [Pids -> Images \cup {NoImage}]
        /\ \A p \in Pids : image[p] # NoImage => p = First /\ image[p] = first
    BY <1>1 DEF Init
  <1>3. MachineOK
    <2>1. First \in Pids /\ image[First] = first /\ born = image /\ first.since = 0
      BY EventGraphAssumption DEF EventGraphAssumption, Init
    <2> QED  BY <1>1, <1>2, <2>1 DEF Init, MachineOK
  <1>4. queue = <<>> /\ edges = <<>> /\ Edges = {} /\ ByProcess = {} /\ Len(queue) = 0
    BY DEF Init, Edges, ByProcess
  <1>5. QueueOK /\ QueueFits
    BY <1>4 DEF QueueOK, QueueFits
  <1>6. GraphOK
    BY <1>1, <1>4 DEF Init, GraphOK, Attributes, Logical, ProcessNode, ProcessNodes
  <1>7. RunningFits
    BY <1>1, <1>2, <1>4 DEF Init, RunningFits
  <1>8. Fresh
    <2>1. calls = {} /\ born = image /\ clock = 0
      BY DEF Init
    <2>2. \A im \in Images : Known(im) => im = first
      BY <1>1, <1>2, <1>4, <2>1 DEF Known
    <2>3. born[First] # NoImage /\ first.proc = First /\ first.since = 0
      BY <1>1, <2>1, EventGraphAssumption DEF EventGraphAssumption, Init
    <2> QED  BY <2>1, <2>2, <2>3 DEF Fresh
  <1> QED  BY <1>3, <1>4, <1>5, <1>6, <1>7, <1>8 DEF IInv, ImageIsOneNode

-----------------------------------------------------------------------------
(* The machine *)

\* What a step of the machine leaves alone.
LEMMA GraphKept ==
  ASSUME GraphOK, ImageIsOneNode, UNCHANGED analyzer
  PROVE  /\ GraphOK' /\ ImageIsOneNode'
         /\ Edges' = Edges /\ ByProcess' = ByProcess
  <1>1. edges' = edges /\ current' = current /\ comm' = comm
    BY DEF analyzer
  <1>2. Edges' = Edges
    BY <1>1 DEF Edges
  <1>3. ByProcess' = ByProcess
    BY <1>2 DEF ByProcess
  <1> QED  BY <1>1, <1>2, <1>3 DEF GraphOK, ImageIsOneNode

\* No image more is known.
LEMMA FreshKept ==
  ASSUME MachineOK, Fresh, clock' \in Nat, clock <= clock', born' = born,
         \A im \in Images : Known(im)' => Known(im),
         \A c \in calls' : c.made = NoImage => c \in calls \/ c.time > clock
  PROVE  Fresh'
  <1>1. \A a, b \in Images : Known(a)' /\ Known(b)' /\ a.since = b.since => a = b
    BY DEF Fresh
  <1>2. ASSUME NEW im \in Images, Known(im)'
        PROVE  /\ im.since <= clock' /\ born'[im.proc] # NoImage
               /\ \A c \in calls' : c.made = NoImage => im.since # c.time
    <2>1. im.since \in Nat /\ clock \in Nat
      BY ImageFacts DEF Stamps, MachineOK
    <2>2. im.since <= clock /\ born[im.proc] # NoImage
          /\ \A c \in calls : c.made = NoImage => im.since # c.time
      BY <1>2 DEF Fresh
    <2> QED  BY <2>1, <2>2
  <1> QED  BY <1>1, <1>2 DEF Fresh

\* The call c makes the image new.
LEMMA FreshMade ==
  ASSUME MachineOK, Fresh, NEW c \in calls, c.made = NoImage,
         NEW new \in Images, new.since = c.time,
         clock' = clock, born'[new.proc] # NoImage,
         \A p \in Pids : born[p] # NoImage => born'[p] # NoImage,
         \A im \in Images : Known(im)' => Known(im) \/ im = new,
         \A d \in calls' : d.made = NoImage => d \in calls /\ d # c
  PROVE  Fresh'
  <1>1. c.time \in 1..clock /\ clock \in Nat
    BY ImageFacts DEF MachineOK, Stamps
  <1>2. \A d \in calls : d # c => d.time # c.time
    BY DEF MachineOK
  <1>3. \A im \in Images : Known(im) => im.since # new.since /\ im.proc \in Pids
    BY ImageFacts DEF Fresh
  <1>4. \A a, b \in Images : Known(a)' /\ Known(b)' /\ a.since = b.since => a = b
    BY <1>3 DEF Fresh
  <1>5. ASSUME NEW im \in Images, Known(im)'
        PROVE  /\ im.since <= clock' /\ born'[im.proc] # NoImage
               /\ \A d \in calls' : d.made = NoImage => im.since # d.time
    <2>1. CASE im = new
      BY <1>1, <1>2, <2>1
    <2>2. CASE Known(im)
      BY <1>3, <1>5, <2>2 DEF Fresh
    <2> QED  BY <1>5, <2>1, <2>2
  <1> QED  BY <1>4, <1>5 DEF Fresh

(* A call is made. *)
LEMMA BeginIInv ==
  ASSUME IInv, NEW p \in Pids, NEW w \in Workload, Begin(p, w)
  PROVE  IInv'
  <1> DEFINE new == [proc |-> p, kind |-> w.kind, what |-> w.what, time |-> clock + 1,
                     comm |-> w.as, by |-> image[p], made |-> NoImage]
  <1> USE DEF IInv
  <1>1. /\ clock' = clock + 1 /\ calls' = calls \cup {new}
        /\ image' = image /\ born' = born /\ shared' = shared /\ queue' = queue
        /\ image[p] # NoImage
        /\ UNCHANGED analyzer
    BY DEF Begin
  <1>2. clock \in Nat /\ clock' \in Stamps /\ clock' \in 1..clock'
    BY <1>1, ImageFacts DEF Begin, MachineOK, Stamps
  <1>3. new \in Calls /\ SortOf(new.kind, new.what)
    BY <1>1, <1>2, WorkloadFacts DEF MachineOK, Calls
  <1>4. \A c \in calls : c.time \in 1..clock /\ c.time # clock' /\ c.time \in 1..clock'
    BY <1>1, <1>2 DEF MachineOK
  <1>5. MachineOK'
    BY <1>1, <1>2, <1>3, <1>4 DEF MachineOK
  <1>6. GraphOK' /\ ImageIsOneNode' /\ ByProcess' = ByProcess /\ Edges' = Edges
    BY <1>1, GraphKept
  <1>7. QueueOK' /\ QueueFits' /\ RunningFits'
    BY <1>1, <1>6 DEF QueueOK, QueueFits, RunningFits, analyzer
  <1>8. Fresh'
    <2>1. \A im \in Images : Known(im)' => Known(im)
      BY <1>1, <1>6, ImageFacts DEF Known
    <2> QED  BY <1>1, <1>2, <2>1, FreshKept
  <1> QED  BY <1>5, <1>6, <1>7, <1>8

\* What the report of a call does: the event comes last, or not at all.
LEMMA Reported ==
  ASSUME IInv, NEW c \in calls, NEW ok \in BOOLEAN, NEW made \in Images \cup {NoImage},
         Report(c, ok, made), UNCHANGED analyzer
  PROVE  /\ QueueOK' /\ QueueFits'
         /\ \A j \in 1..Len(queue') :
                \/ queue'[j].by = image[c.proc] /\ queue'[j].made = made
                \/ \E i \in 1..Len(queue) : queue'[j] = queue[i]
         /\ \A p \in Pids : image[p] # NoImage /\ ~ (p = c.proc /\ c.kind = "exec" /\ ok) =>
                \A i \in 1..Len(queue') : Ends(queue'[i]) /\ queue'[i].pid = p =>
                    /\ \A e \in ByProcess : e.by # image[p]
                    /\ \A k \in 1..i : queue'[k].by # image[p]
  <1> DEFINE x == [pid |-> c.proc, kind |-> c.kind, what |-> c.what, ok |-> ok,
                   stamp |-> c.time, comm |-> c.comm, by |-> c.by, made |-> made]
             n == Len(queue)
  <1> USE DEF IInv
  <1>1. /\ c \in Calls /\ SortOf(c.kind, c.what)
        /\ image[c.proc] # NoImage /\ c.by = image[c.proc] /\ c.by.proc = c.proc
        /\ c.proc \in Pids
    BY DEF MachineOK, Calls
  <1>2. x \in Events
    BY <1>1, ImageFacts DEF Calls, Events
  <1>3. ByProcess' = ByProcess /\ current' = current
    BY GraphKept DEF analyzer
  <1>4. CASE queue' = queue
    <2>1. QueueOK' /\ QueueFits'
      BY <1>3, <1>4 DEF QueueOK, QueueFits
    <2> QED  BY <1>4, <2>1 DEF RunningFits
  <1>5. CASE queue' = Append(queue, x)
    <2>1. /\ queue' \in Seq(Events) /\ n \in Nat /\ Len(queue') = n + 1
          /\ \A i \in 1..n : queue'[i] = queue[i]
          /\ queue'[n + 1] = x
      BY <1>2, <1>5, AppendFacts DEF QueueOK
    <2> HIDE DEF x
    <2>2. x.pid = c.proc /\ x.by = image[c.proc] /\ x.kind = c.kind /\ x.ok = ok
          /\ x.what = c.what /\ x.made = made
      BY <1>1 DEF x
    <2>3. \A i \in 1..(n + 1) : i \in 1..n \/ i = n + 1
      BY <2>1
    <2>4. QueueOK'
      BY <1>1, <2>1, <2>2, <2>3 DEF QueueOK
    <2>5. \A e \in ByProcess : x.by = e.by => e.source = current[x.pid]
      <3>1. \A e \in ByProcess : e.by = image[c.proc] => e.source = current[c.proc]
        BY <1>1 DEF RunningFits
      <3> QED  BY <2>2, <3>1
    <2>6. \A i \in 1..n : Ends(queue[i]) /\ queue[i].pid = x.pid =>
            /\ \A e \in ByProcess : e.by # x.by
            /\ \A k \in 1..i : queue[k].by # x.by
      BY <1>1, <2>2 DEF RunningFits
    <2>7. \A e \in ByProcess : \A j \in 1..(n + 1) :
            queue'[j].by = e.by => e.source = current[queue'[j].pid]
      BY <2>1, <2>3, <2>5 DEF QueueFits
    <2>8. \A e \in ByProcess : \A i, j \in 1..(n + 1) :
            i < j /\ Ends(queue'[i]) /\ queue'[i].pid = queue'[j].pid => e.by # queue'[j].by
      <3> SUFFICES ASSUME NEW e \in ByProcess, NEW i \in 1..(n + 1), NEW j \in 1..(n + 1),
                          i < j, Ends(queue'[i]), queue'[i].pid = queue'[j].pid
                   PROVE  e.by # queue'[j].by
        OBVIOUS
      <3>1. i \in 1..n /\ queue'[i] = queue[i]
        BY <2>1
      <3>2. CASE j \in 1..n
        BY <2>1, <3>1, <3>2 DEF QueueFits
      <3>3. CASE j = n + 1
        BY <2>1, <2>6, <3>1, <3>3
      <3> QED  BY <2>3, <3>2, <3>3
    <2>9. \A i, j, k \in 1..(n + 1) :
            k <= i /\ i < j /\ Ends(queue'[i]) /\ queue'[i].pid = queue'[j].pid =>
                queue'[k].by # queue'[j].by
      <3> SUFFICES ASSUME NEW i \in 1..(n + 1), NEW j \in 1..(n + 1), NEW k \in 1..(n + 1),
                          k <= i, i < j, Ends(queue'[i]), queue'[i].pid = queue'[j].pid
                   PROVE  queue'[k].by # queue'[j].by
        OBVIOUS
      <3>1. /\ i \in 1..n /\ queue'[i] = queue[i]
            /\ k \in 1..n /\ k \in 1..i /\ queue'[k] = queue[k]
        BY <2>1
      <3>2. CASE j \in 1..n
        BY <2>1, <3>1, <3>2 DEF QueueFits
      <3>3. CASE j = n + 1
        BY <2>1, <2>6, <3>1, <3>3
      <3> QED  BY <2>3, <3>2, <3>3
    <2>10. QueueFits'
      BY <1>3, <2>1, <2>7, <2>8, <2>9 DEF QueueFits
    <2>11. ASSUME NEW p \in Pids, image[p] # NoImage, ~ (p = c.proc /\ c.kind = "exec" /\ ok),
                  NEW i \in 1..(n + 1), Ends(queue'[i]), queue'[i].pid = p
           PROVE  /\ \A e \in ByProcess : e.by # image[p]
                  /\ \A k \in 1..i : queue'[k].by # image[p]
      <3>1. i \in 1..n
        BY <2>1, <2>2, <2>3, <2>11 DEF Ends
      <3>2. \A k \in 1..i : k \in 1..n /\ queue'[k] = queue[k]
        BY <2>1, <3>1
      <3> QED  BY <2>1, <2>11, <3>1, <3>2 DEF RunningFits
    <2>12. \A j \in 1..(n + 1) : queue'[j] = x \/ \E i \in 1..n : queue'[j] = queue[i]
      BY <2>1, <2>3
    <2> QED  BY <1>1, <2>1, <2>2, <2>4, <2>10, <2>11, <2>12
  <1> QED  BY <1>4, <1>5 DEF Report

\* A call that returns without a change of the image that runs.
LEMMA ReturnsIInv ==
  ASSUME IInv, NEW c \in calls, NEW ok \in BOOLEAN, NEW made \in Images \cup {NoImage},
         c.kind = "exec" => ~ ok,
         Known(made) \/ made = NoImage, Report(c, ok, made), calls' = calls \ {c},
         UNCHANGED <<image, born, shared, clock, issued, analyzer>>
  PROVE  IInv'
  <1> USE DEF IInv
  <1>1. /\ image' = image /\ born' = born /\ shared' = shared /\ clock' = clock
        /\ UNCHANGED analyzer
    OBVIOUS
  <1>2. /\ GraphOK' /\ ImageIsOneNode' /\ current' = current
        /\ ByProcess' = ByProcess /\ Edges' = Edges
    BY <1>1, GraphKept DEF analyzer
  <1>3. MachineOK'
    BY <1>1 DEF MachineOK
  <1>4. QueueOK' /\ QueueFits'
    BY <1>1, Reported
  <1>5. RunningFits'
    <2>1. \A p \in Pids : image[p] # NoImage =>
                \A i \in 1..Len(queue') : Ends(queue'[i]) /\ queue'[i].pid = p =>
                    /\ \A e \in ByProcess : e.by # image[p]
                    /\ \A k \in 1..i : queue'[k].by # image[p]
      BY <1>1, Reported
    <2> QED  BY <1>1, <1>2, <2>1 DEF RunningFits
  <1>6. ASSUME NEW im \in Images, Known(im)'
        PROVE  Known(im)
    <2>1. c.proc \in Pids
      BY DEF MachineOK, Calls
    <2>2. \A j \in 1..Len(queue') :
                \/ queue'[j].by = image[c.proc] /\ queue'[j].made = made
                \/ \E i \in 1..Len(queue) : queue'[j] = queue[i]
      BY <1>1, Reported
    <2>3. im # NoImage
      BY ImageFacts
    <2>4. CASE \E j \in 1..Len(queue') : im \in {queue'[j].by, queue'[j].made}
      BY <2>1, <2>2, <2>3, <2>4 DEF Known
    <2>5. CASE ~ \E j \in 1..Len(queue') : im \in {queue'[j].by, queue'[j].made}
      BY <1>1, <1>2, <1>6, <2>5 DEF Known
    <2> QED  BY <2>4, <2>5
  <1>7. Fresh'
    <2>1. clock \in Nat
      BY ImageFacts DEF MachineOK, Stamps
    <2> QED  BY <1>1, <1>6, <2>1, FreshKept
  <1> QED  BY <1>2, <1>3, <1>4, <1>5, <1>7

(* A call returns, and its event is submitted or lost. *)
LEMMA ReturnIInv ==
  ASSUME IInv, NEW c \in calls, Return(c)
  PROVE  IInv'
  <1>1. c.made \in Images \cup {NoImage}
    BY DEF IInv, MachineOK, Calls
  <1>2. /\ c.kind # "exec"
        /\ Report(c, TRUE, c.made) /\ calls' = calls \ {c}
        /\ UNCHANGED <<image, born, shared, clock, issued, analyzer>>
    BY DEF Return
  <1>3. Known(c.made)
    BY DEF Known
  <1> QED  BY <1>1, <1>2, <1>3, ReturnsIInv

(* An execve fails. *)
LEMMA ExecuteFailsIInv ==
  ASSUME IInv, NEW c \in calls, ExecuteFails(c)
  PROVE  IInv'
  BY ReturnsIInv DEF ExecuteFails

\* A new image, made by a call in flight, is known to nothing.
LEMMA NewImage ==
  ASSUME IInv, NEW c \in calls, c.made = NoImage, NEW p \in Pids, NEW name \in Names
  PROVE  LET new == [proc |-> p, since |-> c.time, name |-> name]
         IN  /\ new \in Images /\ new # NoImage /\ ~ Known(new)
             /\ new.since <= clock
             /\ \A d \in calls : d # c => d.time # new.since
  <1> DEFINE new == [proc |-> p, since |-> c.time, name |-> name]
  <1>1. c.time \in Stamps /\ c.time \in 1..clock /\ clock \in Nat
    BY ImageFacts DEF IInv, MachineOK, Calls, Stamps
  <1>2. new \in Images /\ new # NoImage /\ new.since = c.time
    BY <1>1, ImageFacts
  <1>3. ~ Known(new)
    BY <1>2 DEF IInv, Fresh
  <1>4. \A d \in calls : d # c => d.time # c.time
    BY DEF IInv, MachineOK
  <1> QED  BY <1>1, <1>2, <1>3, <1>4

(* A clone makes a process. *)
LEMMA ForkIInv ==
  ASSUME IInv, NEW c \in calls, NEW child \in Pids, Fork(c, child)
  PROVE  IInv'
  <1> DEFINE new == [proc |-> child, since |-> c.time, name |-> c.by.name]
             d == [c EXCEPT !.made = new]
  <1> USE DEF IInv
  <1>1. /\ c.kind = "clone" /\ c.made = NoImage /\ image[child] = NoImage
        /\ image' = [image EXCEPT ![child] = new]
        /\ calls' = (calls \ {c}) \cup {d}
        /\ born' = [born EXCEPT ![child] = IF @ = NoImage THEN new ELSE @]
        /\ shared' = shared \cup {p \in {child} : born[p] # NoImage}
        /\ clock' = clock /\ queue' = queue /\ UNCHANGED analyzer
    BY DEF Fork
  <1>2. /\ c \in Calls /\ SortOf(c.kind, c.what) /\ c.time \in 1..clock
        /\ c.by = image[c.proc] /\ c.proc \in Pids /\ c.proc # child
        /\ c.by.name \in Names /\ image[c.proc] # NoImage
    BY <1>1, ImageFacts DEF MachineOK, Calls
  <1>3. /\ new \in Images /\ new # NoImage /\ ~ Known(new) /\ new.since <= clock
        /\ \A x \in calls : x # c => x.time # new.since
    BY <1>1, <1>2, NewImage
  <1>4. /\ d \in Calls /\ d.kind = c.kind /\ d.what = c.what /\ d.time = c.time
        /\ d.by = c.by /\ d.proc = c.proc /\ d.made = new
    BY <1>2, <1>3 DEF Calls
  <1>5. new.proc = child /\ new.since = c.time
    OBVIOUS
  <1> HIDE DEF new, d
  <1>6. /\ image' \in [Pids -> Images \cup {NoImage}]
        /\ image'[child] = new
        /\ \A p \in Pids : p # child => image'[p] = image[p]
        /\ born' \in [Pids -> Images \cup {NoImage}]
        /\ born'[child] = IF born[child] = NoImage THEN new ELSE born[child]
        /\ \A p \in Pids : p # child => born'[p] = born[p]
    BY <1>1, <1>3 DEF MachineOK
  <1>7. MachineOK'
    <2>1. /\ clock' \in Stamps
          /\ \A p \in Pids : image'[p] # NoImage => image'[p].proc = p
          /\ \A p \in Pids : born'[p] # NoImage => born'[p].proc = p
          /\ \A p \in Pids : image'[p] # NoImage => born'[p] # NoImage
          /\ shared' \subseteq {p \in Pids : born'[p] # NoImage}
      BY <1>1, <1>3, <1>5, <1>6 DEF MachineOK
    <2>4. born'[First] # NoImage /\ born'[First].since = 0
      BY <1>6, EventGraphAssumption DEF EventGraphAssumption, MachineOK
    <2>2. ASSUME NEW x \in calls'
          PROVE  /\ x \in Calls /\ SortOf(x.kind, x.what)
                 /\ image'[x.proc] # NoImage /\ x.by = image'[x.proc]
                 /\ x.time \in 1..clock'
                 /\ x.made # NoImage => x.kind = "clone"
      <3>1. CASE x = d
        BY <1>1, <1>2, <1>4, <1>6, <3>1
      <3>2. CASE x \in calls
        <4>1. image[x.proc] # NoImage /\ x.proc \in Pids /\ x.proc # child
          BY <1>1, <3>2 DEF MachineOK, Calls
        <4> QED  BY <1>1, <1>6, <3>2, <4>1 DEF MachineOK
      <3> QED  BY <1>1, <3>1, <3>2
    <2>3. \A x, y \in calls' : x.time = y.time => x = y
      BY <1>1, <1>3, <1>4, <1>5 DEF MachineOK
    <2> QED  BY <1>6, <2>1, <2>2, <2>3, <2>4 DEF MachineOK
  <1>8. /\ GraphOK' /\ ImageIsOneNode' /\ current' = current
        /\ ByProcess' = ByProcess /\ Edges' = Edges
    BY <1>1, GraphKept DEF analyzer
  <1>9. QueueOK' /\ QueueFits'
    BY <1>1, <1>8 DEF QueueOK, QueueFits
  <1>10. /\ \A e \in ByProcess : e.by # new
         /\ \A j \in 1..Len(queue) : queue[j].by # new
    BY <1>3 DEF Known, ByProcess
  <1>11. \A i \in 1..Len(queue) : \A k \in 1..i : k \in 1..Len(queue)
    BY LenProperties DEF QueueOK
  <1>12. RunningFits'
    BY <1>1, <1>6, <1>8, <1>10, <1>11 DEF RunningFits
  <1>13. Fresh'
    <2>1. ASSUME NEW im \in Images, Known(im)'
          PROVE  Known(im) \/ im = new
      <3>1. CASE \E p \in Pids : im \in {image'[p], born'[p]}
        BY <1>6, <3>1, ImageFacts DEF Known
      <3>2. CASE \E x \in calls' : im = x.made
        BY <1>1, <1>4, <3>2 DEF Known
      <3> QED  BY <1>1, <1>8, <2>1, <3>1, <3>2 DEF Known
    <2>2. \A x \in calls' : x.made = NoImage => x \in calls /\ x # c
      BY <1>1, <1>3, <1>4
    <2>3. born'[new.proc] # NoImage /\ \A p \in Pids : born[p] # NoImage => born'[p] # NoImage
      BY <1>3, <1>5, <1>6
    <2> QED  BY <1>1, <1>3, <1>5, <2>1, <2>2, <2>3, FreshMade
  <1> QED  BY <1>7, <1>8, <1>9, <1>12, <1>13

(* An execve makes a new image. *)
LEMMA ExecuteIInv ==
  ASSUME IInv, NEW c \in calls, Execute(c)
  PROVE  IInv'
  <1> DEFINE new == [proc |-> c.proc, since |-> c.time, name |-> c.what]
  <1> USE DEF IInv
  <1>1. /\ c.kind = "exec" /\ CallsOf(c.proc) = {c}
        /\ image' = [image EXCEPT ![c.proc] = new]
        /\ Report(c, TRUE, new)
        /\ calls' = calls \ {c}
        /\ born' = born /\ shared' = shared /\ clock' = clock /\ UNCHANGED analyzer
    BY DEF Execute
  <1>2. /\ c \in Calls /\ c.what \in Names /\ c.proc \in Pids
        /\ image[c.proc] # NoImage
    BY <1>1 DEF MachineOK, Calls, SortOf
  <1>3. c.made = NoImage
    BY <1>1 DEF MachineOK
  <1>4. /\ new \in Images /\ new # NoImage /\ ~ Known(new) /\ new.since <= clock
        /\ \A x \in calls : x # c => x.time # new.since
    BY <1>2, <1>3, NewImage
  <1>5. new.proc = c.proc
    OBVIOUS
  <1> HIDE DEF new
  <1>6. /\ image' \in [Pids -> Images \cup {NoImage}]
        /\ image'[c.proc] = new
        /\ \A p \in Pids : p # c.proc => image'[p] = image[p]
    BY <1>1, <1>2, <1>4 DEF MachineOK
  <1>7. MachineOK'
    <2>1. /\ clock' \in Stamps /\ shared' \subseteq {p \in Pids : born'[p] # NoImage}
          /\ \A p \in Pids : image'[p] # NoImage => image'[p].proc = p /\ born'[p] # NoImage
      BY <1>1, <1>2, <1>5, <1>6 DEF MachineOK
    <2>2. \A x \in calls' : x \in calls /\ x.proc \in Pids /\ x.proc # c.proc
      BY <1>1 DEF CallsOf, MachineOK, Calls
    <2>3. \A x \in calls' : image'[x.proc] = image[x.proc]
      BY <1>6, <2>2
    <2> QED  BY <1>1, <1>6, <2>1, <2>2, <2>3 DEF MachineOK
  <1>8. /\ GraphOK' /\ ImageIsOneNode' /\ current' = current
        /\ ByProcess' = ByProcess /\ Edges' = Edges
    BY <1>1, GraphKept DEF analyzer
  <1>9. /\ QueueOK' /\ QueueFits'
        /\ \A j \in 1..Len(queue') :
                \/ queue'[j].by = image[c.proc] /\ queue'[j].made = new
                \/ \E i \in 1..Len(queue) : queue'[j] = queue[i]
        /\ \A p \in Pids : image[p] # NoImage /\ p # c.proc =>
                \A i \in 1..Len(queue') : Ends(queue'[i]) /\ queue'[i].pid = p =>
                    /\ \A e \in ByProcess : e.by # image[p]
                    /\ \A k \in 1..i : queue'[k].by # image[p]
    <2>1. new \in Images \cup {NoImage} /\ TRUE \in BOOLEAN
      BY <1>4
    <2> QED  BY <1>1, <2>1, Reported
  <1>10. /\ \A e \in ByProcess : e.by # new
         /\ \A j \in 1..Len(queue') : queue'[j].by # new
    BY <1>2, <1>4, <1>9 DEF Known, ByProcess
  <1>11. \A i \in 1..Len(queue') : \A k \in 1..i : k \in 1..Len(queue')
    BY <1>9, LenProperties DEF QueueOK
  <1>12. RunningFits'
    <2>1. ASSUME NEW p \in Pids, image'[p] # NoImage
          PROVE  /\ \A e \in ByProcess' : e.by = image'[p] => e.source = current'[p]
                 /\ \A i \in 1..Len(queue') : Ends(queue'[i]) /\ queue'[i].pid = p =>
                        /\ \A e \in ByProcess' : e.by # image'[p]
                        /\ \A k \in 1..i : queue'[k].by # image'[p]
      <3>1. CASE p = c.proc
        BY <1>6, <1>8, <1>10, <1>11, <3>1
      <3>2. CASE p # c.proc
        BY <1>6, <1>8, <1>9, <2>1, <3>2 DEF RunningFits
      <3> QED  BY <3>1, <3>2
    <2> QED  BY <2>1 DEF RunningFits
  <1>13. Fresh'
    <2>1. ASSUME NEW im \in Images, Known(im)'
          PROVE  Known(im) \/ im = new
      <3>1. CASE \E p \in Pids : im \in {image'[p], born'[p]}
        BY <1>1, <1>6, <3>1 DEF Known
      <3>2. CASE \E j \in 1..Len(queue') : im \in {queue'[j].by, queue'[j].made}
        BY <1>2, <1>9, <3>2 DEF Known
      <3> QED  BY <1>1, <1>8, <2>1, <3>1, <3>2 DEF Known
    <2>2. \A x \in calls' : x \in calls /\ x # c
      BY <1>1
    <2>3. born'[new.proc] # NoImage /\ new.since = c.time
      BY <1>1, <1>2 DEF MachineOK, new
    <2> QED  BY <1>1, <1>3, <1>4, <2>1, <2>2, <2>3, FreshMade
  <1> QED  BY <1>7, <1>8, <1>9, <1>12, <1>13

\* A process ends when none of its calls is in flight.
LEMMA ExitIInv ==
  ASSUME IInv, NEW p \in Pids, Exit(p)
  PROVE  IInv'
  <1> USE DEF IInv
  <1>1. /\ CallsOf(p) = {} /\ image' = [image EXCEPT ![p] = NoImage]
        /\ born' = born /\ shared' = shared /\ calls' = calls /\ clock' = clock
        /\ queue' = queue /\ UNCHANGED analyzer
    BY DEF Exit
  <1>2. /\ image' \in [Pids -> Images \cup {NoImage}]
        /\ \A q \in Pids : image'[q] # NoImage => image'[q] = image[q]
        /\ \A q \in Pids : q # p => image'[q] = image[q]
    BY <1>1 DEF MachineOK
  <1>3. \A c \in calls : c.proc \in Pids /\ c.proc # p
    BY <1>1 DEF CallsOf, MachineOK, Calls
  <1>4. MachineOK'
    BY <1>1, <1>2, <1>3 DEF MachineOK
  <1>5. /\ GraphOK' /\ ImageIsOneNode' /\ current' = current
        /\ ByProcess' = ByProcess /\ Edges' = Edges
    BY <1>1, GraphKept DEF analyzer
  <1>6. QueueOK' /\ QueueFits'
    BY <1>1, <1>5 DEF QueueOK, QueueFits
  <1>7. RunningFits'
    BY <1>1, <1>2, <1>5 DEF RunningFits
  <1>8. \A im \in Images : Known(im)' => Known(im)
    BY <1>1, <1>2, <1>5, ImageFacts DEF Known
  <1>9. Fresh'
    <2>1. clock \in Nat
      BY ImageFacts DEF MachineOK, Stamps
    <2> QED  BY <1>1, <1>8, <2>1, FreshKept
  <1> QED  BY <1>4, <1>5, <1>6, <1>7, <1>9

-----------------------------------------------------------------------------
(* The analyzer *)

\* The event that is handled next.
LEMMA HeadFacts ==
  ASSUME IInv, queue # <<>>
  PROVE  /\ 1 \in 1..Len(queue) /\ Head(queue) = queue[1]
         /\ queue[1] \in Events /\ SortOf(queue[1].kind, queue[1].what)
         /\ queue[1].by.proc = queue[1].pid
  BY TailFacts DEF IInv, QueueOK

\* An edge of an event, between two nodes, is one of the graph.
LEMMA EdgeFacts ==
  ASSUME NEW e \in Events, NEW kind \in Kinds \cup {"request"},
         NEW source \in GraphNodes, NEW target \in GraphNodes
  PROVE  /\ Edge(e, kind, source, target) \in EdgeRecs
         /\ Edge(e, kind, source, target).by = e.by
         /\ Edge(e, kind, source, target).as = e.comm
         /\ Edge(e, kind, source, target).made = e.made
         /\ Edge(e, kind, source, target).source = source
         /\ Edge(e, kind, source, target).target = target
  BY DEF Edge, EdgeRecs, Events

\* A node more, with its name.
LEMMA NamedFacts ==
  ASSUME NEW names, Attributes(names), NEW m \in ProcessNodes, NEW name \in NamesOrNone
  PROVE  /\ Attributes(Named(names, m, name))
         /\ DOMAIN Named(names, m, name) = DOMAIN names \cup {m}
  BY DEF Named, Attributes

\* An edge that an event adds: from a process it is from the current node of the
\* process that made the call, to a process it is to the node of what it made.
AddedBy(e, x) ==
    /\ x.by = e.by /\ x.made = e.made
    /\ x.source.type = "process" => x.source = current[e.pid]
    /\ x.target.type = "process" =>
        \/ Ends(e) /\ x.target = ProcessNode(e.pid, e.stamp)
        \/ e.kind = "clone" /\ x.target = ChildNode(e)

\* What an event does to the graph.
Adds(e) ==
    /\ GraphOK'
    /\ \A x \in Edges' : x \in Edges \/ AddedBy(e, x)
    /\ \A p \in Pids :
        current'[p] = IF Ends(e) /\ p = e.pid THEN ProcessNode(p, e.stamp) ELSE current[p]
    /\ \A n \in DOMAIN comm \cup {current[e.pid]} :
        comm'[n] = IF Ends(e) /\ n = ProcessNode(e.pid, e.stamp) THEN e.what
                   ELSE IF n = current[e.pid] THEN e.comm ELSE comm[n]

(* The node that an event is added to. *)
LEMMA SubjectFacts ==
  ASSUME GraphOK, NEW e \in Events
  PROVE  /\ current[e.pid] \in ProcessNodes /\ current[e.pid] \in GraphNodes
         /\ current[e.pid].type = "process"
         /\ e.comm \in NamesOrNone /\ e.kind \in Kinds \cup {"request"} /\ e.pid \in Pids
         /\ Attributes(comm)
  BY DEF GraphOK, Events, GraphNodes, ProcessNodes, NamesOrNone

\* The calls with one target.
LEMMA OneEdge ==
  ASSUME GraphOK, NEW e \in Events, NEW target \in GraphNodes,
         edges' = Append(edges, Edge(e, e.kind, current[e.pid], target)),
         current' \in [Pids -> ProcessNodes],
         \A p \in Pids : current'[p].id = p,
         Attributes(comm'),
         DOMAIN comm \cup {current[e.pid]} \subseteq DOMAIN comm',
         target.type = "process" => target \in DOMAIN comm'
  PROVE  /\ GraphOK'
         /\ \A x \in Edges' :
                \/ x \in Edges
                \/ /\ x.by = e.by /\ x.made = e.made
                   /\ x.source = current[e.pid] /\ x.target = target
  <1> DEFINE y == Edge(e, e.kind, current[e.pid], target)
  <1>1. /\ y \in EdgeRecs /\ y.source = current[e.pid] /\ y.target = target
        /\ y.by = e.by /\ y.made = e.made
    <2>1. current[e.pid] \in GraphNodes /\ e.kind \in Kinds \cup {"request"}
      BY SubjectFacts
    <2> QED  BY <2>1, EdgeFacts
  <1> HIDE DEF y
  <1>2. edges' \in Seq(EdgeRecs) /\ Edges' = Edges \cup {y}
    <2>1. edges \in Seq(EdgeRecs) /\ edges' = Append(edges, y)
      BY DEF GraphOK, y
    <2>2. edges' \in Seq(EdgeRecs) /\ Range(edges') = Range(edges) \cup {y}
      BY <1>1, <2>1, AppendFacts, RangeOfAppend
    <2> QED  BY <2>2, EdgesRange
  <1>3. \A x \in Edges' : \A n \in {x.source, x.target} :
            n.type = "process" => n \in DOMAIN comm'
    BY <1>1, <1>2 DEF GraphOK
  <1>4. GraphOK'
    BY <1>2, <1>3 DEF GraphOK
  <1> QED  BY <1>1, <1>2, <1>4

(* What the event of an execve adds ... *)
LEMMA ExecuteAdds ==
  ASSUME GraphOK, NEW e \in Events, SortOf(e.kind, e.what), AddExecute(e)
  PROVE  Adds(e)
  <1> DEFINE subject == current[e.pid]
             node == ProcessNode(e.pid, e.stamp)
             one == Named(comm, subject, e.comm)
  <1>1. /\ e.kind = "exec" /\ e.ok
        /\ comm' = Named(one, node, e.what)
        /\ edges' = Append(edges, Edge(e, e.kind, subject, node))
        /\ current' = [current EXCEPT ![e.pid] = node]
    BY DEF AddExecute, SetNode
  <1>2. /\ Attributes(comm) /\ subject \in ProcessNodes /\ node \in ProcessNodes /\ node \in GraphNodes
        /\ e.comm \in NamesOrNone /\ e.what \in NamesOrNone /\ e.pid \in Pids
    BY <1>1, SubjectFacts DEF Events, ProcessNode, ProcessNodes, GraphNodes, SortOf, NamesOrNone
  <1> HIDE DEF subject, node
  <1>3. /\ Attributes(one) /\ DOMAIN one = DOMAIN comm \cup {subject}
        /\ \A n \in DOMAIN one : one[n] = IF n = subject THEN e.comm ELSE comm[n]
    BY <1>2, NamedFacts DEF Named
  <1> HIDE DEF one
  <1>4. /\ Attributes(comm') /\ DOMAIN comm' = DOMAIN one \cup {node}
        /\ \A n \in DOMAIN one : comm'[n] = IF n = node THEN e.what ELSE one[n]
    <2>1. Attributes(comm') /\ DOMAIN comm' = DOMAIN one \cup {node}
      BY <1>1, <1>2, <1>3, NamedFacts
    <2>2. \A n \in DOMAIN one : comm'[n] = IF n = node THEN e.what ELSE one[n]
      BY <1>1 DEF Named
    <2> QED  BY <2>1, <2>2
  <1>5. /\ current' \in [Pids -> ProcessNodes]
        /\ \A p \in Pids : current'[p].id = p
        /\ \A p \in Pids : current'[p] = IF p = e.pid THEN node ELSE current[p]
    <2>1. node.id = e.pid
      BY DEF node, ProcessNode
    <2> QED  BY <1>1, <1>2, <2>1 DEF GraphOK
  <1>6. /\ GraphOK'
        /\ \A x \in Edges' : x \in Edges
                \/ /\ x.by = e.by /\ x.made = e.made /\ x.source = subject /\ x.target = node
    BY <1>1, <1>2, <1>3, <1>4, <1>5, OneEdge DEF subject
  <1> QED  BY <1>1, <1>3, <1>4, <1>5, <1>6 DEF subject, node, Adds, AddedBy, Ends

(* ... that of a call with one target ... *)
LEMMA ObjectAdds ==
  ASSUME GraphOK, NEW e \in Events, SortOf(e.kind, e.what), AddObject(e)
  PROVE  Adds(e)
  <1> DEFINE subject == current[e.pid]
             node == ObjectNode(e.what)
  <1>1. /\ comm' = Named(comm, subject, e.comm)
        /\ edges' = Append(edges, Edge(e, e.kind, subject, node))
        /\ current' = current
        /\ e.what \in Objects \cup Names
    BY DEF AddObject, SortOf
  <1>2. Attributes(comm) /\ subject \in ProcessNodes /\ e.comm \in NamesOrNone
    BY SubjectFacts
  <1>3. node \in GraphNodes /\ node.type = "object"
    BY <1>1 DEF ObjectNode, ObjectNodes, GraphNodes
  <1> HIDE DEF subject, node
  <1>4. /\ Attributes(comm') /\ DOMAIN comm' = DOMAIN comm \cup {subject}
        /\ \A n \in DOMAIN comm' : comm'[n] = IF n = subject THEN e.comm ELSE comm[n]
    <2>1. Attributes(comm') /\ DOMAIN comm' = DOMAIN comm \cup {subject}
      BY <1>1, <1>2, NamedFacts
    <2>2. \A n \in DOMAIN comm' : comm'[n] = IF n = subject THEN e.comm ELSE comm[n]
      BY <1>1 DEF Named
    <2> QED  BY <2>1, <2>2
  <1>5. current' \in [Pids -> ProcessNodes] /\ \A p \in Pids : current'[p].id = p
    BY <1>1 DEF GraphOK
  <1>6. /\ GraphOK'
        /\ \A x \in Edges' : x \in Edges
                \/ /\ x.by = e.by /\ x.made = e.made /\ x.source = subject /\ x.target = node
    BY <1>1, <1>3, <1>4, <1>5, OneEdge DEF subject
  <1>7. ~ Ends(e)
    BY DEF AddObject, Ends
  <1> QED  BY <1>1, <1>3, <1>4, <1>6, <1>7 DEF subject, Adds, AddedBy

(* ... and that of a clone. *)
LEMMA CloneAdds ==
  ASSUME GraphOK, NEW e \in Events, SortOf(e.kind, e.what), AddClone(e)
  PROVE  Adds(e)
  <1> DEFINE subject == current[e.pid]
             child == ChildNode(e)
             one == Named(comm, subject, e.comm)
  <1>1. /\ e.kind = "clone"
        /\ comm' = AddChild(one, child)
        /\ edges' = Append(edges, Edge(e, e.kind, subject, child))
        /\ current' = current
    BY DEF AddClone, Register
  <1>2. Attributes(comm) /\ subject \in ProcessNodes /\ e.comm \in NamesOrNone
    BY SubjectFacts
  <1>3. child \in ProcessNodes /\ child \in GraphNodes
    <2>1. (e.made # NoImage => e.made.proc \in Pids) /\ 0 \in Stamps
      BY <1>1, ImageFacts DEF Events, Stamps
    <2> QED  BY <2>1 DEF ChildNode, Logical, ProcessNode, ProcessNodes, GraphNodes
  <1> HIDE DEF subject, child
  <1>4. /\ Attributes(one) /\ DOMAIN one = DOMAIN comm \cup {subject}
        /\ \A n \in DOMAIN one : one[n] = IF n = subject THEN e.comm ELSE comm[n]
    BY <1>2, NamedFacts DEF Named
  <1> HIDE DEF one
  <1>5. /\ Attributes(comm') /\ DOMAIN comm' = DOMAIN one \cup {child}
        /\ \A n \in DOMAIN one : comm'[n] = one[n]
    <2>1. CASE child \in DOMAIN one
      BY <1>1, <1>4, <2>1 DEF AddChild
    <2>2. CASE child \notin DOMAIN one
      <3>1. comm' = Named(one, child, Unknown) /\ Unknown \in NamesOrNone
        BY <1>1, <2>2 DEF AddChild, NamesOrNone
      <3> QED  BY <1>3, <1>4, <2>2, <3>1, NamedFacts DEF Named
    <2> QED  BY <2>1, <2>2
  <1>6. current' \in [Pids -> ProcessNodes] /\ \A p \in Pids : current'[p].id = p
    BY <1>1 DEF GraphOK
  <1>7. /\ GraphOK'
        /\ \A x \in Edges' : x \in Edges
                \/ /\ x.by = e.by /\ x.made = e.made /\ x.source = subject /\ x.target = child
    BY <1>1, <1>3, <1>4, <1>5, <1>6, OneEdge DEF subject
  <1> QED  BY <1>1, <1>4, <1>5, <1>7 DEF subject, child, Adds, AddedBy, Ends

\* A rename adds a request for the old file, and an edge from there to the new one.
LEMMA RenameAdds ==
  ASSUME GraphOK, NEW e \in Events, SortOf(e.kind, e.what), AddRename(e)
  PROVE  Adds(e)
  <1> DEFINE subject == current[e.pid]
             old == ObjectNode(e.what[1])
             new == ObjectNode(e.what[2])
             x == Edge(e, "request", subject, old)
             y == Edge(e, e.kind, old, new)
  <1>1. /\ comm' = Named(comm, subject, e.comm)
        /\ edges' = edges \o <<x, y>>
        /\ current' = current
        /\ e.what \in Objects \X Objects
    BY DEF AddRename, SortOf
  <1>2. /\ Attributes(comm) /\ subject \in ProcessNodes /\ subject \in GraphNodes
        /\ e.comm \in NamesOrNone
        /\ e.kind \in Kinds \cup {"request"}
    BY SubjectFacts
  <1>3. /\ old \in GraphNodes /\ old.type = "object"
        /\ new \in GraphNodes /\ new.type = "object"
    BY <1>1 DEF ObjectNode, ObjectNodes, GraphNodes
  <1> HIDE DEF subject, old, new
  <1>4. /\ x \in EdgeRecs /\ x.source = subject /\ x.target = old
        /\ y \in EdgeRecs /\ y.source = old /\ y.target = new
        /\ x.by = e.by /\ x.made = e.made /\ y.by = e.by /\ y.made = e.made
    <2>1. "request" \in Kinds \cup {"request"}
      OBVIOUS
    <2>2. /\ x \in EdgeRecs /\ x.source = subject /\ x.target = old
          /\ x.by = e.by /\ x.made = e.made
      BY <1>2, <1>3, <2>1, EdgeFacts
    <2>3. /\ y \in EdgeRecs /\ y.source = old /\ y.target = new
          /\ y.by = e.by /\ y.made = e.made
      <3>1. Edge(e, e.kind, old, new) \in EdgeRecs
        BY <1>2, <1>3, EdgeFacts
      <3> QED  BY <3>1 DEF Edge, y
    <2> QED  BY <2>2, <2>3
  <1> HIDE DEF x, y
  <1>5. edges' \in Seq(EdgeRecs) /\ Edges' = Edges \cup {x, y}
    <2>1. edges \in Seq(EdgeRecs)
      BY DEF GraphOK
    <2>2. edges' \in Seq(EdgeRecs) /\ Range(edges') = Range(edges) \cup {x, y}
      BY <1>1, <1>4, <2>1, RangeOfTwo
    <2> QED  BY <2>2, EdgesRange
  <1>6. /\ Attributes(comm') /\ DOMAIN comm' = DOMAIN comm \cup {subject}
        /\ \A n \in DOMAIN comm' : comm'[n] = IF n = subject THEN e.comm ELSE comm[n]
    <2>1. Attributes(comm') /\ DOMAIN comm' = DOMAIN comm \cup {subject}
      BY <1>1, <1>2, NamedFacts
    <2>2. \A n \in DOMAIN comm' : comm'[n] = IF n = subject THEN e.comm ELSE comm[n]
      BY <1>1 DEF Named
    <2> QED  BY <2>1, <2>2
  <1>7. \A z \in Edges' : \A n \in {z.source, z.target} :
            n.type = "process" => n \in DOMAIN comm'
    BY <1>3, <1>4, <1>5, <1>6 DEF GraphOK
  <1>8. GraphOK'
    BY <1>1, <1>5, <1>6, <1>7 DEF GraphOK
  <1>9. ~ Ends(e) /\ \A z \in {x, y} : AddedBy(e, z)
    BY <1>3, <1>4 DEF subject, AddRename, AddedBy, Ends
  <1> QED  BY <1>1, <1>5, <1>6, <1>8, <1>9 DEF subject, Adds

(* What an event adds: edges of its call, and one node that is current. *)
LEMMA AddsFacts ==
  ASSUME NEW e, Adds(e)
  PROVE  /\ \A x \in ByProcess' : x \in ByProcess \/ (x.by = e.by /\ x.source = current[e.pid])
         /\ \A p \in Pids : ~ (Ends(e) /\ p = e.pid) => current'[p] = current[p]
         /\ \A x \in Edges' : x \in Edges \/ (x.by = e.by /\ x.made = e.made)
  BY DEF Adds, AddedBy, ByProcess

(* The worker handles an event. *)
LEMMA HandleIInv ==
  ASSUME IInv, Handle
  PROVE  IInv'
  <1> DEFINE e == queue[1]
             n == Len(queue)
  <1> USE DEF IInv
  <1>1. /\ queue # <<>> /\ queue' = Tail(queue) /\ UNCHANGED kernel
        /\ add_event_to_graph(Head(queue))
    BY DEF Handle
  <1>2. /\ 1 \in 1..n /\ Head(queue) = e /\ e \in Events /\ SortOf(e.kind, e.what)
        /\ e.by.proc = e.pid /\ e.pid \in Pids
    BY <1>1, HeadFacts DEF Events
  <1>3. /\ n \in Nat /\ Len(queue') = n - 1 /\ queue' \in Seq(Events)
        /\ \A i \in 1..Len(queue') : i + 1 \in 1..n /\ queue'[i] = queue[i + 1]
    BY <1>1, TailFacts DEF QueueOK
  <1> HIDE DEF e
  <1>4. Adds(e)
    BY <1>1, <1>2, ExecuteAdds, ObjectAdds, CloneAdds, RenameAdds DEF add_event_to_graph
  <1>0. /\ \A x \in ByProcess' : x \in ByProcess \/ (x.by = e.by /\ x.source = current[e.pid])
        /\ \A p \in Pids : ~ (Ends(e) /\ p = e.pid) => current'[p] = current[p]
        /\ \A x \in Edges' : x \in Edges \/ (x.by = e.by /\ x.made = e.made)
    BY <1>4, AddsFacts
  <1>5. MachineOK' /\ image' = image /\ born' = born /\ calls' = calls /\ clock' = clock
    BY <1>1 DEF kernel, MachineOK
  <1>6. QueueOK'
    BY <1>3 DEF QueueOK
  <1>7. \A j \in 1..Len(queue') : queue[j + 1].pid = queue[j + 1].by.proc
    BY <1>3 DEF QueueOK
  <1>8. ASSUME NEW x \in ByProcess', NEW j \in 1..Len(queue'), queue'[j].by = x.by
        PROVE  x.source = current'[queue'[j].pid]
    <2> DEFINE p == queue'[j].pid
    <2>1. j + 1 \in 1..n /\ queue'[j] = queue[j + 1] /\ 1 < j + 1 /\ p \in Pids
      <3>1. j + 1 \in 1..n /\ queue'[j] = queue[j + 1] /\ 1 < j + 1
        BY <1>3
      <3>2. queue[j + 1] \in Events
        BY <3>1, ElementOfSeq DEF QueueOK
      <3> QED  BY <3>1, <3>2 DEF Events
    <2>2. CASE x \in ByProcess
      <3>1. x.source = current[p]
        BY <1>8, <2>1, <2>2 DEF QueueFits
      <3>2. ~ (Ends(e) /\ p = e.pid)
        BY <1>2, <1>8, <2>1, <2>2 DEF QueueFits, e
      <3> QED  BY <1>0, <2>1, <3>1, <3>2
    <2>3. CASE x.by = e.by /\ x.source = current[e.pid]
      <3>1. p = e.pid
        BY <1>2, <1>7, <1>8, <2>1, <2>3
      <3>2. ~ Ends(e)
        BY <1>2, <1>8, <2>1, <2>3, <3>1 DEF QueueFits, e
      <3> QED  BY <1>0, <2>1, <2>3, <3>1, <3>2
    <2> QED  BY <1>0, <2>2, <2>3
  <1>9. ASSUME NEW x \in ByProcess', NEW i \in 1..Len(queue'), NEW j \in 1..Len(queue'),
               i < j, Ends(queue'[i]), queue'[i].pid = queue'[j].pid
        PROVE  x.by # queue'[j].by
    <2>1. /\ i + 1 \in 1..n /\ queue'[i] = queue[i + 1] /\ i + 1 < j + 1
          /\ j + 1 \in 1..n /\ queue'[j] = queue[j + 1] /\ 1 <= i + 1
      BY <1>3, <1>9
    <2>2. CASE x \in ByProcess
      BY <1>9, <2>1, <2>2 DEF QueueFits
    <2>3. CASE x.by = e.by
      BY <1>2, <1>9, <2>1, <2>3 DEF QueueFits, e
    <2> QED  BY <1>0, <2>2, <2>3
  <1>10. ASSUME NEW i \in 1..Len(queue'), NEW j \in 1..Len(queue'), NEW k \in 1..Len(queue'),
                k <= i, i < j, Ends(queue'[i]), queue'[i].pid = queue'[j].pid
         PROVE  queue'[k].by # queue'[j].by
    <2>1. /\ i + 1 \in 1..n /\ queue'[i] = queue[i + 1] /\ i + 1 < j + 1
          /\ j + 1 \in 1..n /\ queue'[j] = queue[j + 1]
          /\ k + 1 \in 1..n /\ queue'[k] = queue[k + 1] /\ k + 1 <= i + 1
      BY <1>3, <1>10
    <2>2. Ends(queue[i + 1]) /\ queue[i + 1].pid = queue[j + 1].pid
      BY <1>10, <2>1
    <2>3. queue[k + 1].by # queue[j + 1].by
      BY <2>1, <2>2 DEF QueueFits
    <2> QED  BY <2>1, <2>3
  <1>11. QueueFits'
    BY <1>8, <1>9, <1>10 DEF QueueFits
  <1>12. ASSUME NEW p \in Pids, image[p] # NoImage
         PROVE  /\ \A x \in ByProcess' : x.by = image[p] => x.source = current'[p]
                /\ \A i \in 1..Len(queue') : Ends(queue'[i]) /\ queue'[i].pid = p =>
                    /\ \A x \in ByProcess' : x.by # image[p]
                    /\ \A k \in 1..i : queue'[k].by # image[p]
    <2>1. image[p].proc = p
      BY <1>12 DEF MachineOK
    <2>2. Ends(e) /\ e.pid = p => e.by # image[p] /\ \A x \in ByProcess : x.by # image[p]
      BY <1>2, <1>12 DEF RunningFits, e
    <2>3. ASSUME NEW x \in ByProcess', x.by = image[p]
          PROVE  x.source = current'[p]
      <3>1. CASE x \in ByProcess
        BY <1>0, <1>12, <2>2, <2>3, <3>1 DEF RunningFits
      <3>2. CASE x.by = e.by /\ x.source = current[e.pid]
        BY <1>2, <1>0, <2>1, <2>2, <2>3, <3>2
      <3> QED  BY <1>0, <3>1, <3>2
    <2>4. ASSUME NEW i \in 1..Len(queue'), Ends(queue'[i]), queue'[i].pid = p
          PROVE  /\ \A x \in ByProcess' : x.by # image[p]
                 /\ \A k \in 1..i : queue'[k].by # image[p]
      <3>1. /\ i + 1 \in 1..n /\ Ends(queue[i + 1]) /\ queue[i + 1].pid = p
            /\ 1 \in 1..(i + 1)
        BY <1>3, <2>4
      <3>2. /\ \A x \in ByProcess : x.by # image[p]
            /\ \A k \in 1..(i + 1) : queue[k].by # image[p]
        BY <1>12, <3>1 DEF RunningFits
      <3>3. \A x \in ByProcess' : x.by # image[p]
        BY <1>0, <3>1, <3>2 DEF e
      <3>4. \A k \in 1..i : k + 1 \in 1..(i + 1) /\ queue'[k] = queue[k + 1]
        BY <1>3
      <3> QED  BY <3>2, <3>3, <3>4
    <2> QED  BY <2>3, <2>4
  <1>13. RunningFits'
    BY <1>5, <1>12 DEF RunningFits
  <1>14. ImageIsOneNode'
    <2>1. \A x \in ByProcess : x.by = e.by => x.source = current[e.pid]
      BY <1>2 DEF QueueFits, e
    <2> QED  BY <1>0, <2>1 DEF ImageIsOneNode
  <1>15. Fresh'
    <2>1. ASSUME NEW im \in Images, Known(im)'
          PROVE  Known(im)
      <3>1. CASE \E j \in 1..Len(queue') : im \in {queue'[j].by, queue'[j].made}
        BY <1>3, <3>1 DEF Known
      <3>2. CASE \E x \in Edges' : im \in {x.by, x.made}
        BY <1>0, <1>2, <3>2 DEF Known, e
      <3> QED  BY <1>5, <2>1, <3>1, <3>2 DEF Known
    <2>2. clock \in Nat
      BY ImageFacts DEF MachineOK, Stamps
    <2> QED  BY <1>5, <2>1, <2>2, FreshKept
  <1> QED  BY <1>4, <1>5, <1>6, <1>11, <1>13, <1>14, <1>15 DEF Adds

-----------------------------------------------------------------------------
(* The theorems *)

(* A stutter keeps the invariant. *)
LEMMA UnchangedIInv ==
  ASSUME IInv, UNCHANGED vars
  PROVE  IInv'
  <1>1. UNCHANGED analyzer /\ queue' = queue /\ image' = image /\ born' = born
        /\ calls' = calls /\ clock' = clock /\ shared' = shared /\ current' = current
    BY DEF vars, analyzer
  <1>2. GraphOK' /\ ImageIsOneNode' /\ Edges' = Edges /\ ByProcess' = ByProcess
    BY <1>1, GraphKept DEF IInv
  <1>3. MachineOK' /\ QueueOK' /\ QueueFits' /\ RunningFits'
    BY <1>1, <1>2 DEF IInv, MachineOK, QueueOK, QueueFits, RunningFits
  <1>4. Fresh'
    BY <1>1, <1>2 DEF IInv, Fresh, Known
  <1> QED  BY <1>2, <1>3, <1>4 DEF IInv

(* Every step keeps the invariant. *)
LEMMA NextIInv ==
  ASSUME IInv, [Next]_vars
  PROVE  IInv'
  <1>1. CASE UNCHANGED vars
    BY <1>1, UnchangedIInv
  <1>2. CASE Running
    BY <1>2, BeginIInv, ForkIInv, ReturnIInv, ExecuteIInv, ExecuteFailsIInv DEF Running
  <1>3. CASE \E p \in Pids : Exit(p)
    BY <1>3, ExitIInv
  <1>4. CASE Handle
    BY <1>4, HandleIInv
  <1> QED  BY <1>1, <1>2, <1>3, <1>4 DEF Next, Machine

\* The inductive invariant holds: of the events under way none will be handled at
\* the node of another image than the graph has for the image that made the call.
THEOREM Inductive == Spec => []IInv
  <1>1. Init => IInv
    BY InitIInv
  <1>2. IInv /\ [Next]_vars => IInv'
    BY NextIInv
  <1> QED  BY <1>1, <1>2, PTL DEF Spec

-----------------------------------------------------------------------------
(* The second layer *)

NodesIInv == IInv /\ NodesInv

(* No image has two nodes at the start. *)
LEMMA InitNodes == Init => NodesInv
  <1> SUFFICES ASSUME Init PROVE NodesInv
    OBVIOUS
  <1> DEFINE first == [proc |-> First, since |-> 0, name |-> FirstName]
  <1>1. queue = <<>> /\ edges = <<>> /\ Edges = {} /\ ByProcess = {} /\ Len(queue) = 0
        /\ calls = {} /\ lost = {}
    BY DEF Init, Edges, ByProcess
  <1>2. FirstNode /\ CallsMade /\ QueueMade /\ LostMade
    BY <1>1 DEF Init, FirstNode, CallsMade, QueueMade, LostMade
  <1>3. EdgesFit /\ EventsFit
    BY <1>1 DEF EdgesFit, EventsFit
  <1>4. \A p \in Pids : image[p] # NoImage => image[p] = first /\ born[p] = first /\ p = First
    BY DEF Init
  <1>5. \A p \in Pids : image[p] # NoImage => current[p] = NodeFor(image[p])
    BY <1>4 DEF Init, NodeFor, Logical
  <1>6. CallsFit
    BY <1>1, <1>5 DEF CallsFit
  <1> QED  BY <1>2, <1>3, <1>6 DEF NodesInv

\* An image that runs or has run is of a process id that was given out.
LEMMA KnownFacts ==
  ASSUME IInv
  PROVE  /\ \A p \in Pids : image[p] # NoImage => Known(image[p]) /\ image[p] \in Images
         /\ \A p \in Pids : born[p] # NoImage => Known(born[p]) /\ born[p] \in Images
         /\ \A j \in 1..Len(queue) :
                /\ Known(queue[j].by) /\ queue[j].by \in Images /\ queue[j].pid \in Pids
                /\ Known(queue[j].made) /\ queue[j].made \in Images \cup {NoImage}
         /\ \A e \in Edges :
                /\ Known(e.by) /\ e.by \in Images
                /\ Known(e.made) /\ e.made \in Images \cup {NoImage}
         /\ \A im \in Images : Known(im) => born[im.proc] # NoImage
  <1>1. \A j \in 1..Len(queue) : queue[j] \in Events
    BY ElementOfSeq DEF IInv, QueueOK
  <1>2. \A e \in Edges : e \in EdgeRecs
    BY ElementOfSeq, LenProperties DEF IInv, GraphOK, Edges
  <1> QED  BY <1>1, <1>2 DEF IInv, MachineOK, Fresh, Known, Events, EdgeRecs

\* Two images have two nodes.
LEMMA NodesDiffer ==
  ASSUME IInv, NEW a \in Images, NEW b \in Images, Known(a), Known(b), NodeFor(a) = NodeFor(b)
  PROVE  a = b
  <1>1. a.proc = b.proc
        /\ (IF a = born[a.proc] THEN 0 ELSE a.since) = (IF b = born[b.proc] THEN 0 ELSE b.since)
    BY DEF NodeFor, ProcessNode
  <1>2. \A im \in Images : Known(im) /\ im.since = 0 => im = born[im.proc]
    <2> SUFFICES ASSUME NEW im \in Images, Known(im), im.since = 0
                 PROVE  im = born[im.proc]
      OBVIOUS
    <2>1. /\ born[First] # NoImage /\ born[First].since = 0 /\ born[First].proc = First
          /\ First \in Pids
      BY EventGraphAssumption DEF EventGraphAssumption, IInv, MachineOK
    <2>2. im = born[First]
      BY <2>1, KnownFacts DEF IInv, Fresh
    <2> QED  BY <2>1, <2>2
  <1>3. CASE a = born[a.proc] /\ b = born[b.proc]
    BY <1>1, <1>3
  <1>4. CASE a # born[a.proc] /\ b # born[b.proc]
    BY <1>1, <1>4 DEF IInv, Fresh
  <1> QED  BY <1>1, <1>2, <1>3, <1>4

\* No excuse is ever withdrawn.
LEMMA ExcusesKept ==
  ASSUME shared \subseteq shared', lost \subseteq lost'
  PROVE  \A im : Excused(im) => Excused(im)'
  BY DEF Excused, Unseen

(* Edges still fit when excuses only grow. *)
LEMMA EdgesFitKept ==
  ASSUME IInv, EdgesFit, UNCHANGED analyzer, shared \subseteq shared', lost \subseteq lost',
         \A im \in Images : Known(im) => NodeFor(im)' = NodeFor(im)
  PROVE  EdgesFit'
  <1>1. ByProcess' = ByProcess /\ Edges' = Edges
    BY DEF analyzer, ByProcess, Edges
  <1>2. \A e \in Edges : e.by \in Images /\ Known(e.by) /\ Known(e.made)
    BY KnownFacts
  <1>3. ByProcess \subseteq Edges
    BY DEF ByProcess
  <1>4. \A im : Excused(im) => Excused(im)'
    BY ExcusesKept
  <1> QED  BY <1>1, <1>2, <1>3, <1>4 DEF EdgesFit

\* Steps that make no image and no event.
LEMMA QuietNodes ==
  ASSUME IInv, NodesInv,
         UNCHANGED <<born, shared, lost, queue, analyzer>>,
         \A p \in Pids : image'[p] # NoImage => image'[p] = image[p],
         \A c \in calls' : c \in calls \/ c.made = NoImage
  PROVE  NodesInv'
  <1> USE DEF NodesInv
  <1>1. born' = born /\ shared' = shared /\ lost' = lost /\ queue' = queue /\ UNCHANGED analyzer
        /\ current' = current
    BY DEF analyzer
  <1>2. \A im : NodeFor(im)' = NodeFor(im) /\ Excused(im)' = Excused(im)
    BY <1>1 DEF NodeFor, Excused, Unseen
  <1>3. FirstNode' /\ CallsMade' /\ QueueMade' /\ LostMade'
    BY <1>1 DEF FirstNode, CallsMade, QueueMade, LostMade
  <1>4. EdgesFit'
    BY <1>1, <1>2, EdgesFitKept
  <1>5. EventsFit'
    BY <1>1, <1>2 DEF EventsFit
  <1>6. CallsFit'
    BY <1>1, <1>2 DEF CallsFit
  <1> QED  BY <1>3, <1>4, <1>5, <1>6

\* The report of a call: where the event will be handled, if it is not lost.
LEMMA ReportedNodes ==
  ASSUME IInv, NodesInv, NEW c \in calls, NEW ok \in BOOLEAN, NEW made \in Images \cup {NoImage},
         c.kind = "clone" /\ made # NoImage => made = born[made.proc] \/ made.proc \in shared,
         c.kind = "exec" /\ ok =>
            /\ made \in Images /\ made.proc = c.proc /\ made.since = c.time
            /\ made.name = c.what /\ made # born[c.proc],
         c.kind = "exec" /\ made # NoImage => made.proc = c.proc,
         Report(c, ok, made), UNCHANGED <<born, shared, analyzer>>
  PROVE  /\ QueueMade' /\ LostMade' /\ EventsFit' /\ lost \subseteq lost'
         /\ \A p \in Pids, im \in Images :
                im = image[p] /\ ~ Excused(im)' /\ ~ (p = c.proc /\ c.kind = "exec" /\ ok) =>
                /\ (\A k \in 1..Len(queue') : ~ EndOf(queue', k, p)) => current[p] = NodeFor(im)
                /\ \A i \in 1..Len(queue') :
                    EndOf(queue', i, p) /\ (\A k \in (i + 1)..Len(queue') : ~ EndOf(queue', k, p)) =>
                        im = queue'[i].made
         /\ c.kind = "exec" /\ ok =>
                \/ Excused(made)'
                \/ /\ EndOf(queue', Len(queue'), c.proc) /\ Len(queue') \in 1..Len(queue')
                   /\ queue'[Len(queue')].made = made
  <1> DEFINE x == [pid |-> c.proc, kind |-> c.kind, what |-> c.what, ok |-> ok,
                   stamp |-> c.time, comm |-> c.comm, by |-> c.by, made |-> made]
             n == Len(queue)
  <1> USE DEF NodesInv
  <1>1. /\ c \in Calls /\ image[c.proc] # NoImage /\ c.by = image[c.proc]
        /\ c.by.proc = c.proc /\ c.proc \in Pids
    BY DEF IInv, MachineOK, Calls
  <1>2. x \in Events
    BY <1>1, ImageFacts DEF Calls, Events
  <1>3. born' = born /\ shared' = shared /\ current' = current /\ \A im : NodeFor(im)' = NodeFor(im)
    BY DEF analyzer, NodeFor
  <1>4. /\ lost \subseteq lost'
        /\ \/ queue' = Append(queue, x) /\ lost' = lost
           \/ /\ queue' = queue
              /\ lost' = lost \cup {[kind |-> c.kind, by |-> c.by, made |-> made]}
    BY DEF Report
  <1>5. \A im : Excused(im) => Excused(im)'
    BY <1>3, <1>4, ExcusesKept
  <1>6. LostMade'
    BY <1>1, <1>4 DEF LostMade
  <1>7. CASE queue' = queue /\ lost' = lost \cup {[kind |-> c.kind, by |-> c.by, made |-> made]}
    <2>2. QueueMade'
      BY <1>3, <1>7 DEF QueueMade
    <2>3. EventsFit'
      BY <1>3, <1>5, <1>7 DEF EventsFit
    <2>4. c.kind = "exec" => Excused(made)'
      <3> DEFINE l == [kind |-> c.kind, by |-> c.by, made |-> made]
      <3>1. l \in lost' /\ l.kind = c.kind /\ l.made = made
        BY <1>7
      <3> HIDE DEF l
      <3> QED  BY <3>1 DEF Excused, Unseen
    <2>5. \A p \in Pids, im \in Images : im = image[p] /\ ~ Excused(im)' =>
            /\ (\A k \in 1..Len(queue') : ~ EndOf(queue', k, p)) => current[p] = NodeFor(im)
            /\ \A i \in 1..Len(queue') :
                EndOf(queue', i, p) /\ (\A k \in (i + 1)..Len(queue') : ~ EndOf(queue', k, p)) =>
                    im = queue'[i].made
      BY ImageFacts, <1>5, <1>7 DEF CallsFit
    <2> QED  BY <1>4, <1>6, <2>2, <2>3, <2>4, <2>5
  <1>8. CASE queue' = Append(queue, x) /\ lost' = lost
    <2>1. /\ n \in Nat /\ Len(queue') = n + 1
          /\ \A i \in 1..n : queue'[i] = queue[i]
          /\ queue'[n + 1] = x
      BY <1>2, <1>8, AppendFacts DEF IInv, QueueOK
    <2>2. /\ x.pid = c.proc /\ x.by = image[c.proc] /\ x.kind = c.kind /\ x.ok = ok
          /\ x.what = c.what /\ x.made = made /\ x.stamp = c.time
      BY <1>1
    <2> HIDE DEF x
    <2>3. /\ \A i \in 1..n, p \in Pids : EndOf(queue', i, p) <=> EndOf(queue, i, p)
          /\ \A p \in Pids : EndOf(queue', n + 1, p) <=> p = c.proc /\ c.kind = "exec" /\ ok
      BY <2>1, <2>2 DEF EndOf, Ends
    <2>4. \A i \in 1..(n + 1) : i \in 1..n \/ i = n + 1
      BY <2>1
    <2>5. QueueMade'
      <3>1. /\ x.kind = "clone" /\ x.made # NoImage => x.made = born[x.made.proc] \/ x.made.proc \in shared
            /\ Ends(x) => /\ x.made \in Images /\ x.made.proc = x.pid
                          /\ x.made.since = x.stamp /\ x.made.name = x.what
                          /\ x.made # born[x.pid]
        BY <2>2 DEF Ends
      <3>2. \A j \in 1..n :
                /\ queue'[j].kind = "clone" /\ queue'[j].made # NoImage =>
                    queue'[j].made = born[queue'[j].made.proc] \/ queue'[j].made.proc \in shared
                /\ Ends(queue'[j]) =>
                    /\ queue'[j].made \in Images /\ queue'[j].made.proc = queue'[j].pid
                    /\ queue'[j].made.since = queue'[j].stamp
                    /\ queue'[j].made.name = queue'[j].what
                    /\ queue'[j].made # born[queue'[j].pid]
        BY <2>1 DEF QueueMade
      <3> QED  BY <1>3, <2>1, <2>4, <3>1, <3>2 DEF QueueMade
    <2>6. ASSUME NEW p \in Pids, image[p] # NoImage, ~ Excused(image[p]),
                 \A k \in 1..n : ~ EndOf(queue', k, p)
          PROVE  current[p] = NodeFor(image[p])
      BY <2>3, <2>6 DEF CallsFit
    <2>7. ASSUME NEW p \in Pids, image[p] # NoImage, ~ Excused(image[p]), NEW i \in 1..n,
                 EndOf(queue', i, p), \A k \in (i + 1)..n : ~ EndOf(queue', k, p)
          PROVE  image[p] = queue'[i].made
      <3>1. \A k \in (i + 1)..n : k \in 1..n
        BY <2>1
      <3> QED  BY <2>1, <2>3, <2>7, <3>1 DEF CallsFit
    <2>8. ASSUME NEW j \in 1..(n + 1), ~ Excused(queue'[j].by),
                 \A k \in 1..(j - 1) : ~ EndOf(queue', k, queue'[j].pid)
          PROVE  current[queue'[j].pid] = NodeFor(queue'[j].by)
      <3>1. CASE j = n + 1
        <4>1. \A k \in 1..n : ~ EndOf(queue', k, c.proc)
          BY <2>1, <2>2, <2>8, <3>1
        <4> QED  BY <1>1, <2>1, <2>2, <2>6, <2>8, <3>1, <4>1
      <3>2. CASE j \in 1..n
        <4>1. /\ queue'[j] = queue[j] /\ queue[j].pid \in Pids
              /\ \A k \in 1..(j - 1) : k \in 1..n
          BY <2>1, <3>2, KnownFacts
        <4> QED  BY <2>3, <2>8, <3>2, <4>1 DEF EventsFit
      <3> QED  BY <2>4, <3>1, <3>2
    <2>9. ASSUME NEW i \in 1..(n + 1), NEW j \in 1..(n + 1), i < j,
                 EndOf(queue', i, queue'[j].pid), ~ Excused(queue'[j].by),
                 \A k \in (i + 1)..(j - 1) : ~ EndOf(queue', k, queue'[j].pid)
          PROVE  queue'[j].by = queue'[i].made
      <3>1. i \in 1..n /\ queue'[i] = queue[i]
        BY <2>1, <2>9
      <3>2. CASE j = n + 1
        <4>1. \A k \in (i + 1)..n : ~ EndOf(queue', k, c.proc)
          BY <2>1, <2>2, <2>9, <3>2
        <4> QED  BY <1>1, <2>1, <2>2, <2>7, <2>9, <3>1, <3>2, <4>1
      <3>3. CASE j \in 1..n
        <4>1. /\ queue'[j] = queue[j] /\ queue[j].pid \in Pids
              /\ \A k \in (i + 1)..(j - 1) : k \in 1..n
          BY <2>1, <3>1, <3>3, KnownFacts
        <4> QED  BY <2>3, <2>9, <3>1, <3>3, <4>1 DEF EventsFit
      <3> QED  BY <2>4, <3>2, <3>3
    <2>10. \A im : Excused(im)' = Excused(im)
      BY <1>3, <1>8 DEF Excused, Unseen
    <2>11. EventsFit'
      BY <1>3, <2>1, <2>8, <2>9, <2>10 DEF EventsFit
    <2>12. ASSUME NEW p \in Pids, NEW im \in Images, im = image[p], ~ Excused(im)',
                  ~ (p = c.proc /\ c.kind = "exec" /\ ok)
           PROVE  /\ (\A k \in 1..(n + 1) : ~ EndOf(queue', k, p)) => current[p] = NodeFor(im)
                  /\ \A i \in 1..(n + 1) :
                        EndOf(queue', i, p) /\ (\A k \in (i + 1)..(n + 1) : ~ EndOf(queue', k, p)) =>
                            im = queue'[i].made
      <3>1. ~ EndOf(queue', n + 1, p)
        BY <2>3, <2>12
      <3>2. image[p] # NoImage /\ ~ Excused(image[p])
        BY <2>10, <2>12, ImageFacts
      <3>3. /\ \A k \in 1..n : k \in 1..(n + 1)
            /\ \A i \in 1..n : \A k \in (i + 1)..n : k \in (i + 1)..(n + 1)
        BY <2>1
      <3>4. (\A k \in 1..(n + 1) : ~ EndOf(queue', k, p)) => current[p] = NodeFor(im)
        BY <2>6, <2>12, <3>2, <3>3
      <3>5. \A i \in 1..n :
                EndOf(queue', i, p) /\ (\A k \in (i + 1)..(n + 1) : ~ EndOf(queue', k, p)) =>
                    im = queue'[i].made
        BY <2>7, <2>12, <3>2, <3>3
      <3> QED  BY <2>4, <3>1, <3>4, <3>5
    <2>13. c.kind = "exec" /\ ok =>
                /\ EndOf(queue', n + 1, c.proc) /\ n + 1 \in 1..(n + 1)
                /\ queue'[n + 1].made = made
      BY <1>1, <2>1, <2>2, <2>3
    <2> QED  BY <1>4, <1>6, <2>1, <2>5, <2>11, <2>12, <2>13
  <1> QED  BY <1>4, <1>7, <1>8

(* A call returns that makes no new image under its own process id. *)
LEMMA ReturnsNodes ==
  ASSUME IInv, NodesInv, NEW c \in calls, NEW ok \in BOOLEAN, NEW made \in Images \cup {NoImage},
         c.kind = "clone" => made = c.made,
         c.kind = "exec" => ~ ok /\ made = NoImage,
         Report(c, ok, made), calls' = calls \ {c},
         UNCHANGED <<image, born, shared, clock, issued, analyzer>>
  PROVE  NodesInv'
  <1> USE DEF NodesInv
  <1>1. image' = image /\ born' = born /\ shared' = shared /\ current' = current
        /\ UNCHANGED analyzer /\ \A im : NodeFor(im)' = NodeFor(im)
    BY DEF analyzer, NodeFor
  <1>2. c.kind = "clone" /\ made # NoImage => made = born[made.proc] \/ made.proc \in shared
    BY DEF CallsMade
  <1>3. /\ QueueMade' /\ LostMade' /\ EventsFit' /\ lost \subseteq lost'
        /\ \A p \in Pids, im \in Images : im = image[p] /\ ~ Excused(im)' =>
                /\ (\A k \in 1..Len(queue') : ~ EndOf(queue', k, p)) => current[p] = NodeFor(im)
                /\ \A i \in 1..Len(queue') :
                    EndOf(queue', i, p) /\ (\A k \in (i + 1)..Len(queue') : ~ EndOf(queue', k, p)) =>
                        im = queue'[i].made
    BY <1>1, <1>2, ReportedNodes
  <1>4. FirstNode' /\ CallsMade'
    BY <1>1 DEF FirstNode, CallsMade
  <1>5. EdgesFit'
    BY <1>1, <1>3, EdgesFitKept
  <1>6. CallsFit'
    <2>1. \A p \in Pids : image[p] # NoImage => image[p] \in Images
      BY KnownFacts
    <2> QED  BY <1>1, <1>3, <2>1 DEF CallsFit
  <1> QED  BY <1>3, <1>4, <1>5, <1>6

(* An execve makes a new image. *)
LEMMA ExecuteNodes ==
  ASSUME IInv, NodesInv, NEW c \in calls, Execute(c)
  PROVE  NodesInv'
  <1> DEFINE new == [proc |-> c.proc, since |-> c.time, name |-> c.what]
  <1> USE DEF NodesInv
  <1>1. /\ c.kind = "exec" /\ CallsOf(c.proc) = {c}
        /\ image' = [image EXCEPT ![c.proc] = new]
        /\ Report(c, TRUE, new)
        /\ calls' = calls \ {c}
        /\ born' = born /\ shared' = shared /\ current' = current
        /\ UNCHANGED analyzer /\ \A im : NodeFor(im)' = NodeFor(im)
    BY DEF Execute, analyzer, NodeFor
  <1>2. c \in Calls /\ c.what \in Names /\ c.proc \in Pids /\ c.made = NoImage
    BY <1>1 DEF IInv, MachineOK, Calls, SortOf
  <1>3. new \in Images /\ new # NoImage /\ ~ Known(new)
    BY <1>2, NewImage
  <1>4. new.proc = c.proc /\ new.since = c.time /\ new.name = c.what
    OBVIOUS
  <1> HIDE DEF new
  <1>5. new # born[c.proc]
    BY <1>2, <1>3 DEF Known
  <1>6. /\ QueueMade' /\ LostMade' /\ EventsFit' /\ lost \subseteq lost'
        /\ \A p \in Pids, im \in Images : im = image[p] /\ ~ Excused(im)' /\ p # c.proc =>
                /\ (\A k \in 1..Len(queue') : ~ EndOf(queue', k, p)) => current[p] = NodeFor(im)
                /\ \A i \in 1..Len(queue') :
                    EndOf(queue', i, p) /\ (\A k \in (i + 1)..Len(queue') : ~ EndOf(queue', k, p)) =>
                        im = queue'[i].made
        /\ \/ Excused(new)'
           \/ /\ EndOf(queue', Len(queue'), c.proc) /\ Len(queue') \in 1..Len(queue')
              /\ queue'[Len(queue')].made = new
    <2>1. new \in Images \cup {NoImage} /\ TRUE \in BOOLEAN /\ c.kind # "clone"
      BY <1>1, <1>3
    <2> QED  BY <1>1, <1>3, <1>4, <1>5, <2>1, ReportedNodes
  <1>7. FirstNode' /\ CallsMade'
    BY <1>1 DEF FirstNode, CallsMade
  <1>8. EdgesFit'
    BY <1>1, <1>6, EdgesFitKept
  <1>9. ASSUME NEW p \in Pids, NEW im \in Images, im = image'[p], ~ Excused(im)'
         PROVE  /\ (\A k \in 1..Len(queue') : ~ EndOf(queue', k, p)) => current[p] = NodeFor(im)
                /\ \A i \in 1..Len(queue') :
                    EndOf(queue', i, p) /\ (\A k \in (i + 1)..Len(queue') : ~ EndOf(queue', k, p)) =>
                        im = queue'[i].made
    <2>1. CASE p # c.proc
      <3>1. im = image[p]
        BY <1>1, <1>9, <2>1 DEF IInv, MachineOK
      <3> QED  BY <1>6, <1>9, <2>1, <3>1
    <2>2. CASE p = c.proc
      <3>1. im = new
        BY <1>1, <1>9, <2>2 DEF IInv, MachineOK
      <3>2. /\ EndOf(queue', Len(queue'), p) /\ Len(queue') \in 1..Len(queue')
            /\ queue'[Len(queue')].made = im
        BY <1>6, <1>9, <2>2, <3>1
      <3>3. \A i \in 1..Len(queue') : i = Len(queue') \/ Len(queue') \in (i + 1)..Len(queue')
        BY <3>2
      <3> QED  BY <3>2, <3>3
    <2> QED  BY <2>1, <2>2
  <1>10. CallsFit'
    <2>1. \A p \in Pids : image'[p] # NoImage => image'[p] \in Images
      BY <1>1, <1>3 DEF IInv, MachineOK
    <2> QED  BY <1>1, <1>9, <2>1 DEF CallsFit
  <1> QED  BY <1>6, <1>7, <1>8, <1>10

(* A clone makes a process. *)
LEMMA ForkNodes ==
  ASSUME IInv, NodesInv, NEW c \in calls, NEW child \in Pids, Fork(c, child)
  PROVE  NodesInv'
  <1> DEFINE new == [proc |-> child, since |-> c.time, name |-> c.by.name]
             d == [c EXCEPT !.made = new]
  <1> USE DEF NodesInv
  <1>1. /\ c.kind = "clone" /\ c.made = NoImage /\ image[child] = NoImage
        /\ image' = [image EXCEPT ![child] = new]
        /\ calls' = (calls \ {c}) \cup {d}
        /\ born' = [born EXCEPT ![child] = IF @ = NoImage THEN new ELSE @]
        /\ shared' = shared \cup {p \in {child} : born[p] # NoImage}
        /\ lost' = lost /\ queue' = queue /\ current' = current /\ UNCHANGED analyzer
    BY DEF Fork, analyzer
  <1>2. c \in Calls /\ c.by.name \in Names
    BY ImageFacts DEF IInv, MachineOK, Calls
  <1>3. new \in Images /\ new # NoImage
    BY <1>1, <1>2, NewImage
  <1>4. d.made = new /\ new.proc = child
    BY <1>2 DEF Calls
  <1> HIDE DEF new, d
  <1>5. /\ \A p \in Pids : p # child \/ born[p] # NoImage => born'[p] = born[p]
        /\ born[child] = NoImage => born'[child] = new
        /\ born[child] # NoImage => child \in shared'
        /\ \A p \in Pids : p # child => image'[p] = image[p]
        /\ image'[child] = new
    BY <1>1 DEF IInv, MachineOK
  <1>6. \A im \in Images : Known(im) => born[im.proc] # NoImage /\ im.proc \in Pids
    BY KnownFacts, ImageFacts
  <1>7. \A im \in Images : Known(im) => born'[im.proc] = born[im.proc] /\ NodeFor(im)' = NodeFor(im)
    BY <1>5, <1>6 DEF NodeFor
  <1>8. \A im : Excused(im) => Excused(im)'
    BY <1>1, ExcusesKept
  <1>9. FirstNode'
    BY <1>1, <1>3, <1>5 DEF FirstNode
  <1>10. CallsMade'
    <2> SUFFICES ASSUME NEW x \in calls', x.made # NoImage
                 PROVE  x.made = born'[x.made.proc] \/ x.made.proc \in shared'
      BY DEF CallsMade
    <2>1. CASE x = d
      BY <1>4, <1>5, <2>1
    <2>2. CASE x \in calls
      <3>1. x.made \in Images /\ Known(x.made)
        BY <2>2 DEF IInv, MachineOK, Calls, Known
      <3> QED  BY <1>1, <1>7, <2>2, <3>1 DEF CallsMade
    <2> QED  BY <1>1, <2>1, <2>2
  <1>11. QueueMade'
    <2> SUFFICES ASSUME NEW j \in 1..Len(queue)
                 PROVE  /\ queue[j].kind = "clone" /\ queue[j].made # NoImage =>
                            queue[j].made = born'[queue[j].made.proc] \/ queue[j].made.proc \in shared'
                        /\ Ends(queue[j]) =>
                            /\ queue[j].made \in Images /\ queue[j].made.proc = queue[j].pid
                            /\ queue[j].made.since = queue[j].stamp
                            /\ queue[j].made.name = queue[j].what
                            /\ queue[j].made # born'[queue[j].pid]
      BY <1>1 DEF QueueMade
    <2>1. /\ Known(queue[j].by) /\ queue[j].by \in Images /\ queue[j].by.proc = queue[j].pid
          /\ queue[j].made # NoImage => queue[j].made \in Images /\ Known(queue[j].made)
      BY KnownFacts DEF IInv, QueueOK
    <2>2. born'[queue[j].pid] = born[queue[j].pid]
      BY <1>7, <2>1
    <2> QED  BY <1>1, <1>7, <2>1, <2>2 DEF QueueMade
  <1>12. LostMade'
    BY <1>1 DEF LostMade
  <1>13. EdgesFit'
    BY <1>1, <1>7, EdgesFitKept
  <1>14. EventsFit'
    <2>1. \A j \in 1..Len(queue) : queue[j].by \in Images /\ Known(queue[j].by)
      BY KnownFacts
    <2> QED  BY <1>1, <1>7, <1>8, <2>1 DEF EventsFit
  <1>15. ASSUME NEW p \in Pids, NEW im \in Images, im = image'[p], ~ Excused(im)'
         PROVE  /\ (\A k \in 1..Len(queue) : ~ EndOf(queue, k, p)) => current[p] = NodeFor(im)'
                /\ \A i \in 1..Len(queue) :
                    EndOf(queue, i, p) /\ (\A k \in (i + 1)..Len(queue) : ~ EndOf(queue, k, p)) =>
                        im = queue[i].made
    <2>1. CASE p # child
      <3>1. im = image[p] /\ Known(im) /\ image[p] # NoImage
        BY <1>5, <1>15, <2>1, KnownFacts, ImageFacts
      <3> QED  BY <1>7, <1>8, <1>15, <3>1 DEF CallsFit
    <2>2. CASE p = child
      <3>1. im = new /\ born[child] = NoImage /\ born'[child] = new
        BY <1>4, <1>5, <1>15, <2>2 DEF Excused
      <3>2. NodeFor(im)' = Logical(child)
        BY <1>4, <3>1 DEF NodeFor, Logical
      <3>3. current[child] = Logical(child)
        BY <3>1 DEF FirstNode
      <3>4. \A i \in 1..Len(queue) : queue[i].pid # child
        BY <1>6, <3>1, KnownFacts DEF IInv, QueueOK
      <3> QED  BY <2>2, <3>2, <3>3, <3>4 DEF EndOf
    <2> QED  BY <2>1, <2>2
  <1>16. CallsFit'
    <2>1. \A p \in Pids : image'[p] # NoImage => image'[p] \in Images
      BY <1>3, <1>5, KnownFacts
    <2> QED  BY <1>1, <1>15, <2>1 DEF CallsFit
  <1> QED
    BY <1>9, <1>10, <1>11, <1>12, <1>13, <1>14, <1>16

(* The worker handles an event. *)
LEMMA HandleNodes ==
  ASSUME IInv, NodesInv, IInv', Handle
  PROVE  NodesInv'
  <1> DEFINE e == queue[1]
             n == Len(queue)
  <1> USE DEF NodesInv
  <1>1. /\ queue # <<>> /\ queue' = Tail(queue) /\ UNCHANGED kernel
        /\ add_event_to_graph(Head(queue))
    BY DEF Handle
  <1>2. /\ 1 \in 1..n /\ Head(queue) = e /\ e \in Events /\ SortOf(e.kind, e.what)
        /\ e.by.proc = e.pid /\ e.pid \in Pids
    BY <1>1, HeadFacts DEF Events
  <1>3. /\ n \in Nat /\ Len(queue') = n - 1
        /\ \A i \in 1..Len(queue') : i + 1 \in 1..n /\ queue'[i] = queue[i + 1]
    BY <1>1, TailFacts DEF IInv, QueueOK
  <1>4. /\ e.by \in Images /\ Known(e.by)
        /\ e.made \in Images \cup {NoImage} /\ Known(e.made)
        /\ born[e.pid] # NoImage
    BY <1>2, KnownFacts
  <1>5. /\ e.kind = "clone" /\ e.made # NoImage => e.made = born[e.made.proc] \/ e.made.proc \in shared
        /\ Ends(e) =>
            /\ e.made \in Images /\ e.made.proc = e.pid /\ e.made.since = e.stamp
            /\ e.made.name = e.what /\ e.made # born[e.pid]
    BY <1>2 DEF QueueMade
  <1>6. ~ Excused(e.by) => current[e.pid] = NodeFor(e.by)
    BY <1>2 DEF EventsFit
  <1> HIDE DEF e
  <1>7. Adds(e)
    BY <1>1, <1>2, ExecuteAdds, ObjectAdds, CloneAdds, RenameAdds DEF IInv, add_event_to_graph
  <1>8. /\ image' = image /\ born' = born /\ calls' = calls /\ shared' = shared /\ lost' = lost
        /\ \A im : NodeFor(im)' = NodeFor(im) /\ Excused(im)' = Excused(im)
    BY <1>1 DEF kernel, NodeFor, Excused, Unseen
  <1>9. Ends(e) => NodeFor(e.made) = ProcessNode(e.pid, e.stamp)
    BY <1>5 DEF NodeFor
  <1>10. \A p \in Pids : current'[p] = IF EndOf(queue, 1, p) THEN NodeFor(e.made) ELSE current[p]
    BY <1>7, <1>9 DEF Adds, EndOf, e
  <1>11. \A i \in 1..Len(queue') : \A p : EndOf(queue', i, p) <=> EndOf(queue, i + 1, p)
    BY <1>3 DEF EndOf
  <1>12. FirstNode'
    BY <1>4, <1>7, <1>8 DEF FirstNode, Adds
  <1>13. CallsMade' /\ LostMade'
    BY <1>8 DEF CallsMade, LostMade
  <1>14. QueueMade'
    BY <1>3, <1>8 DEF QueueMade
  <1>15. ASSUME NEW x, AddedBy(e, x)
         PROVE  /\ x.source.type = "process" =>
                    /\ x.source.id = x.by.proc
                    /\ ~ Excused(x.by) => x.source = NodeFor(x.by)
                /\ x.target.type = "process" /\ x.target.id # NoPid =>
                    /\ x.made \in Images /\ x.target.id = x.made.proc
                    /\ x.made.proc \notin shared => x.target = NodeFor(x.made)
    <2>1. x.by = e.by /\ x.made = e.made
      BY <1>15 DEF AddedBy
    <2>2. ASSUME x.source.type = "process"
          PROVE  x.source.id = x.by.proc /\ (~ Excused(x.by) => x.source = NodeFor(x.by))
      <3>1. x.source = current[e.pid]
        BY <1>15, <2>2 DEF AddedBy
      <3>2. current[e.pid].id = e.pid
        BY <1>2 DEF IInv, GraphOK
      <3> QED  BY <1>2, <1>6, <2>1, <3>1, <3>2
    <2>3. ASSUME x.target.type = "process", x.target.id # NoPid
          PROVE  /\ x.made \in Images /\ x.target.id = x.made.proc
                 /\ x.made.proc \notin shared => x.target = NodeFor(x.made)
      <3>1. CASE Ends(e) /\ x.target = ProcessNode(e.pid, e.stamp)
        BY <1>5, <1>9, <2>1, <3>1 DEF ProcessNode
      <3>2. CASE e.kind = "clone" /\ x.target = ChildNode(e)
        <4>1. e.made # NoImage
          BY <2>3, <3>2 DEF ChildNode, Logical, ProcessNode
        <4>2. x.target = Logical(e.made.proc)
          BY <3>2, <4>1 DEF ChildNode
        <4>3. e.made \in Images /\ x.target.id = e.made.proc
          BY <1>4, <4>1, <4>2 DEF Logical, ProcessNode
        <4>4. e.made.proc \notin shared => NodeFor(e.made) = Logical(e.made.proc)
          BY <1>5, <3>2, <4>1 DEF NodeFor, Logical
        <4> QED  BY <2>1, <4>2, <4>3, <4>4
      <3> QED  BY <1>15, <2>3, <3>1, <3>2 DEF AddedBy
    <2> QED  BY <2>2, <2>3
  <1>16. EdgesFit'
    <2>1. \A x \in Edges' : x \in Edges \/ AddedBy(e, x)
      BY <1>7 DEF Adds
    <2>2. \A x \in ByProcess' : x \in Edges' /\ x.source.type = "process"
      BY DEF ByProcess
    <2>3. \A x \in Edges : x.source.type = "process" => x \in ByProcess
      BY DEF ByProcess
    <2>4. \A x \in ByProcess' :
            x.source.id = x.by.proc /\ (~ Excused(x.by) => x.source = NodeFor(x.by))
      BY <1>15, <2>1, <2>2, <2>3 DEF EdgesFit
    <2>5. \A x \in Edges' : x.target.type = "process" /\ x.target.id # NoPid =>
            /\ x.made \in Images /\ x.target.id = x.made.proc
            /\ x.made.proc \notin shared => x.target = NodeFor(x.made)
      BY <1>15, <2>1 DEF EdgesFit
    <2> QED  BY <1>8, <2>4, <2>5 DEF EdgesFit
  <1>17. ASSUME NEW j \in 1..Len(queue'), ~ Excused(queue'[j].by),
                \A k \in 1..(j - 1) : ~ EndOf(queue', k, queue'[j].pid)
         PROVE  current'[queue'[j].pid] = NodeFor(queue'[j].by)
    <2> DEFINE p == queue[j + 1].pid
    <2>1. /\ j + 1 \in 1..n /\ queue'[j] = queue[j + 1] /\ p \in Pids /\ 1 < j + 1
          /\ j + 1 - 1 = j
      <3>1. /\ j + 1 \in 1..n /\ queue'[j] = queue[j + 1] /\ 1 < j + 1
            /\ j + 1 - 1 = j
        BY <1>3
      <3> QED  BY <3>1, KnownFacts
    <2>2. \A k \in 2..j : ~ EndOf(queue, k, p)
      <3> TAKE k \in 2..j
      <3>1. k - 1 \in 1..(j - 1) /\ k - 1 \in 1..Len(queue') /\ k - 1 + 1 = k
        OBVIOUS
      <3> QED  BY <1>11, <1>17, <2>1, <3>1
    <2>3. CASE EndOf(queue, 1, p)
      <3>1. queue[j + 1].by = e.made
        BY <1>2, <1>17, <2>1, <2>2, <2>3 DEF EventsFit, e
      <3> QED  BY <1>10, <2>1, <2>3, <3>1
    <2>4. CASE ~ EndOf(queue, 1, p)
      <3>1. \A k \in 1..j : ~ EndOf(queue, k, p)
        <4>1. \A k \in 1..j : k = 1 \/ k \in 2..j
          BY <1>17
        <4> QED  BY <2>2, <2>4, <4>1
      <3> QED  BY <1>10, <1>17, <2>1, <2>4, <3>1 DEF EventsFit
    <2> QED  BY <2>3, <2>4
  <1>18. ASSUME NEW i \in 1..Len(queue'), NEW j \in 1..Len(queue'), i < j,
                EndOf(queue', i, queue'[j].pid), ~ Excused(queue'[j].by),
                \A k \in (i + 1)..(j - 1) : ~ EndOf(queue', k, queue'[j].pid)
         PROVE  queue'[j].by = queue'[i].made
    <2> DEFINE p == queue[j + 1].pid
    <2>1. /\ j + 1 \in 1..n /\ queue'[j] = queue[j + 1] /\ i + 1 < j + 1
          /\ i + 1 \in 1..n /\ queue'[i] = queue[i + 1]
          /\ j + 1 - 1 = j
      BY <1>3, <1>18
    <2>2. \A k \in (i + 1 + 1)..j : ~ EndOf(queue, k, p)
      <3> TAKE k \in (i + 1 + 1)..j
      <3>1. k - 1 \in (i + 1)..(j - 1) /\ k - 1 \in 1..Len(queue') /\ k - 1 + 1 = k
        OBVIOUS
      <3> QED  BY <1>11, <1>18, <2>1, <3>1
    <2>3. EndOf(queue, i + 1, p)
      BY <1>11, <1>18, <2>1
    <2> QED  BY <1>18, <2>1, <2>2, <2>3 DEF EventsFit
  <1>19. EventsFit'
    BY <1>8, <1>17, <1>18 DEF EventsFit
  <1>20. ASSUME NEW p \in Pids, image[p] # NoImage, ~ Excused(image[p])
         PROVE  /\ (\A k \in 1..Len(queue') : ~ EndOf(queue', k, p)) =>
                        current'[p] = NodeFor(image[p])
                /\ \A i \in 1..Len(queue') :
                    EndOf(queue', i, p) /\ (\A k \in (i + 1)..Len(queue') : ~ EndOf(queue', k, p)) =>
                        image[p] = queue'[i].made
    <2>1. ASSUME NEW i \in 0..Len(queue'), \A k \in (i + 1)..Len(queue') : ~ EndOf(queue', k, p)
          PROVE  \A k \in (i + 1 + 1)..n : ~ EndOf(queue, k, p)
      <3> TAKE k \in (i + 1 + 1)..n
      <3>1. k - 1 \in (i + 1)..Len(queue') /\ k - 1 \in 1..Len(queue') /\ k - 1 + 1 = k
        BY <1>3
      <3> QED  BY <1>11, <2>1, <3>1
    <2>2. ASSUME \A k \in 1..Len(queue') : ~ EndOf(queue', k, p)
          PROVE  current'[p] = NodeFor(image[p])
      <3>1. \A k \in (1 + 1)..n : ~ EndOf(queue, k, p)
        <4>1. 0 \in 0..Len(queue') /\ 0 + 1 = 1
          BY <1>2, <1>3
        <4> QED  BY <2>1, <2>2, <4>1
      <3>2. CASE EndOf(queue, 1, p)
        <4>1. image[p] = e.made
          BY <1>2, <1>20, <3>1, <3>2 DEF CallsFit, e
        <4> QED  BY <1>10, <3>2, <4>1
      <3>3. CASE ~ EndOf(queue, 1, p)
        <4>1. \A k \in 1..n : k = 1 \/ k \in (1 + 1)..n
          BY <1>3
        <4> QED  BY <1>10, <1>20, <3>1, <3>3, <4>1 DEF CallsFit
      <3> QED  BY <3>2, <3>3
    <2>3. ASSUME NEW i \in 1..Len(queue'), EndOf(queue', i, p),
                 \A k \in (i + 1)..Len(queue') : ~ EndOf(queue', k, p)
          PROVE  image[p] = queue'[i].made
      <3>1. /\ i + 1 \in 1..n /\ queue'[i] = queue[i + 1] /\ EndOf(queue, i + 1, p)
            /\ i \in 0..Len(queue')
        BY <1>3, <1>11, <2>3
      <3>2. \A k \in (i + 1 + 1)..n : ~ EndOf(queue, k, p)
        BY <2>1, <2>3, <3>1
      <3> QED  BY <1>20, <3>1, <3>2 DEF CallsFit
    <2> QED  BY <2>2, <2>3
  <1>21. CallsFit'
    BY <1>8, <1>20 DEF CallsFit
  <1> QED
    BY <1>12, <1>13, <1>14, <1>16, <1>19, <1>21

(* Every step keeps the second layer. *)
LEMMA NextNodes ==
  ASSUME NodesIInv, [Next]_vars
  PROVE  NodesIInv'
  <1> USE DEF NodesIInv
  <1>1. IInv'
    BY NextIInv
  <1>2. CASE UNCHANGED vars
    BY <1>1, <1>2, QuietNodes DEF vars, analyzer
  <1>3. ASSUME NEW p \in Pids, NEW w \in Workload, Begin(p, w)
        PROVE  NodesInv'
    BY <1>3, QuietNodes DEF Begin
  <1>4. ASSUME NEW c \in calls, Return(c)
        PROVE  NodesInv'
    <2>1. c.made \in Images \cup {NoImage}
      BY DEF IInv, MachineOK, Calls
    <2> QED  BY <1>4, <2>1, ReturnsNodes DEF Return
  <1>5. ASSUME NEW c \in calls, ExecuteFails(c)
        PROVE  NodesInv'
    BY <1>5, ReturnsNodes DEF ExecuteFails
  <1>6. CASE Running
    BY <1>1, <1>3, <1>4, <1>5, <1>6, ForkNodes, ExecuteNodes DEF Running
  <1>7. ASSUME NEW p \in Pids, Exit(p)
        PROVE  NodesInv'
    <2>1. \A q \in Pids : image'[q] # NoImage => image'[q] = image[q]
      BY <1>7 DEF Exit, IInv, MachineOK
    <2> QED  BY <1>7, <2>1, QuietNodes DEF Exit
  <1>8. CASE Handle
    BY <1>1, <1>8, HandleNodes
  <1>9. CASE Next
    BY <1>1, <1>6, <1>7, <1>8, <1>9 DEF Next, Machine
  <1> QED  BY <1>2, <1>9

\* The strengthened invariant of the second layer: every image has one node, and the
\* events under way and the calls in flight lead to it.
THEOREM NodesInductive == Spec => []NodesIInv
  <1>1. Init => NodesIInv
    BY InitIInv, InitNodes DEF NodesIInv
  <1>2. NodesIInv /\ [Next]_vars => NodesIInv'
    BY NextNodes
  <1> QED  BY <1>1, <1>2, PTL DEF Spec

\* Types, and every process at an end of an edge has attributes.
THEOREM GraphTyped == Spec => []TypeOK
  <1>1. IInv => TypeOK
    <2> SUFFICES ASSUME IInv PROVE TypeOK
      OBVIOUS
    <2>1. \A p \in Pids : current[p] \in {ProcessNode(p, t) : t \in 0..MaxCalls}
      <3> TAKE p \in Pids
      <3>1. current[p] \in ProcessNodes /\ current[p].id = p
        BY DEF IInv, GraphOK
      <3>2. current[p] = ProcessNode(p, current[p].exec) /\ current[p].exec \in Stamps
        BY <3>1 DEF ProcessNodes, ProcessNode
      <3> QED  BY <3>2 DEF Stamps
    <2>2. \A c \in calls : c.proc \in Pids /\ c.by \in Images /\ c.time \in 1..clock
      BY DEF IInv, MachineOK, Calls
    <2>3. DOMAIN current = Pids /\ \A n \in DOMAIN comm : comm[n] \in Names \cup {Unknown}
      BY DEF IInv, GraphOK, Attributes, NamesOrNone
    <2>4. \A e \in Edges : \A n \in {e.source, e.target} :
            n.type = "process" => n \in DOMAIN comm
      BY DEF IInv, GraphOK
    <2> QED
      BY <2>1, <2>2, <2>3, <2>4 DEF IInv, MachineOK, Stamps, TypeOK
  <1> QED  BY <1>1, Inductive, PTL

\* All calls of one image are at one node, whatever is lost and in whatever order
\* the events of calls in flight arrive.
THEOREM CallsAtOneNode == Spec => []ImageIsOneNode
  <1>1. IInv => ImageIsOneNode
    BY DEF IInv
  <1> QED  BY <1>1, Inductive, PTL

\* The calls at one node are those of one image, unless an execve was not reported or
\* the process id had another process before.
THEOREM NodeOfOneImage == Spec => []NodeIsOneImage
  <1>1. NodesIInv => NodeIsOneImage
    <2> SUFFICES ASSUME NodesIInv, NEW e \in ByProcess, NEW f \in ByProcess, e.source = f.source,
                        ~ Unseen(e.by), ~ Unseen(f.by), e.source.id \notin shared
                 PROVE  e.by = f.by
      BY DEF NodeIsOneImage
    <2>1. ~ Excused(e.by) /\ ~ Excused(f.by)
      BY DEF NodesIInv, NodesInv, EdgesFit, Excused
    <2>2. NodeFor(e.by) = NodeFor(f.by)
      BY <2>1 DEF NodesIInv, NodesInv, EdgesFit
    <2>3. /\ e.by \in Images /\ Known(e.by) /\ f.by \in Images /\ Known(f.by)
      BY KnownFacts DEF NodesIInv, ByProcess
    <2> QED  BY <2>2, <2>3, NodesDiffer DEF NodesIInv
  <1> QED  BY <1>1, NodesInductive, PTL

\* An edge into the node of a process that called is of the call that made it.
THEOREM CausesOnly == Spec => []OnlyCausallyRelated
  <1>1. NodesIInv => OnlyCausallyRelated
    <2> SUFFICES ASSUME NodesIInv, NEW e \in Edges, NEW f \in Edges,
                        e.source.type = "process", f.target = e.source,
                        e.source.id \notin shared
                 PROVE  f.made = e.by \/ (Unseen(e.by) /\ f.made.proc = e.by.proc)
      BY DEF OnlyCausallyRelated
    <2>1. e \in ByProcess
      BY DEF ByProcess
    <2>0. e.source.id = e.by.proc /\ e.by.proc \in Pids /\ NoPid \notin Pids
      BY <2>1, KnownFacts, ImageFacts, EventGraphAssumption
      DEF EventGraphAssumption, NodesIInv, NodesInv, EdgesFit, ByProcess
    <2>2. /\ e.source.id = e.by.proc /\ (~ Excused(e.by) => e.source = NodeFor(e.by))
          /\ f.made \in Images /\ f.target.id = f.made.proc
          /\ f.made.proc \notin shared => f.target = NodeFor(f.made)
      BY <2>0, <2>1 DEF NodesIInv, NodesInv, EdgesFit
    <2>3. e.by \in Images /\ Known(e.by) /\ Known(f.made)
      BY KnownFacts DEF NodesIInv
    <2>4. CASE Unseen(e.by)
      BY <2>2, <2>4
    <2>5. CASE ~ Unseen(e.by)
      <3>1. NodeFor(e.by) = NodeFor(f.made)
        BY <2>2, <2>5 DEF Excused
      <3> QED  BY <2>2, <2>3, <3>1, NodesDiffer DEF NodesIInv
    <2> QED  BY <2>4, <2>5
  <1> QED  BY <1>1, NodesInductive, PTL

-----------------------------------------------------------------------------
(* The third layer: the order in which calls were made, and who made whom *)

\* A call is made after its image began to run, and a clone makes the image it
\* returns with; only clones and execves make any.
TimesFit ==
    /\ \A c \in calls :
        /\ c.by.since < c.time
        /\ c.made # NoImage => c.made.since = c.time /\ c.made.name = c.by.name
    /\ \A j \in 1..Len(queue) :
        /\ queue[j].stamp \in 1..clock /\ queue[j].by.since < queue[j].stamp
        /\ queue[j].made # NoImage => queue[j].made.since = queue[j].stamp
        /\ queue[j].kind = "clone" /\ queue[j].made # NoImage =>
            queue[j].made.name = queue[j].by.name
        /\ queue[j].made # NoImage => queue[j].kind = "clone" \/ Ends(queue[j])
    /\ \A e \in Edges :
        /\ e.stamp \in 1..clock
        /\ e.source.type = "process" => e.by.since < e.stamp

\* No two calls have one time stamp, and only a rename has two edges.
StampsOnce ==
    /\ \A c \in calls : \A j \in 1..Len(queue) : queue[j].stamp # c.time
    /\ \A c \in calls : \A e \in Edges : e.stamp # c.time
    /\ \A i, j \in 1..Len(queue) : queue[i].stamp = queue[j].stamp => i = j
    /\ \A j \in 1..Len(queue) : \A e \in Edges : e.stamp # queue[j].stamp
    /\ \A i, j \in DOMAIN edges :
        edges[i].stamp = edges[j].stamp => i = j \/ edges[i].kind \in {"request", "rename"}

\* A call is made after every image of its process began to run whose events came
\* before its own, and after the execve of every event that did.
ExecOrder ==
    /\ \A c \in calls : \A j \in 1..Len(queue) : queue[j].pid = c.proc =>
        queue[j].by.since < c.time /\ (Ends(queue[j]) => queue[j].stamp < c.time)
    /\ \A i, j \in 1..Len(queue) : i < j /\ queue[i].pid = queue[j].pid =>
        /\ queue[i].by.since < queue[j].stamp
        /\ Ends(queue[i]) => queue[i].stamp < queue[j].stamp
    /\ \A e \in ByProcess : \A c \in calls : c.proc = e.source.id => e.by.since < c.time
    /\ \A e \in ByProcess : \A j \in 1..Len(queue) :
        queue[j].pid = e.source.id => e.by.since < queue[j].stamp
    /\ \A c \in calls : current[c.proc].exec < c.time
    /\ \A j \in 1..Len(queue) : current[queue[j].pid].exec < queue[j].stamp

\* The graph has the execve by which a process got to a node.
Entered(n) ==
    n.exec = 0 \/ \E g \in ByProcess : g.target = n /\ g.stamp = n.exec /\ g.source.id = n.id

ByExecve == {e \in ByProcess : e.kind = "exec" /\ e.made # NoImage}

\* A node is that of the last execve before the image that calls at it: the execves
\* that made this image or one before it are not later than the node.
NodesEntered ==
    /\ \A p \in Pids : Entered(current[p])
    /\ \A e \in ByProcess : Entered(e.source) /\ e.source.exec < e.stamp
    /\ \A p \in Pids : \A f \in ByExecve : f.source.id = p => f.stamp <= current[p].exec
    /\ \A e \in ByProcess : \A f \in ByExecve : f.source.id = e.source.id =>
        /\ f.stamp <= e.by.since => f.stamp <= e.source.exec
        /\ e \in ByExecve => f.stamp <= e.source.exec \/ e.stamp <= f.stamp

\* What a call made is where its edge points to.
MadeFits ==
    \A e \in Edges : e.made # NoImage =>
        /\ e.source.type = "process" /\ e.made.since = e.stamp
        /\ \/ /\ e.kind = "exec" /\ e.made.proc = e.source.id
              /\ e.target = ProcessNode(e.source.id, e.stamp)
           \/ /\ e.kind = "clone" /\ e.target = Logical(e.made.proc)
              /\ e.made.name = e.by.name
              /\ e.made = born[e.made.proc] \/ e.made.proc \in shared

\* The images of a process that is the only one of its process id run after it was
\* made, and after the execves that the analyzer heard of before it hears of them:
\* the image that runs, those of the events under way, those of the graph.
ImageInTurn(p) ==
    image[p] # NoImage =>
        /\ born[p].since <= image[p].since /\ current[p].exec <= image[p].since
        /\ \A i \in 1..Len(queue) : EndOf(queue, i, p) => queue[i].stamp <= image[p].since

EventsInTurn(p) ==
    \A j \in 1..Len(queue) : queue[j].pid = p =>
        /\ born[p].since <= queue[j].by.since /\ current[p].exec <= queue[j].by.since
        /\ \A i \in 1..(j - 1) : EndOf(queue, i, p) => queue[i].stamp <= queue[j].by.since

EdgesInTurn(p) ==
    \A e \in ByProcess : e.source.id = p =>
        born[p].since <= e.by.since /\ e.source.exec <= e.by.since

ImagesInTurn == \A p \in Pids \ shared : ImageInTurn(p) /\ EventsInTurn(p) /\ EdgesInTurn(p)

\* A node has the name under which one of the calls made at it was made.  One at which
\* none was made has none, or that of the program executed.
NamesGiven ==
    \A n \in DOMAIN comm :
        \/ \E f \in ByProcess : f.source = n /\ f.as = comm[n]
        \/ /\ \A f \in ByProcess : f.source # n
           /\ n.exec = 0 \/ n.id = NoPid => comm[n] = Unknown

OrderInv ==
    TimesFit /\ StampsOnce /\ ExecOrder /\ NodesEntered /\ MadeFits /\ ImagesInTurn /\ NamesGiven

OrderIInv == NodesIInv /\ OrderInv

(* What holds of a call in flight. *)
LEMMA CallFacts ==
  ASSUME IInv, NEW c \in calls
  PROVE  /\ c.proc \in Pids /\ c.kind \in Kinds /\ c.time \in Nat /\ c.time \in 1..clock /\ clock \in Nat
         /\ c.made \in Images \cup {NoImage} /\ c.by = image[c.proc] /\ c.by \in Images /\ c.by.proc = c.proc
         /\ image[c.proc] # NoImage /\ c.by.since \in Nat
         /\ c.made # NoImage => c.kind = "clone"
  <1>1. /\ c \in Calls /\ c.by = image[c.proc] /\ c.time \in 1..clock /\ image[c.proc] # NoImage
        /\ image[c.proc].proc = c.proc /\ clock \in Stamps
        /\ c.made # NoImage => c.kind = "clone"
    BY DEF IInv, MachineOK, Calls
  <1>2. /\ c.proc \in Pids /\ c.kind \in Kinds /\ c.by \in Images
        /\ c.made \in Images \cup {NoImage}
    BY <1>1 DEF Calls
  <1>3. \A t \in Stamps : t \in Nat
    BY ImageFacts DEF Stamps
  <1>4. c.by.since \in Nat /\ clock \in Nat
    BY <1>1, <1>2, <1>3, ImageFacts
  <1>5. c.time \in Nat
    BY <1>1, <1>4
  <1> QED  BY <1>1, <1>2, <1>4, <1>5

(* What an event under way consists of. *)
LEMMA EventFacts ==
  ASSUME IInv
  PROVE  /\ Len(queue) \in Nat
         /\ \A j \in 1..Len(queue) :
                /\ queue[j] \in Events
                /\ queue[j].pid \in Pids /\ queue[j].stamp \in Nat /\ queue[j].by.since \in Nat
                /\ queue[j].by \in Images /\ queue[j].by.proc = queue[j].pid
                /\ queue[j].made \in Images \cup {NoImage} /\ queue[j].kind \in Kinds
  <1>1. \A j \in 1..Len(queue) : queue[j] \in Events
    BY ElementOfSeq DEF IInv, QueueOK
  <1>2. Len(queue) \in Nat
    BY LenProperties DEF IInv, QueueOK
  <1>3. \A im \in Images : im.since \in Nat
    BY ImageFacts DEF Stamps
  <1>4. \A t \in Stamps : t \in Nat
    BY ImageFacts DEF Stamps
  <1> QED  BY <1>1, <1>2, <1>3, <1>4 DEF IInv, QueueOK, Events

(* What an edge consists of. *)
LEMMA EdgeTypes ==
  ASSUME IInv
  PROVE  /\ DOMAIN edges = 1..Len(edges) /\ Len(edges) \in Nat
         /\ \A e \in Edges :
                /\ e \in EdgeRecs /\ e.stamp \in Nat /\ e.by \in Images /\ e.by.since \in Nat
                /\ e.made \in Images \cup {NoImage} /\ e.source \in GraphNodes /\ e.target \in GraphNodes
                /\ e.source.exec \in Nat
         /\ \A p \in Pids : current[p] \in ProcessNodes /\ current[p].exec \in Nat /\ current[p].id = p
  <1>1. edges \in Seq(EdgeRecs) /\ current \in [Pids -> ProcessNodes] /\ \A p \in Pids : current[p].id = p
    BY DEF IInv, GraphOK
  <1>2. DOMAIN edges = 1..Len(edges) /\ Len(edges) \in Nat
    BY <1>1, LenProperties
  <1>3. \A e \in Edges : e \in EdgeRecs
    BY <1>1, <1>2, ElementOfSeq DEF Edges
  <1>4. \A t \in Stamps : t \in Nat
    BY ImageFacts DEF Stamps
  <1>5. \A n \in GraphNodes : n.exec \in Nat
    BY <1>4 DEF GraphNodes, ProcessNodes, ObjectNodes
  <1>6. \A n \in ProcessNodes : n.exec \in Nat
    BY <1>5 DEF GraphNodes
  <1>7. \A im \in Images : im.since \in Nat
    BY <1>4, ImageFacts
  <1>8. \A e \in Edges : e.stamp \in Nat /\ e.by \in Images /\ e.made \in Images \cup {NoImage}
            /\ e.source \in GraphNodes /\ e.target \in GraphNodes
    BY <1>3, <1>4 DEF EdgeRecs
  <1>9. \A e \in Edges : e.source.exec \in Nat /\ e.by.since \in Nat
    BY <1>5, <1>7, <1>8
  <1>10. \A p \in Pids : current[p] \in ProcessNodes /\ current[p].exec \in Nat /\ current[p].id = p
    BY <1>1, <1>6
  <1> QED  BY <1>2, <1>3, <1>8, <1>9, <1>10

(* A report is lost or comes last. *)
LEMMA ReportCases ==
  ASSUME IInv, NEW c \in calls, NEW ok \in BOOLEAN, NEW made \in Images \cup {NoImage},
         Report(c, ok, made)
  PROVE  \/ queue' = queue
         \/ /\ Len(queue') = Len(queue) + 1
            /\ \A j \in 1..Len(queue) : queue'[j] = queue[j]
            /\ LET x == queue'[Len(queue) + 1]
               IN  /\ x.pid = c.proc /\ x.kind = c.kind /\ x.ok = ok /\ x.stamp = c.time
                   /\ x.by = c.by /\ x.made = made
  <1> DEFINE x == [pid |-> c.proc, kind |-> c.kind, what |-> c.what, ok |-> ok,
                   stamp |-> c.time, comm |-> c.comm, by |-> c.by, made |-> made]
  <1>1. CASE queue' = Append(queue, x)
    <2>1. x \in Events
      BY ImageFacts DEF IInv, MachineOK, Calls, Events
    <2>2. queue \in Seq(Events)
      BY DEF IInv, QueueOK
    <2>3. /\ Len(queue') = Len(queue) + 1
          /\ \A j \in 1..Len(queue) : queue'[j] = queue[j]
          /\ queue'[Len(queue) + 1] = x
      <3> HIDE DEF x
      <3> QED  BY <1>1, <2>1, <2>2, AppendFacts
    <2> QED  BY <2>3
  <1> QED  BY <1>1 DEF Report

\* What is known of the graph stays when the graph does.
LEMMA AnalyzerKept ==
  ASSUME UNCHANGED analyzer
  PROVE  /\ edges' = edges /\ current' = current /\ comm' = comm
         /\ Edges' = Edges /\ ByProcess' = ByProcess /\ ByExecve' = ByExecve
         /\ NodesEntered => NodesEntered'
  <1>1. edges' = edges /\ current' = current /\ comm' = comm
    BY DEF analyzer
  <1>2. Edges' = Edges /\ ByProcess' = ByProcess /\ ByExecve' = ByExecve
    BY <1>1 DEF Edges, ByProcess, ByExecve
  <1>3. \A n : Entered(n)' = Entered(n)
    BY <1>2 DEF Entered
  <1> QED  BY <1>1, <1>2, <1>3 DEF NodesEntered

(* The order holds at the start. *)
LEMMA InitOrder == Init => OrderInv
  <1> SUFFICES ASSUME Init PROVE OrderInv
    OBVIOUS
  <1>1. /\ queue = <<>> /\ edges = <<>> /\ Edges = {} /\ ByProcess = {} /\ ByExecve = {}
        /\ calls = {} /\ Len(queue) = 0 /\ DOMAIN edges = {} /\ DOMAIN comm = {}
        /\ image = born /\ shared = {}
    BY DEF Init, Edges, ByProcess, ByExecve
  <1>2. TimesFit /\ StampsOnce /\ ExecOrder /\ MadeFits /\ NamesGiven
    BY <1>1 DEF TimesFit, StampsOnce, ExecOrder, MadeFits, NamesGiven
  <1>3. \A p \in Pids : current[p].exec = 0
    BY DEF Init, Logical, ProcessNode
  <1>4. NodesEntered
    BY <1>1, <1>3 DEF NodesEntered, Entered
  <1>5. \A p \in Pids : born[p] # NoImage => born[p].since = 0
    BY DEF Init
  <1>6. ImagesInTurn
    BY <1>1, <1>3, <1>5 DEF ImagesInTurn, ImageInTurn, EventsInTurn, EdgesInTurn
  <1> QED  BY <1>2, <1>4, <1>6 DEF OrderInv

(* A call is made. *)
LEMMA BeginOrder ==
  ASSUME OrderIInv, NEW p \in Pids, NEW w \in Workload, Begin(p, w)
  PROVE  OrderInv'
  <1> USE DEF OrderIInv, NodesIInv, OrderInv
  <1> DEFINE new == [proc |-> p, kind |-> w.kind, what |-> w.what, time |-> clock + 1,
                     comm |-> w.as, by |-> image[p], made |-> NoImage]
  <1>1. /\ clock' = clock + 1 /\ calls' = calls \cup {new}
        /\ image' = image /\ born' = born /\ shared' = shared /\ queue' = queue /\ lost' = lost
        /\ image[p] # NoImage
        /\ UNCHANGED analyzer
    BY DEF Begin
  <1>2. clock \in Nat /\ clock' \in Nat /\ \A t \in 1..clock : t \in 1..clock' /\ t < clock'
    BY <1>1, ImageFacts DEF IInv, MachineOK, Stamps
  <1>3. new.proc = p /\ new.time = clock' /\ new.by = image[p] /\ new.made = NoImage
    BY <1>1
  <1> HIDE DEF new
  <1>4. \A im \in Images : Known(im) => im.since < clock'
    <2> TAKE im \in Images
    <2>1. Known(im) => im.since <= clock
      BY DEF IInv, Fresh
    <2>2. im.since \in Nat
      BY ImageFacts DEF Stamps
    <2> QED  BY <1>1, <1>2, <2>1, <2>2
  <1>5. image[p].since < clock' /\ image[p] \in Images
    BY <1>1, <1>4, KnownFacts
  <1>6. /\ edges' = edges /\ current' = current /\ comm' = comm
        /\ Edges' = Edges /\ ByProcess' = ByProcess /\ NodesEntered'
    BY <1>1, AnalyzerKept
  <1>7. /\ \A j \in 1..Len(queue) : queue[j].stamp \in 1..clock /\ queue[j].stamp < clock'
        /\ \A e \in Edges : e.stamp \in 1..clock /\ e.stamp < clock'
    BY <1>2 DEF TimesFit
  <1>8. TimesFit'
    BY <1>1, <1>2, <1>3, <1>5, <1>6, <1>7 DEF TimesFit
  <1>9. StampsOnce'
    <2>1. /\ \A j \in 1..Len(queue) : queue[j].stamp # clock'
          /\ \A e \in Edges : e.stamp # clock'
      BY <1>2, <1>7
    <2> QED  BY <1>1, <1>3, <1>6, <2>1 DEF StampsOnce
  <1>10. ExecOrder'
    <2>1. current[p].exec < clock'
      <3>1. Entered(current[p]) /\ current[p].exec \in Nat
        BY EdgeTypes DEF NodesEntered
      <3>2. CASE current[p].exec = 0
        BY <1>2, <1>1, <3>2
      <3>3. CASE \E g \in ByProcess : g.stamp = current[p].exec
        BY <1>7, <3>3 DEF ByProcess
      <3> QED  BY <3>1, <3>2, <3>3 DEF Entered
    <2>2. /\ \A j \in 1..Len(queue) : queue[j].by.since < clock'
          /\ \A e \in ByProcess : e.by.since < clock'
      BY <1>4, EventFacts, KnownFacts DEF ByProcess
    <2> QED  BY <1>1, <1>3, <1>6, <1>7, <2>1, <2>2 DEF ExecOrder
  <1>11. MadeFits' /\ ImagesInTurn'
    BY <1>1, <1>6 DEF MadeFits, ImagesInTurn, ImageInTurn, EventsInTurn, EdgesInTurn, EndOf
  <1>12. NamesGiven'
    BY <1>6 DEF NamesGiven
  <1> QED  BY <1>6, <1>8, <1>9, <1>10, <1>11, <1>12

(* A clone makes a process. *)
LEMMA ForkOrder ==
  ASSUME OrderIInv, NEW c \in calls, NEW child \in Pids, Fork(c, child)
  PROVE  OrderInv'
  <1> USE DEF OrderIInv, NodesIInv, OrderInv
  <1> DEFINE new == [proc |-> child, since |-> c.time, name |-> c.by.name]
             returned == [c EXCEPT !.made = new]
  <1>1. /\ c.kind = "clone" /\ c.made = NoImage /\ image[child] = NoImage
        /\ image' = [image EXCEPT ![child] = new]
        /\ born' = [born EXCEPT ![child] = IF @ = NoImage THEN new ELSE @]
        /\ calls' = (calls \ {c}) \cup {returned}
        /\ shared' = shared \cup {p \in {child} : born[p] # NoImage}
        /\ clock' = clock /\ lost' = lost /\ queue' = queue /\ UNCHANGED analyzer
    BY DEF Fork
  <1>2. /\ returned.proc = c.proc /\ returned.kind = c.kind /\ returned.time = c.time
        /\ returned.by = c.by /\ returned.made = new
        /\ new.since = c.time /\ new.name = c.by.name /\ new.proc = child
    BY DEF IInv, MachineOK, Calls
  <1>3. new # NoImage
    BY <1>1, NewImage, CallFacts, ImageFacts
  <1> HIDE DEF new, returned
  <1>4. /\ edges' = edges /\ current' = current /\ comm' = comm
        /\ Edges' = Edges /\ ByProcess' = ByProcess /\ NodesEntered'
    BY <1>1, AnalyzerKept
  <1>5. /\ image \in [Pids -> Images \cup {NoImage}] /\ born \in [Pids -> Images \cup {NoImage}]
        /\ \A p \in shared : born[p] # NoImage
    BY DEF IInv, MachineOK
  <1>6. /\ \A p \in Pids : p # child => image'[p] = image[p] /\ born'[p] = born[p]
        /\ image'[child] = new
        /\ born'[child] = IF born[child] = NoImage THEN new ELSE born[child]
    BY <1>1, <1>5
  <1>7. \A d \in calls' : \E d0 \in calls : d0.proc = d.proc /\ d0.kind = d.kind /\ d0.time = d.time /\ d0.by = d.by
    BY <1>1, <1>2
  <1>8. TimesFit'
    <2>1. \A d \in calls' : d \in calls \/ d = returned
      BY <1>1
    <2> QED  BY <1>1, <1>2, <1>4, <2>1 DEF TimesFit
  <1>9. StampsOnce'
    BY <1>1, <1>4, <1>7 DEF StampsOnce
  <1>10. ExecOrder'
    BY <1>1, <1>4, <1>7 DEF ExecOrder
  <1>11. \A im \in Images : Known(im) => born[im.proc] # NoImage /\ born'[im.proc] = born[im.proc] /\ im.proc \in Pids
    BY <1>6, KnownFacts, ImageFacts
  <1>12. MadeFits'
    <2>1. \A e \in Edges : e.made # NoImage => e.made \in Images /\ Known(e.made)
      BY KnownFacts
    <2>2. \A e \in Edges : e.made # NoImage => born'[e.made.proc] = born[e.made.proc]
      BY <1>11, <2>1
    <2> QED  BY <1>1, <1>4, <2>2 DEF MadeFits
  <1>13. ASSUME NEW p \in Pids, p \notin shared'
         PROVE  ImageInTurn(p)' /\ EventsInTurn(p)' /\ EdgesInTurn(p)'
    <2>1. CASE p = child
      <3>1. born[p] = NoImage /\ born'[p] = new /\ image'[p] = new
        BY <1>1, <1>6, <1>13, <2>1
      <3>2. \A j \in 1..Len(queue) : queue[j].pid # p
        BY <3>1, EventFacts, KnownFacts
      <3>3. \A e \in ByProcess : e.source.id # p
        BY <3>1, KnownFacts DEF NodesInv, EdgesFit, ByProcess
      <3>4. new.since \in Nat /\ current[p].exec = 0
        <4>1. new.since \in Nat
          BY <1>2, CallFacts
        <4>2. current[p] = ProcessNode(p, 0)
          BY <3>1 DEF NodesInv, FirstNode, Logical
        <4> QED  BY <4>1, <4>2 DEF ProcessNode
      <3>5. new.since <= new.since /\ 0 <= new.since
        BY <3>4
      <3> QED  BY <1>1, <1>4, <3>1, <3>2, <3>3, <3>4, <3>5
               DEF ImageInTurn, EventsInTurn, EdgesInTurn, EndOf
    <2>2. CASE p # child
      <3>1. ImageInTurn(p) /\ EventsInTurn(p) /\ EdgesInTurn(p) /\ image'[p] = image[p] /\ born'[p] = born[p]
        BY <1>1, <1>6, <1>13, <2>2 DEF ImagesInTurn
      <3> QED  BY <1>1, <1>4, <3>1 DEF ImageInTurn, EventsInTurn, EdgesInTurn, EndOf
    <2> QED  BY <2>1, <2>2
  <1>14. NamesGiven' /\ ImagesInTurn'
    BY <1>4, <1>13 DEF NamesGiven, ImagesInTurn
  <1> QED  BY <1>4, <1>8, <1>9, <1>10, <1>12, <1>14

(* A call returns: where its event stands among the others. *)
LEMMA ReportedOrder ==
  ASSUME OrderIInv, NEW c \in calls, NEW ok \in BOOLEAN, NEW made \in Images \cup {NoImage},
         c.kind = "clone" => made = c.made,
         made # NoImage => c.kind = "clone" \/ (c.kind = "exec" /\ ok /\ made.since = c.time),
         c.kind = "exec" /\ ok => \A d \in calls : d.proc = c.proc => d = c,
         Report(c, ok, made), calls' = calls \ {c},
         UNCHANGED <<born, shared, clock, analyzer>>
  PROVE  /\ TimesFit' /\ StampsOnce' /\ ExecOrder' /\ NodesEntered' /\ MadeFits' /\ NamesGiven'
         /\ \A j \in 1..Len(queue') : Ends(queue'[j]) =>
                \/ j \in 1..Len(queue) /\ queue'[j] = queue[j]
                \/ /\ c.kind = "exec" /\ ok
                   /\ queue'[j].pid = c.proc /\ queue'[j].stamp = c.time
         /\ \A p \in Pids \ shared : EventsInTurn(p)'
  <1> USE DEF OrderIInv, NodesIInv, OrderInv
  <1>1. /\ edges' = edges /\ current' = current /\ comm' = comm
        /\ Edges' = Edges /\ ByProcess' = ByProcess /\ NodesEntered'
    BY AnalyzerKept
  <1>2. /\ c.time \in Nat /\ c.time \in 1..clock /\ c.by = image[c.proc] /\ c.by \in Images /\ c.proc \in Pids
        /\ c.by.since \in Nat /\ image[c.proc] # NoImage
        /\ \A d \in calls : d.time \in Nat /\ (d.time = c.time => d = c)
        /\ \A d \in calls : d.proc = c.proc => d.by = c.by
    <2>1. \A d \in calls : d.time = c.time => d = c
      BY DEF IInv, MachineOK
    <2> QED  BY <2>1, CallFacts
  <1>3. MadeFits' /\ NamesGiven'
    BY <1>1 DEF MadeFits, NamesGiven
  <1>4. c.by.since < c.time /\ (c.made # NoImage => c.made.since = c.time /\ c.made.name = c.by.name)
    BY DEF TimesFit
  <1>5. CASE queue' = queue
    <2>1. TimesFit' /\ StampsOnce' /\ ExecOrder'
      BY <1>1, <1>5 DEF TimesFit, StampsOnce, ExecOrder
    <2>2. \A p \in Pids \ shared : EventsInTurn(p)'
      BY <1>1, <1>5 DEF ImagesInTurn, EventsInTurn, EndOf
    <2> QED  BY <1>1, <1>3, <1>5, <2>1, <2>2
  <1>6. ASSUME Len(queue') = Len(queue) + 1,
               \A j \in 1..Len(queue) : queue'[j] = queue[j],
               NEW x, x = queue'[Len(queue) + 1],
               x.pid = c.proc, x.kind = c.kind, x.ok = ok, x.stamp = c.time, x.by = c.by, x.made = made
        PROVE  /\ TimesFit' /\ StampsOnce' /\ ExecOrder'
               /\ \A j \in 1..Len(queue') : Ends(queue'[j]) =>
                    \/ j \in 1..Len(queue) /\ queue'[j] = queue[j]
                    \/ /\ c.kind = "exec" /\ ok
                       /\ queue'[j].pid = c.proc /\ queue'[j].stamp = c.time
               /\ \A p \in Pids \ shared : EventsInTurn(p)'
    <2> DEFINE n == Len(queue)
    <2>1. /\ n \in Nat /\ n + 1 \in 1..Len(queue')
          /\ \A j \in 1..Len(queue') : j = n + 1 \/ (j \in 1..n /\ queue'[j] = queue[j])
          /\ \A j \in 1..n : ~ (n + 1 < j)
      BY <1>6, EventFacts
    <2>2. queue'[n + 1] = x
      BY <1>6
    <2> HIDE DEF n
    <2>3. TimesFit'
      <3>1. ASSUME NEW j \in 1..Len(queue')
            PROVE  /\ queue'[j].stamp \in 1..clock /\ queue'[j].by.since < queue'[j].stamp
                   /\ queue'[j].made # NoImage => queue'[j].made.since = queue'[j].stamp
                   /\ queue'[j].kind = "clone" /\ queue'[j].made # NoImage =>
                        queue'[j].made.name = queue'[j].by.name
                   /\ queue'[j].made # NoImage => queue'[j].kind = "clone" \/ Ends(queue'[j])
        <4>1. CASE j = n + 1
          BY <1>2, <1>4, <1>6, <2>2, <4>1 DEF Ends
        <4>2. CASE j \in 1..n /\ queue'[j] = queue[j]
          BY <4>2 DEF TimesFit, n
        <4> QED  BY <2>1, <4>1, <4>2
      <3> QED  BY <1>1, <3>1 DEF TimesFit
    <2>4. StampsOnce'
      <3>1. /\ \A j \in 1..n : queue[j].stamp # x.stamp
            /\ \A e \in Edges : e.stamp # x.stamp
            /\ \A d \in calls' : d.time # x.stamp
        BY <1>2, <1>6 DEF StampsOnce, n
      <3>2. \A j \in 1..n : (\A d \in calls : queue[j].stamp # d.time) /\ \A e \in Edges : e.stamp # queue[j].stamp
        BY DEF StampsOnce, n
      <3>3. \A i, j \in 1..n : queue[i].stamp = queue[j].stamp => i = j
        BY DEF StampsOnce, n
      <3>4. \A i, j \in 1..Len(queue') : queue'[i].stamp = queue'[j].stamp => i = j
        BY <2>1, <2>2, <3>1, <3>3
      <3>5. /\ \A d \in calls' : \A j \in 1..Len(queue') : queue'[j].stamp # d.time
            /\ \A d \in calls' : \A e \in Edges : e.stamp # d.time
            /\ \A j \in 1..Len(queue') : \A e \in Edges : e.stamp # queue'[j].stamp
        BY <2>1, <2>2, <3>1, <3>2 DEF StampsOnce
      <3> QED  BY <1>1, <3>4, <3>5 DEF StampsOnce
    <2>5. ExecOrder'
      <3>1. ASSUME NEW d \in calls', d.proc = x.pid
            PROVE  x.by.since < d.time /\ ~ Ends(x)
        <4>1. d \in calls /\ d # c
          OBVIOUS
        <4>2. d.by = c.by /\ d.by.since < d.time
          BY <1>2, <1>6, <3>1, <4>1 DEF TimesFit
        <4> QED  BY <1>6, <3>1, <4>1, <4>2 DEF Ends
      <3>2. ASSUME NEW j \in 1..n, queue[j].pid = x.pid
            PROVE  queue[j].by.since < x.stamp /\ (Ends(queue[j]) => queue[j].stamp < x.stamp)
        BY <1>6, <3>2 DEF ExecOrder, n
      <3>3. ASSUME NEW e \in ByProcess, x.pid = e.source.id
            PROVE  e.by.since < x.stamp
        BY <1>6, <3>3 DEF ExecOrder
      <3>4. current[x.pid].exec < x.stamp
        BY <1>6 DEF ExecOrder
      <3>5. /\ \A e \in ByProcess : \A d \in calls' : d.proc = e.source.id => e.by.since < d.time
            /\ \A d \in calls' : current[d.proc].exec < d.time
        BY DEF ExecOrder
      <3>6. \A d \in calls' : \A j \in 1..Len(queue') : queue'[j].pid = d.proc =>
                queue'[j].by.since < d.time /\ (Ends(queue'[j]) => queue'[j].stamp < d.time)
        <4>1. \A d \in calls : \A j \in 1..n : queue[j].pid = d.proc =>
                queue[j].by.since < d.time /\ (Ends(queue[j]) => queue[j].stamp < d.time)
          BY DEF ExecOrder, n
        <4> QED  BY <2>1, <2>2, <3>1, <4>1
      <3>7. \A i, j \in 1..Len(queue') : i < j /\ queue'[i].pid = queue'[j].pid =>
                /\ queue'[i].by.since < queue'[j].stamp
                /\ Ends(queue'[i]) => queue'[i].stamp < queue'[j].stamp
        <4>1. \A i, j \in 1..n : i < j /\ queue[i].pid = queue[j].pid =>
                /\ queue[i].by.since < queue[j].stamp
                /\ Ends(queue[i]) => queue[i].stamp < queue[j].stamp
          BY DEF ExecOrder, n
        <4>2. ~ (n + 1 < n + 1)
          BY <2>1
        <4> QED  BY <2>1, <2>2, <3>2, <4>1, <4>2
      <3>8. /\ \A e \in ByProcess : \A j \in 1..Len(queue') :
                    queue'[j].pid = e.source.id => e.by.since < queue'[j].stamp
            /\ \A j \in 1..Len(queue') : current[queue'[j].pid].exec < queue'[j].stamp
        <4>1. /\ \A e \in ByProcess : \A j \in 1..n :
                    queue[j].pid = e.source.id => e.by.since < queue[j].stamp
              /\ \A j \in 1..n : current[queue[j].pid].exec < queue[j].stamp
          BY DEF ExecOrder, n
        <4> QED  BY <2>1, <2>2, <3>3, <3>4, <4>1
      <3> QED  BY <1>1, <3>5, <3>6, <3>7, <3>8 DEF ExecOrder
    <2>6. \A j \in 1..Len(queue') : Ends(queue'[j]) =>
            \/ j \in 1..Len(queue) /\ queue'[j] = queue[j]
            \/ /\ c.kind = "exec" /\ ok
               /\ queue'[j].pid = c.proc /\ queue'[j].stamp = c.time
      BY <1>6, <2>1, <2>2 DEF Ends, n
    <2>7. ASSUME NEW p \in Pids \ shared
          PROVE  EventsInTurn(p)'
      <3> SUFFICES ASSUME NEW j \in 1..Len(queue'), queue'[j].pid = p
                   PROVE  /\ born[p].since <= queue'[j].by.since /\ current[p].exec <= queue'[j].by.since
                          /\ \A i \in 1..(j - 1) :
                                EndOf(queue', i, p) => queue'[i].stamp <= queue'[j].by.since
        BY <1>1 DEF EventsInTurn, EndOf
      <3>1. CASE j = n + 1
        <4>1. p = c.proc /\ queue'[j].by = image[p] /\ image[p] # NoImage
          BY <1>2, <1>6, <2>2, <3>1
        <4>2. \A i \in 1..(j - 1) : i \in 1..n /\ queue'[i] = queue[i]
          BY <1>6, <2>1, <3>1 DEF n
        <4> QED  BY <2>7, <4>1, <4>2 DEF ImagesInTurn, ImageInTurn, EndOf, n
      <3>2. CASE j \in 1..n /\ queue'[j] = queue[j]
        <4>1. \A i \in 1..(j - 1) : queue'[i] = queue[i]
          BY <1>6, <2>1, <3>2 DEF n
        <4> QED  BY <2>7, <3>2, <4>1 DEF ImagesInTurn, EventsInTurn, EndOf, n
      <3> QED  BY <2>1, <3>1, <3>2
    <2> QED  BY <2>3, <2>4, <2>5, <2>6, <2>7
  <1>7. CASE queue' # queue
    <2> DEFINE x == queue'[Len(queue) + 1]
    <2>1. /\ Len(queue') = Len(queue) + 1
          /\ \A j \in 1..Len(queue) : queue'[j] = queue[j]
          /\ x.pid = c.proc /\ x.kind = c.kind /\ x.ok = ok /\ x.stamp = c.time
          /\ x.by = c.by /\ x.made = made
      BY <1>7, ReportCases
    <2>2. x = queue'[Len(queue) + 1]
      OBVIOUS
    <2> HIDE DEF x
    <2> QED  BY <1>1, <1>3, <1>6, <2>1, <2>2
  <1> QED  BY <1>5, <1>7

(* A call returns that makes no image under its own process id. *)
LEMMA ReturnsOrder ==
  ASSUME OrderIInv, NEW c \in calls, NEW ok \in BOOLEAN, NEW made \in Images \cup {NoImage},
         c.kind = "clone" => made = c.made,
         made # NoImage => c.kind = "clone",
         c.kind = "exec" => ~ ok,
         Report(c, ok, made), calls' = calls \ {c},
         UNCHANGED <<image, born, shared, clock, analyzer>>
  PROVE  OrderInv'
  <1>1. /\ TimesFit' /\ StampsOnce' /\ ExecOrder' /\ NodesEntered' /\ MadeFits' /\ NamesGiven'
        /\ \A j \in 1..Len(queue') : Ends(queue'[j]) => j \in 1..Len(queue) /\ queue'[j] = queue[j]
        /\ \A p \in Pids \ shared : EventsInTurn(p)'
    BY ReportedOrder
  <1>2. ByProcess' = ByProcess /\ current' = current
    BY AnalyzerKept
  <1>3. ImagesInTurn'
    <2> SUFFICES ASSUME NEW p \in Pids \ shared
                 PROVE  ImageInTurn(p)' /\ EdgesInTurn(p)'
      BY <1>1 DEF ImagesInTurn
    <2>1. ImageInTurn(p) /\ EdgesInTurn(p)
      BY DEF ImagesInTurn, OrderIInv, OrderInv
    <2> QED  BY <1>1, <1>2, <2>1 DEF ImageInTurn, EdgesInTurn, EndOf
  <1> QED  BY <1>1, <1>3 DEF OrderInv

(* An execve makes a new image. *)
LEMMA ExecuteOrder ==
  ASSUME OrderIInv, NEW c \in calls, Execute(c)
  PROVE  OrderInv'
  <1> DEFINE new == [proc |-> c.proc, since |-> c.time, name |-> c.what]
  <1>0. IInv
    BY DEF OrderIInv, NodesIInv
  <1>1. /\ c.kind = "exec" /\ CallsOf(c.proc) = {c}
        /\ image' = [image EXCEPT ![c.proc] = new]
        /\ Report(c, TRUE, new) /\ calls' = calls \ {c}
        /\ UNCHANGED <<born, shared, clock, analyzer>>
    BY DEF Execute
  <1>2. new \in Images /\ new.since = c.time
    <2>1. c \in Calls /\ SortOf(c.kind, c.what)
      BY <1>0 DEF IInv, MachineOK
    <2>2. c.proc \in Pids /\ c.time \in Stamps /\ c.what \in Names
      BY <1>1, <2>1 DEF Calls, SortOf
    <2> QED  BY <2>2, ImageFacts
  <1> HIDE DEF new
  <1>3. \A d \in calls : d.proc = c.proc => d = c
    BY <1>1 DEF CallsOf
  <1>4. /\ TimesFit' /\ StampsOnce' /\ ExecOrder' /\ NodesEntered' /\ MadeFits' /\ NamesGiven'
        /\ \A j \in 1..Len(queue') : Ends(queue'[j]) =>
                \/ j \in 1..Len(queue) /\ queue'[j] = queue[j]
                \/ queue'[j].pid = c.proc /\ queue'[j].stamp = c.time
        /\ \A p \in Pids \ shared : EventsInTurn(p)'
    <2>1. TRUE \in BOOLEAN /\ new \in Images \cup {NoImage} /\ c.kind # "clone"
      BY <1>1, <1>2
    <2> QED  BY <1>1, <1>2, <1>3, <2>1, ReportedOrder
  <1>5. ByProcess' = ByProcess /\ current' = current
    BY <1>1, AnalyzerKept
  <1>6. ASSUME NEW p \in Pids \ shared
        PROVE  ImageInTurn(p)'
    <2>0. ImageInTurn(p) /\ born' = born /\ current' = current
      BY <1>1, <1>5 DEF ImagesInTurn, OrderIInv, OrderInv
    <2>1. CASE p = c.proc
      <3>1. image'[p] = new /\ c.by = image[p] /\ image[p] # NoImage
        BY <1>0, <1>1, <2>1, CallFacts DEF IInv, MachineOK
      <3>2. /\ born[p].since <= c.by.since /\ c.by.since < c.time /\ current[p].exec < c.time
            /\ \A i \in 1..Len(queue) : EndOf(queue, i, p) => queue[i].stamp < c.time
        BY <2>0, <2>1, <3>1 DEF ImageInTurn, TimesFit, ExecOrder, EndOf, OrderIInv, OrderInv
      <3>3. /\ born[p].since \in Nat /\ c.by.since \in Nat /\ c.time \in Nat /\ current[p].exec \in Nat
            /\ \A i \in 1..Len(queue) : queue[i].stamp \in Nat
        <4>1. born[p] # NoImage
          BY <1>0, <3>1 DEF IInv, MachineOK
        <4> QED  BY <1>0, <4>1, KnownFacts, CallFacts, ImageFacts, EventFacts, EdgeTypes DEF Stamps
      <3>4. born[p].since <= c.time /\ current[p].exec <= c.time /\ c.time <= c.time
        BY <3>2, <3>3
      <3>5. \A i \in 1..Len(queue') : EndOf(queue', i, p) => queue'[i].stamp <= c.time
        BY <1>4, <3>2, <3>3, <3>4 DEF EndOf
      <3> QED  BY <1>2, <2>0, <3>1, <3>4, <3>5 DEF ImageInTurn, EndOf
    <2>2. CASE p # c.proc
      <3>1. image'[p] = image[p]
        BY <1>0, <1>1, <2>2 DEF IInv, MachineOK
      <3>2. \A i \in 1..Len(queue') : EndOf(queue', i, p) => i \in 1..Len(queue) /\ queue'[i] = queue[i]
        BY <1>4, <2>2 DEF EndOf
      <3> QED  BY <2>0, <3>1, <3>2 DEF ImageInTurn, EndOf
    <2> QED  BY <2>1, <2>2
  <1>7. ImagesInTurn'
    <2>1. \A p \in Pids \ shared : EdgesInTurn(p)'
      BY <1>1, <1>5 DEF EdgesInTurn, ImagesInTurn, OrderIInv, OrderInv
    <2> QED  BY <1>1, <1>4, <1>6, <2>1 DEF ImagesInTurn
  <1> QED  BY <1>4, <1>7 DEF OrderInv

\* Steps that make no call, no image and no event.
LEMMA QuietOrder ==
  ASSUME OrderIInv, UNCHANGED <<born, shared, calls, clock, lost, queue, analyzer>>,
         \A p \in Pids : image'[p] # NoImage => image'[p] = image[p]
  PROVE  OrderInv'
  <1>1. /\ edges' = edges /\ current' = current /\ comm' = comm
        /\ Edges' = Edges /\ ByProcess' = ByProcess /\ (NodesEntered => NodesEntered')
    BY AnalyzerKept
  <1> USE DEF OrderIInv, OrderInv
  <1>2. TimesFit' /\ StampsOnce' /\ ExecOrder'
    BY <1>1 DEF TimesFit, StampsOnce, ExecOrder
  <1>3. MadeFits' /\ NamesGiven'
    BY <1>1 DEF MadeFits, NamesGiven
  <1>4. ImagesInTurn'
    BY <1>1 DEF ImagesInTurn, ImageInTurn, EventsInTurn, EdgesInTurn, EndOf
  <1> QED  BY <1>1, <1>2, <1>3, <1>4

\* What the edge of an event is: its time and call, from where to where.
AddedAs(e, x) ==
    /\ x.by = e.by /\ x.made = e.made /\ x.stamp = e.stamp /\ x.as = e.comm
    /\ \/ /\ e.kind = "rename" /\ x.kind \in {"request", "rename"} /\ x.target.type = "object"
          /\ x.source.type = "process" => x.source = current[e.pid]
       \/ /\ e.kind # "rename" /\ x.kind = e.kind /\ x.source = current[e.pid]
          /\ \/ Ends(e) /\ x.target = ProcessNode(e.pid, e.stamp)
             \/ e.kind = "clone" /\ x.target = ChildNode(e)
             \/ e.kind # "clone" /\ ~ Ends(e) /\ x.target.type = "object"

\* The edges of an event come last, one or the two of a rename, the first from the
\* process and the last of the kind of the event, and a node that is new has the name
\* of the program executed, or none.
Extends(e) ==
    LET m == Len(edges) IN
    /\ \A i \in 1..m : edges'[i] = edges[i]
    /\ Len(edges') = m + 1 \/ (Len(edges') = m + 2 /\ e.kind = "rename")
    /\ \A i \in (m + 1)..Len(edges') : AddedAs(e, edges'[i])
    /\ edges'[m + 1].source = current[e.pid]
    /\ edges'[Len(edges')].kind = e.kind
    /\ Len(edges') = m + 2 => edges'[m + 1].kind = "request"
    /\ \A n \in DOMAIN comm' :
        \/ n \in DOMAIN comm \cup {current[e.pid]}
        \/ Ends(e) /\ n = ProcessNode(e.pid, e.stamp)
        \/ comm'[n] = Unknown

(* One edge more. *)
LEMMA OneMore ==
  ASSUME GraphOK, NEW x, edges' = Append(edges, x)
  PROVE  /\ \A i \in 1..Len(edges) : edges'[i] = edges[i]
         /\ Len(edges) \in Nat /\ Len(edges') = Len(edges) + 1 /\ edges'[Len(edges')] = x
         /\ \A i \in (Len(edges) + 1)..Len(edges') : edges'[i] = x
  <1>1. edges \in Seq(EdgeRecs)
    BY DEF GraphOK
  <1>2. Len(edges) \in Nat /\ Len(edges') = Len(edges) + 1 /\ edges'[Len(edges) + 1] = x
    BY <1>1
  <1>3. \A i \in 1..Len(edges) : edges'[i] = edges[i]
    BY <1>1
  <1> QED  BY <1>2, <1>3

(* The event of an execve ... *)
LEMMA ExecuteExtends ==
  ASSUME GraphOK, NEW e \in Events, AddExecute(e)
  PROVE  Extends(e)
  <1> DEFINE x == Edge(e, e.kind, current[e.pid], ProcessNode(e.pid, e.stamp))
  <1>1. edges' = Append(edges, x) /\ e.kind = "exec" /\ Ends(e)
    BY DEF AddExecute, Ends
  <1>2. AddedAs(e, x) /\ x.kind = e.kind /\ x.source = current[e.pid]
    BY <1>1 DEF AddedAs, Edge
  <1>3. \A n \in DOMAIN comm' :
            n \in DOMAIN comm \cup {current[e.pid]} \/ n = ProcessNode(e.pid, e.stamp)
    BY DEF AddExecute, Named
  <1> HIDE DEF x
  <1> QED  BY <1>1, <1>2, <1>3, OneMore DEF Extends

(* ... of a call on a file or an address ... *)
LEMMA ObjectExtends ==
  ASSUME GraphOK, NEW e \in Events, AddObject(e)
  PROVE  Extends(e)
  <1> DEFINE x == Edge(e, e.kind, current[e.pid], ObjectNode(e.what))
  <1>1. edges' = Append(edges, x) /\ e.kind \in {"touch", "exec"} /\ ~ Ends(e)
    BY DEF AddObject, Ends
  <1>2. AddedAs(e, x) /\ x.kind = e.kind /\ x.source = current[e.pid]
    BY <1>1 DEF AddedAs, Edge, ObjectNode
  <1>3. \A n \in DOMAIN comm' : n \in DOMAIN comm \cup {current[e.pid]}
    BY DEF AddObject, Named
  <1> HIDE DEF x
  <1> QED  BY <1>1, <1>2, <1>3, OneMore DEF Extends

(* ... of a clone ... *)
LEMMA CloneExtends ==
  ASSUME GraphOK, NEW e \in Events, AddClone(e)
  PROVE  Extends(e)
  <1> DEFINE x == Edge(e, e.kind, current[e.pid], ChildNode(e))
             one == Named(comm, current[e.pid], e.comm)
  <1>1. edges' = Append(edges, x) /\ e.kind = "clone"
    BY DEF AddClone
  <1>2. AddedAs(e, x) /\ x.kind = e.kind /\ x.source = current[e.pid]
    BY <1>1 DEF AddedAs, Edge
  <1>3. \A n \in DOMAIN comm' : n \in DOMAIN comm \cup {current[e.pid]} \/ comm'[n] = Unknown
    <2>1. DOMAIN one = DOMAIN comm \cup {current[e.pid]}
      BY DEF Named
    <2>2. comm' = AddChild(one, ChildNode(e))
      BY DEF AddClone
    <2> HIDE DEF one
    <2> QED  BY <2>1, <2>2 DEF AddChild, Named
  <1> HIDE DEF x
  <1> QED  BY <1>1, <1>2, <1>3, OneMore DEF Extends

(* ... and of a rename. *)
LEMMA RenameExtends ==
  ASSUME GraphOK, NEW e \in Events, AddRename(e)
  PROVE  Extends(e)
  <1> DEFINE old == ObjectNode(e.what[1])
             x == Edge(e, "request", current[e.pid], old)
             y == Edge(e, e.kind, old, ObjectNode(e.what[2]))
             m == Len(edges)
  <1>1. edges' = edges \o <<x, y>> /\ e.kind = "rename"
    BY DEF AddRename
  <1>2. /\ AddedAs(e, x) /\ AddedAs(e, y) /\ x.kind = "request" /\ y.kind = e.kind
        /\ x.source = current[e.pid]
    BY <1>1 DEF AddedAs, Edge, ObjectNode
  <1>3. \A n \in DOMAIN comm' : n \in DOMAIN comm \cup {current[e.pid]}
    BY DEF AddRename, Named
  <1> HIDE DEF x, y
  <1>4. /\ m \in Nat /\ Len(edges') = m + 2 /\ edges'[m + 1] = x /\ edges'[m + 2] = y
        /\ \A i \in 1..m : edges'[i] = edges[i]
    <2>1. edges \in Seq(EdgeRecs)
      BY DEF GraphOK
    <2> QED  BY <1>1, <2>1
  <1>5. \A i \in (m + 1)..Len(edges') : i = m + 1 \/ i = m + 2
    BY <1>4
  <1> QED  BY <1>1, <1>2, <1>3, <1>4, <1>5 DEF Extends

(* A longer sequence has the positions of a shorter one. *)
LEMMA Longer ==
  ASSUME NEW k \in Nat, NEW l \in Nat, l = k + 1 \/ l = k + 2
  PROVE  1..k \subseteq 1..l
  OBVIOUS

(* What the worker does to the graph. *)
LEMMA HandleExtends ==
  ASSUME IInv, Handle
  PROVE  Extends(queue[1]) /\ Adds(queue[1])
  <1> DEFINE e == queue[1]
  <1>1. /\ queue # <<>> /\ add_event_to_graph(Head(queue))
    BY DEF Handle
  <1>2. Head(queue) = e /\ e \in Events /\ SortOf(e.kind, e.what)
    BY <1>1, HeadFacts
  <1> HIDE DEF e
  <1>3. GraphOK
    BY DEF IInv
  <1>4. Adds(e)
    BY <1>1, <1>2, <1>3, ExecuteAdds, ObjectAdds, CloneAdds, RenameAdds DEF add_event_to_graph
  <1>5. Extends(e)
    BY <1>1, <1>2, <1>3, ExecuteExtends, ObjectExtends, CloneExtends, RenameExtends DEF add_event_to_graph
  <1> QED  BY <1>4, <1>5 DEF e

(* The worker handles an event. *)
LEMMA HandleOrder ==
  ASSUME OrderIInv, IInv', EdgesFit', Handle
  PROVE  OrderInv'
  <1> DEFINE e == queue[1]
             n == Len(queue)
             m == Len(edges)
  <1> USE DEF OrderIInv, NodesIInv, OrderInv
  <1>1. /\ queue # <<>> /\ queue' = Tail(queue)
        /\ image' = image /\ born' = born /\ shared' = shared /\ calls' = calls
        /\ clock' = clock /\ lost' = lost
    BY DEF Handle, kernel
  <1>2. /\ n \in Nat /\ 1 \in 1..n /\ Len(queue') = n - 1
        /\ \A i \in 1..Len(queue') : i + 1 \in 1..n /\ queue'[i] = queue[i + 1] /\ 1 < i + 1
    <2>1. queue \in Seq(Events)
      BY DEF IInv, QueueOK
    <2> QED  BY <1>1, <2>1, TailFacts
  <1>3. /\ e.pid \in Pids /\ e.stamp \in Nat /\ e.by \in Images /\ e.by.proc = e.pid
        /\ e.made \in Images \cup {NoImage}
        /\ e.by.since \in Nat /\ e \in Events /\ e.kind \in Kinds
    BY <1>2, EventFacts
  <1>4. Extends(e) /\ Adds(e)
    BY HandleExtends
  <1>5. /\ m \in Nat /\ Len(edges') \in Nat /\ DOMAIN edges = 1..m /\ DOMAIN edges' = 1..Len(edges')
        /\ \A i \in 1..m : edges'[i] = edges[i]
        /\ \A i \in 1..Len(edges') : i \in 1..m \/ i \in (m + 1)..Len(edges')
        /\ \A i \in (m + 1)..Len(edges') : AddedAs(e, edges'[i])
        /\ Len(edges') = m + 1 \/ (Len(edges') = m + 2 /\ e.kind = "rename")
        /\ DOMAIN edges \subseteq DOMAIN edges'
    <2>1. m \in Nat /\ DOMAIN edges = 1..m
      BY EdgeTypes
    <2>2. edges' \in Seq(EdgeRecs)
      BY DEF IInv, GraphOK
    <2>3. Len(edges') \in Nat /\ DOMAIN edges' = 1..Len(edges')
      BY <2>2, LenProperties
    <2>4. \A i \in 1..Len(edges') : i \in 1..m \/ i \in (m + 1)..Len(edges')
      BY <2>1, <2>3
    <2>5. Len(edges') = m + 1 \/ Len(edges') = m + 2
      BY <1>4 DEF Extends
    <2>6. 1..m \subseteq 1..Len(edges')
      BY <2>1, <2>3, <2>5, Longer
    <2> QED  BY <1>4, <2>1, <2>3, <2>4, <2>6 DEF Extends
  <1>6. /\ \A x \in Edges' : x \in Edges \/ AddedAs(e, x)
        /\ \A x \in ByProcess' : x \in ByProcess \/ (AddedAs(e, x) /\ x.source = current[e.pid])
        /\ Edges \subseteq Edges' /\ ByProcess \subseteq ByProcess'
    <2>1. \A x \in Edges' : x \in Edges \/ AddedAs(e, x)
      BY <1>5 DEF Edges
    <2>2. Edges \subseteq Edges'
      <3>1. \A i \in DOMAIN edges : i \in DOMAIN edges' /\ edges'[i] = edges[i]
        BY <1>5
      <3> QED  BY <3>1 DEF Edges
    <2> QED  BY <2>1, <2>2 DEF ByProcess, AddedAs
  <1>7. /\ e.stamp \in 1..clock /\ e.by.since < e.stamp /\ current[e.pid].exec < e.stamp
        /\ e.made # NoImage => e.made.since = e.stamp
        /\ e.kind = "clone" /\ e.made # NoImage => e.made.name = e.by.name
        /\ e.made # NoImage => e.kind = "clone" \/ Ends(e)
    BY <1>2 DEF TimesFit, ExecOrder
  <1>8. /\ \A p \in Pids :
            current'[p] = IF Ends(e) /\ p = e.pid THEN ProcessNode(p, e.stamp) ELSE current[p]
        /\ current[e.pid].id = e.pid /\ current[e.pid].type = "process" /\ current[e.pid].exec \in Nat
    <2>1. current[e.pid] \in ProcessNodes /\ current[e.pid].id = e.pid /\ current[e.pid].exec \in Nat
      BY <1>3, EdgeTypes
    <2> QED  BY <1>4, <2>1 DEF Adds, ProcessNodes
  <1>9. /\ e.kind = "clone" /\ e.made # NoImage =>
            e.made = born[e.made.proc] \/ e.made.proc \in shared
        /\ Ends(e) => e.made \in Images /\ e.made.proc = e.pid
    <2>1. QueueMade
      BY DEF NodesInv
    <2> QED  BY <1>2, <2>1 DEF QueueMade
  <1> HIDE DEF e, n, m
  <1>10. TimesFit'
    <2>1. \A j \in 1..Len(queue') :
            /\ queue'[j].stamp \in 1..clock /\ queue'[j].by.since < queue'[j].stamp
            /\ queue'[j].made # NoImage => queue'[j].made.since = queue'[j].stamp
            /\ queue'[j].kind = "clone" /\ queue'[j].made # NoImage =>
                queue'[j].made.name = queue'[j].by.name
            /\ queue'[j].made # NoImage => queue'[j].kind = "clone" \/ Ends(queue'[j])
      BY <1>2 DEF TimesFit, n
    <2>2. \A x \in Edges' : x.stamp \in 1..clock /\ (x.source.type = "process" => x.by.since < x.stamp)
      BY <1>6, <1>7 DEF TimesFit, AddedAs
    <2> QED  BY <1>1, <2>1, <2>2 DEF TimesFit
  <1>11. StampsOnce'
    <2>1. \A j \in 1..Len(queue') : \A c \in calls : queue'[j].stamp # c.time
      BY <1>2 DEF StampsOnce, n
    <2>2. \A c \in calls : e.stamp # c.time
      BY <1>2 DEF StampsOnce, n, e
    <2>3. \A c \in calls : \A x \in Edges' : x.stamp # c.time
      BY <1>6, <2>2 DEF StampsOnce, AddedAs
    <2>4. \A i, j \in 1..Len(queue') : queue'[i].stamp = queue'[j].stamp => i = j
      <3> TAKE i, j \in 1..Len(queue')
      <3>1. queue[i + 1].stamp = queue[j + 1].stamp => i + 1 = j + 1
        BY <1>2 DEF StampsOnce, n
      <3> QED  BY <1>2, <3>1
    <2>5. \A j \in 1..Len(queue') : queue'[j].stamp # e.stamp
      <3> TAKE j \in 1..Len(queue')
      <3>1. j + 1 \in 1..n /\ 1 \in 1..n /\ j + 1 # 1 /\ queue'[j] = queue[j + 1]
        BY <1>2
      <3> QED  BY <3>1 DEF StampsOnce, n, e
    <2>6. \A j \in 1..Len(queue') : \A x \in Edges' : x.stamp # queue'[j].stamp
      BY <1>2, <1>6, <2>5 DEF StampsOnce, AddedAs, n
    <2>7. ASSUME NEW i \in DOMAIN edges', NEW j \in DOMAIN edges', edges'[i].stamp = edges'[j].stamp
          PROVE  i = j \/ edges'[i].kind \in {"request", "rename"}
      <3>1. \A k \in 1..m : edges[k].stamp # e.stamp
        BY <1>2, <1>5 DEF StampsOnce, Edges, n, e
      <3>2. CASE i \in 1..m /\ j \in 1..m
        BY <1>5, <2>7, <3>2 DEF StampsOnce
      <3>3. CASE i \in (m + 1)..Len(edges') /\ j \in (m + 1)..Len(edges')
        <4>1. e.kind = "rename" => edges'[i].kind \in {"request", "rename"}
          BY <1>5, <3>3 DEF AddedAs
        <4>2. Len(edges') = m + 1 => i = m + 1 /\ j = m + 1
          BY <1>5, <3>3
        <4>3. Len(edges') = m + 1 \/ e.kind = "rename"
          BY <1>5
        <4> QED  BY <4>1, <4>2, <4>3
      <3>4. \A k \in (m + 1)..Len(edges') : edges'[k].stamp = e.stamp
        BY <1>5 DEF AddedAs
      <3>5. /\ i \in 1..m \/ i \in (m + 1)..Len(edges')
            /\ j \in 1..m \/ j \in (m + 1)..Len(edges')
        BY <1>5
      <3>6. /\ i \in 1..m => edges'[i].stamp # e.stamp
            /\ j \in 1..m => edges'[j].stamp # e.stamp
        BY <1>5, <3>1
      <3> QED  BY <2>7, <3>2, <3>3, <3>4, <3>5, <3>6
    <2> QED  BY <1>1, <2>1, <2>3, <2>4, <2>6, <2>7 DEF StampsOnce
  <1>12. \A j \in 1..Len(queue') : queue'[j].pid = e.pid =>
            e.by.since < queue'[j].stamp /\ (Ends(e) => e.stamp < queue'[j].stamp)
    BY <1>2 DEF ExecOrder, n, e
  <1>13. \A c \in calls : c.proc = e.pid => e.by.since < c.time /\ (Ends(e) => e.stamp < c.time)
    BY <1>2 DEF ExecOrder, n, e
  <1>14. ExecOrder'
    <2>1. \A c \in calls : \A j \in 1..Len(queue') : queue'[j].pid = c.proc =>
            queue'[j].by.since < c.time /\ (Ends(queue'[j]) => queue'[j].stamp < c.time)
      BY <1>2 DEF ExecOrder, n
    <2>2. \A i, j \in 1..Len(queue') : i < j /\ queue'[i].pid = queue'[j].pid =>
            /\ queue'[i].by.since < queue'[j].stamp
            /\ Ends(queue'[i]) => queue'[i].stamp < queue'[j].stamp
      <3> TAKE i, j \in 1..Len(queue')
      <3>1. i + 1 \in 1..n /\ j + 1 \in 1..n /\ (i < j => i + 1 < j + 1)
            /\ queue'[i] = queue[i + 1] /\ queue'[j] = queue[j + 1]
        BY <1>2
      <3> QED  BY <3>1 DEF ExecOrder, n
    <2>3. \A x \in ByProcess' : \A c \in calls : c.proc = x.source.id => x.by.since < c.time
      BY <1>6, <1>8, <1>13 DEF ExecOrder, AddedAs
    <2>4. \A x \in ByProcess' : \A j \in 1..Len(queue') :
            queue'[j].pid = x.source.id => x.by.since < queue'[j].stamp
      <3>1. \A x \in ByProcess : \A j \in 1..Len(queue') :
                queue'[j].pid = x.source.id => x.by.since < queue'[j].stamp
        BY <1>2 DEF ExecOrder, n
      <3> QED  BY <1>6, <1>8, <1>12, <3>1 DEF AddedAs
    <2>5. \A c \in calls : current'[c.proc].exec < c.time
      <3> TAKE c \in calls
      <3>1. c.proc \in Pids /\ current[c.proc].exec < c.time
        BY CallFacts DEF ExecOrder
      <3>2. CASE Ends(e) /\ c.proc = e.pid
        <4>1. current'[c.proc].exec = e.stamp
          <5>1. current'[c.proc] = ProcessNode(c.proc, e.stamp)
            BY <1>8, <3>1, <3>2
          <5> QED  BY <5>1 DEF ProcessNode
        <4> QED  BY <1>13, <3>2, <4>1
      <3> QED  BY <1>8, <3>1, <3>2
    <2>6. \A j \in 1..Len(queue') : current'[queue'[j].pid].exec < queue'[j].stamp
      <3> TAKE j \in 1..Len(queue')
      <3>1. j + 1 \in 1..Len(queue) /\ queue'[j] = queue[j + 1]
        BY <1>2 DEF n
      <3>2. queue'[j].pid \in Pids /\ current[queue'[j].pid].exec < queue'[j].stamp
        BY <3>1, EventFacts DEF ExecOrder
      <3>3. CASE Ends(e) /\ queue'[j].pid = e.pid
        <4>1. current'[queue'[j].pid].exec = e.stamp
          <5>1. current'[queue'[j].pid] = ProcessNode(queue'[j].pid, e.stamp)
            BY <1>8, <3>2, <3>3
          <5> QED  BY <5>1 DEF ProcessNode
        <4> QED  BY <1>12, <3>3, <4>1
      <3> QED  BY <1>8, <3>2, <3>3
    <2> QED  BY <1>1, <2>1, <2>2, <2>3, <2>4, <2>5, <2>6 DEF ExecOrder
  <1>15. Ends(e) => \E x \in ByProcess' :
            x.target = ProcessNode(e.pid, e.stamp) /\ x.stamp = e.stamp /\ x.source.id = e.pid
    <2> SUFFICES ASSUME Ends(e) PROVE \E x \in ByProcess' :
            x.target = ProcessNode(e.pid, e.stamp) /\ x.stamp = e.stamp /\ x.source.id = e.pid
      OBVIOUS
    <2> DEFINE x == edges'[Len(edges')]
    <2>1. Len(edges') \in (m + 1)..Len(edges') /\ Len(edges') \in DOMAIN edges'
      BY <1>5
    <2>2. AddedAs(e, x) /\ x \in Edges'
      BY <1>5, <2>1 DEF Edges
    <2>3. e.kind = "exec"
      BY DEF Ends
    <2> HIDE DEF x
    <2>4. x.source = current[e.pid] /\ x.stamp = e.stamp /\ x.target = ProcessNode(e.pid, e.stamp)
      <3>1. x.target.type = "object" \/ x.target = ProcessNode(e.pid, e.stamp)
        BY <2>2, <2>3 DEF AddedAs
      <3> QED  BY <2>2, <2>3 DEF AddedAs
    <2> QED  BY <1>8, <2>2, <2>4 DEF ByProcess
  <1>16. NodesEntered'
    <2> DEFINE EnteredNow(x) ==
                 x.exec = 0 \/ \E g \in ByProcess' : g.target = x /\ g.stamp = x.exec /\ g.source.id = x.id
    <2>1. \A x : Entered(x) => EnteredNow(x)
      BY <1>6 DEF Entered
    <2>2. \A p \in Pids : EnteredNow(current'[p])
      <3> TAKE p \in Pids
      <3>1. CASE Ends(e) /\ p = e.pid
        BY <1>8, <1>15, <3>1 DEF ProcessNode
      <3>2. CASE ~ (Ends(e) /\ p = e.pid)
        BY <1>8, <2>1, <3>2 DEF NodesEntered
      <3> QED  BY <3>1, <3>2
    <2>3. EnteredNow(current[e.pid])
      BY <1>3, <2>1 DEF NodesEntered
    <2>4. \A x \in ByProcess' : EnteredNow(x.source) /\ x.source.exec < x.stamp
      BY <1>6, <1>7, <2>1, <2>3 DEF NodesEntered, AddedAs
    <2> HIDE DEF EnteredNow
    <2>5. \A f \in ByExecve' :
            f \in ByExecve \/ (Ends(e) /\ f.stamp = e.stamp /\ f.source = current[e.pid])
      BY <1>6, <1>7 DEF ByExecve, AddedAs
    <2>6. ASSUME NEW p \in Pids, NEW f \in ByExecve', f.source.id = p
          PROVE  f.stamp <= current'[p].exec
      <3>1. CASE Ends(e) /\ p = e.pid
        <4>1. current'[p].exec = e.stamp
          <5>1. current'[p] = ProcessNode(p, e.stamp)
            BY <1>8, <3>1
          <5> QED  BY <5>1 DEF ProcessNode
        <4>2. f \in ByExecve => f.stamp <= current[p].exec /\ f.stamp \in Nat
          BY <2>6, EdgeTypes DEF NodesEntered, ByExecve, ByProcess
        <4> QED  BY <1>3, <1>7, <1>8, <2>5, <3>1, <4>1, <4>2
      <3>2. CASE ~ (Ends(e) /\ p = e.pid)
        BY <1>8, <2>5, <2>6, <3>2 DEF NodesEntered
      <3> QED  BY <3>1, <3>2
    <2>7. ASSUME NEW x \in ByProcess', NEW f \in ByExecve', f.source.id = x.source.id
          PROVE  /\ f.stamp <= x.by.since => f.stamp <= x.source.exec
                 /\ x \in ByExecve' => f.stamp <= x.source.exec \/ x.stamp <= f.stamp
      <3>1. \/ x \in ByProcess
            \/ x.source = current[e.pid] /\ x.stamp = e.stamp /\ x.by = e.by
        BY <1>6 DEF AddedAs
      <3>2. CASE f \in ByExecve
        <4>1. CASE x \in ByProcess
          <5>1. x \in ByExecve' => x \in ByExecve
            BY <4>1 DEF ByExecve
          <5> QED  BY <2>7, <3>2, <4>1, <5>1 DEF NodesEntered
        <4>2. CASE x.source = current[e.pid]
          BY <1>3, <1>8, <2>7, <3>2, <4>2 DEF NodesEntered
        <4> QED  BY <3>1, <4>1, <4>2
      <3>3. CASE Ends(e) /\ f.stamp = e.stamp /\ f.source = current[e.pid]
        <4>1. CASE x \in ByProcess
          <5>1. x.by.since < e.stamp /\ x.by.since \in Nat /\ x.stamp \in Nat
            BY <1>2, <1>8, <2>7, <3>3, <4>1, EdgeTypes DEF ExecOrder, ByProcess, e, n
          <5>2. x \in ByExecve' => x.stamp <= current[e.pid].exec
            <6>1. x \in ByExecve' => x \in ByExecve
              BY <4>1 DEF ByExecve
            <6> QED  BY <1>3, <1>8, <2>7, <3>3, <4>1, <6>1 DEF NodesEntered
          <5> QED  BY <1>3, <1>7, <1>8, <3>3, <5>1, <5>2
        <4>2. CASE x.stamp = e.stamp /\ x.by = e.by
          BY <1>3, <1>7, <3>3, <4>2
        <4> QED  BY <3>1, <4>1, <4>2
      <3> QED  BY <2>5, <3>2, <3>3
    <2> QED  BY <2>2, <2>4, <2>6, <2>7 DEF NodesEntered, Entered, EnteredNow
  <1>17. MadeFits'
    <2> SUFFICES ASSUME NEW x \in Edges', x.made # NoImage, x \notin Edges
                 PROVE  /\ x.source.type = "process" /\ x.made.since = x.stamp
                        /\ \/ /\ x.kind = "exec" /\ x.made.proc = x.source.id
                              /\ x.target = ProcessNode(x.source.id, x.stamp)
                           \/ /\ x.kind = "clone" /\ x.target = Logical(x.made.proc)
                              /\ x.made.name = x.by.name
                              /\ x.made = born[x.made.proc] \/ x.made.proc \in shared
      BY <1>1 DEF MadeFits
    <2>1. AddedAs(e, x)
      BY <1>6
    <2>2. x.by = e.by /\ x.made = e.made /\ x.stamp = e.stamp
      BY <2>1 DEF AddedAs
    <2>3. CASE e.kind = "clone"
      <3>1. x.kind = "clone" /\ x.source = current[e.pid] /\ x.target = Logical(e.made.proc)
        BY <2>1, <2>2, <2>3 DEF AddedAs, Ends, ChildNode
      <3> QED  BY <1>7, <1>8, <1>9, <2>2, <2>3, <3>1
    <2>4. CASE Ends(e)
      <3>1. e.kind = "exec"
        BY <2>4 DEF Ends
      <3>2. /\ x.kind = "exec" /\ x.source = current[e.pid]
            /\ x.target = ProcessNode(e.pid, e.stamp)
        BY <2>1, <2>4, <3>1 DEF AddedAs
      <3> QED  BY <1>7, <1>8, <1>9, <2>2, <2>4, <3>2
    <2> QED  BY <1>7, <2>2, <2>3, <2>4
  <1>18. ASSUME NEW p \in Pids \ shared
         PROVE  ImageInTurn(p)' /\ EventsInTurn(p)' /\ EdgesInTurn(p)'
    <2>1. ImageInTurn(p) /\ EventsInTurn(p) /\ EdgesInTurn(p)
      BY DEF ImagesInTurn
    <2>2. e.pid = p => born[p].since <= e.by.since /\ current[p].exec <= e.by.since
      BY <1>2, <2>1 DEF EventsInTurn, e, n
    <2>3. EdgesInTurn(p)'
      BY <1>1, <1>6, <1>8, <2>1, <2>2 DEF EdgesInTurn, AddedAs
    <2>4. /\ current'[p] = current[p] \/ (EndOf(queue, 1, p) /\ current'[p].exec = e.stamp)
          /\ 1 \in 1..n
      <3>1. ProcessNode(p, e.stamp).exec = e.stamp
        BY DEF ProcessNode
      <3> QED  BY <1>2, <1>8, <3>1 DEF EndOf, e
    <2>5. ImageInTurn(p)'
      <3>1. \A i \in 1..Len(queue') : EndOf(queue', i, p) => EndOf(queue, i + 1, p)
        BY <1>2 DEF EndOf
      <3> QED  BY <1>1, <1>2, <2>1, <2>4, <3>1 DEF ImageInTurn, e, n
    <2>6. EventsInTurn(p)'
      <3> SUFFICES ASSUME NEW j \in 1..Len(queue'), queue'[j].pid = p
                   PROVE  /\ born[p].since <= queue'[j].by.since
                          /\ current'[p].exec <= queue'[j].by.since
                          /\ \A i \in 1..(j - 1) :
                                EndOf(queue', i, p) => queue'[i].stamp <= queue'[j].by.since
        BY <1>1 DEF EventsInTurn, EndOf
      <3>1. j + 1 \in 1..n /\ queue'[j] = queue[j + 1] /\ 1 \in 1..((j + 1) - 1)
        BY <1>2
      <3>2. \A i \in 1..(j - 1) :
                i + 1 \in 1..((j + 1) - 1) /\ queue'[i] = queue[i + 1]
        BY <1>2
      <3>3. /\ born[p].since <= queue[j + 1].by.since /\ current[p].exec <= queue[j + 1].by.since
            /\ \A i \in 1..((j + 1) - 1) : EndOf(queue, i, p) => queue[i].stamp <= queue[j + 1].by.since
        BY <2>1, <3>1 DEF EventsInTurn, n
      <3>4. current'[p].exec <= queue'[j].by.since
        BY <2>4, <3>1, <3>3 DEF e
      <3>5. \A i \in 1..(j - 1) : EndOf(queue', i, p) => queue'[i].stamp <= queue'[j].by.since
        BY <3>1, <3>2, <3>3 DEF EndOf
      <3> QED  BY <3>1, <3>3, <3>4, <3>5
    <2> QED  BY <2>3, <2>5, <2>6
  <1>19. NamesGiven'
    <2> SUFFICES ASSUME NEW x \in DOMAIN comm'
                 PROVE  \/ \E f \in ByProcess' : f.source = x /\ f.as = comm'[x]
                        \/ /\ \A f \in ByProcess' : f.source # x
                           /\ x.exec = 0 \/ x.id = NoPid => comm'[x] = Unknown
      BY DEF NamesGiven
    <2>1. CASE Ends(e) /\ x = ProcessNode(e.pid, e.stamp)
      <3>1. x.exec = e.stamp /\ e.stamp # 0 /\ x.id # NoPid
        BY <1>3, <1>7, <2>1, EventGraphAssumption DEF ProcessNode, EventGraphAssumption
      <3>2. ASSUME NEW f \in ByProcess, f.source = x PROVE FALSE
        <4>1. \E g \in ByProcess : g.stamp = e.stamp
          BY <3>1, <3>2 DEF NodesEntered, Entered
        <4> QED  BY <1>2, <4>1 DEF StampsOnce, ByProcess, e, n
      <3>3. current[e.pid] # x
        BY <1>3, <1>7, <1>8, <3>1
      <3> QED  BY <1>6, <3>1, <3>2, <3>3
    <2>2. CASE x = current[e.pid] /\ ~ (Ends(e) /\ x = ProcessNode(e.pid, e.stamp))
      <3> DEFINE f == edges'[m + 1]
      <3>1. m + 1 \in DOMAIN edges' /\ m + 1 \in (m + 1)..Len(edges')
        BY <1>5
      <3>2. f \in Edges' /\ f.as = e.comm
        BY <1>5, <3>1 DEF Edges, AddedAs
      <3>3. f.source = current[e.pid]
        BY <1>4 DEF Extends, m
      <3> HIDE DEF f
      <3>4. comm'[x] = e.comm
        BY <1>4, <2>2 DEF Adds
      <3> QED  BY <1>8, <2>2, <3>2, <3>3, <3>4 DEF ByProcess
    <2>3. CASE x # current[e.pid] /\ ~ (Ends(e) /\ x = ProcessNode(e.pid, e.stamp))
      <3>1. \A f \in ByProcess' : f.source = x => f \in ByProcess
        BY <1>6, <2>3
      <3>2. CASE x \in DOMAIN comm
        <4>1. comm'[x] = comm[x]
          BY <1>4, <2>3, <3>2 DEF Adds
        <4> QED  BY <1>6, <3>1, <3>2, <4>1 DEF NamesGiven
      <3>3. CASE x \notin DOMAIN comm
        <4>1. comm'[x] = Unknown
          BY <1>4, <2>3, <3>3 DEF Extends
        <4>2. \A f \in ByProcess : f.source # x
          BY <3>3 DEF IInv, GraphOK, ByProcess
        <4> QED  BY <3>1, <4>1, <4>2
      <3> QED  BY <3>2, <3>3
    <2> QED  BY <2>1, <2>2, <2>3
  <1>20. ImagesInTurn'
    BY <1>1, <1>18 DEF ImagesInTurn
  <1> QED  BY <1>10, <1>11, <1>14, <1>16, <1>17, <1>19, <1>20

(* Every step keeps the order. *)
LEMMA NextOrder ==
  ASSUME OrderIInv, [Next]_vars
  PROVE  OrderIInv'
  <1> SUFFICES OrderInv'
    BY NextNodes DEF OrderIInv
  <1>1. NodesIInv' /\ IInv /\ IInv'
    BY NextNodes DEF OrderIInv, NodesIInv
  <1>2. CASE UNCHANGED vars
    BY <1>2, QuietOrder DEF vars, analyzer
  <1>3. ASSUME NEW c \in calls, Return(c)
        PROVE  OrderInv'
    <2>1. c.made \in Images \cup {NoImage} /\ (c.made # NoImage => c.kind = "clone")
      BY <1>1, CallFacts
    <2> QED  BY <1>3, <2>1, ReturnsOrder DEF Return
  <1>4. ASSUME NEW c \in calls, ExecuteFails(c)
        PROVE  OrderInv'
    BY <1>4, ReturnsOrder DEF ExecuteFails
  <1>5. CASE Running
    BY <1>3, <1>4, <1>5, BeginOrder, ForkOrder, ExecuteOrder DEF Running
  <1>6. ASSUME NEW p \in Pids, Exit(p)
        PROVE  OrderInv'
    <2>1. \A q \in Pids : image'[q] # NoImage => image'[q] = image[q]
      BY <1>1, <1>6 DEF Exit, IInv, MachineOK
    <2> QED  BY <1>6, <2>1, QuietOrder DEF Exit
  <1>7. CASE Handle
    BY <1>1, <1>7, HandleOrder DEF NodesIInv, NodesInv
  <1>8. CASE Next
    BY <1>5, <1>6, <1>7, <1>8 DEF Next, Machine
  <1> QED  BY <1>2, <1>8

\* The strengthened invariant of the third layer: no two calls have one time, a call
\* comes after the execves its process was known by, the graph has the call that made
\* each node at which other calls were made, and a name comes from a call at the node.
THEOREM OrderInductive == Spec => []OrderIInv
  <1>1. Init => OrderIInv
    BY InitIInv, InitNodes, InitOrder DEF OrderIInv, NodesIInv
  <1>2. OrderIInv /\ [Next]_vars => OrderIInv'
    BY NextOrder
  <1> QED  BY <1>1, <1>2, PTL DEF Spec

\* The name of a node at which calls were made is one that the image which made
\* them had a thread of: add_process (analyzer.py:190-196) gives the node of the
\* process that calls the comm of the call, and no other node.
THEOREM NamesOfCallers == Spec => []NamedAsCalled
  <1>1. OrderIInv => NamedAsCalled
    <2> SUFFICES ASSUME OrderIInv, NEW e \in ByProcess,
                        \A l \in lost : ~ (l.kind = "exec" /\ l.by.proc = e.by.proc),
                        e.source.id \notin shared
                 PROVE  \E f \in ByProcess : f.by = e.by /\ f.as = comm[e.source]
      BY DEF NamedAsCalled
    <2>1. NodesIInv /\ IInv /\ EdgesFit /\ LostMade /\ NamesGiven
      BY DEF OrderIInv, NodesIInv, NodesInv, OrderInv
    <2>2. e.source \in DOMAIN comm
      BY <2>1 DEF IInv, GraphOK, ByProcess
    <2>3. PICK f \in ByProcess : f.source = e.source /\ f.as = comm[e.source]
      BY <2>1, <2>2 DEF NamesGiven
    <2>4. /\ e.by.proc = e.source.id /\ f.by.proc = e.source.id
          /\ e.by \in Images /\ f.by \in Images /\ Known(e.by) /\ Known(f.by)
      BY <2>1, <2>3, KnownFacts DEF EdgesFit, ByProcess
    <2>5. ~ Excused(e.by) /\ ~ Excused(f.by)
      <3>1. e.by # NoImage /\ f.by # NoImage
        BY <2>4, ImageFacts
      <3> QED  BY <2>1, <2>4, <3>1 DEF Excused, Unseen, LostMade
    <2>6. NodeFor(e.by) = NodeFor(f.by)
      BY <2>1, <2>3, <2>5 DEF EdgesFit
    <2>7. f.by = e.by
      BY <2>1, <2>4, <2>6, NodesDiffer
    <2> QED  BY <2>3, <2>7
  <1> QED  BY <1>1, OrderInductive, PTL
=============================================================================
