---------------------------- MODULE Correlation ----------------------------
(***************************************************************************)
(* The worker of the analyzer as a whole (analyzer/analyzer.py,            *)
(* handle_event): it looks whether the correlation configuration changed,  *)
(* adds the event to the graph (EventGraph) and searches behind the new    *)
(* edge for the pattern SH-1 (analyzer/correlation.py, patterns.py).       *)
(*                                                                         *)
(* A configuration is its time window, in ticks of the clock of calls; its *)
(* file is replaced by the web server while the worker runs.  Calls of the *)
(* kind "touch" are openat.  Weights are left out: get_adjusted_weight     *)
(* raises nothing, since every contribution is at most 1 and the           *)
(* configuration bounds the base weights.                                  *)
(***************************************************************************)
EXTENDS EventGraph, Integers

CONSTANTS
    Windows,            \* time windows of valid configurations
    Invalid,            \* a file that load_correlation_config rejects
    TraversalDepth,     \* traversal_depth
    Times,              \* modification times of the configuration file
    MaxEdits,           \* bound: replacements of the file
    CallsWithEdits      \* bound: calls made when the file was replaced

Contents == Windows \cup {Invalid}

ASSUME CorrelationAssumption ==
    /\ Windows \subseteq Nat \ {0}
    /\ Invalid \notin Windows
    /\ TraversalDepth \in Nat \ {0}
    /\ Times \subseteq Nat /\ 0 \in Times
    /\ MaxEdits \in Nat /\ CallsWithEdits \in Nat

VARIABLES
    file,           \* the configuration file: content and modification time
    past,           \* what it was, in this order (history)
    phase,          \* of the configuration: being loaded, current, or behind the file
    config,         \* correlation_config
    mtime,          \* correlation_config_mtime
    alerts          \* edges that raised an alert, with the start of their window, the
                    \* steps that matched and the names at that time (history)

configuration == <<file, past, phase, config, mtime>>
cvars == <<vars, configuration, alerts>>

InitCorrelation ==
    /\ Init
    /\ file \in [content: Windows, time: {0}]
    /\ past = <<file>>
    /\ phase = "loading"
    /\ config = file.content
    /\ mtime = file.time
    /\ alerts = {}

-----------------------------------------------------------------------------
(* The configuration *)

\* putConfig of the web server accepts any JSON; the time is that of the write
\* to the temporary file, so times may repeat and go back.
Replace ==
    /\ Len(past) <= MaxEdits /\ clock <= CallsWithEdits
    /\ file' \in [content: Contents, time: Times]
    /\ past' = Append(past, file')

\* Importing the module loads the file first and looks at its time then.
Start ==
    /\ phase = "loading"
    /\ phase' = IF config = file.content THEN "current" ELSE "behind"
    /\ mtime' = file.time
    /\ UNCHANGED <<file, past, config>>

(* Bug: the time is looked at again after the file was read. *)
LoadThenLook(now) ==
    IF file.content \in Windows
    THEN config' = file.content /\ mtime' = now.time /\ phase' = "current"
    ELSE UNCHANGED <<config, mtime, phase>>

(* Bug: what the file says is kept although it is not valid. *)
LoadUnchecked(now) == config' = now.content /\ mtime' = file.time /\ phase' = "current"

\* The file is now what is read; the time kept is the one seen before.
Load(now) ==
    IF now.content \in Windows
    THEN config' = now.content /\ mtime' = file.time /\ phase' = "current"
    ELSE UNCHANGED <<config, mtime, phase>>

Changed == file.time # mtime

\* The file may be replaced between stat and load.
reload_correlation_config_if_changed ==
    \/ ~Changed /\ UNCHANGED configuration
    \/ Changed /\ UNCHANGED <<file, past>> /\ Load(file)
    \/ Changed /\ Replace /\ Load(file')

-----------------------------------------------------------------------------
(* Patterns *)

ProcessGroups == [
    package_manager |-> {"npm", "npx", "yarn", "pnpm", "bun", "bpm"},
    lifecycle_shell |-> {"sh", "dash", "bash"},
    script_runtime  |-> {"node", "bun", "deno", "bode"}]

\* "<unknown>" is no program that a group names.
ASSUME NamesAssumption == \A g \in DOMAIN ProcessGroups : Unknown \notin ProcessGroups[g]

FileGroups == [
    package_manifest |-> {"package.json", "backage.json"},
    install_script   |-> {"setup_bun.js", "payload.bjs"}]

Step(source, target, event) == [source |-> source, target |-> target, event |-> event]

\* shai_hulud_20["SH-1"]
Variants == <<
    <<Step("package_manager", "package_manifest", "touch"),
      Step("package_manager", "lifecycle_shell", "clone"),
      Step("lifecycle_shell", "script_runtime", "exec"),
      Step("script_runtime", "install_script", "touch")>>,
    <<Step("package_manager", "package_manifest", "touch"),
      Step("package_manager", "lifecycle_shell", "clone"),
      Step("lifecycle_shell", "shell_child", "clone"),
      Step("shell_child", "script_runtime", "exec"),
      Step("script_runtime", "install_script", "touch")>> >>

\* _matches_entity: a process by its name in the graph, a file by its own.
Matches(names, group, n) ==
    IF n.type = "process"
    THEN group = "shell_child"
         \/ (group \in DOMAIN ProcessGroups /\ names[n] \in ProcessGroups[group])
    ELSE group \in DOMAIN FileGroups /\ n.id \in FileGroups[group]

check_in_patterns(names, e, step) ==
    /\ e.kind = step.event
    /\ Matches(names, step.source, e.source)
    /\ Matches(names, step.target, e.target)

-----------------------------------------------------------------------------
(* Correlation.  E is the graph, a the position of the anchor edge in it.   *)

\* The edges that arrive at a node in the window, and not later than t.
Into(E, n, start, t) == {i \in DOMAIN E : E[i].target = n /\ E[i].stamp \in start..t}

\* The edges that arrive where those of R come from, before them.
Behind(E, start, R) == UNION {Into(E, E[j].source, start, E[j].stamp) : j \in R}

\* The edges at the end of chains of k edges back from the anchor, for every k.
Chains(E, a, start, depth) ==
    LET R[k \in 1..depth] ==
            IF k = 1 THEN Into(E, E[a].target, start, E[a].stamp) ELSE Behind(E, start, R[k - 1])
    IN  R

\* The edges that get_subgraph returns: what Subgraph is proved to return as long
\* as no chain is as long as the depth.
get_subgraph(E, a, start, depth) ==
    LET R == Chains(E, a, start, depth) IN UNION {R[k] : k \in 1..depth}

Lineage(E, a, start) ==
    LET local == get_subgraph(E, a, start, TraversalDepth + 1)
        nodes == {E[a].target} \cup {E[i].source : i \in local}
    IN  {n \in nodes : n.type = "process"}

(* Bug: the calls of all processes are candidates. *)
AnyCandidates(E, a, start) == {i \in DOMAIN E : E[i].stamp \in start..E[a].stamp}

candidate_edges(E, a, start) ==
    LET related == Lineage(E, a, start)
    IN  {i \in DOMAIN E : E[i].stamp \in start..E[a].stamp /\ E[i].source \in related}

MatchesStep(E, names, variant, i, k) ==
    k <= Len(variant) /\ check_in_patterns(names, E[i], variant[k])

\* After k steps of a variant, the candidate of time t is the next step or not.
Advance(E, names, C, variant, k, t) ==
    IF \E i \in C : E[i].stamp = t /\ MatchesStep(E, names, variant, i, k + 1) THEN k + 1 ELSE k

\* The number of steps of a variant that are matched up to each time.  No two
\* candidates of one time match: only the edges of a rename have the same.
variant_steps(E, names, C, variant) ==
    LET n[t \in 0..MaxCalls] == IF t = 0 THEN 0 ELSE Advance(E, names, C, variant, n[t - 1], t)
    IN  n

(* Bug: that the last step is the new edge is not asked for. *)
CompletedBy(n, t, length) == n[t] = length

\* The last step is matched at the time of the new edge, and not before.
CompletedAt(n, t, length) == n[t] = length /\ n[t - 1] < length

get_pattern_similarity(E, names, a, start) ==
    LET C == candidate_edges(E, a, start)
        Found == {v \in DOMAIN Variants :
                    CompletedAt(variant_steps(E, names, C, Variants[v]), E[a].stamp, Len(Variants[v]))}
    IN  IF Found = {} THEN 0 ELSE Len(Variants[CHOOSE v \in Found : \A w \in Found : v <= w])

\* The new edge is searched for by time stamp and operation.
Anchors(E, e) == {i \in DOMAIN E : E[i].stamp = e.stamp /\ E[i].kind = e.kind}

get_context_weight(e) ==
    \E a \in Anchors(edges', e) :
        LET start == edges'[a].stamp - config'
            steps == get_pattern_similarity(edges', comm', a, start)
        IN  alerts' = IF steps > 0
                      THEN alerts \cup {[edge |-> a, start |-> start, steps |-> steps, names |-> comm']}
                      ELSE alerts

handle_event ==
    /\ phase # "loading"
    /\ reload_correlation_config_if_changed
    /\ Handle
    /\ get_context_weight(Head(queue))

NextCorrelation ==
    \/ /\ Len(past) = 1 \/ clock <= CallsWithEdits
       /\ Running
       /\ UNCHANGED <<configuration, alerts>>
    \/ Replace /\ UNCHANGED <<vars, phase, config, mtime, alerts>>
    \/ Start /\ UNCHANGED <<vars, alerts>>
    \/ handle_event

SpecCorrelation == InitCorrelation /\ [][NextCorrelation]_cvars

-----------------------------------------------------------------------------
(* Properties *)

\* Types; alerts are about edges of the graph.
CorrelationTypeOK ==
    /\ TypeOK
    /\ past \in Seq([content: Contents, time: Times])
    /\ past # <<>> /\ file = past[Len(past)]
    /\ config \in Windows /\ mtime \in Times
    /\ \A x \in alerts : x.edge \in DOMAIN edges /\ x.start <= edges[x.edge].stamp

\* Two files with the same time cannot be told apart.
Ambiguous == \E i, j \in DOMAIN past : i < j /\ past[i].time = past[j].time

\* analyzer.py:75-91: when the time of the file is the one recorded, its content is
\* in force, wherever in the reload a replacement fell, unless two files had one
\* time, or the file was replaced between load and stat at the start
\* (analyzer.py:36-37) and has not been read since.
ConfigIsFiles == phase = "current" /\ ~Changed /\ ~Ambiguous => config = file.content

\* What an edge rests on: an earlier call on the object it comes from, or the call
\* that made the process that made it, or what that was before an execve.  An execve
\* that another thread is in makes no image that calls yet.
RestsOn(e, f) ==
    IF e.source.type = "process"
    THEN f.made # NoImage /\ f.made.proc = e.by.proc /\ f.made.since <= e.by.since
    ELSE f.target = e.source /\ f.stamp <= e.stamp

\* The edges edge a rests on in a window, by who really made whom: the calls on
\* what it is a call on, and with every call those that it rests on.
Causes(a, start) ==
    LET Near == {i \in DOMAIN edges : edges[i].stamp \in start..edges[a].stamp}
        Closed(C) ==
            /\ \A i \in Near : edges[i].target = edges[a].target => i \in C
            /\ \A j \in C : \A i \in Near : RestsOn(edges[j], edges[i]) => i \in C
    IN  {i \in Near : \A C \in SUBSET Near : Closed(C) => i \in C}

\* All calls, in the window, of the programs whose calls edge a rests on.
CallsBehind(a, start) ==
    LET C == Causes(a, start)
        callers == {edges[j].source : j \in C}
    IN  {i \in DOMAIN edges : edges[i].source \in callers /\ edges[i].stamp \in start..edges[a].stamp}

\* Edges in C that match the steps of a variant one after another, the last is z.
Complete(C, v, z) ==
    LET n == Len(Variants[v])
        Match(i, k) == check_in_patterns(comm, edges[i], Variants[v][k])
    IN  /\ Match(z, n)
        /\ \E p \in [1..n -> C] :
            /\ p[n] = z
            /\ \A k \in 1..n : Match(p[k], k)
            /\ \A k \in 2..n : edges[p[k - 1]].stamp < edges[p[k]].stamp

CompletesFirst(C, v, a) == Complete(C, v, a) /\ \A z \in C \ {a} : ~Complete(C, v, z)

\* A chain of calls goes as far back as the search does.
TooDeep(a, start) == Chains(edges, a, start, TraversalDepth + 1)[TraversalDepth + 1] # {}

\* correlation.py:109-166: if the newest edge raised an alert, calls among its causes
\* match a variant of the pattern in the order of time, and it is the last.  It raised
\* one if and only if it is the first to complete a variant, unless the search ended
\* at its depth: the way taken through the graph finds all causes and no call of
\* unrelated processes, and taking each step as early as possible misses nothing.
\* An edge that is late completes nothing that was completed before.
AlertsAsSpecified ==
    LET a == Len(edges)
        Raised == {x \in alerts : x.edge = a}
        IsFirst(start) ==
            \E v \in DOMAIN Variants : CompletesFirst(CallsBehind(a, start), v, a)
    IN  edges # <<>> =>
            /\ \A x \in Raised :
                /\ \E v \in DOMAIN Variants :
                    Len(Variants[v]) = x.steps /\ Complete(CallsBehind(a, x.start), v, a)
                /\ IsFirst(x.start) \/ TooDeep(a, x.start)
            /\ Raised = {} =>
                LET start == edges[a].stamp - config IN ~IsFirst(start) \/ TooDeep(a, start)

\* correlation.py:158-163: the calls of an installation raise one alert for each way
\* in which they match.  Opening the script again, later and inside the window,
\* raises no other, unless a node got another name in between.
OneAlert ==
    \A x, y \in alerts :
        /\ x.edge < y.edge /\ y.start <= 1
        /\ x.steps = y.steps
        /\ edges[x.edge].target = edges[y.edge].target
        /\ \A n \in DOMAIN x.names : y.names[n] = x.names[n]
        => edges[y.edge].stamp < edges[x.edge].stamp

\* patterns.py:44: a process is cloned under the name of its parent, and an execve
\* gives the new name to a new node.  So the clone of a shell by a package manager
\* is in the graph, and an alert possible, only if an execve of one of the two
\* processes was not reported, or a thread of theirs has not the name of its program.
AlertNeedsLoss ==
    \A x \in alerts : \E i \in 1..x.edge :
        /\ edges[i].kind = "clone" /\ edges[i].made # NoImage /\ edges[i].stamp >= x.start
        /\ LET Both == {edges[i].by.proc, edges[i].made.proc}
           IN  \/ \E l \in lost : l.kind = "exec" /\ l.by.proc \in Both
               \/ \E k \in 1..x.edge : edges[k].by.proc \in Both /\ edges[k].as # edges[k].by.name

\* The calls p are an installation: a package manager opens the manifest and makes a
\* process, which becomes a shell, then a runtime, which opens the script.
Installation(p) ==
    LET c == [k \in 1..5 |-> edges[p[k]]]
        Of(group, name) == name \in ProcessGroups[group]
        Becomes(k, group) ==
            c[k].kind = "exec" /\ c[k].made # NoImage /\ Of(group, c[k].made.name)
    IN  /\ \A k \in 2..5 : c[k - 1].stamp < c[k].stamp
        /\ Of("package_manager", c[1].by.name) /\ c[1].kind = "touch"
        /\ c[1].target.id \in FileGroups["package_manifest"]
        /\ c[2].by = c[1].by /\ c[2].kind = "clone"
        /\ c[3].by = c[2].made /\ Becomes(3, "lifecycle_shell")
        /\ c[4].by = c[3].made /\ Becomes(4, "script_runtime")
        /\ c[5].by = c[4].made /\ c[5].kind = "touch"
        /\ c[5].target.id \in FileGroups["install_script"]

\* patterns.py:39, "installation of a malicious package": when the last call of an
\* installation in the window becomes an edge, and the others have, it raises an
\* alert.
InstallationAlerts ==
    \A p \in [1..5 -> DOMAIN edges] :
        /\ p[5] = Len(edges) /\ Installation(p)
        /\ edges[p[1]].stamp >= edges[p[5]].stamp - config
        => \E x \in alerts : x.edge = p[5]
=============================================================================
