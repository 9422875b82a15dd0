----------------------------- MODULE EventPaths -----------------------------
(***************************************************************************)
(* How the agent names the file that a call was about (host/agent/agent.go *)
(* resolveEventPath, resolveEventPathCached, openedFilePaths, checkPath).  *)
(* A call may name it by a descriptor, or by a path that is relative to a  *)
(* descriptor or to the working directory.  The agent keeps the path of    *)
(* each descriptor whose opening it was told of, and asks /proc for the    *)
(* others when it reads the event, by when the process may have closed the *)
(* descriptor, changed its directory, or ended.                            *)
(*                                                                         *)
(* A path is the sequence of its components; an absolute one begins with   *)
(* "/".  Files are not renamed.  A call has, besides what the collector     *)
(* reports of it, the true path, what that started from, and which opening *)
(* of its descriptor it was about and whether the process made it: history,*)
(* with which the properties compare what the agent reports.               *)
(***************************************************************************)
EXTENDS Naturals, Sequences, FiniteSets

CONSTANTS
    Pids,           \* process ids
    Fds,            \* descriptors
    Cwd,            \* AT_FDCWD
    Stdin,          \* descriptor 0
    Failed,         \* the result of an open that fails
    Free,           \* neither a process nor a file
    Elsewhere,      \* what an unreported descriptor is of: not a directory
    Directories,    \* absolute paths of directories
    Names,          \* names of files in each of them
    Followed,       \* paths that the filters of the agent let through
    Threads,        \* bound: calls of one process at a time
    MaxCalls,       \* bound: calls that open or use files
    MaxQueue        \* bound: events not yet read when a process makes a step

Join(base, rest) == base \o rest
Relative == {<<n>> : n \in Names}
Unresolved == <<"<unresolved>">>
IsAbs(path) == path # <<>> /\ Head(path) = "/"

ASSUME EventPathsAssumption ==
    /\ Fds \subseteq Nat /\ IsFiniteSet(Fds)
    /\ Cwd \notin Fds /\ Failed \notin Fds /\ Stdin \in Fds
    /\ \A d \in Directories \cup {Elsewhere} : d \in Seq(STRING) /\ IsAbs(d)
    /\ Elsewhere \notin Directories /\ Free \notin Directories
    /\ \A r \in Relative : r \in Seq(STRING) /\ ~IsAbs(r)
    /\ Threads \in Nat /\ MaxCalls \in Nat /\ MaxQueue \in Nat

VARIABLES
    files,          \* what each process has open: path, time, whether it opened it itself
    cwd,            \* working directories; Free: no such process
    calls,          \* calls that have had their effect and not returned
    clock,          \* calls made so far
    contested,      \* openings with whose calls another thread interfered (history)
    queue,          \* events not yet read
    cache,          \* openedFilePaths
    misread         \* openings whose path was resolved against another base (history)

processes == <<files, cwd, calls, clock, contested>>
vars == <<files, cwd, calls, clock, contested, queue, cache, misread>>

Init ==
    /\ files = [p \in Pids |-> [fd \in Fds |-> Free]]
    /\ cwd = [p \in Pids |-> Free]
    /\ calls = {}
    /\ clock = 0
    /\ contested = {}
    /\ queue = <<>>
    /\ cache = [k \in {} |-> Unresolved]
    /\ misread = {}

-----------------------------------------------------------------------------
(* Processes *)

Alive(p) == cwd[p] # Free
CallsOf(p) == {c \in calls : c.pid = p}
IsOpen(p, fd) == fd \in Fds /\ files[p][fd] # Free
CanCall(p) == Alive(p) /\ clock < MaxCalls /\ Cardinality(CallsOf(p)) < Threads

\* Where a call starts from: a descriptor that is a directory, or the working one.
Base(p, dirfd) == IF dirfd = Cwd THEN cwd[p] ELSE files[p][dirfd].path
CanStart(p, dirfd) ==
    dirfd = Cwd \/ (IsOpen(p, dirfd) /\ files[p][dirfd].path \in Directories)

\* The kernel gives out the lowest descriptor that is free.
LowestFree(p) ==
    LET free == {fd \in Fds : ~IsOpen(p, fd)}
    IN  IF free = {} THEN Failed ELSE CHOOSE fd \in free : \A x \in free : fd <= x

\* Calls of other threads of p, not yet returned, that opened descriptor fd.
OpeningsOf(p, fd) == {c \in CallsOf(p) : c.kind = "open" /\ c.res = fd}
UsesOf(p, fd) == {c \in CallsOf(p) : c.kind = "use" /\ c.dirfd = fd}

Times(C) == {c.opening : c \in C}

\* The call c has its effect; it is reported when it returns.
Call(c) ==
    /\ clock' = clock + 1
    /\ calls' = calls \cup {c}
    /\ UNCHANGED <<cwd, queue, cache, misread>>

\* open and openat: an absolute path, or one relative to a directory.
Open(p, dirfd, path) ==
    /\ CanCall(p)
    /\ IF path \in Directories THEN dirfd = Cwd ELSE CanStart(p, dirfd)
    /\ LET fd == LowestFree(p)
           base == Base(p, dirfd)
           truth == IF IsAbs(path) THEN path ELSE Join(base, path)
           others == OpeningsOf(p, fd) \cup UsesOf(p, fd)
       IN  /\ files' = IF fd = Failed THEN files
                       ELSE [files EXCEPT ![p][fd] = [path |-> truth, opening |-> clock + 1, own |-> TRUE]]
           /\ contested' = contested \cup Times(others)
                \cup (IF OpeningsOf(p, fd) # {} THEN {clock + 1} ELSE {})
           /\ Call([pid |-> p, kind |-> "open", dirfd |-> dirfd, path |-> path, res |-> fd,
                    truth |-> truth, base |-> base, opening |-> clock + 1, own |-> TRUE])

\* chmod: the collector gives 0 for the directory that a relative path starts from,
\* which is the working directory.
Chmod(p, path) ==
    /\ CanCall(p)
    /\ Call([pid |-> p, kind |-> "chmod", dirfd |-> Stdin, path |-> path, res |-> Failed,
             truth |-> IF IsAbs(path) THEN path ELSE Join(cwd[p], path), base |-> cwd[p],
             opening |-> 0, own |-> FALSE])
    /\ UNCHANGED <<files, contested>>

\* fchmod and the file probes: of a descriptor, or of a path relative to a directory.
Use(p, dirfd, path) ==
    /\ CanCall(p)
    /\ IF path = <<>> THEN IsOpen(p, dirfd) ELSE CanStart(p, dirfd)
    /\ LET base == Base(p, dirfd)
           opening == IF dirfd = Cwd THEN 0 ELSE files[p][dirfd].opening
           own == dirfd # Cwd /\ files[p][dirfd].own
       IN  /\ contested' = contested \cup
                (IF OpeningsOf(p, dirfd) # {} THEN {opening} \cup Times(OpeningsOf(p, dirfd)) ELSE {})
           /\ Call([pid |-> p, kind |-> "use", dirfd |-> dirfd, path |-> path, res |-> Failed,
                    truth |-> Join(base, path), base |-> base, opening |-> opening, own |-> own])
    /\ UNCHANGED files

Return(c) ==
    /\ calls' = calls \ {c}
    /\ queue' = Append(queue, c)
    /\ UNCHANGED <<files, cwd, clock, contested, cache, misread>>

\* A descriptor comes about that the agent is not told of: dup, socket, an open
\* that the collector filters or has no room for.
OpenUnseen(p) ==
    /\ CanCall(p) /\ LowestFree(p) # Failed
    /\ clock' = clock + 1
    /\ files' = [files EXCEPT ![p][LowestFree(p)] = [path |-> Elsewhere, opening |-> clock + 1, own |-> FALSE]]
    /\ UNCHANGED <<cwd, calls, contested, queue, cache, misread>>

Close(p, fd) ==
    /\ Alive(p) /\ IsOpen(p, fd)
    /\ files' = [files EXCEPT ![p][fd] = Free]
    /\ UNCHANGED <<cwd, calls, clock, contested, queue, cache, misread>>

ChangeDirectory(p, d) ==
    /\ Alive(p) /\ cwd[p] # d
    /\ cwd' = [cwd EXCEPT ![p] = d]
    /\ UNCHANGED <<files, calls, clock, contested, queue, cache, misread>>

\* A process comes about, of an id that may have been used before, or was there
\* already: the descriptors it inherits were opened by others.
Start(p, inherited, d) ==
    /\ ~Alive(p)
    /\ files' = [files EXCEPT ![p] =
            [fd \in Fds |-> IF fd \in inherited THEN [path |-> Elsewhere, opening |-> 0, own |-> FALSE] ELSE Free]]
    /\ cwd' = [cwd EXCEPT ![p] = d]
    /\ UNCHANGED <<calls, clock, contested, queue, cache, misread>>

Exit(p) ==
    /\ Alive(p) /\ CallsOf(p) = {}
    /\ files' = [files EXCEPT ![p] = [fd \in Fds |-> Free]]
    /\ cwd' = [cwd EXCEPT ![p] = Free]
    /\ UNCHANGED <<calls, clock, contested, queue, cache, misread>>

Run ==
    /\ Len(queue) < MaxQueue
    /\ \/ \E p \in Pids :
            \/ \E dirfd \in Fds \cup {Cwd} :
                \/ \E path \in Directories \cup Relative : Open(p, dirfd, path)
                \/ \E path \in {<<>>} \cup Relative : Use(p, dirfd, path)
            \/ \E path \in Directories \cup Relative : Chmod(p, path)
            \/ OpenUnseen(p)
            \/ \E fd \in Fds : Close(p, fd)
            \/ \E d \in Directories :
                \/ ChangeDirectory(p, d)
                \/ \E inherited \in SUBSET Fds : Start(p, inherited, d)
            \/ Exit(p)
       \/ \E c \in calls : Return(c)

-----------------------------------------------------------------------------
(* The agent.  <<>> stands for an error. *)

resolveFDPath(pid, fd) == IF IsOpen(pid, fd) THEN files[pid][fd].path ELSE <<>>

readCwd(pid) == IF Alive(pid) THEN cwd[pid] ELSE <<>>

resolveEventPath(pid, dirfd, path) ==
    LET base == IF dirfd = Cwd THEN readCwd(pid) ELSE resolveFDPath(pid, dirfd)
    IN  IF path = <<>> THEN resolveFDPath(pid, dirfd)
        ELSE IF IsAbs(path) THEN path
        ELSE IF base = <<>> THEN <<>> ELSE Join(base, path)

resolveEventPathCached(pid, dirfd, path) ==
    IF ~IsAbs(path) /\ <<pid, dirfd>> \in DOMAIN cache
    THEN Join(cache[<<pid, dirfd>>], path)
    ELSE resolveEventPath(pid, dirfd, path)

checkPath(path) == path \in Followed

(* Bug: only what passes the filter is remembered. *)
RememberFollowed(key, path) ==
    [k \in DOMAIN cache \cup (IF checkPath(path) THEN {key} ELSE {}) |->
        IF k = key /\ checkPath(path) THEN path ELSE cache[k]]

Remember(key, path) ==
    [k \in DOMAIN cache \cup {key} |-> IF k = key THEN path ELSE cache[k]]

(* Bug: the path is kept as the program wrote it. *)
Given(e) == e.path

NameOfOpened(e) ==
    LET resolved == resolveEventPath(e.pid, e.dirfd, e.path)
    IN  IF resolved = <<>> THEN e.path ELSE resolved

NameOfUsed(e) ==
    LET resolved == resolveEventPathCached(e.pid, e.dirfd, e.path)
    IN  IF resolved = <<>> THEN Unresolved ELSE resolved

\* What a relative path started from is not there any more (history).
BaseMoved(e) ==
    LET base == IF e.dirfd = Cwd THEN readCwd(e.pid) ELSE resolveFDPath(e.pid, e.dirfd)
    IN  ~IsAbs(e.path) /\ base # e.base

\* What is sent, if the filter lets it through, is the event with this path.
Name(e) == IF e.kind = "open" THEN NameOfOpened(e) ELSE NameOfUsed(e)

\* The descriptor of an open is remembered before its path is filtered.
handleEvent ==
    /\ queue # <<>>
    /\ LET e == Head(queue) IN
       /\ cache' = IF e.kind = "open" /\ e.res # Failed THEN Remember(<<e.pid, e.res>>, Name(e)) ELSE cache
       /\ misread' = IF e.kind = "open" /\ BaseMoved(e) THEN misread \cup {e.opening} ELSE misread
    /\ queue' = Tail(queue)
    /\ UNCHANGED processes

Next == Run \/ handleEvent

Spec == Init /\ [][Next]_vars

-----------------------------------------------------------------------------
(* Properties *)

\* Types; a remembered path is absolute unless what it was relative to had moved.
TypeOK ==
    /\ \A p \in Pids : \A fd \in Fds : IsOpen(p, fd) => IsAbs(files[p][fd].path) /\ Alive(p)
    /\ clock \in 0..MaxCalls
    /\ contested \cup misread \subseteq 0..clock
    /\ DOMAIN cache \subseteq Pids \X Fds
    /\ \A k \in DOMAIN cache : IsAbs(cache[k]) \/ (misread # {} /\ cache[k] \in Relative)

\* agent.go:188, 370-384: what a process does with a descriptor that it opened itself,
\* and that the agent was told of, is reported, and filtered, by the path it has,
\* though the process has closed the descriptor or has ended by then, and whatever the
\* number stood for before: unless calls of two threads on that descriptor
\* overlapped, or the opening itself was read too late to know its path.
DescriptorNamed ==
    queue # <<>> /\ Head(queue).kind = "use" =>
        LET e == Head(queue)
        IN  e.own /\ e.opening \notin contested \cup misread =>
                Name(e) = e.truth
=============================================================================
