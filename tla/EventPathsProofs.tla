--------------------------- MODULE EventPathsProofs ---------------------------
(* Proofs about EventPaths: a call on a descriptor is reported by the path   *)
(* it had, for any processes, descriptors, directories, number of threads    *)
(* and of calls, and however late the agent reads the events.                *)
EXTENDS EventPaths, SequenceTheorems, WellFoundedInduction, TLAPS

-----------------------------------------------------------------------------
(* The inductive invariant *)

AbsolutePaths == {s \in Seq(STRING) : IsAbs(s)}

FileRecs == [path : AbsolutePaths, opening : Nat, own : BOOLEAN]

CallRecs ==
    [pid : Pids, kind : {"open", "use", "chmod"}, dirfd : Fds \cup {Cwd},
     path : Directories \cup Relative \cup {<<>>}, res : Fds \cup {Failed},
     truth : AbsolutePaths, base : AbsolutePaths, opening : Nat, own : BOOLEAN]

\* The true path of a call is what it started from and the path it gave.
CallOK(c) ==
    /\ c \in CallRecs
    /\ c.kind = "open" => /\ c.path # <<>> /\ c.own
                          /\ c.truth = IF IsAbs(c.path) THEN c.path ELSE Join(c.base, c.path)
    /\ c.kind = "use" => /\ ~IsAbs(c.path) /\ c.truth = Join(c.base, c.path)
                         /\ c.own => c.dirfd \in Fds

Typed ==
    /\ files \in [Pids -> [Fds -> FileRecs \cup {Free}]]
    /\ cwd \in [Pids -> Directories \cup {Free}]
    /\ \A p \in Pids : ~Alive(p) => \A fd \in Fds : ~IsOpen(p, fd)
    /\ \A c \in calls : CallOK(c)
    /\ queue \in Seq(CallRecs)
    /\ \A i \in 1..Len(queue) : CallOK(queue[i])
    /\ DOMAIN cache \subseteq Pids \X Fds

\* Openings have happened.
Dated ==
    /\ clock \in 0..MaxCalls
    /\ contested \cup misread \subseteq 0..clock
    /\ \A p \in Pids, fd \in Fds : IsOpen(p, fd) => files[p][fd].opening <= clock
    /\ \A c \in calls : c.opening <= clock
    /\ \A i \in 1..Len(queue) : queue[i].opening <= clock

Absolute == \A k \in DOMAIN cache : IsAbs(cache[k]) \/ (misread # {} /\ cache[k] \in Relative)

\* The event e opened descriptor fd of p.
Opens(e, p, fd) == e.kind = "open" /\ e.pid = p /\ e.res = fd

\* When the agent will have read the first n events, it has the path of the opening o
\* in its cache, or has resolved it too late.
Kept(Q, C, M, n, p, fd, o, path) ==
    \/ \E j \in 1..n : /\ Opens(Q[j], p, fd) /\ Q[j].opening = o /\ Q[j].truth = path
                       /\ \A l \in (j + 1)..n : ~Opens(Q[l], p, fd)
    \/ /\ \A l \in 1..n : ~Opens(Q[l], p, fd)
       /\ <<p, fd>> \in DOMAIN C
       /\ C[<<p, fd>>] = path \/ o \in M

KeptByAll(p, fd, o, path) == Kept(queue, cache, misread, Len(queue), p, fd, o, path)

NotBeingOpened(p, fd) == \A c \in calls : ~Opens(c, p, fd)

\* Two calls that open one descriptor at a time are contested.
Overlaps ==
    \A p \in Pids, fd \in Fds : \A c, d \in calls :
        Opens(c, p, fd) /\ Opens(d, p, fd) /\ c # d => c.opening \in contested

\* Of a descriptor that is open, the path is on its way to the agent.
OpenKept ==
    \A p \in Pids, fd \in Fds :
        IsOpen(p, fd) /\ files[p][fd].own /\ files[p][fd].opening \notin contested =>
            LET f == files[p][fd]
            IN  \/ \E c \in calls : Opens(c, p, fd) /\ c.opening = f.opening /\ c.truth = f.path
                \/ NotBeingOpened(p, fd) /\ KeptByAll(p, fd, f.opening, f.path)

\* Of one that a call in flight uses, or an event, it arrives before that event.
UseKept ==
    \A c \in calls :
        c.kind = "use" /\ c.own /\ c.opening \notin contested =>
            NotBeingOpened(c.pid, c.dirfd) /\ KeptByAll(c.pid, c.dirfd, c.opening, c.base)

EventKept ==
    \A i \in 1..Len(queue) :
        LET e == queue[i]
        IN  e.kind = "use" /\ e.own /\ e.opening \notin contested =>
                Kept(queue, cache, misread, i - 1, e.pid, e.dirfd, e.opening, e.base)

IInv == Typed /\ Dated /\ Absolute /\ Overlaps /\ OpenKept /\ UseKept /\ EventKept

-----------------------------------------------------------------------------
(* Paths and descriptors *)

(* What follows an absolute path makes an absolute path.                     *)
LEMMA JoinFacts ==
  ASSUME NEW b \in AbsolutePaths, NEW r \in Seq(STRING)
  PROVE  Join(b, r) \in AbsolutePaths
<1>1. b \in Seq(STRING) /\ b # <<>> /\ Head(b) = "/"
  BY DEF AbsolutePaths, IsAbs
<1>2. Len(b) \in Nat \ {0} /\ Len(r) \in Nat
  BY <1>1, EmptySeq, LenProperties
<1>3. b \o r \in Seq(STRING) /\ Len(b \o r) = Len(b) + Len(r) /\ (b \o r)[1] = b[1]
  BY <1>1, <1>2, ConcatProperties
<1>4. b \o r # <<>> /\ Head(b \o r) = Head(b)
  BY <1>1, <1>2, <1>3, EmptySeq
<1>5. QED
  BY <1>1, <1>3, <1>4 DEF Join, AbsolutePaths, IsAbs

(* Directories have absolute paths, files in them are given relative ones.   *)
LEMMA PathFacts ==
  /\ Directories \subseteq AbsolutePaths /\ Elsewhere \in AbsolutePaths
  /\ \A r \in Relative \cup {<<>>} : r \in Seq(STRING) /\ ~IsAbs(r)
  /\ \A r \in Relative : r # <<>>
  /\ \A s \in AbsolutePaths : s # <<>> /\ s \in Seq(STRING) /\ IsAbs(s)
<1>1. \A r \in Relative : r # <<>>
  BY DEF Relative
<1>2. <<>> \in Seq(STRING) /\ ~IsAbs(<<>>)
  BY EmptySeq DEF IsAbs
<1>3. QED
  BY <1>1, <1>2, EventPathsAssumption DEF AbsolutePaths, IsAbs

(* Every nonempty set of numbers has a least one. *)
LEMMA LeastFd ==
  ASSUME NEW T \in SUBSET Fds, T # {}
  PROVE  \E m \in T : \A k \in T : m <= k
<1>1. T \subseteq Nat
  BY EventPathsAssumption
<1>2. \E m \in T : \A k \in T : ~(<<k, m>> \in OpToRel(<, Nat))
  BY <1>1, NatLessThanWellFounded, WFMin
<1>3. \A k, m \in T : k < m => <<k, m>> \in OpToRel(<, Nat)
  BY <1>1 DEF OpToRel
<1>4. \E m \in T : \A k \in T : ~(k < m)
  BY <1>2, <1>3
<1>5. QED
  BY <1>1, <1>4

(* The kernel gives out a descriptor, or the call fails. *)
LEMMA LowestFreeFacts ==
  ASSUME NEW p \in Pids
  PROVE  LowestFree(p) \in Fds \cup {Failed}
<1> DEFINE free == {fd \in Fds : ~IsOpen(p, fd)}
<1>1. CASE free = {}
  BY <1>1 DEF LowestFree
<1>2. CASE free # {}
  <2>1. \E m \in free : \A x \in free : m <= x
    BY <1>2, LeastFd
  <2>2. LowestFree(p) \in free
    BY <1>2, <2>1 DEF LowestFree
  <2>3. QED
    BY <2>2
<1>3. QED
  BY <1>1, <1>2

(* An open descriptor has a record. *)
LEMMA OpenHasRecord ==
  ASSUME Typed, NEW p \in Pids, NEW fd \in Fds \cup {Cwd}, IsOpen(p, fd)
  PROVE  /\ fd \in Fds /\ files[p][fd] \in FileRecs
         /\ files[p][fd].path \in AbsolutePaths /\ files[p][fd].opening \in Nat
         /\ files[p][fd].own \in BOOLEAN /\ Alive(p)
<1>1. fd \in Fds /\ files[p] \in [Fds -> FileRecs \cup {Free}] /\ files[p][fd] # Free
  BY DEF Typed, IsOpen
<1>2. files[p][fd] \in FileRecs
  BY <1>1
<1>3. Alive(p)
  BY <1>1 DEF Typed
<1>4. QED
  BY <1>1, <1>2, <1>3 DEF FileRecs

(* What a call starts from is a directory. *)
LEMMA BaseFacts ==
  ASSUME Typed, NEW p \in Pids, NEW dirfd \in Fds \cup {Cwd}, Alive(p),
         dirfd = Cwd \/ IsOpen(p, dirfd)
  PROVE  Base(p, dirfd) \in AbsolutePaths
<1>1. CASE dirfd = Cwd
  BY <1>1, PathFacts DEF Base, Typed, Alive
<1>2. CASE dirfd # Cwd
  BY <1>2, OpenHasRecord DEF Base
<1>3. QED
  BY <1>1, <1>2

-----------------------------------------------------------------------------
(* Events on their way *)

(* Events that come later do not matter to those before. *)
LEMMA KeptGrows ==
  ASSUME NEW S, NEW Q \in Seq(S), NEW e \in S, NEW C, NEW M, NEW n \in 0..Len(Q),
         NEW p, NEW fd, NEW o, NEW path, Kept(Q, C, M, n, p, fd, o, path)
  PROVE  Kept(Append(Q, e), C, M, n, p, fd, o, path)
<1>1. Len(Q) \in Nat /\ \A i \in 1..Len(Q) : Append(Q, e)[i] = Q[i]
  BY LenProperties, AppendProperties
<1>2. \A i \in 1..n : Append(Q, e)[i] = Q[i]
  BY <1>1
<1>3. \A j \in 1..n : \A l \in (j + 1)..n : l \in 1..n
  BY <1>1
<1>4. QED
  BY <1>2, <1>3 DEF Kept

(* One that does not open the descriptor may follow. *)
LEMMA KeptNext ==
  ASSUME NEW S, NEW Q \in Seq(S), NEW e \in S, NEW C, NEW M,
         NEW p, NEW fd, NEW o, NEW path, ~Opens(e, p, fd),
         Kept(Q, C, M, Len(Q), p, fd, o, path)
  PROVE  Kept(Append(Q, e), C, M, Len(Q) + 1, p, fd, o, path)
<1> DEFINE R == Append(Q, e)
           n == Len(Q)
<1>1. /\ n \in Nat /\ R[n + 1] = e /\ \A i \in 1..n : R[i] = Q[i]
  BY LenProperties, AppendProperties
<1> HIDE DEF R, n
<1>2. CASE \E j \in 1..n : /\ Opens(Q[j], p, fd) /\ Q[j].opening = o /\ Q[j].truth = path
                           /\ \A l \in (j + 1)..n : ~Opens(Q[l], p, fd)
  <2>1. PICK j \in 1..n : /\ Opens(Q[j], p, fd) /\ Q[j].opening = o /\ Q[j].truth = path
                          /\ \A l \in (j + 1)..n : ~Opens(Q[l], p, fd)
    BY <1>2
  <2>2. \A l \in (j + 1)..(n + 1) : ~Opens(R[l], p, fd)
    <3>1. TAKE l \in (j + 1)..(n + 1)
    <3>2. l = n + 1 \/ (l \in (j + 1)..n /\ l \in 1..n)
      BY <1>1, <3>1
    <3>3. QED
      BY <1>1, <2>1, <3>2
  <2>3. j \in 1..(n + 1) /\ R[j] = Q[j]
    BY <1>1
  <2>4. QED
    BY <2>1, <2>2, <2>3 DEF Kept, R, n
<1>3. CASE /\ \A l \in 1..n : ~Opens(Q[l], p, fd)
           /\ <<p, fd>> \in DOMAIN C /\ (C[<<p, fd>>] = path \/ o \in M)
  <2>1. \A l \in 1..(n + 1) : l = n + 1 \/ l \in 1..n
    BY <1>1
  <2>2. \A l \in 1..(n + 1) : ~Opens(R[l], p, fd)
    BY <1>1, <1>3, <2>1
  <2>3. QED
    BY <1>3, <2>2 DEF Kept, R, n
<1>4. QED
  BY <1>2, <1>3 DEF Kept, n

(* The event of the opening itself. *)
LEMMA KeptNew ==
  ASSUME NEW S, NEW Q \in Seq(S), NEW e \in S, NEW C, NEW M,
         NEW p, NEW fd, Opens(e, p, fd)
  PROVE  Kept(Append(Q, e), C, M, Len(Q) + 1, p, fd, e.opening, e.truth)
<1>1. Len(Q) \in Nat /\ Append(Q, e)[Len(Q) + 1] = e
  BY LenProperties, AppendProperties
<1>2. (Len(Q) + 1) \in 1..(Len(Q) + 1) /\ ((Len(Q) + 1) + 1)..(Len(Q) + 1) = {}
  BY <1>1
<1>3. QED
  BY <1>1, <1>2 DEF Kept

-----------------------------------------------------------------------------
(* Reading an event *)

\* Where the agent starts a relative path from.
Found(e) == IF e.dirfd = Cwd THEN readCwd(e.pid) ELSE resolveFDPath(e.pid, e.dirfd)

(* The base of a relative path is absolute, if it is there at all. *)
LEMMA FoundFacts ==
  ASSUME Typed, NEW e \in CallRecs
  PROVE  Found(e) \in AbsolutePaths \cup {<<>>}
<1>1. e.pid \in Pids /\ e.dirfd \in Fds \cup {Cwd}
  BY DEF CallRecs
<1>2. CASE e.dirfd = Cwd
  BY <1>1, <1>2, PathFacts DEF Found, readCwd, Alive, Typed
<1>3. CASE e.dirfd # Cwd
  BY <1>1, <1>3, OpenHasRecord DEF Found, resolveFDPath
<1>4. QED
  BY <1>2, <1>3

(* An opened file is named by its path, or what the path was relative to has *)
(* moved; the name is absolute, or relative as it was given.                 *)
LEMMA OpenRead ==
  ASSUME Typed, NEW e, CallOK(e), e.kind = "open"
  PROVE  /\ Name(e) = e.truth \/ BaseMoved(e)
         /\ IsAbs(Name(e)) \/ (BaseMoved(e) /\ Name(e) \in Relative)
<1>1. /\ e \in CallRecs /\ e.path \in Directories \cup Relative /\ e.path # <<>>
      /\ e.truth \in AbsolutePaths /\ e.base \in AbsolutePaths
      /\ e.truth = IF IsAbs(e.path) THEN e.path ELSE Join(e.base, e.path)
  BY DEF CallOK, CallRecs
<1>2. CASE IsAbs(e.path)
  BY <1>1, <1>2 DEF Name, NameOfOpened, resolveEventPath
<1>3. CASE ~IsAbs(e.path)
  <2>1. e.path \in Relative /\ e.path \in Seq(STRING)
    BY <1>1, <1>3, PathFacts
  <2>2. resolveEventPath(e.pid, e.dirfd, e.path) =
          IF Found(e) = <<>> THEN <<>> ELSE Join(Found(e), e.path)
    BY <1>1, <1>3 DEF resolveEventPath, Found
  <2>3. BaseMoved(e) <=> Found(e) # e.base
    BY <1>3 DEF BaseMoved, Found
  <2>4. CASE Found(e) = <<>>
    BY <1>1, <2>1, <2>2, <2>3, <2>4, PathFacts DEF Name, NameOfOpened
  <2>5. CASE Found(e) # <<>>
    <3>1. Found(e) \in AbsolutePaths
      BY <1>1, <2>5, FoundFacts
    <3>2. Join(Found(e), e.path) \in AbsolutePaths
      BY <2>1, <3>1, JoinFacts
    <3>3. Name(e) = Join(Found(e), e.path) /\ IsAbs(Name(e))
      BY <2>2, <2>5, <3>2, PathFacts DEF Name, NameOfOpened
    <3>4. QED
      BY <1>1, <1>3, <2>3, <3>3
  <2>6. QED
    BY <2>4, <2>5
<1>4. QED
  BY <1>2, <1>3

(* The first event is read: the others move up. *)
LEMMA QueueRead ==
  ASSUME Typed, handleEvent
  PROVE  /\ Len(queue) \in Nat \ {0} /\ Head(queue) = queue[1] /\ CallOK(queue[1])
         /\ queue' \in Seq(CallRecs) /\ Len(queue') = Len(queue) - 1
         /\ \A i \in 1..Len(queue') : queue'[i] = queue[i + 1]
<1>1. queue \in Seq(CallRecs) /\ queue # <<>> /\ queue' = Tail(queue)
  BY DEF Typed, handleEvent
<1>2. Len(queue) \in Nat \ {0} /\ Head(queue) = queue[1]
  BY <1>1, EmptySeq
<1>3. QED
  BY <1>1, <1>2, HeadTailProperties DEF Typed

(* What the cache has of other descriptors stays; that of one that was opened *)
(* becomes its path.                                                          *)
LEMMA CacheRead ==
  ASSUME Typed, handleEvent, NEW p \in Pids, NEW fd \in Fds
  PROVE  /\ misread \subseteq misread'
         /\ Opens(queue[1], p, fd) =>
              /\ <<p, fd>> \in DOMAIN cache'
              /\ cache'[<<p, fd>>] = queue[1].truth \/ queue[1].opening \in misread'
         /\ ~Opens(queue[1], p, fd) /\ <<p, fd>> \in DOMAIN cache =>
              <<p, fd>> \in DOMAIN cache' /\ cache'[<<p, fd>>] = cache[<<p, fd>>]
<1> DEFINE e == queue[1]
<1>1. /\ CallOK(e) /\ e.pid \in Pids /\ Head(queue) = e
  BY QueueRead DEF CallOK, CallRecs
<1>2. /\ cache' = IF e.kind = "open" /\ e.res # Failed THEN Remember(<<e.pid, e.res>>, Name(e)) ELSE cache
      /\ misread' = IF e.kind = "open" /\ BaseMoved(e) THEN misread \cup {e.opening} ELSE misread
  BY <1>1 DEF handleEvent
<1> HIDE DEF e
<1>3. fd # Failed
  BY EventPathsAssumption
<1>4. ASSUME Opens(e, p, fd)
      PROVE  <<p, fd>> \in DOMAIN cache' /\ (cache'[<<p, fd>>] = e.truth \/ e.opening \in misread')
  <2>1. e.kind = "open" /\ e.pid = p /\ e.res = fd
    BY <1>4 DEF Opens
  <2>2. <<p, fd>> \in DOMAIN cache' /\ cache'[<<p, fd>>] = Name(e)
    BY <1>2, <1>3, <2>1 DEF Remember
  <2>3. QED
    BY <1>1, <1>2, <2>1, <2>2, OpenRead
<1>5. ASSUME ~Opens(e, p, fd), <<p, fd>> \in DOMAIN cache
      PROVE  <<p, fd>> \in DOMAIN cache' /\ cache'[<<p, fd>>] = cache[<<p, fd>>]
  <2>1. CASE e.kind = "open" /\ e.res # Failed
    <3>1. <<e.pid, e.res>> # <<p, fd>>
      BY <1>5, <2>1 DEF Opens
    <3>2. QED
      BY <1>2, <1>5, <2>1, <3>1 DEF Remember
  <2>2. QED
    BY <1>2, <1>5, <2>1
<1>6. QED
  BY <1>2, <1>4, <1>5 DEF e

(* What the agent has when it will have read some events does not change by  *)
(* its reading the first of them.                                            *)
LEMMA KeptRead ==
  ASSUME Typed, handleEvent, NEW p \in Pids, NEW fd \in Fds, NEW o, NEW path,
         NEW n \in 1..Len(queue), Kept(queue, cache, misread, n, p, fd, o, path)
  PROVE  Kept(queue', cache', misread', n - 1, p, fd, o, path)
<1>1. /\ Len(queue) \in Nat /\ Len(queue') = Len(queue) - 1
      /\ \A i \in 1..Len(queue') : queue'[i] = queue[i + 1]
  BY QueueRead
<1>2. \A i \in 1..(n - 1) : queue'[i] = queue[i + 1] /\ (i + 1) \in 1..n
  BY <1>1
<1>3. CASE \E j \in 1..n : /\ Opens(queue[j], p, fd) /\ queue[j].opening = o /\ queue[j].truth = path
                           /\ \A l \in (j + 1)..n : ~Opens(queue[l], p, fd)
  <2>1. PICK j \in 1..n : /\ Opens(queue[j], p, fd) /\ queue[j].opening = o /\ queue[j].truth = path
                          /\ \A l \in (j + 1)..n : ~Opens(queue[l], p, fd)
    BY <1>3
  <2>2. CASE j = 1
    <3>1. \A l \in 1..(n - 1) : (l + 1) \in (j + 1)..n
      BY <2>2
    <3>2. \A l \in 1..(n - 1) : ~Opens(queue'[l], p, fd)
      BY <1>2, <2>1, <3>1
    <3>3. QED
      BY <2>1, <2>2, <3>2, CacheRead DEF Kept
  <2>3. CASE j # 1
    <3>1. (j - 1) \in 1..(n - 1) /\ queue'[j - 1] = queue[j]
      <4>1. (j - 1) \in 1..(n - 1) /\ (j - 1) + 1 = j
        BY <2>3
      <4>2. QED
        BY <1>2, <4>1
    <3>2. \A l \in ((j - 1) + 1)..(n - 1) : l \in 1..(n - 1) /\ (l + 1) \in (j + 1)..n
      BY <2>3
    <3>3. \A l \in ((j - 1) + 1)..(n - 1) : ~Opens(queue'[l], p, fd)
      BY <1>2, <2>1, <3>2
    <3>4. QED
      BY <2>1, <3>1, <3>3 DEF Kept
  <2>4. QED
    BY <2>2, <2>3
<1>4. CASE /\ \A l \in 1..n : ~Opens(queue[l], p, fd)
           /\ <<p, fd>> \in DOMAIN cache /\ (cache[<<p, fd>>] = path \/ o \in misread)
  <2>1. ~Opens(queue[1], p, fd)
    BY <1>1, <1>4
  <2>2. \A l \in 1..(n - 1) : ~Opens(queue'[l], p, fd)
    BY <1>2, <1>4
  <2>3. /\ <<p, fd>> \in DOMAIN cache'
        /\ cache'[<<p, fd>>] = path \/ o \in misread'
    BY <1>4, <2>1, CacheRead
  <2>4. QED
    BY <2>2, <2>3 DEF Kept
<1>5. QED
  BY <1>3, <1>4 DEF Kept

-----------------------------------------------------------------------------
(* Steps of the processes *)

(* A step that makes no call and opens nothing that is reported. *)
LEMMA QuietIInv ==
  ASSUME IInv, Typed', Dated', UNCHANGED <<calls, contested, queue, cache, misread>>,
         \A p \in Pids, fd \in Fds : IsOpen(p, fd)' /\ files'[p][fd].own =>
            IsOpen(p, fd) /\ files'[p][fd] = files[p][fd]
  PROVE  IInv'
<1>1. Absolute' /\ Overlaps' /\ UseKept' /\ EventKept'
  BY DEF IInv, Absolute, Overlaps, UseKept, EventKept, NotBeingOpened, KeptByAll
<1>2. OpenKept'
  BY DEF IInv, OpenKept, NotBeingOpened, KeptByAll
<1>3. QED
  BY <1>1, <1>2 DEF IInv

(* A descriptor comes about that the agent is not told of. *)
LEMMA OpenUnseenIInv ==
  ASSUME IInv, NEW p \in Pids, OpenUnseen(p)
  PROVE  IInv'
<1> DEFINE fd == LowestFree(p)
           new == [path |-> Elsewhere, opening |-> clock + 1, own |-> FALSE]
<1>1. /\ Typed /\ Dated /\ Alive(p) /\ clock < MaxCalls /\ clock' = clock + 1
      /\ files' = [files EXCEPT ![p][fd] = new] /\ fd \in Fds
      /\ UNCHANGED <<cwd, calls, contested, queue, cache, misread>>
  BY LowestFreeFacts DEF OpenUnseen, CanCall, IInv
<1>2. clock \in Nat /\ MaxCalls \in Nat
  BY <1>1, EventPathsAssumption DEF Dated
<1>3. new \in FileRecs
  BY <1>2, PathFacts DEF FileRecs
<1>4. /\ files' \in [Pids -> [Fds -> FileRecs \cup {Free}]] /\ files'[p][fd] = new
      /\ \A q \in Pids, g \in Fds : q # p \/ g # fd => files'[q][g] = files[q][g]
  BY <1>1, <1>3 DEF Typed
<1> HIDE DEF new, fd
<1>5. new.own = FALSE /\ new.opening = clock + 1
  BY DEF new
<1>6. Typed'
  BY <1>1, <1>4 DEF Typed, Alive, IsOpen
<1>7. Dated'
  <2>1. clock' \in 0..MaxCalls /\ clock < clock'
    BY <1>1, <1>2
  <2>2. contested' \cup misread' \subseteq 0..clock'
    BY <1>1, <1>2 DEF Dated
  <2>3. \A q \in Pids, g \in Fds : IsOpen(q, g)' => files'[q][g].opening <= clock'
    <3>1. TAKE q \in Pids, g \in Fds
    <3>2. HAVE IsOpen(q, g)'
    <3>3. CASE q = p /\ g = fd
      BY <1>1, <1>2, <1>4, <1>5, <3>3
    <3>4. CASE q # p \/ g # fd
      <4>1. IsOpen(q, g) /\ files'[q][g] = files[q][g]
        BY <1>4, <3>2, <3>4 DEF IsOpen
      <4>2. files[q][g].opening \in Nat /\ files[q][g].opening <= clock
        BY <1>1, <4>1, OpenHasRecord DEF Dated
      <4>3. QED
        BY <1>2, <2>1, <4>1, <4>2
    <3>5. QED
      BY <3>3, <3>4
  <2>4. \A c \in calls : c.opening <= clock'
    BY <1>1, <1>2 DEF Dated, Typed, CallOK, CallRecs
  <2>5. \A i \in 1..Len(queue) : queue[i].opening <= clock'
    BY <1>1, <1>2 DEF Dated, Typed, CallOK, CallRecs
  <2>6. QED
    BY <1>1, <2>1, <2>2, <2>3, <2>4, <2>5 DEF Dated
<1>8. \A q \in Pids, g \in Fds : IsOpen(q, g)' /\ files'[q][g].own =>
            IsOpen(q, g) /\ files'[q][g] = files[q][g]
  BY <1>4, <1>5 DEF IsOpen
<1>9. QED
  BY <1>1, <1>6, <1>7, <1>8, QuietIInv

(* A descriptor is closed. *)
LEMMA CloseIInv ==
  ASSUME IInv, NEW p \in Pids, NEW fd \in Fds, Close(p, fd)
  PROVE  IInv'
<1>1. /\ Typed /\ Dated /\ files' = [files EXCEPT ![p][fd] = Free]
      /\ UNCHANGED <<cwd, calls, clock, contested, queue, cache, misread>>
  BY DEF Close, IInv
<1>2. /\ files' \in [Pids -> [Fds -> FileRecs \cup {Free}]] /\ files'[p][fd] = Free
      /\ \A q \in Pids, g \in Fds : q # p \/ g # fd => files'[q][g] = files[q][g]
  BY <1>1 DEF Typed
<1>3. \A q \in Pids, g \in Fds : IsOpen(q, g)' => IsOpen(q, g) /\ files'[q][g] = files[q][g]
  BY <1>2 DEF IsOpen
<1>4. Typed'
  BY <1>1, <1>2, <1>3 DEF Typed, Alive
<1>5. Dated'
  BY <1>1, <1>3 DEF Dated
<1>6. QED
  BY <1>1, <1>3, <1>4, <1>5, QuietIInv

(* A process changes its directory. *)
LEMMA ChangeDirectoryIInv ==
  ASSUME IInv, NEW p \in Pids, NEW d \in Directories, ChangeDirectory(p, d)
  PROVE  IInv'
<1>1. /\ Typed /\ Dated /\ Alive(p) /\ cwd' = [cwd EXCEPT ![p] = d]
      /\ UNCHANGED <<files, calls, clock, contested, queue, cache, misread>>
  BY DEF ChangeDirectory, IInv
<1>2. /\ cwd' \in [Pids -> Directories \cup {Free}]
      /\ \A q \in Pids : q # p => cwd'[q] = cwd[q]
  BY <1>1 DEF Typed
<1>3. \A q \in Pids, g \in Fds : (IsOpen(q, g)' <=> IsOpen(q, g)) /\ files'[q][g] = files[q][g]
  BY <1>1 DEF IsOpen
<1>4. \A q \in Pids : ~Alive(q)' => \A g \in Fds : ~IsOpen(q, g)'
  <2>1. cwd'[p] = d /\ d # Free
    BY <1>1, EventPathsAssumption DEF Typed
  <2>2. QED
    BY <1>1, <1>2, <1>3, <2>1 DEF Typed, Alive
<1>5. Typed'
  BY <1>1, <1>2, <1>4 DEF Typed
<1>6. Dated'
  BY <1>1, <1>3 DEF Dated
<1>7. QED
  BY <1>1, <1>3, <1>5, <1>6, QuietIInv

(* A process comes about. *)
LEMMA StartIInv ==
  ASSUME IInv, NEW p \in Pids, NEW inherited \in SUBSET Fds, NEW d \in Directories,
         Start(p, inherited, d)
  PROVE  IInv'
<1> DEFINE old == [path |-> Elsewhere, opening |-> 0, own |-> FALSE]
           given == [fd \in Fds |-> IF fd \in inherited THEN old ELSE Free]
<1>1. /\ Typed /\ Dated /\ files' = [files EXCEPT ![p] = given] /\ cwd' = [cwd EXCEPT ![p] = d]
      /\ UNCHANGED <<calls, clock, contested, queue, cache, misread>>
  BY DEF Start, IInv
<1>2. old \in FileRecs /\ old.own = FALSE /\ old.opening = 0
  BY PathFacts DEF FileRecs
<1> HIDE DEF old
<1>3. given \in [Fds -> FileRecs \cup {Free}] /\ \A fd \in Fds : given[fd] \in {old, Free}
  BY <1>2
<1> HIDE DEF given
<1>4. /\ files' \in [Pids -> [Fds -> FileRecs \cup {Free}]] /\ files'[p] = given
      /\ cwd' \in [Pids -> Directories \cup {Free}] /\ cwd'[p] = d
      /\ \A q \in Pids : q # p => files'[q] = files[q] /\ cwd'[q] = cwd[q]
  BY <1>1, <1>3 DEF Typed
<1>5. \A q \in Pids : ~Alive(q)' => \A g \in Fds : ~IsOpen(q, g)'
  BY <1>1, <1>4, EventPathsAssumption DEF Typed, Alive, IsOpen
<1>6. Typed'
  BY <1>1, <1>4, <1>5 DEF Typed
<1>7. \A q \in Pids, g \in Fds : IsOpen(q, g)' =>
          files'[q][g] = old \/ (IsOpen(q, g) /\ files'[q][g] = files[q][g])
  BY <1>3, <1>4 DEF IsOpen
<1>8. Dated'
  <2>1. clock \in Nat
    BY <1>1, EventPathsAssumption DEF Dated
  <2>2. QED
    BY <1>1, <1>2, <1>7, <2>1 DEF Dated
<1>9. QED
  BY <1>1, <1>2, <1>6, <1>7, <1>8, QuietIInv

(* A process ends. *)
LEMMA ExitIInv ==
  ASSUME IInv, NEW p \in Pids, Exit(p)
  PROVE  IInv'
<1>1. /\ Typed /\ Dated /\ files' = [files EXCEPT ![p] = [fd \in Fds |-> Free]]
      /\ cwd' = [cwd EXCEPT ![p] = Free]
      /\ UNCHANGED <<calls, clock, contested, queue, cache, misread>>
  BY DEF Exit, IInv
<1>2. /\ files' \in [Pids -> [Fds -> FileRecs \cup {Free}]]
      /\ cwd' \in [Pids -> Directories \cup {Free}]
      /\ \A g \in Fds : files'[p][g] = Free
      /\ \A q \in Pids : q # p => files'[q] = files[q] /\ cwd'[q] = cwd[q]
  BY <1>1 DEF Typed
<1>3. \A q \in Pids, g \in Fds : IsOpen(q, g)' => IsOpen(q, g) /\ files'[q][g] = files[q][g] /\ q # p
  BY <1>2 DEF IsOpen
<1>4. \A q \in Pids : ~Alive(q)' => \A g \in Fds : ~IsOpen(q, g)'
  BY <1>1, <1>2, <1>3 DEF Typed, Alive
<1>5. Typed'
  BY <1>1, <1>2, <1>4 DEF Typed
<1>6. Dated'
  BY <1>1, <1>3 DEF Dated
<1>7. QED
  BY <1>1, <1>3, <1>5, <1>6, QuietIInv

-----------------------------------------------------------------------------
(* Calls *)

\* A call opens the lowest free descriptor.
OpenCall(p, dirfd, path) ==
    [pid |-> p, kind |-> "open", dirfd |-> dirfd, path |-> path, res |-> LowestFree(p),
     truth |-> IF IsAbs(path) THEN path ELSE Join(Base(p, dirfd), path),
     base |-> Base(p, dirfd), opening |-> clock + 1, own |-> TRUE]

(* Its record is a well-formed call. *)
LEMMA OpenCallOK ==
  ASSUME Typed, Dated, NEW p \in Pids, NEW dirfd \in Fds \cup {Cwd},
         NEW path \in Directories \cup Relative, Open(p, dirfd, path)
  PROVE  CallOK(OpenCall(p, dirfd, path)) /\ clock + 1 \in Nat
<1>1. Alive(p) /\ (dirfd = Cwd \/ IsOpen(p, dirfd))
  BY DEF Open, CanCall, CanStart
<1>2. Base(p, dirfd) \in AbsolutePaths
  BY <1>1, BaseFacts
<1>3. (IF IsAbs(path) THEN path ELSE Join(Base(p, dirfd), path)) \in AbsolutePaths
  <2>1. CASE IsAbs(path)
    BY <2>1, PathFacts
  <2>2. CASE ~IsAbs(path)
    <3>1. path \in Seq(STRING)
      BY <2>2, PathFacts
    <3>2. QED
      BY <1>2, <2>2, <3>1, JoinFacts
  <2>3. QED
    BY <2>1, <2>2
<1>4. clock + 1 \in Nat /\ LowestFree(p) \in Fds \cup {Failed}
  BY EventPathsAssumption, LowestFreeFacts DEF Dated
<1>5. path # <<>>
  BY PathFacts
<1>6. QED
  BY <1>2, <1>3, <1>4, <1>5 DEF CallOK, CallRecs, OpenCall

(* A file is opened. *)
LEMMA OpenIInv ==
  ASSUME IInv, NEW p \in Pids, NEW dirfd \in Fds \cup {Cwd},
         NEW path \in Directories \cup Relative, Open(p, dirfd, path)
  PROVE  IInv'
<1> DEFINE new == OpenCall(p, dirfd, path)
           fd == LowestFree(p)
           file == [path |-> new.truth, opening |-> clock + 1, own |-> TRUE]
           others == OpeningsOf(p, fd) \cup UsesOf(p, fd)
<1>1. /\ Typed /\ Dated /\ Absolute /\ Overlaps /\ OpenKept /\ UseKept /\ EventKept
      /\ CallOK(new) /\ clock + 1 \in Nat
  BY OpenCallOK DEF IInv
<1>2. /\ Alive(p) /\ clock < MaxCalls /\ clock' = clock + 1 /\ calls' = calls \cup {new}
      /\ files' = IF fd = Failed THEN files ELSE [files EXCEPT ![p][fd] = file]
      /\ contested' = contested \cup Times(others)
            \cup (IF OpeningsOf(p, fd) # {} THEN {clock + 1} ELSE {})
      /\ UNCHANGED <<cwd, queue, cache, misread>>
  BY DEF Open, Call, CanCall, OpenCall
<1>3. /\ new.pid = p /\ new.kind = "open" /\ new.res = fd /\ new.opening = clock + 1
      /\ new.truth \in AbsolutePaths /\ fd \in Fds \cup {Failed} /\ fd = LowestFree(p)
  BY <1>1 DEF OpenCall, CallOK, CallRecs
<1>4. file \in FileRecs /\ file.opening = new.opening /\ file.path = new.truth
  BY <1>1, <1>3 DEF FileRecs
<1> HIDE DEF new, file, fd
<1>5. /\ clock \in Nat /\ MaxCalls \in Nat /\ clock' \in 0..MaxCalls /\ clock' = clock + 1
      /\ contested \subseteq contested' /\ Failed \notin Fds
  BY <1>1, <1>2, EventPathsAssumption DEF Dated
<1>6. /\ files' \in [Pids -> [Fds -> FileRecs \cup {Free}]]
      /\ \A q \in Pids, g \in Fds :
            files'[q][g] = IF q = p /\ g = fd THEN file ELSE files[q][g]
  BY <1>1, <1>2, <1>3, <1>4, <1>5 DEF Typed
<1>7. Typed'
  <2>1. \A q \in Pids : ~Alive(q)' => q # p /\ ~Alive(q)
    BY <1>2 DEF Alive
  <2>2. \A q \in Pids : ~Alive(q)' => \A g \in Fds : ~IsOpen(q, g)'
    BY <1>1, <1>6, <2>1 DEF Typed, IsOpen
  <2>3. QED
    BY <1>1, <1>2, <1>6, <2>2 DEF Typed
<1>8. Dated'
  <2>1. \A c \in calls : c.opening \in Nat /\ c.opening <= clock
    BY <1>1 DEF Dated, Typed, CallOK, CallRecs
  <2>2. Times(others) \subseteq 0..clock
    BY <1>5, <2>1 DEF Times, OpeningsOf, UsesOf, CallsOf
  <2>3. contested' \cup misread' \subseteq 0..clock'
    <3>1. contested \cup misread \subseteq 0..clock
      BY <1>1 DEF Dated
    <3>2. clock + 1 \in 0..clock' /\ 0..clock \subseteq 0..clock'
      BY <1>5
    <3>3. contested' \subseteq contested \cup Times(others) \cup {clock + 1} /\ misread' = misread
      BY <1>2
    <3>4. QED
      BY <2>2, <3>1, <3>2, <3>3
  <2>4. \A q \in Pids, g \in Fds : IsOpen(q, g)' => files'[q][g].opening <= clock'
    <3>1. TAKE q \in Pids, g \in Fds
    <3>2. HAVE IsOpen(q, g)'
    <3>3. CASE q = p /\ g = fd
      BY <1>3, <1>4, <1>5, <1>6, <3>3
    <3>4. CASE ~(q = p /\ g = fd)
      <4>1. IsOpen(q, g) /\ files'[q][g] = files[q][g]
        BY <1>6, <3>2, <3>4 DEF IsOpen
      <4>2. files[q][g].opening \in Nat /\ files[q][g].opening <= clock
        BY <1>1, <4>1, OpenHasRecord DEF Dated
      <4>3. QED
        BY <1>5, <4>1, <4>2
    <3>5. QED
      BY <3>3, <3>4
  <2>5. \A c \in calls' : c.opening <= clock'
    BY <1>2, <1>3, <1>5, <2>1
  <2>6. \A i \in 1..Len(queue) : queue[i].opening \in Nat /\ queue[i].opening <= clock
    BY <1>1 DEF Dated, Typed, CallOK, CallRecs
  <2>7. \A i \in 1..Len(queue') : queue'[i].opening <= clock'
    BY <1>2, <1>5, <2>6
  <2>8. QED
    BY <1>5, <2>3, <2>4, <2>5, <2>7 DEF Dated
<1>9. \A q, g : Opens(new, q, g) => q = p /\ g = fd
  BY <1>3 DEF Opens
<1>10. \A c \in calls : Opens(c, p, fd) => c.opening \in contested' /\ clock + 1 \in contested'
  <2>1. \A c \in calls : Opens(c, p, fd) => c \in OpeningsOf(p, fd)
    BY DEF Opens, OpeningsOf, CallsOf
  <2>2. QED
    BY <1>2, <2>1 DEF Times
<1>11. \A c \in calls : c.kind = "use" /\ c.pid = p /\ c.dirfd = fd => c.opening \in contested'
  <2>1. \A c \in calls : c.kind = "use" /\ c.pid = p /\ c.dirfd = fd => c \in UsesOf(p, fd)
    BY DEF UsesOf, CallsOf
  <2>2. QED
    BY <1>2, <2>1 DEF Times
<1>12. Overlaps'
  <2>1. SUFFICES ASSUME NEW q \in Pids, NEW g \in Fds, NEW c \in calls', NEW d \in calls',
                        Opens(c, q, g), Opens(d, q, g), c # d
                 PROVE  c.opening \in contested'
    BY DEF Overlaps
  <2>2. CASE c \in calls /\ d \in calls
    BY <1>1, <1>5, <2>1, <2>2 DEF Overlaps
  <2>3. CASE c = new
    BY <1>2, <1>3, <1>9, <1>10, <2>1, <2>3
  <2>4. CASE d = new /\ c \in calls
    BY <1>9, <1>10, <2>1, <2>4
  <2>5. QED
    BY <1>2, <2>1, <2>2, <2>3, <2>4
<1>13. OpenKept'
  <2>1. SUFFICES ASSUME NEW q \in Pids, NEW g \in Fds, IsOpen(q, g)', files'[q][g].own,
                        files'[q][g].opening \notin contested'
                 PROVE  \/ \E c \in calls' : /\ Opens(c, q, g) /\ c.opening = files'[q][g].opening
                                             /\ c.truth = files'[q][g].path
                        \/ /\ \A c \in calls' : ~Opens(c, q, g)
                           /\ Kept(queue', cache', misread', Len(queue'), q, g,
                                   files'[q][g].opening, files'[q][g].path)
    BY DEF OpenKept, NotBeingOpened, KeptByAll
  <2>2. CASE q = p /\ g = fd
    <3>1. Opens(new, q, g)
      BY <1>3, <2>2 DEF Opens
    <3>2. QED
      BY <1>2, <1>4, <1>6, <2>2, <3>1
  <2>3. CASE ~(q = p /\ g = fd)
    <3>1. IsOpen(q, g) /\ files'[q][g] = files[q][g]
      BY <1>6, <2>1, <2>3 DEF IsOpen
    <3>2. \/ \E c \in calls : /\ Opens(c, q, g) /\ c.opening = files[q][g].opening
                              /\ c.truth = files[q][g].path
          \/ /\ \A c \in calls : ~Opens(c, q, g)
             /\ Kept(queue, cache, misread, Len(queue), q, g, files[q][g].opening, files[q][g].path)
      BY <1>1, <1>5, <2>1, <3>1 DEF OpenKept, NotBeingOpened, KeptByAll
    <3>3. QED
      BY <1>2, <1>9, <2>3, <3>1, <3>2
  <2>4. QED
    BY <2>2, <2>3
<1>14. UseKept'
  <2>1. SUFFICES ASSUME NEW c \in calls', c.kind = "use", c.own, c.opening \notin contested'
                 PROVE  /\ \A d \in calls' : ~Opens(d, c.pid, c.dirfd)
                        /\ Kept(queue', cache', misread', Len(queue'), c.pid, c.dirfd, c.opening, c.base)
    BY DEF UseKept, NotBeingOpened, KeptByAll
  <2>2. c \in calls /\ ~(c.pid = p /\ c.dirfd = fd)
    BY <1>2, <1>3, <1>11, <2>1
  <2>3. /\ \A d \in calls : ~Opens(d, c.pid, c.dirfd)
        /\ Kept(queue, cache, misread, Len(queue), c.pid, c.dirfd, c.opening, c.base)
    BY <1>1, <1>5, <2>1, <2>2 DEF UseKept, NotBeingOpened, KeptByAll
  <2>4. QED
    BY <1>2, <1>9, <2>2, <2>3
<1>15. EventKept' /\ Absolute'
  BY <1>1, <1>2, <1>5 DEF EventKept, Absolute
<1>16. QED
  BY <1>7, <1>8, <1>12, <1>13, <1>14, <1>15 DEF IInv

\* A call that uses a descriptor, or a path relative to one.
UseCall(p, dirfd, path) ==
    [pid |-> p, kind |-> "use", dirfd |-> dirfd, path |-> path, res |-> Failed,
     truth |-> Join(Base(p, dirfd), path), base |-> Base(p, dirfd),
     opening |-> IF dirfd = Cwd THEN 0 ELSE files[p][dirfd].opening,
     own |-> dirfd # Cwd /\ files[p][dirfd].own]

(* Its record is a well-formed call. *)
LEMMA UseCallOK ==
  ASSUME Typed, NEW p \in Pids, NEW dirfd \in Fds \cup {Cwd},
         NEW path \in {<<>>} \cup Relative, Use(p, dirfd, path)
  PROVE  /\ CallOK(UseCall(p, dirfd, path))
         /\ dirfd = Cwd \/ IsOpen(p, dirfd)
<1>1. Alive(p) /\ (dirfd = Cwd \/ IsOpen(p, dirfd))
  BY DEF Use, CanCall, CanStart
<1>2. Base(p, dirfd) \in AbsolutePaths
  BY <1>1, BaseFacts
<1>3. path \in Seq(STRING) /\ ~IsAbs(path)
  BY PathFacts
<1>4. Join(Base(p, dirfd), path) \in AbsolutePaths
  BY <1>2, <1>3, JoinFacts
<1>5. (IF dirfd = Cwd THEN 0 ELSE files[p][dirfd].opening) \in Nat
  BY <1>1, OpenHasRecord
<1>6. (dirfd # Cwd /\ files[p][dirfd].own) \in BOOLEAN
  OBVIOUS
<1>7. QED
  BY <1>1, <1>2, <1>3, <1>4, <1>5, <1>6 DEF CallOK, CallRecs, UseCall

(* A descriptor is used. *)
LEMMA UseIInv ==
  ASSUME IInv, NEW p \in Pids, NEW dirfd \in Fds \cup {Cwd},
         NEW path \in {<<>>} \cup Relative, Use(p, dirfd, path)
  PROVE  IInv'
<1> DEFINE new == UseCall(p, dirfd, path)
<1>1. /\ Typed /\ Dated /\ Absolute /\ Overlaps /\ OpenKept /\ UseKept /\ EventKept
      /\ CallOK(new) /\ (dirfd = Cwd \/ IsOpen(p, dirfd))
  BY UseCallOK DEF IInv
<1>2. /\ clock < MaxCalls /\ clock' = clock + 1 /\ calls' = calls \cup {new}
      /\ contested' = contested \cup
            (IF OpeningsOf(p, dirfd) # {} THEN {new.opening} \cup Times(OpeningsOf(p, dirfd)) ELSE {})
      /\ UNCHANGED <<files, cwd, queue, cache, misread>>
  BY DEF Use, Call, CanCall, UseCall
<1>3. /\ new.pid = p /\ new.kind = "use" /\ new.dirfd = dirfd
      /\ new.base = Base(p, dirfd)
      /\ new.opening = IF dirfd = Cwd THEN 0 ELSE files[p][dirfd].opening
      /\ new.own => dirfd # Cwd /\ files[p][dirfd].own
  BY DEF UseCall
<1> HIDE DEF new
<1>4. /\ clock \in Nat /\ MaxCalls \in Nat /\ clock' \in 0..MaxCalls /\ clock' = clock + 1
      /\ contested \subseteq contested'
  BY <1>1, <1>2, EventPathsAssumption DEF Dated
<1>5. new.opening \in 0..clock
  BY <1>1, <1>3, <1>4, OpenHasRecord DEF Dated
<1>6. Typed'
  BY <1>1, <1>2 DEF Typed, Alive, IsOpen
<1>7. Dated'
  <2>1. \A c \in calls : c.opening \in Nat /\ c.opening <= clock
    BY <1>1 DEF Dated, Typed, CallOK, CallRecs
  <2>2. Times(OpeningsOf(p, dirfd)) \subseteq 0..clock
    BY <1>4, <2>1 DEF Times, OpeningsOf, CallsOf
  <2>3. contested' \cup misread' \subseteq 0..clock'
    <3>1. contested \cup misread \subseteq 0..clock
      BY <1>1 DEF Dated
    <3>2. QED
      BY <1>2, <1>4, <1>5, <2>2, <3>1
  <2>4. \A q \in Pids, g \in Fds : IsOpen(q, g)' => files'[q][g].opening <= clock'
    <3>1. TAKE q \in Pids, g \in Fds
    <3>2. HAVE IsOpen(q, g)'
    <3>3. IsOpen(q, g) /\ files'[q][g] = files[q][g]
      BY <1>2, <3>2 DEF IsOpen
    <3>4. files[q][g].opening \in Nat /\ files[q][g].opening <= clock
      BY <1>1, <3>3, OpenHasRecord DEF Dated
    <3>5. QED
      BY <1>4, <3>3, <3>4
  <2>5. \A c \in calls' : c.opening <= clock'
    BY <1>2, <1>4, <1>5, <2>1
  <2>6. \A i \in 1..Len(queue) : queue[i].opening \in Nat /\ queue[i].opening <= clock
    BY <1>1 DEF Dated, Typed, CallOK, CallRecs
  <2>7. \A i \in 1..Len(queue') : queue'[i].opening <= clock'
    BY <1>2, <1>4, <2>6
  <2>8. QED
    BY <1>4, <2>3, <2>4, <2>5, <2>7 DEF Dated
<1>8. \A q, g : ~Opens(new, q, g)
  BY <1>3 DEF Opens
<1>9. Overlaps'
  BY <1>1, <1>2, <1>4, <1>8 DEF Overlaps
<1>10. OpenKept'
  <2>1. SUFFICES ASSUME NEW q \in Pids, NEW g \in Fds, IsOpen(q, g)', files'[q][g].own,
                        files'[q][g].opening \notin contested'
                 PROVE  \/ \E c \in calls' : /\ Opens(c, q, g) /\ c.opening = files'[q][g].opening
                                             /\ c.truth = files'[q][g].path
                        \/ /\ \A c \in calls' : ~Opens(c, q, g)
                           /\ Kept(queue', cache', misread', Len(queue'), q, g,
                                   files'[q][g].opening, files'[q][g].path)
    BY DEF OpenKept, NotBeingOpened, KeptByAll
  <2>2. IsOpen(q, g) /\ files'[q][g] = files[q][g]
    BY <1>2, <2>1 DEF IsOpen
  <2>3. \/ \E c \in calls : /\ Opens(c, q, g) /\ c.opening = files[q][g].opening
                            /\ c.truth = files[q][g].path
        \/ /\ \A c \in calls : ~Opens(c, q, g)
           /\ Kept(queue, cache, misread, Len(queue), q, g, files[q][g].opening, files[q][g].path)
    BY <1>1, <1>4, <2>1, <2>2 DEF OpenKept, NotBeingOpened, KeptByAll
  <2>4. QED
    BY <1>2, <1>8, <2>2, <2>3
<1>11. UseKept'
  <2>1. SUFFICES ASSUME NEW c \in calls', c.kind = "use", c.own, c.opening \notin contested'
                 PROVE  /\ \A d \in calls' : ~Opens(d, c.pid, c.dirfd)
                        /\ Kept(queue', cache', misread', Len(queue'), c.pid, c.dirfd, c.opening, c.base)
    BY DEF UseKept, NotBeingOpened, KeptByAll
  <2>2. CASE c \in calls
    BY <1>1, <1>2, <1>4, <1>8, <2>1, <2>2 DEF UseKept, NotBeingOpened, KeptByAll
  <2>3. CASE c = new
    <3>1. /\ dirfd # Cwd /\ IsOpen(p, dirfd) /\ dirfd \in Fds /\ files[p][dirfd].own
          /\ c.opening = files[p][dirfd].opening /\ c.base = files[p][dirfd].path
      BY <1>1, <1>3, <2>1, <2>3, OpenHasRecord DEF Base
    <3>2. OpeningsOf(p, dirfd) = {}
      BY <1>2, <2>1, <2>3
    <3>3. \A d \in calls : ~Opens(d, p, dirfd)
      BY <3>2 DEF Opens, OpeningsOf, CallsOf
    <3>4. Kept(queue, cache, misread, Len(queue), p, dirfd, c.opening, c.base)
      BY <1>1, <1>4, <2>1, <3>1, <3>3 DEF OpenKept, KeptByAll
    <3>5. QED
      BY <1>2, <1>3, <1>8, <2>3, <3>3, <3>4
  <2>4. QED
    BY <1>2, <2>1, <2>2, <2>3
<1>12. EventKept' /\ Absolute'
  BY <1>1, <1>2, <1>4 DEF EventKept, Absolute
<1>13. QED
  BY <1>6, <1>7, <1>9, <1>10, <1>11, <1>12 DEF IInv

(* A file is changed by its path. *)
LEMMA ChmodIInv ==
  ASSUME IInv, NEW p \in Pids, NEW path \in Directories \cup Relative, Chmod(p, path)
  PROVE  IInv'
<1> DEFINE new == [pid |-> p, kind |-> "chmod", dirfd |-> Stdin, path |-> path, res |-> Failed,
                   truth |-> IF IsAbs(path) THEN path ELSE Join(cwd[p], path), base |-> cwd[p],
                   opening |-> 0, own |-> FALSE]
<1>1. Typed /\ Dated /\ Absolute /\ Overlaps /\ OpenKept /\ UseKept /\ EventKept
  BY DEF IInv
<1>2. /\ clock < MaxCalls /\ clock' = clock + 1 /\ calls' = calls \cup {new}
      /\ UNCHANGED <<files, cwd, contested, queue, cache, misread>> /\ Alive(p)
  BY DEF Chmod, Call, CanCall
<1>3. CallOK(new)
  <2>1. cwd[p] \in AbsolutePaths
    BY <1>1, <1>2, PathFacts DEF Typed, Alive
  <2>2. (IF IsAbs(path) THEN path ELSE Join(cwd[p], path)) \in AbsolutePaths
    <3>1. CASE IsAbs(path)
      BY <3>1, PathFacts
    <3>2. CASE ~IsAbs(path)
      <4>1. path \in Seq(STRING)
        BY <3>2, PathFacts
      <4>2. QED
        BY <2>1, <3>2, <4>1, JoinFacts
    <3>3. QED
      BY <3>1, <3>2
  <2>3. Stdin \in Fds /\ 0 \in Nat
    BY EventPathsAssumption
  <2>4. QED
    BY <2>1, <2>2, <2>3 DEF CallOK, CallRecs
<1>4. new.kind = "chmod" /\ new.opening = 0 /\ ~new.own
  OBVIOUS
<1> HIDE DEF new
<1>5. clock \in Nat /\ clock' \in 0..MaxCalls /\ clock' = clock + 1
  BY <1>1, <1>2, EventPathsAssumption DEF Dated
<1>6. Typed'
  BY <1>1, <1>2, <1>3 DEF Typed, Alive, IsOpen
<1>7. Dated'
  <2>1. \A c \in calls' : c.opening <= clock'
    <3>1. \A c \in calls : c.opening \in Nat /\ c.opening <= clock
      BY <1>1 DEF Dated, Typed, CallOK, CallRecs
    <3>2. QED
      BY <1>2, <1>4, <1>5, <3>1
  <2>2. \A i \in 1..Len(queue) : queue[i].opening <= clock'
    <3>1. \A i \in 1..Len(queue) : queue[i].opening \in Nat /\ queue[i].opening <= clock
      BY <1>1 DEF Dated, Typed, CallOK, CallRecs
    <3>2. QED
      BY <1>5, <3>1
  <2>3. \A q \in Pids, g \in Fds : IsOpen(q, g) => files[q][g].opening <= clock'
    <3>1. \A q \in Pids, g \in Fds : IsOpen(q, g) =>
            files[q][g].opening \in Nat /\ files[q][g].opening <= clock
      BY <1>1, OpenHasRecord DEF Dated
    <3>2. QED
      BY <1>5, <3>1
  <2>4. contested \cup misread \subseteq 0..clock'
    <3>1. contested \cup misread \subseteq 0..clock
      BY <1>1 DEF Dated
    <3>2. QED
      BY <1>5, <3>1
  <2>5. QED
    BY <1>2, <1>5, <2>1, <2>2, <2>3, <2>4 DEF Dated, IsOpen
<1>8. \A q, g : ~Opens(new, q, g)
  BY <1>4 DEF Opens
<1>9. Overlaps' /\ Absolute' /\ EventKept'
  BY <1>1, <1>2, <1>8 DEF Overlaps, Absolute, EventKept
<1>10. OpenKept' /\ UseKept'
  BY <1>1, <1>2, <1>4, <1>8 DEF OpenKept, UseKept, NotBeingOpened, KeptByAll, IsOpen
<1>11. QED
  BY <1>6, <1>7, <1>9, <1>10 DEF IInv

(* A call returns, and its event is submitted. *)
LEMMA ReturnIInv ==
  ASSUME IInv, NEW c \in calls, Return(c)
  PROVE  IInv'
<1>1. /\ Typed /\ Dated /\ Absolute /\ Overlaps /\ OpenKept /\ UseKept /\ EventKept
      /\ CallOK(c) /\ c \in CallRecs /\ c.opening <= clock
  BY DEF IInv, Typed, CallOK, Dated
<1>2. /\ calls' = calls \ {c} /\ queue' = Append(queue, c)
      /\ UNCHANGED <<files, cwd, clock, contested, cache, misread>>
  BY DEF Return
<1>3. /\ queue \in Seq(CallRecs) /\ queue' \in Seq(CallRecs) /\ Len(queue) \in Nat
      /\ Len(queue') = Len(queue) + 1 /\ queue'[Len(queue) + 1] = c
      /\ \A i \in 1..Len(queue) : queue'[i] = queue[i]
  BY <1>1, <1>2, LenProperties, AppendProperties DEF Typed
<1>4. \A i \in 1..Len(queue') : i = Len(queue) + 1 \/ i \in 1..Len(queue)
  BY <1>3
<1>5. \A i \in 1..Len(queue') : CallOK(queue'[i])
  BY <1>1, <1>3, <1>4 DEF Typed
<1>6. Typed'
  BY <1>1, <1>2, <1>3, <1>5 DEF Typed, Alive, IsOpen
<1>7. Dated'
  <2>1. \A i \in 1..Len(queue') : queue'[i].opening <= clock
    BY <1>1, <1>3, <1>4 DEF Dated
  <2>2. QED
    BY <1>1, <1>2, <2>1 DEF Dated, IsOpen
<1>8. Overlaps' /\ Absolute'
  BY <1>1, <1>2 DEF Overlaps, Absolute
<1>9. OpenKept'
  <2>1. SUFFICES ASSUME NEW q \in Pids, NEW g \in Fds, IsOpen(q, g)', files'[q][g].own,
                        files'[q][g].opening \notin contested'
                 PROVE  \/ \E d \in calls' : /\ Opens(d, q, g) /\ d.opening = files'[q][g].opening
                                             /\ d.truth = files'[q][g].path
                        \/ /\ \A d \in calls' : ~Opens(d, q, g)
                           /\ Kept(queue', cache', misread', Len(queue'), q, g,
                                   files'[q][g].opening, files'[q][g].path)
    BY DEF OpenKept, NotBeingOpened, KeptByAll
  <2>2. IsOpen(q, g) /\ files' = files
    BY <1>2, <2>1 DEF IsOpen
  <2>3. \/ \E d \in calls : /\ Opens(d, q, g) /\ d.opening = files[q][g].opening
                            /\ d.truth = files[q][g].path
        \/ /\ \A d \in calls : ~Opens(d, q, g)
           /\ Kept(queue, cache, misread, Len(queue), q, g, files[q][g].opening, files[q][g].path)
    BY <1>1, <1>2, <2>1, <2>2 DEF OpenKept, NotBeingOpened, KeptByAll
  <2>4. CASE /\ Opens(c, q, g) /\ c.opening = files[q][g].opening /\ c.truth = files[q][g].path
    <3>1. \A d \in calls' : ~Opens(d, q, g)
      BY <1>1, <1>2, <2>1, <2>2, <2>4 DEF Overlaps
    <3>2. Kept(queue', cache', misread', Len(queue'), q, g, c.opening, c.truth)
      BY <1>1, <1>2, <1>3, <2>4, KeptNew
    <3>3. QED
      BY <2>2, <2>4, <3>1, <3>2
  <2>5. CASE \E d \in calls \ {c} : /\ Opens(d, q, g) /\ d.opening = files[q][g].opening
                                    /\ d.truth = files[q][g].path
    BY <1>2, <2>2, <2>5
  <2>6. CASE /\ \A d \in calls : ~Opens(d, q, g)
             /\ Kept(queue, cache, misread, Len(queue), q, g, files[q][g].opening, files[q][g].path)
    <3>1. Kept(queue', cache', misread', Len(queue'), q, g, files[q][g].opening, files[q][g].path)
      BY <1>1, <1>2, <1>3, <2>6, KeptNext
    <3>2. QED
      BY <1>2, <2>2, <2>6, <3>1
  <2>7. QED
    BY <2>3, <2>4, <2>5, <2>6
<1>10. UseKept'
  <2>1. SUFFICES ASSUME NEW d \in calls', d.kind = "use", d.own, d.opening \notin contested'
                 PROVE  /\ \A x \in calls' : ~Opens(x, d.pid, d.dirfd)
                        /\ Kept(queue', cache', misread', Len(queue'), d.pid, d.dirfd, d.opening, d.base)
    BY DEF UseKept, NotBeingOpened, KeptByAll
  <2>2. /\ \A x \in calls : ~Opens(x, d.pid, d.dirfd)
        /\ Kept(queue, cache, misread, Len(queue), d.pid, d.dirfd, d.opening, d.base)
    BY <1>1, <1>2, <2>1 DEF UseKept, NotBeingOpened, KeptByAll
  <2>3. Kept(queue', cache', misread', Len(queue'), d.pid, d.dirfd, d.opening, d.base)
    BY <1>1, <1>2, <1>3, <2>2, KeptNext
  <2>4. QED
    BY <1>2, <2>2, <2>3
<1>11. EventKept'
  <2>1. SUFFICES ASSUME NEW i \in 1..Len(queue'), queue'[i].kind = "use", queue'[i].own,
                        queue'[i].opening \notin contested'
                 PROVE  Kept(queue', cache', misread', i - 1, queue'[i].pid, queue'[i].dirfd,
                             queue'[i].opening, queue'[i].base)
    BY DEF EventKept
  <2>2. i - 1 \in 0..Len(queue)
    BY <1>3
  <2>3. Kept(queue, cache, misread, i - 1, queue'[i].pid, queue'[i].dirfd, queue'[i].opening, queue'[i].base)
    <3>1. CASE i \in 1..Len(queue)
      BY <1>1, <1>2, <1>3, <2>1, <3>1 DEF EventKept
    <3>2. CASE i = Len(queue) + 1
      <4>1. i - 1 = Len(queue)
        BY <1>3, <3>2
      <4>2. QED
        BY <1>1, <1>2, <1>3, <2>1, <3>2, <4>1 DEF UseKept, KeptByAll
    <3>3. QED
      BY <1>4, <3>1, <3>2
  <2>4. QED
    BY <1>1, <1>2, <1>3, <2>2, <2>3, KeptGrows
<1>12. QED
  BY <1>6, <1>7, <1>8, <1>9, <1>10, <1>11 DEF IInv

-----------------------------------------------------------------------------
(* The agent's step *)

(* The agent reads an event. *)
LEMMA handleEventIInv ==
  ASSUME IInv, handleEvent
  PROVE  IInv'
<1> DEFINE e == queue[1]
<1>1. /\ Typed /\ Dated /\ Absolute /\ Overlaps /\ OpenKept /\ UseKept /\ EventKept
      /\ UNCHANGED <<files, cwd, calls, clock, contested>>
  BY DEF IInv, handleEvent, processes
<1>2. /\ Len(queue) \in Nat \ {0} /\ Head(queue) = e /\ CallOK(e)
      /\ queue' \in Seq(CallRecs) /\ Len(queue') = Len(queue) - 1
      /\ \A i \in 1..Len(queue') : queue'[i] = queue[i + 1]
  BY <1>1, QueueRead
<1>3. /\ cache' = IF e.kind = "open" /\ e.res # Failed THEN Remember(<<e.pid, e.res>>, Name(e)) ELSE cache
      /\ misread' = IF e.kind = "open" /\ BaseMoved(e) THEN misread \cup {e.opening} ELSE misread
  BY <1>2 DEF handleEvent
<1>4. /\ e.pid \in Pids /\ e.res \in Fds \cup {Failed} /\ e.opening \in 0..clock
      /\ \A i \in 1..Len(queue') : (i + 1) \in 1..Len(queue)
  BY <1>1, <1>2, EventPathsAssumption DEF CallOK, CallRecs, Dated
<1> HIDE DEF e
<1>5. misread \subseteq misread' /\ misread' \subseteq misread \cup {e.opening}
  BY <1>3
<1>6. Typed'
  <2>1. DOMAIN cache' \subseteq Pids \X Fds
    BY <1>1, <1>3, <1>4 DEF Typed, Remember
  <2>2. \A i \in 1..Len(queue') : CallOK(queue'[i])
    BY <1>1, <1>2, <1>4 DEF Typed
  <2>3. QED
    BY <1>1, <1>2, <2>1, <2>2 DEF Typed, Alive, IsOpen
<1>7. Dated'
  <2>1. \A i \in 1..Len(queue') : queue'[i].opening <= clock
    BY <1>1, <1>2, <1>4 DEF Dated
  <2>2. contested' \cup misread' \subseteq 0..clock
    BY <1>1, <1>4, <1>5 DEF Dated
  <2>3. QED
    BY <1>1, <2>1, <2>2 DEF Dated, IsOpen
<1>8. Absolute'
  <2>1. CASE e.kind = "open" /\ e.res # Failed
    <3>1. IsAbs(Name(e)) \/ (misread' # {} /\ Name(e) \in Relative)
      BY <1>1, <1>2, <1>3, <2>1, OpenRead
    <3>2. \A k \in DOMAIN cache' : cache'[k] = Name(e) \/ (k \in DOMAIN cache /\ cache'[k] = cache[k])
      BY <1>3, <2>1 DEF Remember
    <3>3. QED
      BY <1>1, <1>5, <3>1, <3>2 DEF Absolute
  <2>2. CASE ~(e.kind = "open" /\ e.res # Failed)
    BY <1>1, <1>3, <1>5, <2>2 DEF Absolute
  <2>3. QED
    BY <2>1, <2>2
<1>9. Overlaps'
  BY <1>1 DEF Overlaps
<1>10. \A p \in Pids, fd \in Fds : \A o, path :
          KeptByAll(p, fd, o, path) =>
            Kept(queue', cache', misread', Len(queue'), p, fd, o, path)
  <2>1. Len(queue) \in 1..Len(queue)
    BY <1>2
  <2>2. QED
    BY <1>1, <1>2, <2>1, KeptRead DEF KeptByAll
<1>11. OpenKept'
  <2>1. SUFFICES ASSUME NEW q \in Pids, NEW g \in Fds, IsOpen(q, g)', files'[q][g].own,
                        files'[q][g].opening \notin contested'
                 PROVE  \/ \E d \in calls' : /\ Opens(d, q, g) /\ d.opening = files'[q][g].opening
                                             /\ d.truth = files'[q][g].path
                        \/ /\ \A d \in calls' : ~Opens(d, q, g)
                           /\ Kept(queue', cache', misread', Len(queue'), q, g,
                                   files'[q][g].opening, files'[q][g].path)
    BY DEF OpenKept, NotBeingOpened, KeptByAll
  <2>2. IsOpen(q, g) /\ files' = files
    BY <1>1, <2>1 DEF IsOpen
  <2>3. \/ \E d \in calls : /\ Opens(d, q, g) /\ d.opening = files[q][g].opening
                            /\ d.truth = files[q][g].path
        \/ /\ \A d \in calls : ~Opens(d, q, g)
           /\ KeptByAll(q, g, files[q][g].opening, files[q][g].path)
    BY <1>1, <2>1, <2>2 DEF OpenKept, NotBeingOpened
  <2>4. QED
    BY <1>1, <1>10, <2>2, <2>3
<1>12. UseKept'
  <2>1. SUFFICES ASSUME NEW c \in calls', c.kind = "use", c.own, c.opening \notin contested'
                 PROVE  /\ \A d \in calls' : ~Opens(d, c.pid, c.dirfd)
                        /\ Kept(queue', cache', misread', Len(queue'), c.pid, c.dirfd, c.opening, c.base)
    BY DEF UseKept, NotBeingOpened, KeptByAll
  <2>2. c.pid \in Pids /\ c.dirfd \in Fds
    BY <1>1, <2>1 DEF Typed, CallOK, CallRecs
  <2>3. (\A d \in calls : ~Opens(d, c.pid, c.dirfd)) /\ KeptByAll(c.pid, c.dirfd, c.opening, c.base)
    BY <1>1, <2>1 DEF UseKept, NotBeingOpened
  <2>4. QED
    BY <1>1, <1>10, <2>2, <2>3
<1>13. EventKept'
  <2>1. SUFFICES ASSUME NEW i \in 1..Len(queue'), queue'[i].kind = "use", queue'[i].own,
                        queue'[i].opening \notin contested'
                 PROVE  Kept(queue', cache', misread', i - 1, queue'[i].pid, queue'[i].dirfd,
                             queue'[i].opening, queue'[i].base)
    BY DEF EventKept
  <2> DEFINE f == queue[i + 1]
  <2>2. /\ queue'[i] = f /\ (i + 1) \in 1..Len(queue) /\ i \in 1..Len(queue) /\ (i + 1) - 1 = i
    BY <1>2, <1>4
  <2>3. f.pid \in Pids /\ f.dirfd \in Fds
    BY <1>1, <2>1, <2>2 DEF Typed, CallOK, CallRecs
  <2>4. Kept(queue, cache, misread, i, f.pid, f.dirfd, f.opening, f.base)
    BY <1>1, <2>1, <2>2 DEF EventKept
  <2> HIDE DEF f
  <2>5. Kept(queue', cache', misread', i - 1, f.pid, f.dirfd, f.opening, f.base)
    BY <1>1, <2>2, <2>3, <2>4, KeptRead
  <2>6. QED
    BY <2>2, <2>5
<1>14. QED
  BY <1>6, <1>7, <1>8, <1>9, <1>11, <1>12, <1>13 DEF IInv

-----------------------------------------------------------------------------
(* The theorems *)

(* The invariant holds at the start. *)
LEMMA InitIInv == Init => IInv
<1> SUFFICES ASSUME Init PROVE IInv
  OBVIOUS
<1>1. /\ queue = <<>> /\ calls = {} /\ contested = {} /\ misread = {} /\ clock = 0
      /\ DOMAIN cache = {} /\ \A p \in Pids, fd \in Fds : ~IsOpen(p, fd)
  BY DEF Init, IsOpen
<1>2. queue \in Seq(CallRecs) /\ 1..Len(queue) = {}
  BY <1>1, EmptySeq
<1>3. Typed
  BY <1>1, <1>2 DEF Init, Typed
<1>4. Dated
  BY <1>1, <1>2, EventPathsAssumption DEF Dated
<1>5. Absolute /\ Overlaps /\ OpenKept /\ UseKept /\ EventKept
  BY <1>1, <1>2 DEF Absolute, Overlaps, OpenKept, UseKept, EventKept
<1>6. QED
  BY <1>3, <1>4, <1>5 DEF IInv

(* Every step keeps the invariant. *)
LEMMA NextIInv == IInv /\ [Next]_vars => IInv'
<1> SUFFICES ASSUME IInv, [Next]_vars PROVE IInv'
  OBVIOUS
<1>1. CASE Run
  BY <1>1, OpenIInv, ChmodIInv, UseIInv, OpenUnseenIInv, CloseIInv, ChangeDirectoryIInv, StartIInv,
     ExitIInv, ReturnIInv DEF Run
<1>2. CASE handleEvent
  BY <1>2, handleEventIInv
<1>3. CASE UNCHANGED vars
  BY <1>3 DEF vars, IInv, Typed, Alive, IsOpen, Dated, Absolute, Overlaps, OpenKept, UseKept,
              EventKept, NotBeingOpened, KeptByAll
<1>4. QED
  BY <1>1, <1>2, <1>3 DEF Next

(* The path of every descriptor that counts is in the cache, or in an event  *)
(* that will be read in time.                                                *)
THEOREM Inductive == Spec => []IInv
  BY InitIInv, NextIInv, PTL DEF Spec

(* Types; what the agent remembers is absolute, or was read too late.        *)
THEOREM PathsTyped == Spec => []TypeOK
<1>1. IInv => TypeOK
  <2> SUFFICES ASSUME IInv PROVE TypeOK
    OBVIOUS
  <2>1. \A p \in Pids : \A fd \in Fds : IsOpen(p, fd) => IsAbs(files[p][fd].path) /\ Alive(p)
    BY OpenHasRecord, PathFacts DEF IInv
  <2>2. QED
    BY <2>1 DEF IInv, Typed, Dated, Absolute, TypeOK
<1>2. QED
  BY <1>1, Inductive, PTL

(* A call on a descriptor that the process opened itself is reported by the  *)
(* path of the descriptor, though it is closed, or the process has ended, or *)
(* the number stood for other files before and since.                        *)
THEOREM NamedByPath == Spec => []DescriptorNamed
<1>1. IInv => DescriptorNamed
  <2>1. SUFFICES ASSUME IInv, queue # <<>>, Head(queue).kind = "use", Head(queue).own,
                        Head(queue).opening \notin contested \cup misread
                 PROVE  Name(Head(queue)) = Head(queue).truth
    BY DEF DescriptorNamed
  <2> DEFINE e == Head(queue)
  <2>2. queue \in Seq(CallRecs) /\ Len(queue) \in Nat \ {0} /\ e = queue[1] /\ 1 \in 1..Len(queue)
    BY <2>1, EmptySeq DEF IInv, Typed
  <2>3. CallOK(e) /\ Kept(queue, cache, misread, 1 - 1, e.pid, e.dirfd, e.opening, e.base)
    BY <2>1, <2>2 DEF IInv, Typed, EventKept
  <2> HIDE DEF e
  <2>4. <<e.pid, e.dirfd>> \in DOMAIN cache /\ cache[<<e.pid, e.dirfd>>] = e.base
    BY <2>1, <2>3 DEF Kept, e
  <2>5. e.truth = Join(e.base, e.path) /\ ~IsAbs(e.path) /\ e.truth # <<>> /\ e.kind = "use"
    BY <2>1, <2>3, PathFacts DEF CallOK, CallRecs, e
  <2>6. Name(e) = e.truth
    BY <2>4, <2>5 DEF Name, NameOfUsed, resolveEventPathCached
  <2>7. QED
    BY <2>6 DEF e
<1>2. QED
  BY <1>1, Inductive, PTL
=============================================================================
