---------------------------- MODULE ConfigReload -----------------------------
(* How an edit of bpf-config.json takes effect: the PUT handlers of the web *)
(* server replace the file (web/main.go), the agent loads it once when it   *)
(* starts and a goroutine polls its modification time (host/agent), puts a  *)
(* new content into config_map for the collector and publishes it to the    *)
(* goroutine that filters events.                                           *)
EXTENDS Naturals

CONSTANTS
  Configs,         \* contents that parseConfig accepts
  Invalid,         \* a JSON content that parseConfig rejects
  Handlers,        \* goroutines of the web server that serve a PUT
  MaxTime,         \* bound: modification times
  MaxEdits,        \* bound: temporary files written
  MaxPutFailures   \* bound: failures of configMap.Put after the start

ASSUME ConfigReloadAssumption ==
  /\ Invalid \notin Configs
  /\ Configs # {}
  /\ MaxTime \in Nat /\ MaxEdits \in Nat /\ MaxPutFailures \in Nat

VARIABLES
  now,          \* the time the file system stamps on what is written now
  file,         \* bpf-config.json: its content and modification time
  temporary,    \* handler -> the temporary file it has written, or NoFile
  edits,        \* temporary files written
  pc,           \* where the loading of the configuration is
  lastModTime,  \* of watchConfig: the modification time it has applied
  info,         \* of watchConfig: the modification time of its last os.Stat
  next,         \* of watchConfig: the configuration it has parsed
  configMap,    \* config_map, which the collector reads
  agentConfig,  \* the agent's configuration, in the two halves copied in turn
  filter,       \* the configuration the event at hand is filtered by
  putFailures,
  inOrder       \* history: see Rename

vars == <<now, file, temporary, edits, pc, lastModTime, info, next, configMap,
          agentConfig, filter, putFailures, inOrder>>

watchVars == <<lastModTime, info, next, configMap, agentConfig, putFailures>>

Contents == Configs \cup {Invalid}
Times    == 0..MaxTime
File     == [cfg : Contents, mtime : Times]
NoFile   == [cfg |-> Invalid, mtime |-> MaxTime + 1]

(* A configuration as it lies in memory: two halves of one value, or of two *)
(* when it was read while the other was written.                            *)
Whole(c) == [mode |-> c, paths |-> c]
Halves   == [mode : Contents, paths : Contents]
NoEvent  == [kind |-> "none", config |-> Whole(Invalid)]

(* main has loaded the first configuration and not ended. *)
Watching == {"idle", "parse", "put", "lock", "half"}
Running  == {"loaded", "watch"} \cup Watching

Init ==
  /\ now = 0
  /\ file \in [cfg : Contents, mtime : {0}]
  /\ temporary = [h \in Handlers |-> NoFile]
  /\ edits = 0
  /\ pc = "start"
  /\ lastModTime = 0 /\ info = 0
  /\ next = Invalid
  /\ configMap = Invalid        \* a zeroed map: no event is enabled
  /\ agentConfig = Whole(Invalid)
  /\ filter = NoEvent
  /\ putFailures = 0
  /\ inOrder = TRUE

-----------------------------------------------------------------------------
(* The web server.  putConfig accepts any JSON; atomicWrite writes a        *)
(* temporary file, whose modification time is that of the write, and        *)
(* renames it over the configuration, which keeps that time.                *)

putConfig(h) ==
  /\ temporary[h] = NoFile /\ edits < MaxEdits
  /\ \E c \in Contents : temporary' = [temporary EXCEPT ![h] = [cfg |-> c, mtime |-> now]]
  /\ edits' = edits + 1
  /\ UNCHANGED <<now, file, pc, watchVars, filter, inOrder>>

(* Bug: renaming although the temporary file was not written. *)
NotChecked(h) == TRUE
Written(h)    == temporary[h] # NoFile

(* inOrder stays TRUE while every content that replaces another is newer    *)
(* than it by the file's time and none does between the first load and the  *)
(* first os.Stat of watchConfig.                                            *)
Rename(h) ==
  /\ Written(h)
  /\ file' = temporary[h]
  /\ temporary' = [temporary EXCEPT ![h] = NoFile]
  /\ inOrder' = (inOrder /\ temporary[h].mtime > file.mtime /\ pc \notin {"loaded", "watch"})
  /\ UNCHANGED <<now, edits, pc, watchVars, filter>>

(* An error on the way: the temporary file is removed. *)
Abandon(h) ==
  /\ Written(h)
  /\ temporary' = [temporary EXCEPT ![h] = NoFile]
  /\ UNCHANGED <<now, file, edits, pc, watchVars, filter, inOrder>>

(* The coarse clock of the file system: several writes may share a time. *)
Clock ==
  /\ now < MaxTime
  /\ now' = now + 1
  /\ UNCHANGED <<file, temporary, edits, pc, watchVars, filter, inOrder>>

-----------------------------------------------------------------------------
(* main up to the start of watchConfig. *)

MainStep == UNCHANGED <<now, file, temporary, edits, filter, inOrder>>

Load ==
  /\ pc = "start"
  /\ IF file.cfg \in Configs
       THEN pc' = "loaded" /\ agentConfig' = Whole(file.cfg)
       ELSE pc' = "ended" /\ UNCHANGED agentConfig
  /\ MainStep /\ UNCHANGED <<lastModTime, info, next, configMap, putFailures>>

PutFirst ==
  /\ pc = "loaded"
  /\ \/ pc' = "watch" /\ configMap' = agentConfig.mode
     \/ pc' = "ended" /\ UNCHANGED configMap
  /\ MainStep /\ UNCHANGED <<lastModTime, info, next, agentConfig, putFailures>>

(* The goroutine's first os.Stat. *)
WatchStart ==
  /\ pc = "watch"
  /\ pc' = "idle" /\ lastModTime' = file.mtime
  /\ MainStep /\ UNCHANGED <<info, next, configMap, agentConfig, putFailures>>

-----------------------------------------------------------------------------
(* watchConfig: one tick of its timer is Stat, Parse, Put, Lock, Publish. *)

Stat ==
  /\ pc = "idle" /\ file.mtime > lastModTime
  /\ pc' = "parse" /\ info' = file.mtime
  /\ MainStep /\ UNCHANGED <<lastModTime, next, configMap, agentConfig, putFailures>>

Parse ==
  /\ pc = "parse"
  /\ IF file.cfg \in Configs
       THEN pc' = "put" /\ next' = file.cfg
       ELSE pc' = "idle" /\ UNCHANGED next
  /\ MainStep /\ UNCHANGED <<lastModTime, info, configMap, agentConfig, putFailures>>

(* A failed update of the map leaves the tick: the next one tries again.    *)
(* Bugs: the time is recorded as applied; the tick goes on.                 *)
PutFailsAsApplied == pc' = "idle" /\ lastModTime' = info /\ UNCHANGED configMap
PutFailsUnnoticed == pc' = "lock" /\ UNCHANGED <<lastModTime, configMap>>
PutFails          == pc' = "idle" /\ UNCHANGED <<lastModTime, configMap>>

Put ==
  /\ pc = "put"
  /\ \/ pc' = "lock" /\ configMap' = next /\ UNCHANGED <<lastModTime, putFailures>>
     \/ putFailures < MaxPutFailures /\ putFailures' = putFailures + 1 /\ PutFails
  /\ MainStep /\ UNCHANGED <<info, next, agentConfig>>

(* agentConfigMu.Lock and the first half of the assignment. *)
Lock ==
  /\ pc = "lock"
  /\ pc' = "half" /\ agentConfig' = [agentConfig EXCEPT !.mode = next]
  /\ MainStep /\ UNCHANGED <<lastModTime, info, next, configMap, putFailures>>

(* The modification time a tick records.  Bug: of a second os.Stat. *)
TimeNow     == file.mtime
TimeApplied == info

Publish ==
  /\ pc = "half"
  /\ pc' = "idle" /\ agentConfig' = [agentConfig EXCEPT !.paths = next]
  /\ lastModTime' = TimeApplied
  /\ MainStep /\ UNCHANGED <<info, next, configMap, putFailures>>

-----------------------------------------------------------------------------
(* handleEvent, one event at a time. *)

EventStep == UNCHANGED <<now, file, temporary, edits, pc, watchVars, inOrder>>

(* agentConfigMu.RLock is free unless watchConfig is in its assignment.     *)
(* Bug: no lock.                                                            *)
NoReadLock == TRUE
ReadLock   == pc # "half"

(* Every event begins with a copy of agentConfig under the lock. *)
handleEvent ==
  /\ pc \in Running /\ filter = NoEvent
  /\ ReadLock
  /\ filter' = [kind |-> "copied", config |-> agentConfig]
  /\ EventStep

(* A clone event is filtered by agentConfig itself, read without the lock,  *)
(* field after field.                                                       *)
CloneMode ==
  /\ filter.kind = "copied" /\ pc \in Running
  /\ filter' = [kind |-> "clone", config |-> [filter.config EXCEPT !.mode = agentConfig.mode]]
  /\ EventStep

ClonePaths ==
  /\ filter.kind = "clone" /\ pc \in Running
  /\ filter' = [kind |-> "cloned", config |-> [filter.config EXCEPT !.paths = agentConfig.paths]]
  /\ EventStep

EventDone ==
  /\ filter.kind \in {"copied", "cloned"}
  /\ filter' = NoEvent
  /\ EventStep

-----------------------------------------------------------------------------
Main  == Load \/ PutFirst \/ WatchStart
Watch == Stat \/ Parse \/ Put \/ Lock \/ Publish
Event == handleEvent \/ CloneMode \/ ClonePaths \/ EventDone

Next ==
  \/ \E h \in Handlers : putConfig(h) \/ Rename(h) \/ Abandon(h)
  \/ Clock \/ Main \/ Watch \/ Event

(* main and watchConfig are goroutines that nothing blocks for ever: the    *)
(* timer keeps ticking, and the event goroutine never keeps the lock.       *)
Fairness == WF_vars(Main) /\ WF_vars(Watch)

Spec == Init /\ [][Next]_vars /\ Fairness

-----------------------------------------------------------------------------
(* Properties. *)

TypeOK ==
  /\ now \in Times /\ file \in File
  /\ temporary \in [Handlers -> File \cup {NoFile}]
  /\ edits \in 0..MaxEdits
  /\ pc \in {"start", "ended"} \cup Running
  /\ lastModTime \in Times /\ info \in Times
  /\ next \in Contents /\ configMap \in Contents
  /\ agentConfig \in Halves
  /\ filter \in [kind : {"none", "copied", "clone", "cloned"}, config : Halves]
  /\ putFailures \in 0..MaxPutFailures
  /\ inOrder \in BOOLEAN

(* The collector and the agent filter by the same configuration, except     *)
(* between the map update and the end of the assignment that follows it: a  *)
(* content that cannot be parsed or put changes neither.                    *)
HalvesAgree ==
  pc \in Watching \ {"lock", "half"} => agentConfig = Whole(configMap)

(* The copy an event is filtered by is one configuration that was read from *)
(* the file as a whole, although it is written in pieces.                   *)
CopyIsWhole ==
  filter.kind = "copied" => \E c \in Configs : filter.config = Whole(c)

(* While watchConfig rests, a valid file whose time it holds to be applied   *)
(* is in force, however os.Stat, parse and rename interleaved, as long as    *)
(* files replace each other in the order of their times, and not between the *)
(* first load in main and the first os.Stat of watchConfig (agent.go:557).   *)
NoEditSkipped ==
  (pc = "idle" /\ inOrder /\ file.cfg \in Configs /\ file.mtime <= lastModTime)
    => configMap = file.cfg

(* README.md:56: the agent applies changes of the file without a restart: a *)
(* content that stays in the file ends up in force.                         *)
AppliedEventually ==
  \A c \in Configs : []((pc \in Running /\ [](file.cfg = c))
                        => <>(pc = "ended" \/ agentConfig = Whole(c)))

(* The same, of files that replace each other in the order of their times   *)
(* and not before watchConfig first looked: whatever the interleaving of    *)
(* os.Stat, parse and rename, and despite failures of the map update.       *)
AppliedInOrder ==
  \A c \in Configs : []((pc \in Running /\ [](inOrder /\ file.cfg = c))
                        => <>(pc = "ended" \/ agentConfig = Whole(c)))
=============================================================================
