-------------------------- MODULE ConfigReloadProofs --------------------------
(* Proofs of the safety properties of ConfigReload, for any contents, any    *)
(* number of handlers of the web server, any bounds and any interleaving of  *)
(* renames with the ticks of watchConfig.                                    *)
EXTENDS ConfigReload, TLAPS

(* The configuration in force is one content that parseConfig accepted, but *)
(* for the time between the two halves of the assignment.                   *)
InForce == pc \in Running \ {"half"} => \E c \in Configs : agentConfig = Whole(c)

(* What a tick has parsed is what it puts and publishes. *)
TickHalves ==
  /\ pc \in {"put", "lock", "half"} => next \in Configs
  /\ pc \in {"lock", "half"} => configMap = next
  /\ pc = "half" => agentConfig.mode = next

(* The first configuration is in both halves, and the file's, until         *)
(* watchConfig looks at it.                                                 *)
FirstLoad ==
  /\ pc = "watch" => agentConfig = Whole(configMap)
  /\ inOrder /\ pc = "loaded" => agentConfig = Whole(file.cfg)
  /\ inOrder /\ pc = "watch" => configMap = file.cfg

(* Times in order: no tick holds a file applied that is newer than the one  *)
(* it looked at, and a content of the very time it looked at is the one it  *)
(* parsed.                                                                  *)
TickTimes ==
  inOrder =>
    /\ pc \in Watching => lastModTime <= file.mtime
    /\ pc \in Watching \ {"idle"} => lastModTime < info /\ info <= file.mtime
    /\ pc \in {"put", "lock", "half"} /\ file.cfg \in Configs /\ file.mtime = info
         => next = file.cfg

IInv ==
  /\ TypeOK /\ InForce /\ HalvesAgree /\ TickHalves
  /\ CopyIsWhole /\ FirstLoad /\ TickTimes /\ NoEditSkipped

-----------------------------------------------------------------------------
USE DEF Contents, Times, File, NoFile, Whole, Halves, NoEvent, Watching, Running

(* The invariant holds at the start. *)
LEMMA InitIInv == Init => IInv
  BY ConfigReloadAssumption
  DEF Init, IInv, TypeOK, InForce, HalvesAgree, TickHalves, CopyIsWhole, FirstLoad,
      TickTimes, NoEditSkipped

(* A temporary file that was written has a content and a time. *)
LEMMA WrittenIsFile ==
  ASSUME TypeOK, NEW h \in Handlers, Written(h)
  PROVE  temporary[h] \in File
  BY DEF TypeOK, Written

(* The web server writes, but does not yet replace, a file. *)
LEMMA WriteIInv ==
  ASSUME IInv, NEW h \in Handlers, putConfig(h) \/ Abandon(h)
  PROVE  IInv'
<1>1. TypeOK'
  BY ConfigReloadAssumption DEF IInv, TypeOK, putConfig, Abandon, watchVars
<1>2. QED
  BY <1>1
  DEF IInv, InForce, HalvesAgree, TickHalves, CopyIsWhole, FirstLoad, TickTimes,
      NoEditSkipped, putConfig, Abandon, watchVars

(* The times compared are numbers. *)
LEMMA TimesAreNat ==
  ASSUME TypeOK
  PROVE  file.mtime \in Nat /\ lastModTime \in Nat /\ info \in Nat
  BY ConfigReloadAssumption DEF TypeOK

(* The file is replaced. *)
LEMMA RenameIInv ==
  ASSUME IInv, NEW h \in Handlers, Rename(h)
  PROVE  IInv'
<1>1. temporary[h] \in File /\ temporary[h].mtime \in Nat
  BY WrittenIsFile, ConfigReloadAssumption DEF IInv, Rename
<1>2. TypeOK'
  BY <1>1 DEF IInv, TypeOK, Rename, watchVars
<1>3. InForce' /\ HalvesAgree' /\ TickHalves' /\ CopyIsWhole'
  BY DEF IInv, InForce, HalvesAgree, TickHalves, CopyIsWhole, Rename, watchVars
<1>4. file' = temporary[h] /\ UNCHANGED <<pc, lastModTime, info, next, configMap, agentConfig>>
  BY DEF Rename, watchVars
<1>5. inOrder' => inOrder /\ temporary[h].mtime > file.mtime /\ pc \notin {"loaded", "watch"}
  BY Zenon DEF Rename
<1>6. FirstLoad'
  BY <1>4, <1>5 DEF IInv, FirstLoad
<1>7. ASSUME inOrder' PROVE TickTimes' /\ NoEditSkipped'
  (* The new file is younger than what a resting tick holds applied. *)
  <2>1. TickTimes /\ file.mtime \in Nat /\ lastModTime \in Nat /\ info \in Nat
    BY TimesAreNat DEF IInv
  <2>2. inOrder /\ temporary[h].mtime > file.mtime
    BY <1>5, <1>7
  <2>3. QED
    BY <1>1, <1>4, <2>1, <2>2 DEF TickTimes, NoEditSkipped
<1>8. QED
  BY <1>2, <1>3, <1>6, <1>7 DEF IInv, TickTimes, NoEditSkipped

(* A step of main. *)
LEMMA MainIInv ==
  ASSUME IInv, Main
  PROVE  IInv'
<1>0. file.mtime \in Nat
  BY TimesAreNat DEF IInv
<1> USE <1>0
    DEF IInv, TypeOK, InForce, HalvesAgree, TickHalves, CopyIsWhole, FirstLoad, TickTimes,
        NoEditSkipped, MainStep
<1>1. CASE Load
  BY <1>1 DEF Load
<1>2. CASE PutFirst
  BY <1>2 DEF PutFirst
<1>3. CASE WatchStart
  BY <1>3 DEF WatchStart
<1>4. QED
  BY <1>1, <1>2, <1>3 DEF Main

(* A tick of watchConfig, which knows nothing of what it will find. *)
LEMMA WatchIInv ==
  ASSUME IInv, Watch
  PROVE  IInv'
<1>1. CASE Stat
  <2>1. file.mtime \in Nat /\ lastModTime \in Nat /\ info \in Nat
    BY TimesAreNat DEF IInv
  <2>2. QED
    BY <1>1, <2>1
    DEF IInv, TypeOK, InForce, HalvesAgree, TickHalves, CopyIsWhole, FirstLoad, TickTimes,
        NoEditSkipped, Stat, MainStep
<1>2. CASE Parse
  <2>1. file.mtime \in Nat /\ lastModTime \in Nat /\ info \in Nat
    BY TimesAreNat DEF IInv
  <2>2. QED
    BY <1>2, <2>1
    DEF IInv, TypeOK, InForce, HalvesAgree, TickHalves, CopyIsWhole, FirstLoad, TickTimes,
        NoEditSkipped, Parse, MainStep
<1>3. CASE Put
  <2>1. file.mtime \in Nat /\ lastModTime \in Nat /\ info \in Nat /\ inOrder \in BOOLEAN
    BY TimesAreNat DEF IInv, TypeOK
  <2>2. TypeOK'
    BY <1>3, ConfigReloadAssumption DEF IInv, TypeOK, Put, PutFails, MainStep
  <2>3. QED
    BY <1>3, <2>1, <2>2
    DEF IInv, InForce, HalvesAgree, TickHalves, CopyIsWhole, FirstLoad, TickTimes,
        NoEditSkipped, Put, PutFails, MainStep
<1>4. CASE Lock
  <2>1. agentConfig' \in Halves /\ agentConfig'.mode = next
    BY <1>4 DEF IInv, TypeOK, Lock
  <2>2. QED
    BY <1>4, <2>1
    DEF IInv, TypeOK, InForce, HalvesAgree, TickHalves, CopyIsWhole, FirstLoad, TickTimes,
        NoEditSkipped, Lock, MainStep
<1>5. CASE Publish
  <2>1. agentConfig' = Whole(next) /\ next \in Configs /\ configMap = next
    BY <1>5 DEF IInv, TypeOK, TickHalves, Publish
  <2>2. file.mtime \in Nat /\ lastModTime \in Nat /\ info \in Nat
    BY TimesAreNat DEF IInv
  <2>3. QED
    BY <1>5, <2>1, <2>2
    DEF IInv, TypeOK, InForce, HalvesAgree, TickHalves, CopyIsWhole, FirstLoad, TickTimes,
        NoEditSkipped, Publish, TimeApplied, MainStep
<1>6. QED
  BY <1>1, <1>2, <1>3, <1>4, <1>5 DEF Watch

(* A step of the event goroutine. *)
LEMMA EventIInv ==
  ASSUME IInv, Event
  PROVE  IInv'
<1>1. TypeOK'
  BY DEF IInv, TypeOK, Event, handleEvent, CloneMode, ClonePaths, EventDone, EventStep, watchVars
<1>2. CopyIsWhole'
  BY DEF IInv, InForce, CopyIsWhole, Event, handleEvent, ReadLock, CloneMode, ClonePaths,
         EventDone
<1>3. InForce' /\ HalvesAgree' /\ TickHalves' /\ FirstLoad' /\ TickTimes' /\ NoEditSkipped'
  BY DEF IInv, InForce, HalvesAgree, TickHalves, FirstLoad, TickTimes, NoEditSkipped, Event,
         handleEvent, CloneMode, ClonePaths, EventDone, EventStep, watchVars
<1>4. QED
  BY <1>1, <1>2, <1>3 DEF IInv

(* Every step keeps the invariant. *)
LEMMA NextIInv == IInv /\ [Next]_vars => IInv'
<1> SUFFICES ASSUME IInv, [Next]_vars PROVE IInv'
  OBVIOUS
<1>1. ASSUME NEW h \in Handlers, putConfig(h) \/ Rename(h) \/ Abandon(h) PROVE IInv'
  BY <1>1, WriteIInv, RenameIInv
<1>2. CASE Clock
  BY <1>2, ConfigReloadAssumption
  DEF IInv, TypeOK, InForce, HalvesAgree, TickHalves, CopyIsWhole, FirstLoad, TickTimes,
      NoEditSkipped, Clock, watchVars
<1>3. CASE UNCHANGED vars
  BY <1>3
  DEF IInv, TypeOK, InForce, HalvesAgree, TickHalves, CopyIsWhole, FirstLoad, TickTimes,
      NoEditSkipped, vars
<1>4. QED
  BY <1>1, <1>2, <1>3, MainIInv, WatchIInv, EventIInv DEF Next

-----------------------------------------------------------------------------
(* The strengthened invariant: parseConfig's results alone are ever in      *)
(* force, each tick of watchConfig carries one of them through the map and  *)
(* the assignment, and it holds applied only what it looked at.             *)
THEOREM Inductive == Spec => []IInv
  BY InitIInv, NextIInv, PTL DEF Spec

(* Types of the file, of the tick's variables and of both halves. *)
THEOREM ReloadTyped == Spec => []TypeOK
  BY Inductive, PTL DEF IInv

(* The collector and the agent filter by the same configuration, but        *)
(* between the update of config_map and the end of the assignment.          *)
THEOREM AgentAndCollectorAgree == Spec => []HalvesAgree
  BY Inductive, PTL DEF IInv

(* handleEvent copies one configuration that was accepted as a whole, not   *)
(* halves of two.                                                           *)
THEOREM CopiesAreWhole == Spec => []CopyIsWhole
  BY Inductive, PTL DEF IInv

(* What watchConfig holds applied is in force, as long as files replace     *)
(* each other in the order of their times.                                  *)
THEOREM NoSkips == Spec => []NoEditSkipped
  BY Inductive, PTL DEF IInv
=============================================================================
