--------------------------- MODULE CollectorProofs ---------------------------
(* Proofs about Collector, for every value of its constants. *)
EXTENDS Collector, FiniteSetTheorems, TLAPS

-----------------------------------------------------------------------------
(* Lemmas about the operators. *)

(* Every system call has a pending map. *)
LEMMA FamilyType == \A s \in AllSyscalls : Family(s) \in Families
  BY DEF AllSyscalls, Family, Families, ExecveSyscalls, OpenSyscalls, RenameSyscalls,
         FchmodSyscalls, UnlinkSyscalls, CloneSyscalls, ProbeSyscalls

(* A thread is idle exactly when it has no call number. *)
LEMMA IdleFacts ==
  /\ "none" \notin AllSyscalls
  /\ Idle.call = 0 /\ Idle.sys = "none" /\ Idle \in RunType
  /\ \A r \in RunType : /\ r.ok \in BOOLEAN /\ r.call \in Nat
                        /\ \/ r = Idle
                           \/ r.call # 0 /\ r.sys \in Syscalls /\ r # Idle
  <1>1. "none" \notin AllSyscalls
    BY DEF AllSyscalls, ExecveSyscalls, OpenSyscalls, RenameSyscalls, FchmodSyscalls,
           UnlinkSyscalls, CloneSyscalls, ProbeSyscalls
  <1>2. Idle.call = 0 /\ Idle.sys = "none" /\ Idle.ok \in BOOLEAN /\ Idle \in RunType
    BY DEF Idle, NoCall, RunType
  <1>3. \A r \in [call : Nat \ {0}, sys : Syscalls, ok : BOOLEAN] :
          r.ok \in BOOLEAN /\ r.call \in Nat \ {0} /\ r.sys \in Syscalls
    OBVIOUS
  <1>4. ASSUME NEW r \in RunType
        PROVE  /\ r.ok \in BOOLEAN /\ r.call \in Nat
               /\ \/ r = Idle
                  \/ r.call # 0 /\ r.sys \in Syscalls /\ r # Idle
    <2>1. CASE r = Idle
      BY <2>1, <1>2
    <2>2. CASE r \in [call : Nat \ {0}, sys : Syscalls, ok : BOOLEAN]
      BY <2>2, <1>2, <1>3
    <2> QED  BY <2>1, <2>2 DEF RunType
  <1> QED  BY <1>1, <1>2, <1>4

(* What Append does to a log, record by record. *)
LEMMA AppendFacts ==
  ASSUME NEW S, NEW s \in Seq(S), NEW r \in S
  PROVE  /\ Append(s, r) \in Seq(S)
         /\ Len(s) \in Nat /\ Len(Append(s, r)) = Len(s) + 1
         /\ DOMAIN s = 1..Len(s)
         /\ DOMAIN Append(s, r) = 1..(Len(s) + 1)
         /\ \A i \in 1..Len(s) : Append(s, r)[i] = s[i] /\ s[i] \in S
         /\ Append(s, r)[Len(s) + 1] = r
  OBVIOUS

(* Replacing one entry of a pending map changes that key alone. *)
LEMMA PendingUpdate ==
  ASSUME NEW p \in [Families -> [Tids -> Nat]], NEW f \in Families, NEW k \in Tids,
         NEW c \in Nat
  PROVE  LET q == [p EXCEPT ![f][k] = c]
         IN  /\ q \in [Families -> [Tids -> Nat]]
             /\ q[f][k] = c
             /\ \A g \in Families, u \in Tids : g # f \/ u # k => q[g][u] = p[g][u]
  OBVIOUS

(* An entry is written only where one is or where there is room, so no      *)
(* pending map outgrows its max_entries (a deletion writes NoCall).         *)
LEMMA CapacityKept ==
  ASSUME NEW p \in [Families -> [Tids -> Nat]], NEW f \in Families, NEW k \in Tids,
         NEW c \in Nat, NEW g \in Families,
         Cardinality(Busy(p, g)) <= MapSize,
         \/ p[f][k] # NoCall
         \/ Cardinality(Busy(p, f)) < MapSize
  PROVE  Cardinality(Busy([p EXCEPT ![f][k] = c], g)) <= MapSize
  <1> DEFINE Old == Busy(p, g)
             New == Busy([p EXCEPT ![f][k] = c], g)
  <1>1. IsFiniteSet(Old) /\ IsFiniteSet(New)
    BY FS_Subset, CollectorAssumption DEF CollectorAssumption, Busy
  <1>2. Cardinality(Old) \in Nat /\ Cardinality(New) \in Nat /\ MapSize \in Nat
    BY <1>1, FS_CardinalityType, CollectorAssumption DEF CollectorAssumption
  <1>3. CASE New \subseteq Old
    <2>1. Cardinality(New) <= Cardinality(Old)
      BY <1>1, <1>3, FS_Subset
    <2> QED  BY <1>2, <2>1
  <1>4. CASE ~ (New \subseteq Old)
    <2>1. g = f /\ p[f][k] = NoCall /\ k \notin Old /\ New \subseteq Old \cup {k}
      BY <1>4, PendingUpdate DEF Busy
    <2>2. Cardinality(Old) < MapSize
      BY <2>1
    <2>3. IsFiniteSet(Old \cup {k}) /\ Cardinality(Old \cup {k}) = Cardinality(Old) + 1
      BY <1>1, <2>1, FS_AddElement
    <2>4. Cardinality(New) <= Cardinality(Old \cup {k})
      BY <1>1, <2>1, <2>3, FS_Subset
    <2> QED  BY <1>2, <2>2, <2>3, <2>4
  <1> QED  BY <1>3, <1>4

(* Every sys_enter step is a run of Enter, every sys_exit step a return.    *)
LEMMA EnterStepCases ==
  ASSUME NEW t \in Tids, EnterStep(t)
  PROVE  \E s \in Syscalls : \E save : Enter(t, s, save)
  <1>1. CASE save_execve_event(t)       BY <1>1, Zenon DEF save_execve_event
  <1>2. CASE save_open_event(t)         BY <1>2, Zenon DEF save_open_event
  <1>3. CASE save_rename_event(t)       BY <1>3, Zenon DEF save_rename_event
  <1>4. CASE save_fchmod_event(t)       BY <1>4, Zenon DEF save_fchmod_event
  <1>5. CASE save_unlink_event(t)       BY <1>5, Zenon DEF save_unlink_event
  <1>6. CASE save_clone_event(t)        BY <1>6, Zenon DEF save_clone_event
  <1>7. CASE save_file_probe_event(t)   BY <1>7, Zenon DEF save_file_probe_event
  <1> QED  BY <1>1, <1>2, <1>3, <1>4, <1>5, <1>6, <1>7 DEF EnterStep

(* An exit program runs at the return of a call of its kind. *)
LEMMA ExitStepCases ==
  ASSUME TypeOK, NEW t \in Tids, ExitStep(t)
  PROVE  (\E ok \in BOOLEAN : Return(t, AllSyscalls, ok)) \/ ReturnToNewImage(t)
  <1>1. run[t].ok \in BOOLEAN
    BY IdleFacts DEF TypeOK
  <1>2. ASSUME NEW S \in SUBSET AllSyscalls, NEW ok \in BOOLEAN, Return(t, S, ok)
        PROVE  Return(t, AllSyscalls, ok)
    BY <1>2 DEF Return
  <1>3. /\ ExecveSyscalls \subseteq AllSyscalls /\ OpenSyscalls \subseteq AllSyscalls
        /\ RenameSyscalls \subseteq AllSyscalls /\ FchmodSyscalls \subseteq AllSyscalls
        /\ UnlinkSyscalls \subseteq AllSyscalls /\ CloneSyscalls \subseteq AllSyscalls
        /\ ProbeSyscalls \subseteq AllSyscalls
    BY DEF AllSyscalls
  <1> QED
    BY <1>1, <1>2, <1>3
    DEF ExitStep, save_execve_event_exit, save_open_event_exit, save_rename_event_exit,
        save_fchmod_event_exit, save_unlink_event_exit, save_clone_event_exit,
        save_file_probe_event_exit

-----------------------------------------------------------------------------
(* Types and capacities. *)

(* The part of TypeOK about what the programs share. *)
MapsOK ==
  /\ pending \in [Families -> [Tids -> Nat]]
  /\ \A f \in Families : Cardinality(Busy(pending, f)) <= MapSize

RingOK == log \in Seq(Records) /\ nread \in 0..Len(log) /\ Len(log) - nread <= RingSize

(* One record more, where the ring has room for it, leaves the ring sound. *)
LEMMA AppendKeepsRing ==
  ASSUME RingOK, ~ RingFull, NEW r \in Records, log' = Append(log, r), nread' = nread
  PROVE  RingOK'
  <1>1. log' \in Seq(Records) /\ Len(log) \in Nat /\ Len(log') = Len(log) + 1
    BY AppendFacts DEF RingOK
  <1>2. RingSize \in Nat
    BY CollectorAssumption DEF CollectorAssumption
  <1> QED  BY <1>1, <1>2 DEF RingOK, RingFull

(* An exit program leaves the maps and the ring sound. *)
LEMMA ExitProgramOK ==
  ASSUME MapsOK, RingOK, NEW s \in AllSyscalls, NEW t0 \in Tids, NEW t \in Tids,
         NEW c \in Nat, NEW ok \in BOOLEAN, ExitProgram(s, t0, t, c, ok)
  PROVE  MapsOK' /\ RingOK'
  <1> DEFINE f == Family(s)
             a == pending[f][t]
             r == [kind |-> f, tid |-> t, args |-> a, res |-> c, ok |-> ok]
  <1>1. f \in Families /\ f \in Events /\ a \in Nat /\ NoCall \in Nat
    BY FamilyType DEF MapsOK, Events, NoCall
  <1>2. r \in Records
    BY <1>1 DEF Records
  <1>3. nread' = nread
    BY DEF ExitProgram
  <1>4. CASE pending' = pending /\ log' = log
    BY <1>3, <1>4 DEF MapsOK, RingOK
  <1>5. CASE /\ a # NoCall
             /\ pending' = [pending EXCEPT ![f][t] = NoCall]
             /\ log' = log \/ (~ RingFull /\ log' = Append(log, r))
    <2>1. pending' \in [Families -> [Tids -> Nat]]
      BY <1>1, <1>5, PendingUpdate DEF MapsOK
    <2>2. ASSUME NEW g \in Families
          PROVE  Cardinality(Busy(pending', g)) <= MapSize
      BY <1>1, <1>5, CapacityKept DEF MapsOK
    <2>3. RingOK'
      BY <1>2, <1>3, <1>5, AppendKeepsRing DEF RingOK
    <2> QED  BY <2>1, <2>2, <2>3 DEF MapsOK
  <1> QED  BY <1>4, <1>5 DEF ExitProgram, PendingKey, DeleteEntry

(* What a return leaves behind of the history. *)
LEMMA ExitProgramHistory ==
  ASSUME NEW s, NEW t0, NEW t, NEW c, NEW ok, ExitProgram(s, t0, t, c, ok)
  PROVE  /\ missed' \in {missed, missed \cup {c}} /\ excused' \in {excused, excused \cup {c}}
         /\ UNCHANGED <<config, attached, nread, ncalls>>
  BY DEF ExitProgram

(* The types hold initially. *)
LEMMA InitTypeOK == Init => TypeOK
  <1> SUFFICES ASSUME Init PROVE TypeOK
    OBVIOUS
  <1>1. \A f \in Families : Busy(pending, f) = {}
    BY DEF Init, NoCall, Busy
  <1>2. Cardinality({}) = 0 /\ MapSize \in Nat /\ RingSize \in Nat /\ MaxCalls \in Nat
    BY FS_EmptySet, CollectorAssumption DEF CollectorAssumption
  <1>3. log \in Seq(Records) /\ Len(log) = 0 /\ nread = 0
    BY DEF Init
  <1>4. run \in [Tids -> RunType]
    BY IdleFacts DEF Init
  <1>5. pending \in [Families -> [Tids -> Nat]]
    BY DEF Init, NoCall
  <1>6. \A f \in Families : Cardinality(Busy(pending, f)) <= MapSize
    BY <1>1, <1>2
  <1> QED  BY <1>2, <1>3, <1>4, <1>5, <1>6, CollectorAssumption
           DEF Init, TypeOK, CollectorAssumption

(* A sys_enter step keeps the types. *)
LEMMA EnterTypeOK ==
  ASSUME TypeOK, NEW t \in Tids, NEW s \in Syscalls, NEW save, Enter(t, s, save)
  PROVE  TypeOK'
  <1> DEFINE f == Family(s)
             c == ncalls + 1
  <1>1. f \in Families /\ c \in Nat \ {0} /\ c \in 0..MaxCalls /\ MaxCalls \in Nat
    BY FamilyType, CollectorAssumption DEF TypeOK, CollectorAssumption, Enter
  <1>2. run' \in [Tids -> RunType]
    BY <1>1 DEF Enter, TypeOK, RunType
  <1>3. excused' \subseteq Nat /\ ncalls' \in 0..MaxCalls
    BY <1>1 DEF Enter, TypeOK
  <1>4. MapsOK'
    <2>1. MapsOK
      BY DEF TypeOK, MapsOK
    <2>2. CASE pending' = pending
      BY <2>1, <2>2 DEF MapsOK
    <2>3. CASE HasRoom(f, t) /\ pending' = [pending EXCEPT ![f][t] = c]
      <3>1. pending' \in [Families -> [Tids -> Nat]]
        BY <1>1, <2>1, <2>3, PendingUpdate DEF MapsOK
      <3>2. ASSUME NEW g \in Families
            PROVE  Cardinality(Busy(pending', g)) <= MapSize
        BY <1>1, <2>1, <2>3, CapacityKept DEF MapsOK, HasRoom
      <3> QED  BY <3>1, <3>2 DEF MapsOK
    <2> QED  BY <2>2, <2>3 DEF Enter, StoreEntry, PendingKey
  <1> QED  BY <1>2, <1>3, <1>4 DEF TypeOK, MapsOK, Enter

(* A sys_exit step keeps the types. *)
LEMMA ExitTypeOK ==
  ASSUME TypeOK, NEW t \in Tids, ExitStep(t)
  PROVE  TypeOK'
  <1>1. MapsOK /\ RingOK
    BY DEF TypeOK, MapsOK, RingOK
  <1>2. run[t] \in RunType /\ run[t].call \in Nat /\ leader[t] \in Tids
    BY IdleFacts DEF TypeOK
  <1>3. [run EXCEPT ![t] = Idle] \in [Tids -> RunType]
    BY IdleFacts DEF TypeOK
  <1>4. ASSUME NEW u \in Tids, NEW ok \in BOOLEAN, run[t].sys \in AllSyscalls,
               ExitProgram(run[t].sys, t, u, run[t].call, ok)
        PROVE  /\ MapsOK' /\ RingOK' /\ missed' \subseteq Nat /\ excused' \subseteq Nat
               /\ UNCHANGED <<config, attached, nread, ncalls>>
    <2>1. MapsOK' /\ RingOK'
      BY <1>1, <1>2, <1>4, ExitProgramOK
    <2>2. /\ missed' \in {missed, missed \cup {run[t].call}}
          /\ excused' \in {excused, excused \cup {run[t].call}}
          /\ UNCHANGED <<config, attached, nread, ncalls>>
      BY <1>4, ExitProgramHistory
    <2> QED  BY <2>1, <2>2, <1>2 DEF TypeOK
  <1>5. ASSUME NEW ok \in BOOLEAN, Return(t, AllSyscalls, ok)
        PROVE  TypeOK'
    <2>1. /\ MapsOK' /\ RingOK' /\ missed' \subseteq Nat /\ excused' \subseteq Nat
          /\ UNCHANGED <<config, attached, nread, ncalls>>
      BY <1>4, <1>5 DEF Return
    <2> QED  BY <1>3, <1>5, <2>1 DEF Return, TypeOK, MapsOK, RingOK
  <1>6. CASE ReturnToNewImage(t)
    <2>1. run[t].sys \in AllSyscalls
      BY <1>6 DEF ReturnToNewImage, AllSyscalls
    <2>2. /\ MapsOK' /\ RingOK' /\ missed' \subseteq Nat /\ excused' \subseteq Nat
          /\ UNCHANGED <<config, attached, nread, ncalls>>
      BY <1>2, <1>4, <1>6, <2>1 DEF ReturnToNewImage
    <2>3. alive' \subseteq Tids
      BY <1>2, <1>6 DEF ReturnToNewImage, TypeOK
    <2> QED  BY <1>3, <1>6, <2>2, <2>3 DEF ReturnToNewImage, TypeOK, MapsOK, RingOK
  <1> QED  BY <1>5, <1>6, ExitStepCases

(* An event observed at one point keeps the ring sound. *)
LEMMA SubmitOK ==
  ASSUME RingOK, NEW kind \in Events, NEW t \in Tids, NEW c \in Nat, NEW ok \in BOOLEAN,
         Submit(kind, t, c, ok), nread' = nread
  PROVE  RingOK'
  <1>1. [kind |-> kind, tid |-> t, args |-> c, res |-> c, ok |-> ok] \in Records
    BY DEF Records
  <1> QED  BY <1>1, AppendKeepsRing DEF Submit, RingOK

(* Every step keeps the types. *)
LEMMA NextTypeOK == TypeOK /\ [Next]_vars => TypeOK'
  <1> SUFFICES ASSUME TypeOK, [Next]_vars PROVE TypeOK'
    OBVIOUS
  <1>0. MaxCalls \in Nat /\ RingSize \in Nat
    BY CollectorAssumption DEF CollectorAssumption
  <1>1. ASSUME NEW t \in Tids, EnterStep(t) PROVE TypeOK'
    BY <1>1, EnterStepCases, EnterTypeOK
  <1>2. ASSUME NEW t \in Tids, ExitStep(t) PROVE TypeOK'
    BY <1>2, ExitTypeOK
  <1>3. ASSUME NEW t \in Tids, trace_lsm_file_open(t) PROVE TypeOK'
    <2>1. RingOK /\ run[t].call \in Nat /\ "lsm_file_open" \in Events
      BY IdleFacts DEF TypeOK, RingOK, Events, OneShots
    <2>2. RingOK'
      BY <1>3, <2>1, SubmitOK DEF trace_lsm_file_open
    <2> QED  BY <1>3, <2>2 DEF trace_lsm_file_open, TypeOK, RingOK
  <1>4. CASE trace_tcp_state
    <2>1. RingOK /\ ncalls + 1 \in Nat /\ ncalls + 1 \in 0..MaxCalls /\ "tcp" \in Events
      BY <1>0, <1>4 DEF TypeOK, RingOK, Events, OneShots, trace_tcp_state
    <2>2. RingOK'
      BY <1>4, <2>1, SubmitOK DEF trace_tcp_state
    <2> QED  BY <1>4, <2>1, <2>2 DEF trace_tcp_state, TypeOK, RingOK
  <1>5. CASE Attach
    BY <1>5 DEF Attach, TypeOK
  <1>6. CASE PutConfig
    BY <1>6 DEF PutConfig, TypeOK
  <1>7. CASE ReadRecord
    <2>1. Len(log) \in Nat
      BY AppendFacts DEF TypeOK
    <2> QED  BY <1>0, <1>7, <2>1 DEF ReadRecord, TypeOK
  <1>8. ASSUME NEW t \in Tids, NewTask(t) PROVE TypeOK'
    <2>1. run[t] \in RunType /\ run[t] # Idle /\ run[t].sys \in Syscalls
      BY <1>8, IdleFacts DEF NewTask, CloneSyscalls, TypeOK
    <2>2. ncalls + 1 \in Nat \ {0} /\ ncalls + 1 \in 0..MaxCalls
      BY <1>0, <1>8 DEF NewTask, TypeOK
    <2>3. PICK u \in Tids, l \in Tids :
            /\ alive' = alive \cup {u}
            /\ leader' = [leader EXCEPT ![u] = l]
            /\ run' = [run EXCEPT ![t].ok = TRUE,
                                  ![u] = [call |-> ncalls + 1, sys |-> run[t].sys,
                                          ok |-> TRUE]]
      BY <1>8 DEF NewTask
    <2>4. [run[t] EXCEPT !.ok = TRUE] \in RunType
      BY <2>1 DEF RunType
    <2>5. [call |-> ncalls + 1, sys |-> run[t].sys, ok |-> TRUE] \in RunType
      BY <2>1, <2>2 DEF RunType
    <2>6. run' \in [Tids -> RunType]
      BY <2>3, <2>4, <2>5 DEF TypeOK
    <2>7. alive' \subseteq Tids /\ leader' \in [Tids -> Tids]
      BY <2>3 DEF TypeOK
    <2>8. /\ UNCHANGED <<config, attached, pending, log, nread, missed>>
          /\ ncalls' = ncalls + 1 /\ excused' = excused \cup {ncalls + 1}
      BY <1>8 DEF NewTask
    <2> QED  BY <2>2, <2>6, <2>7, <2>8 DEF TypeOK
  <1>9. ASSUME NEW t \in Tids, TaskExit(t) PROVE TypeOK'
    BY <1>9 DEF TaskExit, TypeOK
  <1>10. CASE UNCHANGED vars
    BY <1>10 DEF vars, TypeOK
  <1> QED
    BY <1>1, <1>2, <1>3, <1>4, <1>5, <1>6, <1>7, <1>8, <1>9, <1>10 DEF Next, KernelStep

(* Types and capacities: neither the ring nor a pending map ever holds more *)
(* than max_entries allows, in whatever order threads, programs, agent and   *)
(* configuration changes interleave.                                         *)
THEOREM TypeCorrect == Spec => []TypeOK
  BY InitTypeOK, NextTypeOK, PTL DEF Spec

-----------------------------------------------------------------------------
(* The inductive invariant behind the joining of entries and returns.       *)

(* Only live tasks are in a call, and the first thread of a process lives   *)
(* as long as the process does.                                             *)
Tasks ==
  /\ \A t \in Tids : run[t].call # 0 => t \in alive
  /\ \A t \in alive : leader[t] \in alive /\ leader[leader[t]] = leader[t]

(* A call number names one call in flight, or one that is over. *)
Numbered ==
  /\ \A t \in Tids : run[t].call <= ncalls /\ run[t].call \notin missed
  /\ \A t, u \in Tids : t # u /\ run[t].call # 0 => run[t].call # run[u].call
  /\ missed \subseteq 1..ncalls

(* No two entries hold the arguments of one call. *)
PendingDistinct ==
  \A f, g \in Families, t, u \in Tids :
    pending[f][t] # 0 /\ (f # g \/ t # u) => pending[f][t] # pending[g][u]

(* What has been reported is over, and its arguments are no longer saved. *)
Recorded ==
  \A i \in Joined :
    /\ log[i].args \in 1..ncalls /\ log[i].res \in 1..ncalls
    /\ \A t \in Tids : log[i].res # run[t].call
    /\ \A f \in Families, t \in Tids : log[i].args # pending[f][t]

(* What a thread reported came before the call it is in. *)
Earlier ==
  \A i \in Joined, t \in Tids :
    log[i].tid = t /\ log[i].args \notin missed /\ run[t].call # 0
      => log[i].args < run[t].call

(* A call in flight that nothing excuses has its arguments saved. *)
Saved ==
  \A t \in Tids :
    run[t].call # 0 => \/ run[t].call \in excused
                      \/ pending[Family(run[t].sys)][t] = run[t].call

Core == /\ Numbered /\ PendingDistinct /\ Recorded
        /\ PendingIsInFlight /\ JoinsOneCallUnlessMissed /\ NoDuplicateRecord

(* The facts about TypeOK the steps below use. *)
LEMMA TypeFacts ==
  ASSUME TypeOK
  PROVE  /\ ncalls \in Nat /\ log \in Seq(Records) /\ Len(log) \in Nat
         /\ pending \in [Families -> [Tids -> Nat]]
         /\ run \in [Tids -> RunType] /\ leader \in [Tids -> Tids]
         /\ \A t \in Tids : /\ run[t].call \in Nat
                            /\ run[t].call # 0 => run[t].sys \in Syscalls
                            /\ run[t].call = 0 <=> run[t] = Idle
                            /\ run[t].sys \in AllSyscalls => run[t].call # 0
         /\ \A i \in Joined : /\ i \in Nat /\ i <= Len(log)
                              /\ log[i].args \in Nat /\ log[i].res \in Nat
         /\ Idle.call = 0
  <1>1. log \in Seq(Records) /\ Len(log) \in Nat /\ DOMAIN log = 1..Len(log)
    BY AppendFacts DEF TypeOK
  <1>2. \A i \in Joined : i \in 1..Len(log) /\ log[i] \in Records
    BY <1>1 DEF Joined
  <1>3. \A r \in Records : r.args \in Nat /\ r.res \in Nat
    BY DEF Records
  <1>4. MaxCalls \in Nat
    BY CollectorAssumption DEF CollectorAssumption
  <1> QED  BY <1>1, <1>2, <1>3, <1>4, IdleFacts DEF TypeOK

(* A record more, seen by the properties. *)
LEMMA JoinedAppend ==
  ASSUME TypeOK, NEW r \in Records, log' = Append(log, r)
  PROVE  /\ Joined' = IF r.kind \in Families THEN Joined \cup {Len(log) + 1} ELSE Joined
         /\ \A i \in Joined : log'[i] = log[i] /\ i # Len(log) + 1
         /\ log'[Len(log) + 1] = r
  <1>1. /\ Len(log) \in Nat /\ DOMAIN log = 1..Len(log)
        /\ DOMAIN log' = 1..(Len(log) + 1)
        /\ \A i \in 1..Len(log) : log'[i] = log[i]
        /\ log'[Len(log) + 1] = r
    BY AppendFacts DEF TypeOK
  <1>2. \A i : i \in 1..(Len(log) + 1) <=> i \in 1..Len(log) \/ i = Len(log) + 1
    BY <1>1
  <1>3. Len(log) + 1 \notin 1..Len(log)
    BY <1>1
  <1>4. \A i : i \in Joined <=> i \in 1..Len(log) /\ log[i].kind \in Families
    BY <1>1 DEF Joined
  <1>5. \A i : i \in Joined' <=> i \in 1..(Len(log) + 1) /\ log'[i].kind \in Families
    BY <1>1 DEF Joined
  <1>6. \A i : i \in Joined' <=> (i \in Joined \/ (i = Len(log) + 1 /\ r.kind \in Families))
    <2> SUFFICES ASSUME NEW i
                 PROVE  i \in Joined'
                          <=> (i \in Joined \/ (i = Len(log) + 1 /\ r.kind \in Families))
      OBVIOUS
    <2>1. CASE i \in 1..Len(log)
      <3>1. log'[i] = log[i] /\ i # Len(log) + 1
        BY <1>1, <1>3, <2>1
      <3> QED  BY <1>2, <1>4, <1>5, <2>1, <3>1
    <2>2. CASE i \notin 1..Len(log)
      BY <1>1, <1>2, <1>4, <1>5, <2>2
    <2> QED  BY <2>1, <2>2
  <1>7. \A i \in Joined : log'[i] = log[i] /\ i # Len(log) + 1
    BY <1>1, <1>3, <1>4
  <1>8. Joined' = IF r.kind \in Families THEN Joined \cup {Len(log) + 1} ELSE Joined
    BY <1>6
  <1> QED  BY <1>1, <1>7, <1>8

(* The joined records are those of before. *)
SameJoined == Joined' = Joined /\ \A i \in Joined : log'[i] = log[i]

(* A call of number ncalls + 1 begins in thread t, which was in none, and   *)
(* its arguments are saved in the map of its family or not at all.          *)
NewCall(t) ==
  /\ run[t].call = 0
  /\ ncalls' = ncalls + 1 /\ run'[t].call = ncalls + 1
  /\ run'[t].sys \in Syscalls
  /\ \A u \in Tids \ {t} : run'[u].call = run[u].call /\ run'[u].sys = run[u].sys
  /\ missed' = missed /\ SameJoined
  /\ \/ pending' = pending /\ excused' = excused \cup {ncalls + 1}
     \/ /\ pending' = [pending EXCEPT ![Family(run'[t].sys)][t] = ncalls + 1]
        /\ excused' = excused

(* Steps of other kinds: no call begins or returns. *)
Quiet ==
  /\ \A t \in Tids : run'[t].call = run[t].call /\ run'[t].sys = run[t].sys
  /\ ncalls' \in Nat /\ ncalls <= ncalls'
  /\ UNCHANGED <<pending, missed>> /\ SameJoined
  /\ excused \subseteq excused' /\ (ncalls + 1)..ncalls' \subseteq excused'

(* A quiet step keeps the core of the invariant. *)
LEMMA QuietCore ==
  ASSUME TypeOK, Core, Quiet
  PROVE  Core'
  <1> USE TypeFacts
  <1>1. Numbered'
    <2>1. ASSUME NEW t \in Tids
          PROVE  run'[t].call <= ncalls' /\ run'[t].call \notin missed'
      <3>1. run[t].call <= ncalls /\ run[t].call \notin missed
        BY DEF Core, Numbered
      <3>2. /\ run'[t].call = run[t].call /\ missed' = missed
            /\ ncalls' \in Nat /\ ncalls <= ncalls'
        BY DEF Quiet
      <3> QED  BY <3>1, <3>2
    <2>2. ASSUME NEW t \in Tids, NEW u \in Tids, t # u, run'[t].call # 0
          PROVE  run'[t].call # run'[u].call
      BY <2>2 DEF Core, Numbered, Quiet
    <2>3. missed' \subseteq 1..ncalls'
      BY DEF Core, Numbered, Quiet
    <2> QED  BY <2>1, <2>2, <2>3 DEF Numbered
  <1>2. PendingDistinct'
    BY DEF Core, PendingDistinct, Quiet
  <1>3. Recorded'
    BY DEF Core, Recorded, Quiet, SameJoined
  <1>4. PendingIsInFlight'
    BY DEF Core, PendingIsInFlight, Quiet
  <1>5. JoinsOneCallUnlessMissed'
    BY DEF Core, JoinsOneCallUnlessMissed, Quiet, SameJoined
  <1>6. NoDuplicateRecord'
    BY DEF Core, NoDuplicateRecord, Quiet, SameJoined
  <1> QED  BY <1>1, <1>2, <1>3, <1>4, <1>5, <1>6 DEF Core

(* A call that begins keeps it. *)
LEMMA NewCallCore ==
  ASSUME TypeOK, Core, NEW t \in Tids, NewCall(t)
  PROVE  Core'
  <1> DEFINE c == ncalls + 1
             f == Family(run'[t].sys)
  <1> USE TypeFacts
  <1>1. f \in Families /\ c \in Nat /\ c # 0
    BY FamilyType, CollectorAssumption DEF NewCall, CollectorAssumption
  <1>2. \A g \in Families, u \in Tids :
          /\ pending[g][u] # c
          /\ pending'[g][u] = pending[g][u] \/ (g = f /\ u = t /\ pending'[g][u] = c)
    <2>1. \A g \in Families, u \in Tids : pending[g][u] # c
      BY <1>1 DEF Core, PendingIsInFlight, Numbered, NoCall
    <2>2. CASE pending' = pending
      BY <2>1, <2>2
    <2>3. CASE pending' = [pending EXCEPT ![f][t] = c]
      BY <1>1, <2>1, <2>3, PendingUpdate
    <2> QED  BY <2>2, <2>3 DEF NewCall
  <1>3. Numbered'
    <2>0. /\ c \notin missed /\ ncalls' = c /\ missed' = missed
          /\ run'[t].call = c
          /\ \A u \in Tids : u # t => run'[u].call = run[u].call
          /\ \A u \in Tids : run[u].call <= ncalls /\ run[u].call # c
                              /\ run[u].call \notin missed
      BY <1>1 DEF Core, Numbered, NewCall
    <2>1. ASSUME NEW u \in Tids
          PROVE  run'[u].call <= ncalls' /\ run'[u].call \notin missed'
      <3>1. CASE u = t   BY <1>1, <2>0, <3>1
      <3>2. CASE u # t   BY <1>1, <2>0, <3>2
      <3> QED  BY <3>1, <3>2
    <2>2. ASSUME NEW v \in Tids, NEW u \in Tids, v # u, run'[v].call # 0
          PROVE  run'[v].call # run'[u].call
      <3>1. CASE v = t            BY <2>0, <2>2, <3>1
      <3>2. CASE u = t            BY <2>0, <2>2, <3>2
      <3>3. CASE v # t /\ u # t   BY <2>0, <2>2, <3>3 DEF Core, Numbered
      <3> QED  BY <3>1, <3>2, <3>3
    <2>3. missed' \subseteq 1..ncalls'
      BY DEF Core, Numbered, NewCall
    <2> QED  BY <2>1, <2>2, <2>3 DEF Numbered
  <1>4. PendingDistinct'
    BY <1>1, <1>2 DEF Core, PendingDistinct
  <1>5. Recorded'
    BY <1>1, <1>2 DEF Core, Recorded, NewCall, SameJoined
  <1>6. PendingIsInFlight'
    BY <1>1, <1>2 DEF Core, PendingIsInFlight, NewCall, NoCall
  <1>7. JoinsOneCallUnlessMissed'
    BY DEF Core, JoinsOneCallUnlessMissed, NewCall, SameJoined
  <1>8. NoDuplicateRecord'
    BY SMTT(20) DEF Core, NoDuplicateRecord, NewCall, SameJoined
  <1> QED  BY <1>3, <1>4, <1>5, <1>6, <1>7, <1>8 DEF Core

(* The call of thread t returns under id k, with its exit program if there  *)
(* is one: what the step does to the maps, the log and the history.         *)
CallReturns(t, k, ok) ==
  /\ run[t].call # 0 /\ run[t].sys \in AllSyscalls
  /\ k = t \/ run[k].call = 0
  /\ ExitProgram(run[t].sys, t, k, run[t].call, ok)
  /\ run' = [run EXCEPT ![t] = Idle]

(* What the return of a call may do to the maps, the log and the history. *)
LEMMA ReturnEffect ==
  ASSUME TypeOK, NEW t \in Tids, NEW k \in Tids, NEW ok \in BOOLEAN, CallReturns(t, k, ok)
  PROVE  LET c == run[t].call
             f == Family(run[t].sys)
             a == pending[f][k]
             r == [kind |-> f, tid |-> k, args |-> a, res |-> c, ok |-> ok]
         IN /\ f \in Families /\ r \in Records /\ a \in Nat
            /\ missed' = missed \/ missed' = missed \cup {c}
            /\ c \notin missed' => k = t
            /\ \/ /\ pending' = pending /\ log' = log
                  /\ c \notin missed' => a = 0
               \/ /\ a # 0
                  /\ pending' = [pending EXCEPT ![f][k] = 0]
                  /\ (log' = log /\ c \in excused') \/ log' = Append(log, r)
            /\ ncalls' = ncalls /\ excused \subseteq excused'
            /\ run'[t].call = 0
            /\ \A u \in Tids : u # t => run'[u].call = run[u].call /\ run'[u].sys = run[u].sys
  <1> DEFINE c == run[t].call
             f == Family(run[t].sys)
             a == pending[f][k]
             r == [kind |-> f, tid |-> k, args |-> a, res |-> c, ok |-> ok]
  <1>1. f \in Families /\ f \in Events
    BY FamilyType DEF CallReturns, Events
  <1>2. a \in Nat /\ c \in Nat
    BY <1>1, TypeFacts
  <1>3. r \in Records
    BY <1>1, <1>2 DEF Records
  <1>4. /\ missed' = missed \/ missed' = missed \cup {c}
        /\ c \notin missed' => k = t
    BY DEF CallReturns, ExitProgram
  <1>5. \/ /\ pending' = pending /\ log' = log
           /\ c \notin missed' => a = 0
        \/ /\ a # 0
           /\ pending' = [pending EXCEPT ![f][k] = 0]
           /\ (log' = log /\ c \in excused') \/ log' = Append(log, r)
    <2>1. CASE <<run[t].sys, "exit">> \in attached /\ a # 0
      BY <2>1 DEF CallReturns, ExitProgram, PendingKey, DeleteEntry, NoCall
    <2>2. CASE ~ (<<run[t].sys, "exit">> \in attached /\ a # 0)
      BY <2>2 DEF CallReturns, ExitProgram, PendingKey, DeleteEntry, NoCall
    <2> QED  BY <2>1, <2>2
  <1>6. ncalls' = ncalls /\ excused \subseteq excused'
    BY DEF CallReturns, ExitProgram
  <1>7. /\ run'[t].call = 0
        /\ \A u \in Tids : u # t => run'[u].call = run[u].call /\ run'[u].sys = run[u].sys
    BY TypeFacts DEF CallReturns
  <1> QED  BY <1>1, <1>2, <1>3, <1>4, <1>5, <1>6, <1>7

(* A call that returns keeps the core of the invariant. *)
LEMMA ReturnCore ==
  ASSUME TypeOK, Core, NEW t \in Tids, NEW k \in Tids, NEW ok \in BOOLEAN,
         CallReturns(t, k, ok)
  PROVE  Core'
  <1> DEFINE c == run[t].call
             f == Family(run[t].sys)
             a == pending[f][k]
             r == [kind |-> f, tid |-> k, args |-> a, res |-> c, ok |-> ok]
  <1>0. /\ c # 0 /\ c \in Nat /\ c <= ncalls /\ ncalls \in Nat /\ c \notin missed
        /\ k = t \/ run[k].call = 0
    BY TypeFacts DEF CallReturns, Core, Numbered
  <1>1. /\ f \in Families /\ r \in Records /\ a \in Nat
        /\ missed' = missed \/ missed' = missed \cup {c}
        /\ c \notin missed' => k = t
        /\ \/ /\ pending' = pending /\ log' = log
              /\ c \notin missed' => a = 0
           \/ /\ a # 0
              /\ pending' = [pending EXCEPT ![f][k] = 0]
              /\ log' = log \/ log' = Append(log, r)
        /\ ncalls' = ncalls
    BY ReturnEffect
  <1>2. /\ run'[t].call = 0
        /\ \A u \in Tids : u # t => run'[u].call = run[u].call /\ run'[u].sys = run[u].sys
    BY TypeFacts DEF CallReturns
  <1>3. Numbered'
    <2>1. ASSUME NEW u \in Tids
          PROVE  run'[u].call <= ncalls' /\ run'[u].call \notin missed'
      <3>1. 0 \notin missed' /\ run[u].call \in Nat /\ run[u].call <= ncalls
        BY <1>0, <1>1, TypeFacts DEF Core, Numbered
      <3>2. CASE u = t
        BY <1>0, <1>1, <1>2, <3>1, <3>2
      <3>3. CASE u # t
        BY <1>0, <1>1, <1>2, <3>1, <3>3 DEF Core, Numbered
      <3> QED  BY <3>2, <3>3
    <2>2. ASSUME NEW v \in Tids, NEW u \in Tids, v # u, run'[v].call # 0
          PROVE  run'[v].call # run'[u].call
      BY <1>0, <1>2, <2>2 DEF Core, Numbered
    <2>3. missed' \subseteq 1..ncalls'
      BY <1>0, <1>1 DEF Core, Numbered
    <2> QED  BY <2>1, <2>2, <2>3 DEF Numbered
  <1>4. \A g \in Families, u \in Tids :
          /\ pending'[g][u] = pending[g][u] \/ (g = f /\ u = k /\ pending'[g][u] = 0)
          /\ pending'[f][k] # 0 => c \in missed'
    <2>1. CASE pending' = pending /\ (c \notin missed' => a = 0)
      BY <2>1
    <2>2. CASE pending' = [pending EXCEPT ![f][k] = 0]
      BY <1>1, <2>2, TypeFacts, PendingUpdate
    <2> QED  BY <1>1, <2>1, <2>2
  <1>5. PendingDistinct'
    BY <1>4 DEF Core, PendingDistinct
  <1>6. PendingIsInFlight'
    <2> SUFFICES ASSUME NEW g \in Families, NEW u \in Tids, pending'[g][u] # 0
                 PROVE  \/ run'[u].call = pending'[g][u] /\ Family(run'[u].sys) = g
                        \/ pending'[g][u] \in missed'
      BY DEF PendingIsInFlight, NoCall
    <2>1. /\ pending'[g][u] = pending[g][u]
          /\ \/ run[u].call = pending[g][u] /\ Family(run[u].sys) = g
             \/ pending[g][u] \in missed
      BY <1>4 DEF Core, PendingIsInFlight, NoCall
    <2>2. CASE pending[g][u] \in missed
      BY <1>1, <2>1, <2>2
    <2>3. CASE u # t
      BY <1>1, <1>2, <2>1, <2>3
    <2>4. CASE u = t /\ pending[g][u] \notin missed
      <3>1. pending[g][u] = c /\ g = f
        BY <2>1, <2>4
      <3>2. CASE c \notin missed'
        BY <1>1, <1>4, <2>1, <2>4, <3>1, <3>2
      <3> QED  BY <2>1, <3>1, <3>2
    <2> QED  BY <2>2, <2>3, <2>4
  <1>7. a # 0 => (a = c \/ a \in missed) /\ a \in 1..ncalls
    BY <1>0, <1>1 DEF Core, PendingIsInFlight, NoCall, Numbered
  <1>8. CASE log' = log
    <2>1. SameJoined
      BY <1>8 DEF SameJoined, Joined
    <2>2. Recorded'
      BY <1>0, <1>1, <1>2, <1>4, <2>1, TypeFacts, SMTT(20) DEF Core, Recorded, SameJoined
    <2>3. JoinsOneCallUnlessMissed'
      BY <1>1, <2>1 DEF Core, JoinsOneCallUnlessMissed, SameJoined
    <2>4. NoDuplicateRecord'
      BY <2>1 DEF Core, NoDuplicateRecord, SameJoined
    <2> QED  BY <1>3, <1>5, <1>6, <2>2, <2>3, <2>4 DEF Core
  <1>9. CASE /\ a # 0 /\ log' = Append(log, r)
             /\ pending' = [pending EXCEPT ![f][k] = 0]
    <2> DEFINE n == Len(log) + 1
    <2>1. /\ Joined' = Joined \cup {n}
          /\ \A i \in Joined : log'[i] = log[i] /\ i # n
          /\ log'[n].args = a /\ log'[n].res = c
      <3>1. r.kind = f /\ r.args = a /\ r.res = c
        OBVIOUS
      <3> HIDE DEF r
      <3>2. /\ Joined' = Joined \cup {n}
            /\ \A i \in Joined : log'[i] = log[i] /\ i # n
            /\ log'[n] = r
        BY <1>1, <1>9, <3>1, JoinedAppend
      <3> QED  BY <3>1, <3>2
    <2>2. pending'[f][k] = 0
      BY <1>1, <1>9, TypeFacts, PendingUpdate
    <2>3. ASSUME NEW i \in Joined
          PROVE  /\ log[i].args \in 1..ncalls /\ log[i].res \in 1..ncalls
                 /\ log[i].args # a /\ log[i].res # c
                 /\ \A u \in Tids : log[i].res # run'[u].call
                 /\ \A g \in Families, u \in Tids : log[i].args # pending'[g][u]
      BY <1>0, <1>1, <1>2, <1>4 DEF Core, Recorded
    <2>4. \A u \in Tids : c # run'[u].call
      BY <1>0, <1>2 DEF Core, Numbered
    <2>5. \A g \in Families, u \in Tids : a # pending'[g][u]
      BY <1>1, <1>4, <1>9, <2>2 DEF Core, PendingDistinct
    <2>6. Recorded'
      <3>1. c \in 1..ncalls /\ a \in 1..ncalls /\ ncalls' = ncalls
        BY <1>0, <1>1, <1>7, <1>9
      <3>2. ASSUME NEW i \in Joined'
            PROVE  /\ log'[i].args \in 1..ncalls /\ log'[i].res \in 1..ncalls
                   /\ \A u \in Tids : log'[i].res # run'[u].call
                   /\ \A g \in Families, u \in Tids : log'[i].args # pending'[g][u]
        <4>1. CASE i \in Joined   BY <2>1, <2>3, <4>1
        <4>2. CASE i = n          BY <2>1, <2>4, <2>5, <3>1, <4>2
        <4> QED  BY <2>1, <4>1, <4>2
      <3> QED  BY <3>1, <3>2 DEF Recorded
    <2>7. JoinsOneCallUnlessMissed'
      BY <1>1, <1>7, <1>9, <2>1 DEF Core, JoinsOneCallUnlessMissed
    <2>8. NoDuplicateRecord'
      BY <2>1, <2>3 DEF Core, NoDuplicateRecord
    <2> QED  BY <1>3, <1>5, <1>6, <2>6, <2>7, <2>8 DEF Core
  <1> QED  BY <1>1, <1>8, <1>9

-----------------------------------------------------------------------------
(* The steps of the system are of these three kinds. *)

(* The program for TCP states is a quiet step. *)
LEMMA TcpQuiet ==
  ASSUME TypeOK, trace_tcp_state
  PROVE  Quiet
  <1>1. PICK tid \in Tids, ok \in BOOLEAN : Submit("tcp", tid, ncalls + 1, ok)
    BY DEF trace_tcp_state
  <1> DEFINE r == [kind |-> "tcp", tid |-> tid, args |-> ncalls + 1, res |-> ncalls + 1,
                   ok |-> ok]
  <1>2. r \in Records /\ r.kind \notin Families
    BY TypeFacts DEF Records, Events, OneShots, Families
  <1>3. SameJoined
    <2>1. CASE log' = log
      BY <2>1 DEF SameJoined, Joined
    <2>2. CASE log' = Append(log, r)
      BY <1>2, <2>2, JoinedAppend DEF SameJoined
    <2> QED  BY <1>1, <2>1, <2>2 DEF Submit
  <1> QED  BY <1>3, TypeFacts DEF trace_tcp_state, Quiet

(* So is that for opened files. *)
LEMMA LsmQuiet ==
  ASSUME TypeOK, NEW t \in Tids, trace_lsm_file_open(t)
  PROVE  Quiet
  <1> DEFINE r == [kind |-> "lsm_file_open", tid |-> t, args |-> run[t].call,
                   res |-> run[t].call, ok |-> TRUE]
  <1>1. Submit("lsm_file_open", t, run[t].call, TRUE)
    BY DEF trace_lsm_file_open
  <1>2. r \in Records /\ r.kind \notin Families
    BY TypeFacts DEF Records, Events, OneShots, Families
  <1>3. SameJoined
    <2>1. CASE log' = log
      BY <2>1 DEF SameJoined, Joined
    <2>2. CASE log' = Append(log, r)
      BY <1>2, <2>2, JoinedAppend DEF SameJoined
    <2> QED  BY <1>1, <2>1, <2>2 DEF Submit
  <1> QED  BY <1>3, TypeFacts DEF trace_lsm_file_open, Quiet

(* An enter program runs at the beginning of a call. *)
LEMMA EnterNewCall ==
  ASSUME TypeOK, NEW t \in Tids, EnterStep(t)
  PROVE  NewCall(t)
  <1>0. PICK s \in Syscalls : \E save : Enter(t, s, save)
    BY EnterStepCases
  <1>1. PICK save : Enter(t, s, save)
    BY <1>0
  <1>2. /\ run'[t].call = ncalls + 1 /\ run'[t].sys = s
        /\ \A u \in Tids \ {t} : run'[u] = run[u]
    BY <1>1, TypeFacts DEF Enter
  <1>3. run[t].call = 0 /\ ncalls' = ncalls + 1 /\ missed' = missed /\ log' = log
    BY <1>1, TypeFacts DEF Enter
  <1>4. SameJoined
    BY <1>3 DEF SameJoined, Joined
  <1>5. \/ pending' = pending /\ excused' = excused \cup {ncalls + 1}
        \/ /\ pending' = [pending EXCEPT ![Family(s)][t] = ncalls + 1]
           /\ excused' = excused
    BY <1>1 DEF Enter, StoreEntry, PendingKey
  <1> QED  BY <1>2, <1>3, <1>4, <1>5 DEF NewCall

(* A new task begins as one in a call. *)
LEMMA NewTaskNewCall ==
  ASSUME TypeOK, Tasks, NEW t \in Tids, NewTask(t)
  PROVE  \E u \in Tids : NewCall(u)
  <1>1. PICK u \in Tids \ alive :
          run' = [run EXCEPT ![t].ok = TRUE,
                             ![u] = [call |-> ncalls + 1, sys |-> run[t].sys, ok |-> TRUE]]
    BY DEF NewTask
  <1>2. /\ run[t].sys \in Syscalls /\ run[t].call # 0
        /\ run[t] \in [call : Nat \ {0}, sys : Syscalls, ok : BOOLEAN]
    <2>1. run[t].sys \in AllSyscalls
      BY DEF NewTask, AllSyscalls
    <2> QED  BY <2>1, TypeFacts DEF TypeOK, RunType
  <1>3. run[u].call = 0 /\ u # t
    BY <1>1, <1>2 DEF Tasks
  <1>4. /\ run'[u].call = ncalls + 1 /\ run'[u].sys = run[t].sys
        /\ \A v \in Tids \ {u} : run'[v].call = run[v].call /\ run'[v].sys = run[v].sys
    BY <1>1, <1>2, <1>3, TypeFacts
  <1>5. /\ ncalls' = ncalls + 1 /\ missed' = missed /\ log' = log
        /\ pending' = pending /\ excused' = excused \cup {ncalls + 1}
    BY DEF NewTask
  <1>6. SameJoined
    BY <1>5 DEF SameJoined, Joined
  <1> QED  BY <1>2, <1>3, <1>4, <1>5, <1>6 DEF NewCall

(* An exit program runs when a call returns. *)
LEMMA ExitCallReturns ==
  ASSUME TypeOK, Tasks, NEW t \in Tids, ExitStep(t)
  PROVE  \E k \in Tids, ok \in BOOLEAN : CallReturns(t, k, ok)
  <1>1. ASSUME NEW ok \in BOOLEAN, Return(t, AllSyscalls, ok)
        PROVE  CallReturns(t, t, ok)
    BY <1>1, TypeFacts DEF Return, CallReturns
  <1>2. ASSUME ReturnToNewImage(t)
        PROVE  CallReturns(t, leader[t], TRUE) /\ leader[t] \in Tids
    <2>1. run[t].sys \in AllSyscalls /\ run[t].call # 0
      BY <1>2, TypeFacts DEF ReturnToNewImage, AllSyscalls
    <2>2. leader[t] = t \/ run[leader[t]].call = 0
      BY <1>2, <2>1, TypeFacts DEF ReturnToNewImage, Group, Tasks
    <2> QED  BY <1>2, <2>1, <2>2, TypeFacts DEF ReturnToNewImage, CallReturns
  <1> QED  BY <1>1, <1>2, ExitStepCases

(* Every step is quiet, the beginning of a call, or a return. *)
LEMMA StepKinds ==
  ASSUME TypeOK, Tasks, [Next]_vars
  PROVE  \/ Quiet
         \/ \E t \in Tids : NewCall(t)
         \/ \E t, k \in Tids, ok \in BOOLEAN : CallReturns(t, k, ok)
  <1>1. ASSUME UNCHANGED <<run, pending, log, ncalls, missed, excused>> PROVE Quiet
    BY <1>1, TypeFacts DEF Quiet, SameJoined, Joined
  <1>2. CASE \/ Attach \/ PutConfig \/ ReadRecord \/ UNCHANGED vars
             \/ \E t \in Tids : TaskExit(t)
    BY <1>1, <1>2 DEF Attach, PutConfig, ReadRecord, TaskExit, vars
  <1>3. CASE \E t \in Tids : EnterStep(t)
    BY <1>3, EnterNewCall
  <1>4. CASE \E t \in Tids : NewTask(t)
    BY <1>4, NewTaskNewCall
  <1>5. CASE \E t \in Tids : ExitStep(t)
    BY <1>5, ExitCallReturns
  <1>6. CASE trace_tcp_state \/ \E t \in Tids : trace_lsm_file_open(t)
    BY <1>6, TcpQuiet, LsmQuiet
  <1> QED  BY <1>2, <1>3, <1>4, <1>5, <1>6 DEF Next, KernelStep

(* No step leaves a call in a dead task, or a process without its first     *)
(* thread.                                                                  *)
LEMMA NextTasks ==
  ASSUME TypeOK, Tasks, [Next]_vars
  PROVE  Tasks'
  <1>1. ASSUME UNCHANGED <<run, alive, leader>> PROVE Tasks'
    BY <1>1 DEF Tasks
  <1>2. CASE \/ Attach \/ PutConfig \/ ReadRecord \/ trace_tcp_state \/ UNCHANGED vars
             \/ \E t \in Tids : trace_lsm_file_open(t)
    BY <1>1, <1>2 DEF Attach, PutConfig, ReadRecord, trace_tcp_state, trace_lsm_file_open, vars
  <1>3. ASSUME NEW t \in Tids, TaskExit(t) PROVE Tasks'
    <2>1. alive' = alive \ {t} /\ UNCHANGED <<run, leader>> /\ run[t].call = 0
      BY <1>3, TypeFacts DEF TaskExit
    <2>2. \A u \in alive' : leader[u] # t
      BY <1>3, <2>1 DEF TaskExit, Group, Tasks
    <2> QED  BY <2>1, <2>2 DEF Tasks
  <1>4. ASSUME NEW t \in Tids, EnterStep(t) PROVE Tasks'
    <2>0. PICK s \in Syscalls : \E save : Enter(t, s, save)
      BY <1>4, EnterStepCases
    <2>1. PICK save : Enter(t, s, save)
      BY <2>0
    <2>2. /\ t \in alive /\ UNCHANGED <<alive, leader>>
          /\ \A u \in Tids : u # t => run'[u] = run[u]
      BY <2>1, TypeFacts DEF Enter
    <2> QED  BY <2>2 DEF Tasks
  <1>5. ASSUME NEW t \in Tids, NewTask(t) PROVE Tasks'
    <2>1. PICK u \in Tids \ alive, l \in Tids :
            /\ l \in {u, leader[t]}
            /\ alive' = alive \cup {u}
            /\ leader' = [leader EXCEPT ![u] = l]
            /\ run' = [run EXCEPT ![t].ok = TRUE,
                                  ![u] = [call |-> ncalls + 1, sys |-> run[t].sys,
                                          ok |-> TRUE]]
      BY <1>5 DEF NewTask
    <2>2. run[t].call # 0 /\ t \in alive /\ u # t
      <3>1. run[t].sys \in AllSyscalls
        BY <1>5 DEF NewTask, AllSyscalls
      <3> QED  BY <3>1, <2>1, TypeFacts DEF Tasks
    <2>3. ASSUME NEW v \in Tids, run'[v].call # 0 PROVE v \in alive'
      <3>1. CASE v = u \/ v = t
        BY <2>1, <2>2, <3>1
      <3>2. CASE v # u /\ v # t
        BY <2>1, <2>3, <3>2, TypeFacts DEF Tasks
      <3> QED  BY <3>1, <3>2
    <2>4. ASSUME NEW v \in alive'
          PROVE  leader'[v] \in alive' /\ leader'[leader'[v]] = leader'[v]
      <3>1. \A w \in alive : leader[w] \in alive /\ leader[leader[w]] = leader[w] /\ w # u
        BY <2>1 DEF Tasks
      <3>2. leader'[u] = l /\ \A w \in alive : leader'[w] = leader[w]
        BY <2>1, <3>1, TypeFacts DEF TypeOK
      <3>3. CASE v = u
        BY <2>1, <2>2, <3>1, <3>2, <3>3
      <3>4. CASE v \in alive
        BY <2>1, <3>1, <3>2, <3>4
      <3> QED  BY <2>1, <3>3, <3>4
    <2> QED  BY <2>3, <2>4 DEF Tasks
  <1>6. ASSUME NEW t \in Tids, ExitStep(t) PROVE Tasks'
    <2>1. ASSUME NEW ok \in BOOLEAN, Return(t, AllSyscalls, ok) PROVE Tasks'
      <3>1. /\ UNCHANGED <<alive, leader>>
            /\ \A u \in Tids : run'[u].call = run[u].call \/ run'[u].call = 0
        BY <2>1, TypeFacts DEF Return
      <3> QED  BY <3>1 DEF Tasks
    <2>2. CASE ReturnToNewImage(t)
      <3>1. /\ alive' = (alive \ Group(t)) \cup {leader[t]} /\ leader' = leader
            /\ run' = [run EXCEPT ![t] = Idle]
            /\ \A u \in Group(t) \ {t} : run[u] = Idle
        BY <2>2 DEF ReturnToNewImage
      <3>2. t \in alive /\ leader[t] \in alive /\ leader[leader[t]] = leader[t]
        <4>1. run[t].sys \in AllSyscalls
          BY <2>2 DEF ReturnToNewImage, AllSyscalls
        <4> QED  BY <4>1, TypeFacts DEF Tasks
      <3>3. \A u \in Tids : run'[u].call # 0 => u \in alive'
        BY <3>1, <3>2, TypeFacts DEF Tasks, Group
      <3>4. \A u \in alive' : leader[u] \in alive' /\ leader[leader[u]] = leader[u]
        BY <3>1, <3>2 DEF Tasks, Group
      <3> QED  BY <3>1, <3>3, <3>4 DEF Tasks
    <2> QED  BY <1>6, <2>1, <2>2, ExitStepCases
  <1> QED  BY <1>2, <1>3, <1>4, <1>5, <1>6 DEF Next, KernelStep

IInv == TypeOK /\ Tasks /\ Core

(* The invariant holds before anything is attached. *)
LEMMA InitCore == Init => Tasks /\ Core
  <1> SUFFICES ASSUME Init PROVE Tasks /\ Core
    OBVIOUS
  <1>1. /\ Joined = {} /\ ncalls = 0 /\ missed = {}
        /\ \A t \in Tids : run[t].call = 0 /\ leader[t] = t
        /\ \A f \in Families, t \in Tids : pending[f][t] = 0
    BY IdleFacts DEF Init, Joined, NoCall
  <1>2. alive \subseteq Tids
    BY DEF Init
  <1> QED
    BY <1>1, <1>2
    DEF Tasks, Core, Numbered, PendingDistinct, Recorded, PendingIsInFlight,
        JoinsOneCallUnlessMissed, NoDuplicateRecord, NoCall

(* Every step keeps the core of the invariant. *)
LEMMA NextCore ==
  ASSUME TypeOK, Tasks, Core, [Next]_vars
  PROVE  Core'
  BY StepKinds, QuietCore, NewCallCore, ReturnCore

(* Types, facts about tasks, and the tie between entries, calls in flight and *)
(* records hold in every state.                                               *)
THEOREM Inductive == Spec => []IInv
  <1>1. Init => IInv
    BY InitTypeOK, InitCore DEF IInv
  <1>2. IInv /\ [Next]_vars => IInv'
    BY NextTypeOK, NextTasks, NextCore DEF IInv
  <1> QED  BY <1>1, <1>2, PTL DEF Spec

(* A pending map never keeps the arguments of a finished call, unless its   *)
(* return was missed.                                                       *)
THEOREM NoStaleEntry == Spec => []PendingIsInFlight
  <1>1. IInv => PendingIsInFlight
    BY DEF IInv, Core
  <1> QED  BY <1>1, Inductive, PTL

(* A record never joins two calls, unless the entry's return was missed.    *)
THEOREM JoinCorrect == Spec => []JoinsOneCallUnlessMissed
  <1>1. IInv => JoinsOneCallUnlessMissed
    BY DEF IInv, Core
  <1> QED  BY <1>1, Inductive, PTL

(* No call is reported twice. *)
THEOREM ReportedOnce == Spec => []NoDuplicateRecord
  <1>1. IInv => NoDuplicateRecord
    BY DEF IInv, Core
  <1> QED  BY <1>1, Inductive, PTL

-----------------------------------------------------------------------------
(* The order of the records of a thread. *)

Order == Earlier /\ OrderPerThread

(* A quiet step keeps the order of records. *)
LEMMA QuietOrder ==
  ASSUME TypeOK, Core, Order, Quiet
  PROVE  Order'
  <1>1. Earlier'
    BY DEF Order, Earlier, Quiet, SameJoined
  <1>2. OrderPerThread'
    BY DEF Order, OrderPerThread, Quiet, SameJoined
  <1> QED  BY <1>1, <1>2 DEF Order

(* A call that begins keeps it. *)
LEMMA NewCallOrder ==
  ASSUME TypeOK, Core, Order, NEW t \in Tids, NewCall(t)
  PROVE  Order'
  <1>1. \A i \in Joined : log[i].args \in 1..ncalls /\ ncalls \in Nat
    BY TypeFacts DEF Core, Recorded
  <1>2. Earlier'
    <2> SUFFICES ASSUME NEW i \in Joined, NEW u \in Tids, log[i].tid = u,
                        log[i].args \notin missed, run'[u].call # 0
                 PROVE  log[i].args < run'[u].call
      BY DEF Earlier, NewCall, SameJoined
    <2>1. CASE u = t
      BY <1>1, <2>1 DEF NewCall
    <2>2. CASE u # t
      BY <2>2 DEF NewCall, Order, Earlier
    <2> QED  BY <2>1, <2>2
  <1>3. OrderPerThread'
    BY DEF Order, OrderPerThread, NewCall, SameJoined
  <1> QED  BY <1>2, <1>3 DEF Order

(* The record of a call that returns comes after those of its thread. *)
LEMMA ReturnOrder ==
  ASSUME TypeOK, Core, Order, NEW t \in Tids, NEW k \in Tids, NEW ok \in BOOLEAN,
         CallReturns(t, k, ok)
  PROVE  Order'
  <1> DEFINE c == run[t].call
             f == Family(run[t].sys)
             a == pending[f][k]
             r == [kind |-> f, tid |-> k, args |-> a, res |-> c, ok |-> ok]
             n == Len(log) + 1
  <1>0. /\ f \in Families /\ r \in Records /\ a \in Nat
        /\ missed' = missed \/ missed' = missed \cup {c}
        /\ c \notin missed' => k = t
        /\ \/ /\ pending' = pending /\ log' = log
              /\ c \notin missed' => a = 0
           \/ /\ a # 0
              /\ pending' = [pending EXCEPT ![f][k] = 0]
              /\ (log' = log /\ c \in excused') \/ log' = Append(log, r)
        /\ ncalls' = ncalls /\ excused \subseteq excused'
    BY ReturnEffect
  <1>1. /\ f \in Families /\ r \in Records /\ missed \subseteq missed'
        /\ c \notin missed' => k = t
        /\ log' = log \/ (a # 0 /\ log' = Append(log, r))
    BY <1>0
  <1>2. /\ run'[t].call = 0
        /\ \A u \in Tids : u # t => run'[u].call = run[u].call
        /\ k = t \/ run[k].call = 0
        /\ c # 0
    BY TypeFacts DEF CallReturns
  <1>3. CASE log' = log
    <2>1. Joined' = Joined
      BY <1>3 DEF Joined
    <2>2. Earlier'
      BY <1>1, <1>2, <1>3, <2>1 DEF Order, Earlier
    <2>3. OrderPerThread'
      BY <1>1, <1>3, <2>1 DEF Order, OrderPerThread
    <2> QED  BY <2>2, <2>3 DEF Order
  <1>4. CASE a # 0 /\ log' = Append(log, r)
    <2>1. r.kind = f /\ r.args = a /\ r.res = c /\ r.tid = k
      OBVIOUS
    <2>2. /\ Joined' = Joined \cup {n}
          /\ \A i \in Joined : log'[i] = log[i] /\ i # n
          /\ log'[n].args = a /\ log'[n].tid = k
      <3> HIDE DEF r
      <3>1. /\ Joined' = Joined \cup {n}
            /\ \A i \in Joined : log'[i] = log[i] /\ i # n
            /\ log'[n] = r
        BY <1>1, <1>4, <2>1, JoinedAppend
      <3> QED  BY <2>1, <3>1
    <2>3. ASSUME a \notin missed' PROVE a = c /\ k = t
      BY <1>1, <1>4, <2>3 DEF Core, PendingIsInFlight, NoCall, CallReturns
    <2>4. Earlier'
      <3> SUFFICES ASSUME NEW i \in Joined', NEW u \in Tids, log'[i].tid = u,
                          log'[i].args \notin missed', run'[u].call # 0
                   PROVE  log'[i].args < run'[u].call
        BY DEF Earlier
      <3>1. CASE i \in Joined
        BY <1>1, <1>2, <2>2, <3>1 DEF Order, Earlier
      <3>2. CASE i = n
        BY <1>2, <2>2, <2>3, <3>2
      <3> QED  BY <2>2, <3>1, <3>2
    <2>5. OrderPerThread'
      <3> SUFFICES ASSUME NEW i \in Joined', NEW j \in Joined', i < j,
                          log'[i].tid = log'[j].tid,
                          log'[i].args \notin missed', log'[j].args \notin missed'
                   PROVE  log'[i].args < log'[j].args
        BY DEF OrderPerThread
      <3>1. CASE i \in Joined /\ j \in Joined
        BY <1>1, <2>2, <3>1 DEF Order, OrderPerThread
      <3>2. CASE i \in Joined /\ j = n
        BY <1>1, <1>2, <2>2, <2>3, <3>2 DEF Order, Earlier
      <3>3. CASE i = n
        BY <2>2, <3>3, TypeFacts
      <3> QED  BY <2>2, <3>1, <3>2, <3>3
    <2> QED  BY <2>4, <2>5 DEF Order
  <1> QED  BY <1>1, <1>3, <1>4

(* The records of a thread are in the order of the timestamps its enter     *)
(* programs took.                                                           *)
THEOREM InThreadOrder == Spec => []OrderPerThread
  <1>1. Init => Order
    BY DEF Init, Order, Earlier, OrderPerThread, Joined
  <1>2. IInv /\ Order /\ [Next]_vars => Order'
    BY StepKinds, QuietOrder, NewCallOrder, ReturnOrder DEF IInv
  <1>3. Order => OrderPerThread
    BY DEF Order
  <1> QED  BY <1>1, <1>2, <1>3, Inductive, PTL DEF Spec

-----------------------------------------------------------------------------
(* Nothing is lost without an excuse. *)

Lossless == Saved /\ NothingLostUnexcused

(* A call the log accounts for stays accounted for. *)
Reported(c) == \E i \in Joined : log[i].args = c /\ log[i].res = c

(* A quiet step loses no call. *)
LEMMA QuietLossless ==
  ASSUME TypeOK, Core, Lossless, Quiet
  PROVE  Lossless'
  <1>1. /\ \A t \in Tids : run'[t].call = run[t].call /\ run'[t].sys = run[t].sys
        /\ pending' = pending /\ missed' = missed /\ excused \subseteq excused'
        /\ ncalls' \in Nat /\ ncalls \in Nat
        /\ \A c \in 1..ncalls' : c \in 1..ncalls \/ c \in excused'
    <2>1. /\ \A t \in Tids : run'[t].call = run[t].call /\ run'[t].sys = run[t].sys
          /\ pending' = pending /\ missed' = missed /\ excused \subseteq excused'
          /\ ncalls' \in Nat /\ (ncalls + 1)..ncalls' \subseteq excused'
      BY DEF Quiet
    <2>2. ncalls \in Nat
      BY TypeFacts
    <2>3. \A c \in 1..ncalls' : c \in 1..ncalls \/ c \in (ncalls + 1)..ncalls'
      BY <2>1, <2>2
    <2> QED  BY <2>1, <2>2, <2>3
  <1>2. Saved'
    BY <1>1 DEF Lossless, Saved
  <1>3. ASSUME NEW c \in 1..ncalls'
        PROVE  c \in InFlight' \cup excused' \cup missed' \/ Reported(c)'
    <2>1. CASE c \in excused'
      BY <2>1
    <2>2. CASE c \in 1..ncalls
      <3>1. c \in InFlight => c \in InFlight'
        BY <1>1 DEF InFlight
      <3>2. Reported(c) => Reported(c)'
        BY DEF Reported, Quiet, SameJoined
      <3>3. c \in InFlight \cup excused \cup missed \/ Reported(c)
        BY <2>2 DEF Lossless, NothingLostUnexcused, Reported
      <3> QED  BY <1>1, <3>1, <3>2, <3>3
    <2> QED  BY <1>1, <2>1, <2>2
  <1>4. NothingLostUnexcused'
    BY <1>3 DEF NothingLostUnexcused, Reported
  <1> QED  BY <1>2, <1>4 DEF Lossless

(* A call that begins is in flight. *)
LEMMA NewCallLossless ==
  ASSUME TypeOK, Core, Lossless, NEW t \in Tids, NewCall(t)
  PROVE  Lossless'
  <1> DEFINE n == ncalls + 1
             f == Family(run'[t].sys)
  <1>1. /\ run[t].call = 0 /\ run'[t].call = n /\ ncalls' = n /\ ncalls \in Nat
        /\ \A u \in Tids \ {t} : run'[u].call = run[u].call /\ run'[u].sys = run[u].sys
        /\ missed' = missed /\ excused \subseteq excused' /\ f \in Families
    BY TypeFacts, FamilyType, CollectorAssumption DEF NewCall, CollectorAssumption
  <1>2. Saved'
    <2> SUFFICES ASSUME NEW u \in Tids, run'[u].call # 0
                 PROVE  \/ run'[u].call \in excused'
                        \/ pending'[Family(run'[u].sys)][u] = run'[u].call
      BY DEF Saved
    <2>1. CASE u = t
      <3>1. CASE pending' = [pending EXCEPT ![f][t] = n]
        BY <1>1, <2>1, <3>1, TypeFacts, PendingUpdate
      <3>2. CASE excused' = excused \cup {n}
        BY <1>1, <2>1, <3>2
      <3> QED  BY <3>1, <3>2 DEF NewCall
    <2>2. CASE u # t
      <3>1. run'[u].call = run[u].call /\ run'[u].sys = run[u].sys
        BY <1>1, <2>2
      <3>2. Family(run[u].sys) \in Families
        BY <3>1, TypeFacts, FamilyType, CollectorAssumption DEF CollectorAssumption
      <3>3. pending'[Family(run[u].sys)][u] = pending[Family(run[u].sys)][u]
        <4>1. CASE pending' = pending
          BY <4>1
        <4>2. CASE pending' = [pending EXCEPT ![f][t] = n]
          BY <1>1, <2>2, <3>2, <4>2, TypeFacts, PendingUpdate
        <4> QED  BY <4>1, <4>2 DEF NewCall
      <3> QED  BY <1>1, <3>1, <3>3 DEF Lossless, Saved
    <2> QED  BY <2>1, <2>2
  <1>3. ASSUME NEW c \in 1..ncalls'
        PROVE  c \in InFlight' \cup excused' \cup missed' \/ Reported(c)'
    <2>1. CASE c = n
      <3>1. n # 0
        BY <1>1
      <3> QED  BY <1>1, <2>1, <3>1 DEF InFlight, NoCall
    <2>2. CASE c \in 1..ncalls
      <3>1. c \in InFlight => c \in InFlight'
        BY <1>1 DEF InFlight, NoCall
      <3>2. Reported(c) => Reported(c)'
        BY DEF Reported, NewCall, SameJoined
      <3>3. c \in InFlight \cup excused \cup missed \/ Reported(c)
        BY <2>2 DEF Lossless, NothingLostUnexcused, Reported
      <3> QED  BY <1>1, <3>1, <3>2, <3>3
    <2> QED  BY <1>1, <2>1, <2>2
  <1>4. NothingLostUnexcused'
    BY <1>3 DEF NothingLostUnexcused, Reported
  <1> QED  BY <1>2, <1>4 DEF Lossless

(* A call that returns is reported, excused or missed. *)
LEMMA ReturnLossless ==
  ASSUME TypeOK, Core, Lossless, NEW t \in Tids, NEW k \in Tids, NEW ok \in BOOLEAN,
         CallReturns(t, k, ok)
  PROVE  Lossless'
  <1> DEFINE c == run[t].call
             f == Family(run[t].sys)
             a == pending[f][k]
             r == [kind |-> f, tid |-> k, args |-> a, res |-> c, ok |-> ok]
             n == Len(log) + 1
  <1>1. /\ f \in Families /\ r \in Records /\ a \in Nat
        /\ missed' = missed \/ missed' = missed \cup {c}
        /\ c \notin missed' => k = t
        /\ \/ /\ pending' = pending /\ log' = log
              /\ c \notin missed' => a = 0
           \/ /\ a # 0
              /\ pending' = [pending EXCEPT ![f][k] = 0]
              /\ (log' = log /\ c \in excused') \/ log' = Append(log, r)
        /\ ncalls' = ncalls /\ excused \subseteq excused'
    BY ReturnEffect
  <1>2. /\ run'[t].call = 0
        /\ \A u \in Tids : u # t => run'[u].call = run[u].call /\ run'[u].sys = run[u].sys
        /\ k = t \/ run[k].call = 0
        /\ c # 0 /\ c \in Nat
    BY TypeFacts DEF CallReturns
  <1>3. Saved'
    <2> SUFFICES ASSUME NEW u \in Tids, run'[u].call # 0
                 PROVE  \/ run'[u].call \in excused'
                        \/ pending'[Family(run'[u].sys)][u] = run'[u].call
      BY DEF Saved
    <2>1. u # t /\ u # k /\ run'[u].call = run[u].call /\ run'[u].sys = run[u].sys
      BY <1>2
    <2>2. Family(run[u].sys) \in Families
      BY <2>1, TypeFacts, FamilyType, CollectorAssumption DEF CollectorAssumption
    <2>3. pending'[Family(run[u].sys)][u] = pending[Family(run[u].sys)][u]
      BY <1>1, <2>1, <2>2, TypeFacts, PendingUpdate, SMTT(20)
    <2> QED  BY <1>1, <2>1, <2>3 DEF Lossless, Saved
  <1>4. /\ log' = log \/ log' = Append(log, r)
        /\ \A x : Reported(x) => Reported(x)'
        /\ \A x : log' = Append(log, r) /\ a = c /\ x = c => Reported(x)'
    <2>1. r.kind = f /\ r.args = a /\ r.res = c
      OBVIOUS
    <2>2. CASE log' = log
      <3>1. log # Append(log, r)
        <4> HIDE DEF r
        <4>1. Len(Append(log, r)) = Len(log) + 1 /\ Len(log) \in Nat
          BY <1>1, AppendFacts, TypeFacts
        <4> QED  BY <4>1
      <3> QED  BY <2>2, <3>1 DEF Reported, Joined
    <2>3. CASE log' = Append(log, r)
      <3> HIDE DEF r
      <3>1. /\ Joined' = Joined \cup {n}
            /\ \A i \in Joined : log'[i] = log[i]
            /\ log'[n] = r
        BY <1>1, <2>1, <2>3, JoinedAppend
      <3>2. ASSUME NEW x, Reported(x) PROVE Reported(x)'
        BY <3>1, <3>2 DEF Reported
      <3>3. ASSUME NEW x, a = c, x = c PROVE Reported(x)'
        BY <2>1, <3>1, <3>3 DEF Reported
      <3> QED  BY <2>3, <3>2, <3>3
    <2> QED  BY <1>1, <2>2, <2>3
  <1>5. ASSUME NEW x, x = c, x \notin excused', x \notin missed'
        PROVE  Reported(x)'
    <2>1. k = t /\ c \notin excused
      BY <1>1, <1>5
    <2>2. a = c
      BY <1>2, <2>1 DEF Lossless, Saved
    <2>3. log' = Append(log, r)
      BY <1>1, <1>2, <1>5, <2>2
    <2> QED  BY <1>4, <1>5, <2>2, <2>3
  <1>6. ASSUME NEW x \in 1..ncalls'
        PROVE  x \in InFlight' \cup excused' \cup missed' \/ Reported(x)'
    <2>1. CASE x = c
      BY <1>5, <2>1
    <2>2. CASE x # c
      <3>1. x \in InFlight => x \in InFlight'
        BY <1>2, <2>2 DEF InFlight, NoCall
      <3>2. x \in InFlight \cup excused \cup missed \/ Reported(x)
        BY <1>1 DEF Lossless, NothingLostUnexcused, Reported
      <3>3. missed \subseteq missed' /\ excused \subseteq excused'
        BY <1>1
      <3>4. Reported(x) => Reported(x)'
        BY <1>4
      <3> HIDE DEF c, f, a, r
      <3> QED  BY <3>1, <3>2, <3>3, <3>4
    <2> QED  BY <2>1, <2>2
  <1>7. NothingLostUnexcused'
    BY <1>6 DEF NothingLostUnexcused, Reported
  <1> QED  BY <1>3, <1>7 DEF Lossless

(* A call that returned is in the ring under its own arguments and result,  *)
(* or excused, or missed.                                                    *)
THEOREM Accounted == Spec => []NothingLostUnexcused
  <1>1. Init => Lossless
    <2> SUFFICES ASSUME Init PROVE Lossless
      OBVIOUS
    <2>1. ncalls = 0 /\ \A t \in Tids : run[t].call = 0
      BY IdleFacts DEF Init
    <2> QED  BY <2>1 DEF Lossless, Saved, NothingLostUnexcused
  <1>2. IInv /\ Lossless /\ [Next]_vars => Lossless'
    BY StepKinds, QuietLossless, NewCallLossless, ReturnLossless DEF IInv
  <1>3. Lossless => NothingLostUnexcused
    BY DEF Lossless
  <1> QED  BY <1>1, <1>2, <1>3, Inductive, PTL DEF Spec

=============================================================================
