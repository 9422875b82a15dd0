------------------------------ MODULE Collector ------------------------------
(***************************************************************************)
(* The kernel half of the detector: host/ebpf/collector.bpf.c.             *)
(*                                                                         *)
(* A system call is observed by two programs.  The one on sys_enter saves  *)
(* the arguments in the pending map of the call's family, under the id of  *)
(* the calling thread; the one on sys_exit takes that entry out, adds the  *)
(* result and submits one record to the ring buffer the agent reads.       *)
(*                                                                         *)
(* Data are abstracted to the number of the system call they come from: a  *)
(* pending entry is the number of the call whose arguments it holds, and a *)
(* record pairs the call its arguments come from with the call its result  *)
(* comes from.  Calls are numbered in the order they are entered, which is *)
(* the order of the timestamps the enter programs take.                    *)
(***************************************************************************)
EXTENDS Integers, Sequences, FiniteSets

CONSTANTS
  Tids,             \* thread ids the kernel may hand out, and hand out again
  Syscalls,         \* the traced system calls of this instance
  Configs,          \* the values the agent may Put into config_map
  AttachedAtStart,  \* programs attached before the first modelled call
  MapSize,          \* max_entries of each pending map
  RingSize,         \* records the ring buffer holds before reserve fails
  MaxCalls          \* bound: numbered kernel events in a behaviour

VARIABLES
  config,    \* the value in config_map
  attached,  \* programs attached so far
  alive,     \* thread ids in use
  leader,    \* thread id -> id of its process (the tgid)
  run,       \* thread id -> the system call it is in, or Idle
  pending,   \* family -> thread id -> call whose arguments are saved, or NoCall
  log,       \* every record submitted; the ring holds those after nread
  nread,     \* records the agent has taken out of the ring
  ncalls,    \* calls numbered so far
  missed,    \* history: calls whose return no exit program saw under their own id
  excused    \* history: calls the collector is configured, or forced, not to report

vars == <<config, attached, alive, leader, run, pending, log, nread, ncalls,
          missed, excused>>

NoCall == 0

(* The pending map a system call uses: one map per family of calls. *)
ExecveSyscalls == {"execve", "execveat"}
OpenSyscalls   == {"open", "openat", "openat2"}
RenameSyscalls == {"rename", "renameat", "renameat2"}
FchmodSyscalls == {"chmod", "fchmod", "fchmodat", "fchmodat2"}
UnlinkSyscalls == {"unlink", "unlinkat"}
CloneSyscalls  == {"clone", "clone3", "fork", "vfork"}
ProbeSyscalls  == {"statx", "newfstatat", "access", "faccessat", "faccessat2"}

AllSyscalls == UNION {ExecveSyscalls, OpenSyscalls, RenameSyscalls, FchmodSyscalls,
                      UnlinkSyscalls, CloneSyscalls, ProbeSyscalls}

Families == {"execve", "openat", "rename", "fchmod", "unlink", "clone", "file_probe"}
OneShots == {"tcp", "lsm_file_open"}
Events   == Families \cup OneShots

Family(s) == CASE s \in ExecveSyscalls -> "execve"
               [] s \in OpenSyscalls   -> "openat"
               [] s \in RenameSyscalls -> "rename"
               [] s \in FchmodSyscalls -> "fchmod"
               [] s \in UnlinkSyscalls -> "unlink"
               [] s \in CloneSyscalls  -> "clone"
               [] OTHER                -> "file_probe"

Programs == (Syscalls \X {"enter", "exit"}) \cup (OneShots \X {"event"})

ConfigType == [enabled_events : SUBSET Events, successful_events : SUBSET Events,
               open_write_only : BOOLEAN]

ASSUME CollectorAssumption ==
  /\ IsFiniteSet(Tids)
  /\ Syscalls \subseteq AllSyscalls
  /\ Configs \subseteq ConfigType
  /\ AttachedAtStart \subseteq Programs
  /\ MapSize \in Nat \ {0}
  /\ RingSize \in Nat \ {0}
  /\ MaxCalls \in Nat

Idle    == [call |-> NoCall, sys |-> "none", ok |-> FALSE]
RunType == {Idle} \cup [call : Nat \ {0}, sys : Syscalls, ok : BOOLEAN]
Records == [kind : Events, tid : Tids, args : Nat, res : Nat, ok : BOOLEAN]

Group(t) == {u \in alive : leader[u] = leader[t]}

Init ==
  /\ config \in Configs
  /\ attached = AttachedAtStart
  /\ alive \in SUBSET Tids \ {{}}   \* processes of one thread each
  /\ leader = [t \in Tids |-> t]
  /\ run = [t \in Tids |-> Idle]
  /\ pending = [f \in Families |-> [t \in Tids |-> NoCall]]
  /\ log = <<>>
  /\ nread = 0
  /\ ncalls = 0
  /\ missed = {}
  /\ excused = {}

-----------------------------------------------------------------------------
(* Map and ring operations. *)

event_enabled(e)   == e \in config.enabled_events
successful_only(e) == e \in config.successful_events

(* The keys of a pending map are thread ids.  Bug: process ids. *)
ProcessKey(t) == leader[t]
PendingKey(t) == t

(* The keys of family f that have an entry in the pending maps p. *)
Busy(p, f) == {u \in Tids : p[f][u] # NoCall}

(* bpf_map_update_elem: a full hash map refuses a new key. *)
HasRoom(f, k) == \/ pending[f][k] # NoCall
                 \/ Cardinality(Busy(pending, f)) < MapSize

(* BPF_ANY: an entry the key still has is overwritten.  Bug: BPF_NOEXIST. *)
KeepOldEntry(f, k, c) == IF pending[f][k] # NoCall THEN pending
                         ELSE [pending EXCEPT ![f][k] = c]
StoreEntry(f, k, c) == [pending EXCEPT ![f][k] = c]

(* bpf_ringbuf_reserve returns NULL when the ring is full.  Bug: one late. *)
RingFullLate == Len(log) - nread > RingSize
RingFull     == Len(log) - nread >= RingSize

(* The exit program deletes the entry it found, on every path.  Bugs: the  *)
(* deletion is forgotten; the chmod exit program deletes from the map of    *)
(* the open calls it was copied from.                                       *)
ForgetDelete(f, k)   == pending
WrongMapDelete(f, k) == [pending EXCEPT ![IF f = "fchmod" THEN "openat" ELSE f][k] = NoCall]
DeleteEntry(f, k)    == [pending EXCEPT ![f][k] = NoCall]

-----------------------------------------------------------------------------
(* System call entry.  save: the condition under which the enter program   *)
(* reaches its map update.                                                  *)

Enter(t, s, save) ==
  LET c      == ncalls + 1
      f      == Family(s)
      k      == PendingKey(t)
      stored == <<s, "enter">> \in attached /\ save /\ HasRoom(f, k)
  IN /\ t \in alive /\ run[t] = Idle /\ ncalls < MaxCalls
     /\ ncalls' = c
     /\ run' = [run EXCEPT ![t] = [call |-> c, sys |-> s, ok |-> FALSE]]
     /\ pending' = IF stored THEN StoreEntry(f, k, c) ELSE pending
     /\ excused' = IF stored THEN excused ELSE excused \cup {c}
     /\ UNCHANGED <<config, attached, alive, leader, log, nread, missed>>

(* How bpf_probe_read_user finds the user pointers of a call: readable,    *)
(* not resident or invalid (the call itself may still succeed), or NULL.    *)
Pointers == {"ok", "unreadable", "null"}

save_execve_event(t) ==
  \E s \in Syscalls \cap ExecveSyscalls, p \in Pointers :
    Enter(t, s, event_enabled("execve") /\ p = "ok")

save_open_event(t) ==
  \E s \in Syscalls \cap OpenSyscalls, p \in Pointers, modifies \in BOOLEAN :
    Enter(t, s, /\ event_enabled("openat")
                /\ config.open_write_only => modifies
                /\ p = "ok")

save_rename_event(t) ==
  \E s \in Syscalls \cap RenameSyscalls, p \in Pointers :
    Enter(t, s, event_enabled("rename") /\ p # "null")

save_fchmod_event(t) ==
  \E s \in Syscalls \cap FchmodSyscalls : Enter(t, s, event_enabled("fchmod"))

save_unlink_event(t) ==
  \E s \in Syscalls \cap UnlinkSyscalls : Enter(t, s, event_enabled("unlink"))

save_clone_event(t) ==
  \E s \in Syscalls \cap CloneSyscalls, p \in Pointers :
    Enter(t, s, event_enabled("clone") /\ (s = "clone3" => p # "null"))

save_file_probe_event(t) ==
  \E s \in Syscalls \cap ProbeSyscalls, p \in Pointers :
    Enter(t, s, event_enabled("file_probe") /\ p = "ok")

-----------------------------------------------------------------------------
(* System call return.  The exit program runs under thread id t, for a call *)
(* of number c entered under id t0 (t0 # t only when execve changed it).    *)

ExitProgram(s, t0, t, c, ok) ==
  LET f      == Family(s)
      k      == PendingKey(t)
      args   == pending[f][k]
      seen   == <<s, "exit">> \in attached
      report == ~ (successful_only(f) /\ ~ ok) /\ ~ RingFull
  IN /\ IF seen /\ args # NoCall
          THEN /\ pending' = DeleteEntry(f, k)
               /\ log' = IF report
                           THEN Append(log, [kind |-> f, tid |-> t, args |-> args,
                                             res |-> c, ok |-> ok])
                           ELSE log
          ELSE UNCHANGED <<pending, log>>
     /\ missed' = IF seen /\ t = t0 THEN missed ELSE missed \cup {c}
     /\ excused' = IF seen /\ report THEN excused ELSE excused \cup {c}
     /\ UNCHANGED <<config, attached, nread, ncalls>>

(* A return that leaves the thread its id. *)
Return(t, S, ok) ==
  /\ run[t].sys \in S
  /\ run' = [run EXCEPT ![t] = Idle]
  /\ ExitProgram(run[t].sys, t, t, run[t].call, ok)
  /\ UNCHANGED <<alive, leader>>

(* A successful execve kills the other threads of the process, and the     *)
(* thread that made the call goes on under the id of the process: its exit  *)
(* program looks that id up.                                                *)
ReturnToNewImage(t) ==
  /\ run[t].sys \in ExecveSyscalls
  /\ \A u \in Group(t) \ {t} : run[u] = Idle
  /\ ExitProgram(run[t].sys, t, leader[t], run[t].call, TRUE)
  /\ run' = [run EXCEPT ![t] = Idle]
  /\ alive' = (alive \ Group(t)) \cup {leader[t]}
  /\ UNCHANGED leader

save_execve_event_exit(t) == Return(t, ExecveSyscalls, FALSE) \/ ReturnToNewImage(t)
save_open_event_exit(t)       == \E ok \in BOOLEAN : Return(t, OpenSyscalls, ok)
save_rename_event_exit(t)     == \E ok \in BOOLEAN : Return(t, RenameSyscalls, ok)
save_fchmod_event_exit(t)     == \E ok \in BOOLEAN : Return(t, FchmodSyscalls, ok)
save_unlink_event_exit(t)     == \E ok \in BOOLEAN : Return(t, UnlinkSyscalls, ok)
save_file_probe_event_exit(t) == \E ok \in BOOLEAN : Return(t, ProbeSyscalls, ok)

(* The call succeeded iff it made a task; the new task returns from the    *)
(* same system call, with result 0 and under its own thread id.             *)
save_clone_event_exit(t) == Return(t, CloneSyscalls, run[t].ok)

-----------------------------------------------------------------------------
(* Events observed at one point. *)

Submit(kind, t, c, ok) ==
  log' = IF RingFull THEN log
         ELSE Append(log, [kind |-> kind, tid |-> t, args |-> c, res |-> c, ok |-> ok])

(* A connection reaches ESTABLISHED.  header.tid and header.res are not    *)
(* written: they hold what the ring buffer held there before.               *)
trace_tcp_state ==
  \E tid \in Tids, ok \in BOOLEAN :
    /\ ncalls < MaxCalls
    /\ <<"tcp", "event">> \in attached /\ event_enabled("tcp")
    /\ ncalls' = ncalls + 1
    /\ Submit("tcp", tid, ncalls + 1, ok)
    /\ excused' = excused \cup {ncalls + 1}
    /\ UNCHANGED <<config, attached, alive, leader, run, pending, nread, missed>>

(* The file_open hook runs inside a call that opens a file, and submits    *)
(* unless the flags of the file or bpf_d_path stop it; bound: once for each *)
(* call.                                                                    *)
trace_lsm_file_open(t) ==
  /\ run[t].sys \in OpenSyscalls \cup ExecveSyscalls
  /\ ~ \E i \in DOMAIN log : log[i].kind = "lsm_file_open" /\ log[i].args = run[t].call
  /\ <<"lsm_file_open", "event">> \in attached /\ event_enabled("lsm_file_open")
  /\ Submit("lsm_file_open", t, run[t].call, TRUE)
  /\ UNCHANGED <<config, attached, alive, leader, run, pending, nread, ncalls,
                 missed, excused>>

-----------------------------------------------------------------------------
(* The agent, as far as the collector sees it, and the kernel. *)

(* attachPrograms attaches the programs one by one, in map order. *)
Attach ==
  /\ \E p \in Programs \ attached : attached' = attached \cup {p}
  /\ UNCHANGED <<config, alive, leader, run, pending, log, nread, ncalls, missed, excused>>

(* configMap.Put, by main before it attaches and by watchConfig after. *)
PutConfig ==
  /\ config' \in Configs \ {config}
  /\ UNCHANGED <<attached, alive, leader, run, pending, log, nread, ncalls, missed, excused>>

(* reader.Read takes the oldest record. *)
ReadRecord ==
  /\ nread < Len(log)
  /\ nread' = nread + 1
  /\ UNCHANGED <<config, attached, alive, leader, run, pending, log, ncalls, missed, excused>>

(* A clone makes its task before it returns: a thread or a process with a  *)
(* thread id that is free, perhaps used before.  The new task begins in    *)
(* the return from the call, which it did not enter.                        *)
NewTask(t) ==
  /\ run[t].sys \in CloneSyscalls /\ ~ run[t].ok /\ ncalls < MaxCalls
  /\ \E u \in Tids \ alive, l \in Tids :
       /\ l \in {u, leader[t]}
       /\ alive' = alive \cup {u}
       /\ leader' = [leader EXCEPT ![u] = l]
       /\ run' = [run EXCEPT ![t].ok = TRUE,
                             ![u] = [call |-> ncalls + 1, sys |-> run[t].sys, ok |-> TRUE]]
  /\ ncalls' = ncalls + 1
  /\ excused' = excused \cup {ncalls + 1}
  /\ UNCHANGED <<config, attached, pending, log, nread, missed>>

(* A thread ends between system calls; the first thread of a process ends   *)
(* last. *)
TaskExit(t) ==
  /\ t \in alive /\ run[t] = Idle
  /\ t = leader[t] => Group(t) = {t}
  /\ alive' = alive \ {t}
  /\ UNCHANGED <<config, attached, leader, run, pending, log, nread, ncalls,
                 missed, excused>>

EnterStep(t) ==
  \/ save_execve_event(t) \/ save_open_event(t) \/ save_rename_event(t)
  \/ save_fchmod_event(t) \/ save_unlink_event(t) \/ save_clone_event(t)
  \/ save_file_probe_event(t)

ExitStep(t) ==
  \/ save_execve_event_exit(t) \/ save_open_event_exit(t) \/ save_rename_event_exit(t)
  \/ save_fchmod_event_exit(t) \/ save_unlink_event_exit(t) \/ save_clone_event_exit(t)
  \/ save_file_probe_event_exit(t)

KernelStep(t) == NewTask(t) \/ TaskExit(t)

Next ==
  \/ \E t \in Tids : EnterStep(t) \/ ExitStep(t) \/ trace_lsm_file_open(t) \/ KernelStep(t)
  \/ trace_tcp_state \/ Attach \/ PutConfig \/ ReadRecord

Spec == Init /\ [][Next]_vars

-----------------------------------------------------------------------------
(* Properties.  Joined: the records made of an entry and of a return. *)

Joined   == {i \in DOMAIN log : log[i].kind \in Families}
InFlight == {run[t].call : t \in Tids} \ {NoCall}

(* The state has its types, and neither the ring nor a pending map holds    *)
(* more than its capacity.                                                  *)
TypeOK ==
  /\ config \in Configs
  /\ attached \subseteq Programs
  /\ alive \subseteq Tids
  /\ leader \in [Tids -> Tids]
  /\ run \in [Tids -> RunType]
  /\ pending \in [Families -> [Tids -> Nat]]
  /\ log \in Seq(Records)
  /\ nread \in 0..Len(log)
  /\ ncalls \in 0..MaxCalls
  /\ missed \subseteq Nat
  /\ excused \subseteq Nat
  /\ Len(log) - nread <= RingSize
  /\ \A f \in Families : Cardinality(Busy(pending, f)) <= MapSize

(* An entry of a pending map holds the arguments of the call its thread is  *)
(* in now, unless no exit program saw that call return: a map never keeps   *)
(* the arguments of a finished call its exit program ran for, whichever     *)
(* path the program took (filtered, ring full, submitted).                  *)
PendingIsInFlight ==
  \A f \in Families, t \in Tids :
    pending[f][t] # NoCall =>
      \/ run[t].call = pending[f][t] /\ Family(run[t].sys) = f
      \/ pending[f][t] \in missed

(* A record joins the arguments and the result of one call, except where    *)
(* the arguments are those of a call whose return was missed: threads that  *)
(* run at the same time, thread ids used again and calls filtered at entry  *)
(* never mix two calls in a record.                                         *)
JoinsOneCallUnlessMissed ==
  \A i \in Joined : log[i].args = log[i].res \/ log[i].args \in missed

(* No call is reported twice: neither its arguments nor its result are in   *)
(* two records.                                                             *)
NoDuplicateRecord ==
  \A i, j \in Joined :
    i # j => log[i].args # log[j].args /\ log[i].res # log[j].res

(* The records of a thread reach the ring in the order of the timestamps    *)
(* its enter programs took, although the seven maps are independent.        *)
OrderPerThread ==
  \A i, j \in Joined :
    (/\ i < j /\ log[i].tid = log[j].tid
     /\ log[i].args \notin missed /\ log[j].args \notin missed)
      => log[i].args < log[j].args

(* A call that returned is in the ring, under its own arguments and result, *)
(* unless the collector was configured or forced (a filter, a pointer, a     *)
(* full map, a full ring) not to report it or its return was missed.        *)
NothingLostUnexcused ==
  \A c \in 1..ncalls :
    \/ c \in InFlight \cup excused \cup missed
    \/ \E i \in Joined : log[i].args = c /\ log[i].res = c

(* README.md:49: execve and execveat are reported: every call that returned *)
(* and that nothing excuses is in the ring.                                 *)
EveryCallReported ==
  \A c \in 1..ncalls :
    \/ c \in InFlight \cup excused
    \/ \E i \in Joined : log[i].args = c /\ log[i].res = c
=============================================================================
