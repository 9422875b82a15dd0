----------------------------- MODULE CollectorMC -----------------------------
(* Values of the constants of Collector for the model checker. *)
EXTENDS Collector, TLC

CONSTANTS t1, t2

AllEvents == [enabled_events |-> Events, successful_events |-> {},
              open_write_only |-> FALSE]
(* The profile of the README: only calls that succeed, opens that modify. *)
OnlySuccess == [enabled_events |-> Events \ {"tcp", "lsm_file_open"},
                successful_events |-> Families, open_write_only |-> TRUE]

BothProfiles   == {AllEvents, OnlySuccess}
SyscallProfile == {[AllEvents EXCEPT !.enabled_events = Families]}

ThreadSyscalls  == {"execve", "clone", "openat"}
FamilySyscalls  == {"openat", "renameat2", "chmod", "unlinkat", "statx"}

AllAttached == Programs
(* The programs of openat are attached while calls run, in either order. *)
OpenLate == Programs \ ({"openat"} \X {"enter", "exit"})

Symmetry == Permutations(Tids)
=============================================================================
