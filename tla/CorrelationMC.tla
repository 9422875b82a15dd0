--------------------------- MODULE CorrelationMC ---------------------------
(* Values of the constants of Correlation for the model checker. *)
EXTENDS Correlation, TLC

CONSTANTS p1, p2, p3, failed

(* Any process that is not the first may take the part of any other. *)
Children == Permutations({p2, p3})

Call(name, kind, what) == [name |-> name, as |-> name, kind |-> kind, what |-> what]

(* What the programs of an installation do: the package manager opens the manifest
   and creates the process that runs a shell, which runs the script by its runtime. *)
InstallationCalls == {
    Call("npm", "touch", "package.json"),
    Call("npm", "clone", Unknown),
    Call("npm", "exec", "sh"),
    Call("sh", "exec", "node"),
    Call("node", "touch", "setup_bun.js")}

(* A thread of the shell that took the name of the package manager creates a process. *)
Titled == [Call("sh", "clone", Unknown) EXCEPT !.as = "npm"]

CallsOfThreads == InstallationCalls \cup {Titled}

(* Executions of a shell may go unreported: a path filter drops them. *)
ShellsUnseen == {<<"exec", "sh">>}

(* Each program is executed once and makes one process, so that three processes of two
   threads are few enough states. *)
Once == [w \in Workload |-> IF w.kind \in {"exec", "clone"} THEN 1 ELSE 2]
=============================================================================
