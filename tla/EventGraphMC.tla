---------------------------- MODULE EventGraphMC ----------------------------
(* Values of the constants of EventGraph for the model checker. *)
EXTENDS EventGraph, Integers

(* Clones may be lost, and so may executions of a shell, which a path filter drops. *)
SomeLost == {<<"clone", Unknown>>, <<"exec", "sh">>}

(* Threads of the first program with a name of their own make calls of files. *)
NamedThreads == {w \in AllCalls : w.as = w.name \/ (w.name = FirstName /\ w.kind = "touch")}

(* What clone returns when it fails. *)
MinusOne == -1

(* Files are touched twice, so that it can be early and late, every other call is made once. *)
AFew == [w \in NamedThreads |-> IF w.kind = "touch" THEN 2 ELSE 1]
=============================================================================
