---------------------------- MODULE EventPathsMC ----------------------------
(* Values of the constants of EventPaths for the model checker. *)
EXTENDS EventPaths

A == <<"/", "a">>
B == <<"/", "b">>
Socket == <<"/", "socket">>
TwoDirectories == {A, B}
InA == {A, Append(A, "x")}
=============================================================================
