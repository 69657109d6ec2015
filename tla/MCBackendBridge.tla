--------------------------- MODULE MCBackendBridge ---------------------------
(* Small instances of BackendBridge.                                        *)
EXTENDS BackendBridge, TLC

\* Every connection has a name of its own: the key is the connection.
OwnName == [c \in Conns |-> c]

\* Every connection has the same lower-case name.
SharedName == [c \in Conns |-> CHOOSE k \in Keys : TRUE]

ConnSymmetry == Permutations(Conns)
=============================================================================
