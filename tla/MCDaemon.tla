------------------------------ MODULE MCDaemon -----------------------------
(* Constants of the Daemon runs: which containers exist and their perfil.  *)
EXTENDS Daemon

CONSTANTS a1, a2, b1, b2, i1, i2

PerfilPoda == [c \in Container |-> CASE c \in {i1, i2} -> "intruso" [] c \in {b1, b2} -> "bajo"
                                         [] OTHER -> "alto-cpu"]
Simetria == UNION {Permutations(S) : S \in {Pid, {a1, a2}, {b1, b2}, {i1, i2}}}
=============================================================================
