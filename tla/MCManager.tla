----------------------------- MODULE MCManager -----------------------------
(***************************************************************************)
(* Model-checking harness for Manager: the state is one input of the       *)
(* cycle, a snapshot that grows one process line at a time over a fixed    *)
(* docker listing, and every invariant compares what the operators return  *)
(* with what a reader of the enunciado would ask of them.                  *)
(***************************************************************************)
EXTENDS Manager, TLC

CONSTANTS Listados,     \* container ids docker ps may list
          Ajeno,        \* a container of another project, never listed
          MaxProcesos   \* bound: process lines in a snapshot

ASSUME MCManagerAssumption == IsFiniteSet(Listados)

VARIABLES processes, managed
vars == <<processes, managed>>

Ids == Listados \cup {Ajeno, SinContenedor}
(* Enough metric values to reach every level of the tie-break.             *)
Consumos == {<<1, 1, 0>>, <<1, 1, 1>>, <<1, 2, 0>>, <<2, 1, 0>>}
Linea(pid, c, m) == [pid |-> pid, cid |-> c, rss |-> m[1], vsz |-> m[2], cpu |-> m[3]]

Init == processes = {} /\ managed \in [Listados -> Perfiles]

Aparece == /\ Cardinality(processes) < MaxProcesos
           /\ \E c \in Ids, m \in Consumos :
                processes' = processes \cup {Linea(Cardinality(processes) + 1, c, m)}
           /\ UNCHANGED managed

Next == Aparece
Spec == Init /\ [][Next]_vars
Simetria == Permutations(Listados)

Metrics == aggregate(processes, managed)
Cubos == {Alto, {"bajo"}, {"intruso"}}
Minimo(cubo) == IF cubo = Alto THEN MinAlto ELSE IF cubo = {"bajo"} THEN MinBajo ELSE 0

(* Applying to a bucket what Decide removes and what DecideLaunches adds   *)
(* leaves exactly its minimum (and no intruso): the two functions, which   *)
(* count the same snapshot separately, never prune and launch in the same  *)
(* bucket nor leave it off by one (manager.go Decide, DecideLaunches).     *)
CycleBalances ==
  \A d \in Decide(Metrics), cubo \in Cubos :
    LET quedan == Cardinality(Grupo(Metrics, cubo) \ ToSet(d))
        altas == {a \in ToSet(DecideLaunches(Metrics)) : a.perfil \in cubo}
    IN \/ altas = {} /\ quedan = Minimo(cubo)
       \/ \E a \in altas : altas = {a} /\ quedan + a.cantidad = Minimo(cubo)

(* RAM, then virtual memory, then CPU: the lexicographic order the         *)
(* enunciado asks for, on the sums of a container.                         *)
Criterios(m) == <<m.rss, m.vsz, m.cpu>>
ConsumeMas(m, n) ==
  \E k \in 1..3 : /\ Criterios(m)[k] > Criterios(n)[k]
                  /\ \A j \in 1..k - 1 : Criterios(m)[j] = Criterios(n)[j]

(* Among the containers of a bucket that are still there when one of them  *)
(* is killed, none consumes more: they die from the heaviest down and the  *)
(* spared ones are the lightest.  The order promised by pruneExcess        *)
(* survives the aggregation of several processes and ties on two of the    *)
(* three criteria.                                                         *)
HeaviestFirst ==
  \A d \in Decide(Metrics), cubo \in Cubos \ {{"intruso"}} :
    LET bucket == Grupo(Metrics, cubo)
    IN \A i \in DOMAIN d :
         d[i] \in bucket =>
           \A c \in bucket \ {d[k] : k \in 1..i} : ~ConsumeMas(Metrics[c], Metrics[d[i]])

(* Killing a decision touches every process line of that container and of  *)
(* no other: the PIDs of the decisions are, exactly, the lines correlated  *)
(* with a decided id, and none belongs to an unmanaged container or to the *)
(* host (the reason manager.go 26-35 gives for keeping ALL the PIDs).      *)
WholeContainer ==
  \A d \in Decide(Metrics) :
    LET pids == UNION {Metrics[c].pids : c \in ToSet(d)}
    IN /\ pids = {p.pid : p \in {q \in processes : q.cid \in ToSet(d)}}
       /\ ToSet(d) \subseteq Listados
       /\ Len(d) = Cardinality(ToSet(d))
=============================================================================
