------------------------------ MODULE Manager ------------------------------
(***************************************************************************)
(* The decision core of the Proyecto 2 daemon: package manager of          *)
(* daemon-go.  Every operator is a pure function of one snapshot: the      *)
(* process lines of the kernel module, already correlated with container   *)
(* ids, and the listing of `docker ps`.                                    *)
(*                                                                         *)
(* A process is a record [pid, cid, rss, vsz, cpu]; cid is SinContenedor   *)
(* when the correlator found none.  A listing is a function from the ids   *)
(* of the running managed containers to their perfil.  The code iterates   *)
(* Go maps and sorts with the unstable sort.Slice, so an operator whose    *)
(* result depends on that order returns the SET of results it may give.    *)
(***************************************************************************)
EXTENDS Integers, FiniteSets, SequencesExt

CONSTANTS MinAlto,        \* MinAltoConsumo
          MinBajo,        \* MinBajoConsumo
          SinContenedor   \* the empty ContainerID

ASSUME MinimosAssumption == MinAlto \in Nat /\ MinBajo \in Nat

Alto == {"alto-ram", "alto-cpu"}
Perfiles == Alto \cup {"bajo", "intruso"}

(* ContainerMetrics of every listed container with a process in the        *)
(* snapshot; processes of other containers are skipped.  PIDs is a set:    *)
(* its order is that of the snapshot, which no decision reads.             *)
(* SoloPrincipal is the heuristic the comment at 26-35 rejects.            *)
SoloPrincipal(processes, managed) ==
  [c \in {p.cid : p \in processes} \cap DOMAIN managed |->
     LET p == CHOOSE q \in processes :
                q.cid = c /\ \A r \in processes : r.cid = c => q.pid <= r.pid
     IN [perfil |-> managed[c], rss |-> p.rss, vsz |-> p.vsz, cpu |-> p.cpu,
         pids |-> {p.pid}]]
aggregate(processes, managed) ==
  LET De(c) == {p \in processes : p.cid = c}
      ids == {p.cid : p \in processes} \ {SinContenedor}
  IN [c \in ids \cap DOMAIN managed |->
        [perfil |-> managed[c],
         rss    |-> MapThenSumSet(LAMBDA p : p.rss, De(c)),
         vsz    |-> MapThenSumSet(LAMBDA p : p.vsz, De(c)),
         cpu    |-> MapThenSumSet(LAMBDA p : p.cpu, De(c)),
         pids   |-> {p.pid : p \in De(c)}]]

Grupo(metrics, perfiles) == {c \in DOMAIN metrics : metrics[c].perfil \in perfiles}

(* The less function handed to sort.Slice: a goes before b.  AntesSinVsz   *)
(* is the mutant that forgets one tie-break.                               *)
AntesSinVsz(a, b) == a.rss > b.rss \/ (a.rss = b.rss /\ a.cpu > b.cpu)
Antes(a, b) == \/ a.rss > b.rss
               \/ a.rss = b.rss /\ a.vsz > b.vsz
               \/ a.rss = b.rss /\ a.vsz = b.vsz /\ a.cpu > b.cpu

(* Every order sort.Slice may leave the bucket in.                         *)
Ordenes(metrics, bucket) ==
  {s \in SetToSeqs(bucket) :
     \A i, j \in 1..Len(s) : i < j => ~Antes(metrics[s[j]], metrics[s[i]])}

(* The loop takes the head while more than minimo remain.  PodaUnaMas is   *)
(* the slip (< for <=) the runs must notice.                               *)
PodaUnaMas(metrics, bucket, minimo) ==
  {SubSeq(s, 1, IF minimo = 0 THEN Len(s) ELSE Len(s) - minimo + 1) :
     s \in Ordenes(metrics, bucket)}
pruneExcess(metrics, bucket, minimo) ==
  {SubSeq(s, 1, Len(s) - minimo) : s \in Ordenes(metrics, bucket)}

(* The containers to eliminate, in the order they are killed.              *)
Decide(metrics) ==
  {i \o a \o b : i \in SetToSeqs(Grupo(metrics, {"intruso"})),
                 a \in pruneExcess(metrics, Grupo(metrics, Alto), MinAlto),
                 b \in pruneExcess(metrics, Grupo(metrics, {"bajo"}), MinBajo)}

(* LaunchActions, the alto bucket first.                                   *)
DecideLaunches(metrics) ==
  LET Falta(perfil, grupo, minimo) ==
        LET n == Cardinality(Grupo(metrics, grupo))
        IN IF n < minimo THEN <<[perfil |-> perfil, cantidad |-> minimo - n]>>
                         ELSE <<>>
  IN Falta("alto-cpu", Alto, MinAlto) \o Falta("bajo", {"bajo"}, MinBajo)
=============================================================================
