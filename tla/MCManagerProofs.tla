------------------------- MODULE MCManagerProofs --------------------------
(* The decisions of a whole cycle, for snapshots and listings of any size. *)
EXTENDS MCManager, ManagerProofs

(* Every listing of docker ps and every snapshot, of any size, are settled *)
(* by one Decide and one DecideLaunches: each bucket ends exactly at its   *)
(* minimum, and no intruso is left (manager.go 105-168).                   *)
THEOREM CycleBalancesAlways == Spec => []CycleBalances
<1> DEFINE ListadoOK == managed \in [Listados -> Perfiles]
<1>1. Init => ListadoOK
  BY DEF Init
<1>2. ListadoOK /\ [Next]_vars => ListadoOK'
  BY DEF Next, Aparece, vars
<1>3. ListadoOK => CycleBalances
  <2> SUFFICES ASSUME ListadoOK, NEW d \in Decide(Metrics) PROVE
        \A cubo \in Cubos :
          LET quedan == Cardinality(Grupo(Metrics, cubo) \ ToSet(d))
              altas == {a \in ToSet(DecideLaunches(Metrics)) : a.perfil \in cubo}
          IN \/ altas = {} /\ quedan = Minimo(cubo)
             \/ \E a \in altas : altas = {a} /\ quedan + a.cantidad = Minimo(cubo)
    BY DEF CycleBalances
  <2> DEFINE n(c) == Cardinality(Grupo(Metrics, c))
             q(c) == Cardinality(Grupo(Metrics, c) \ ToSet(d))
             l(c) == {a \in ToSet(DecideLaunches(Metrics)) : a.perfil \in c}
             Bien(c) == \/ l(c) = {} /\ q(c) = Minimo(c)
                        \/ \E a \in l(c) : l(c) = {a} /\ q(c) + a.cantidad = Minimo(c)
  <2>1. IsFiniteSet(DOMAIN Metrics)
    <3>1. DOMAIN Metrics \subseteq Listados
      BY DEF Metrics, aggregate
    <3> QED
      BY <3>1, FS_Subset, MCManagerAssumption
  <2> HIDE DEF Metrics
  <2>2. \A c : n(c) \in Nat
    <3>1. \A c : Grupo(Metrics, c) \subseteq DOMAIN Metrics
      BY DEF Grupo
    <3> QED
      BY <2>1, <3>1, FS_Subset, FS_CardinalityType
  <2>3. ASSUME NEW c, NEW p, NEW m \in Nat, Minimo(c) = m,
               q(c) = IF n(c) > m THEN m ELSE n(c),
               l(c) = IF n(c) < m THEN {[perfil |-> p, cantidad |-> m - n(c)]} ELSE {}
        PROVE  Bien(c)
    <3> HIDE DEF n, q, l
    <3>1. n(c) \in Nat
      BY <2>2
    <3>2. CASE n(c) < m
      <4> DEFINE a == [perfil |-> p, cantidad |-> m - n(c)]
      <4>1. l(c) = {a} /\ q(c) = n(c) /\ a.cantidad = m - n(c)
        BY <2>3, <3>1, <3>2
      <4>2. q(c) + a.cantidad = Minimo(c) /\ a \in l(c) /\ l(c) = {a}
        BY <2>3, <3>1, <4>1
      <4> HIDE DEF a
      <4> QED
        BY <4>2
    <3>3. CASE ~(n(c) < m)
      BY <2>3, <3>1, <3>3
    <3> QED
      BY <3>2, <3>3
  <2>4. Bien(Alto)
    <3>1. q(Alto) = IF n(Alto) > MinAlto THEN MinAlto ELSE n(Alto)
      BY <2>1, DecideSparesMinimum
    <3>2. l(Alto) = IF n(Alto) < MinAlto
                    THEN {[perfil |-> "alto-cpu", cantidad |-> MinAlto - n(Alto)]} ELSE {}
      BY <2>1, LaunchesOfBucket
    <3>3. Minimo(Alto) = MinAlto
      BY DEF Minimo
    <3> HIDE DEF n, q, l, Bien
    <3> QED
      BY <2>3, <3>1, <3>2, <3>3, MinimosAssumption
  <2>5. Bien({"bajo"})
    <3>1. q({"bajo"}) = IF n({"bajo"}) > MinBajo THEN MinBajo ELSE n({"bajo"})
      BY <2>1, DecideSparesMinimum
    <3>2. l({"bajo"}) = IF n({"bajo"}) < MinBajo
                        THEN {[perfil |-> "bajo", cantidad |-> MinBajo - n({"bajo"})]} ELSE {}
      BY <2>1, LaunchesOfBucket
    <3>3. Minimo({"bajo"}) = MinBajo
      <4>1. {"bajo"} # Alto
        BY DEF Alto
      <4> QED
        BY <4>1 DEF Minimo
    <3> HIDE DEF n, q, l, Bien
    <3> QED
      BY <2>3, <3>1, <3>2, <3>3, MinimosAssumption
  <2>6. Bien({"intruso"})
    <3>1. Grupo(Metrics, {"intruso"}) \ ToSet(d) = {} /\ l({"intruso"}) = {}
      BY <2>1, DecideSparesMinimum, LaunchesOfBucket
    <3>2. Minimo({"intruso"}) = 0
      <4>1. {"intruso"} # Alto /\ {"intruso"} # {"bajo"}
        BY DEF Alto
      <4> QED
        BY <4>1 DEF Minimo
    <3>3. q({"intruso"}) = 0
      BY <3>1, FS_EmptySet
    <3> QED
      BY <3>1, <3>2, <3>3
  <2>7. \A cubo \in Cubos : Bien(cubo)
    <3> HIDE DEF Bien
    <3> QED
      BY <2>4, <2>5, <2>6 DEF Cubos
  <2> QED
    BY <2>7
<1> QED
  BY <1>1, <1>2, <1>3, PTL DEF Spec

(* The listing of docker ps is a function on the ids it may list, so the   *)
(* metrics are those of finitely many listed containers.                   *)
LEMMA ListadoAlways == Spec => [](managed \in [Listados -> Perfiles])
<1>1. Init => managed \in [Listados -> Perfiles]
  BY DEF Init
<1>2. managed \in [Listados -> Perfiles] /\ [Next]_vars => (managed \in [Listados -> Perfiles])'
  BY DEF Next, Aparece, vars
<1> QED
  BY <1>1, <1>2, PTL DEF Spec

(* The snapshots of this run have finitely many containers.                *)
LEMMA MetricsFinite ==
  ASSUME managed \in [Listados -> Perfiles]
  PROVE  DOMAIN Metrics \subseteq Listados /\ IsFiniteSet(DOMAIN Metrics)
<1>1. DOMAIN Metrics \subseteq Listados
  BY DEF Metrics, aggregate
<1> QED
  BY <1>1, FS_Subset, MCManagerAssumption

(* The lexicographic order on the three criteria is the less function      *)
(* handed to sort.Slice (manager.go 181-190).                              *)
LEMMA ConsumeMasIsAntes ==
  ASSUME NEW m, NEW n
  PROVE  ConsumeMas(m, n) <=> Antes(m, n)
<1>1. /\ Criterios(m)[1] = m.rss /\ Criterios(m)[2] = m.vsz /\ Criterios(m)[3] = m.cpu
      /\ Criterios(n)[1] = n.rss /\ Criterios(n)[2] = n.vsz /\ Criterios(n)[3] = n.cpu
  BY DEF Criterios
<1>2. 1..3 = {1, 2, 3} /\ 1..1 - 1 = {} /\ 1..2 - 1 = {1} /\ 1..3 - 1 = {1, 2}
  OBVIOUS
<1>3. ConsumeMas(m, n) <=>
        \/ m.rss > n.rss
        \/ m.vsz > n.vsz /\ m.rss = n.rss
        \/ m.cpu > n.cpu /\ m.rss = n.rss /\ m.vsz = n.vsz
  BY <1>1, <1>2 DEF ConsumeMas
<1> QED
  BY <1>3 DEF Antes

(* For every snapshot and listing, the victims of a bucket die from the    *)
(* heaviest down and none of them consumes less than a spared one          *)
(* (manager.go 170-199), whatever order the unstable sort leaves ties in.  *)
THEOREM HeaviestAlwaysFirst == Spec => []HeaviestFirst
<1>1. managed \in [Listados -> Perfiles] => HeaviestFirst
  <2> SUFFICES ASSUME managed \in [Listados -> Perfiles], NEW d \in Decide(Metrics),
                      NEW cubo \in Cubos \ {{"intruso"}}, NEW i \in DOMAIN d,
                      d[i] \in Grupo(Metrics, cubo),
                      NEW c \in Grupo(Metrics, cubo), c \notin {d[k] : k \in 1..i}
               PROVE  ~ConsumeMas(Metrics[c], Metrics[d[i]])
    BY DEF HeaviestFirst
  <2>1. IsFiniteSet(DOMAIN Metrics)
    BY MetricsFinite
  <2>2. cubo \in {Alto, {"bajo"}}
    BY DEF Cubos
  <2> HIDE DEF Metrics
  <2>3. i \in 1..Len(d)
    <3>1. d \in Seq(DOMAIN Metrics)
      BY <2>1, DecideSparesMinimum
    <3> QED
      BY <3>1, LenProperties
  <2>4. ~Antes(Metrics[c], Metrics[d[i]])
    BY <2>1, <2>2, <2>3, DecideHeaviestFirst
  <2> QED
    BY <2>4, ConsumeMasIsAntes
<1> QED
  BY <1>1, ListadoAlways, PTL

(* For every snapshot and listing, the PIDs that a decision signals are    *)
(* the lines correlated with a decided id, all of them and no other, and   *)
(* no container is decided twice (manager.go 26-35, 60-103).               *)
THEOREM WholeContainerAlways == Spec => []WholeContainer
<1>1. managed \in [Listados -> Perfiles] => WholeContainer
  <2> SUFFICES ASSUME managed \in [Listados -> Perfiles], NEW d \in Decide(Metrics)
               PROVE  /\ UNION {Metrics[c].pids : c \in ToSet(d)} =
                           {p.pid : p \in {q \in processes : q.cid \in ToSet(d)}}
                      /\ ToSet(d) \subseteq Listados
                      /\ Len(d) = Cardinality(ToSet(d))
    BY DEF WholeContainer
  <2>1. DOMAIN Metrics \subseteq Listados /\ IsFiniteSet(DOMAIN Metrics)
    BY MetricsFinite
  <2>2. d \in Seq(DOMAIN Metrics) /\ SinRepetir(d)
    BY <2>1, DecideSparesMinimum, DecideSinRepetir
  <2>3. ToSet(d) \subseteq DOMAIN Metrics
    BY <2>2 DEF ToSet
  <2>4. Len(d) = Cardinality(ToSet(d))
    BY <2>2, SinRepetirCardinality
  <2>5. \A c \in DOMAIN Metrics : Metrics[c].pids = {p.pid : p \in {q \in processes : q.cid = c}}
    BY DEF Metrics, aggregate
  <2> HIDE DEF Metrics
  <2>6. UNION {Metrics[c].pids : c \in ToSet(d)} =
          {p.pid : p \in {q \in processes : q.cid \in ToSet(d)}}
    BY <2>3, <2>5
  <2> QED
    BY <2>1, <2>3, <2>4, <2>6
<1> QED
  BY <1>1, ListadoAlways, PTL
=============================================================================
