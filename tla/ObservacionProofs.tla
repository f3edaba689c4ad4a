------------------------- MODULE ObservacionProofs --------------------------
(***************************************************************************)
(* What the observing half of the cycle guarantees for any number of       *)
(* processes, containers, lines of a command and cycles.                   *)
(***************************************************************************)
EXTENDS Observacion, ManagerProofs

----------------------------------------------------------------------------
(* The task list.                                                          *)
EnLista == vivas \cup {Raiz}

HostType ==
  /\ nacidas \in 0..N /\ vivas \subseteq 1..nacidas /\ libres \subseteq 1..nacidas \ vivas
  /\ sig \in [0..N -> 0..N] /\ testigos \subseteq vivas
(* The pointer of a task, of one that left the list too, goes forward and  *)
(* jumps over no task that is on the list.                                 *)
SinSaltos ==
  \A t \in 0..nacidas :
    /\ sig[t] \in 0..nacidas
    /\ sig[t] # Raiz => t < sig[t] /\ \A u \in vivas : t < u => sig[t] <= u
(* The tasks on the list form a ring through its head.                     *)
Anillo ==
  \A t \in EnLista : /\ sig[t] \in EnLista
                     /\ \A u \in vivas : t < u => sig[t] # Raiz
                     /\ \E p \in EnLista : sig[p] = t
MainAlive == \A t \in vivas : duenno[t] # SinContenedor => principal(duenno[t]) \in vivas
HostOK == HostType /\ SinSaltos /\ Anillo /\ MainAlive

(* The main process of a container is the oldest of its processes.         *)
LEMMA PrincipalEsMinimo ==
  ASSUME NEW t \in Tarea
  PROVE  /\ principal(duenno[t]) \in De(duenno[t])
         /\ \A u \in De(duenno[t]) : principal(duenno[t]) <= u
<1>1. De(duenno[t]) \in SUBSET Nat /\ De(duenno[t]) # {}
  <2>1. Tarea \subseteq Nat
    BY SnapshotAssumption DEF Tarea
  <2>2. t \in De(duenno[t]) /\ De(duenno[t]) \subseteq Tarea
    BY DEF De
  <2> QED
    BY <2>1, <2>2
<1>2. \E m \in De(duenno[t]) : \A k \in De(duenno[t]) : m <= k
  BY <1>1, MinimoNatural
<1> QED
  BY <1>2 DEF principal

(* The task before another on the list.                                    *)
LEMMA AnteriorEnLista ==
  ASSUME HostOK, NEW t \in EnLista
  PROVE  /\ Anterior(t) \in EnLista /\ sig[Anterior(t)] = t
         /\ \A q \in EnLista : sig[q] = t => q = Anterior(t)
<1>1. Anterior(t) \in EnLista /\ sig[Anterior(t)] = t
  <2>1. \E u \in vivas \cup {Raiz} : sig[u] = t
    BY DEF HostOK, Anillo, EnLista
  <2> QED
    BY <2>1 DEF Anterior, EnLista
<1>2. ASSUME NEW p \in EnLista, NEW q \in EnLista, sig[p] = t, sig[q] = t, p < q PROVE FALSE
  <2>1. p \in 0..nacidas /\ q \in 0..nacidas /\ q \in vivas /\ t \in 0..nacidas
    BY <1>2 DEF HostOK, HostType, EnLista, Raiz
  <2>2. t # Raiz /\ t <= q
    BY <1>2, <2>1 DEF HostOK, SinSaltos, Anillo
  <2>3. q < t
    BY <1>2, <2>1, <2>2 DEF HostOK, SinSaltos
  <2> QED
    BY <2>1, <2>2, <2>3
<1>3. \A q \in EnLista : q \in Int
  BY DEF HostOK, HostType, EnLista, Raiz
<1> QED
  BY <1>1, <1>2, <1>3

(* fork.                                                                   *)
LEMMA NaceHost == ASSUME HostOK, Nace PROVE HostOK'
<1> DEFINE p == Anterior(Raiz)
<1>1. PICK t : t = nacidas + 1
  OBVIOUS
<1>2. /\ nacidas \in 0..N /\ vivas \subseteq 1..nacidas /\ libres \subseteq 1..nacidas
      /\ sig \in [0..N -> 0..N] /\ N \in Nat /\ t \in 1..N
  <2>1. /\ nacidas \in 0..N /\ vivas \subseteq 1..nacidas /\ libres \subseteq 1..nacidas
        /\ sig \in [0..N -> 0..N]
    BY DEF HostOK, HostType
  <2>2. N \in Nat /\ nacidas < N
    BY SnapshotAssumption DEF Nace
  <2> QED
    BY <1>1, <2>1, <2>2
<1>3. p \in EnLista /\ sig[p] = Raiz
  BY AnteriorEnLista DEF EnLista
<1>4. /\ nacidas' = t /\ vivas' = vivas \cup {t} /\ libres' = libres /\ testigos' = testigos
      /\ sig' = [sig EXCEPT ![p] = t, ![t] = Raiz]
  BY <1>1 DEF Nace
<1> HIDE DEF p
<1>5. p \in 0..nacidas /\ t \notin 0..nacidas /\ 0..nacidas \subseteq 0..N /\ t # Raiz
  BY <1>1, <1>2, <1>3 DEF EnLista, Raiz
<1>6. /\ sig' \in [0..N -> 0..N] /\ sig'[p] = t /\ sig'[t] = Raiz
      /\ \A x \in 0..nacidas : x # p => sig'[x] = sig[x]
  <2>1. p \in 0..N /\ t \in 0..N /\ Raiz \in 0..N /\ p # t /\ \A x \in 0..nacidas : x \in 0..N /\ x # t
    BY <1>2, <1>5 DEF Raiz
  <2> QED
    BY <1>2, <1>4, <2>1
<1>7. \A x \in 0..nacidas' : x \in 0..nacidas \/ x = t
  BY <1>1, <1>2, <1>4
<1>8. \A u \in vivas : ~(p < u)
  BY <1>3 DEF HostOK, Anillo
<1>9. HostType'
  <2>1. libres \subseteq 1..nacidas \ vivas /\ testigos \subseteq vivas
    BY DEF HostOK, HostType
  <2>2. t \in 0..N /\ 1..nacidas \subseteq 1..t /\ t \in 1..t /\ t \notin 1..nacidas
    BY <1>1, <1>2
  <2>3. vivas' \subseteq 1..nacidas'
    BY <1>2, <1>4, <2>2
  <2>4. libres' \subseteq 1..nacidas' \ vivas'
    BY <1>4, <2>1, <2>2
  <2>5. testigos' \subseteq vivas'
    BY <1>4, <2>1
  <2> QED
    BY <1>4, <1>6, <2>2, <2>3, <2>4, <2>5 DEF HostType
<1>10. SinSaltos'
  <2> SUFFICES ASSUME NEW x \in 0..nacidas'
               PROVE  /\ sig'[x] \in 0..nacidas'
                      /\ sig'[x] # Raiz => x < sig'[x] /\ \A u \in vivas' : x < u => sig'[x] <= u
    BY DEF SinSaltos
  <2>1. CASE x = p
    <3>1. sig'[x] = t /\ x < t /\ t \in 0..nacidas'
      <4>1. t \in Nat /\ nacidas' = t /\ p \in 0..nacidas /\ nacidas \in Nat /\ nacidas < t
        BY <1>1, <1>2, <1>4, <1>5
      <4> QED
        BY <1>6, <2>1, <4>1
    <3>2. \A u \in vivas' : x < u => t <= u
      BY <1>2, <1>4, <1>8, <2>1
    <3> QED
      BY <3>1, <3>2
  <2>2. CASE x = t
    BY <1>1, <1>2, <1>4, <1>6, <2>2 DEF Raiz
  <2>3. CASE x \in 0..nacidas /\ x # p
    <3>1. sig'[x] = sig[x] /\ sig[x] \in 0..nacidas
      BY <1>6, <2>3 DEF HostOK, SinSaltos
    <3>2. sig[x] # Raiz => x < sig[x] /\ \A u \in vivas : x < u => sig[x] <= u
      BY <2>3 DEF HostOK, SinSaltos
    <3>3. sig[x] \in 0..nacidas' /\ sig[x] <= t
      <4>1. nacidas \in Nat /\ t = nacidas + 1 /\ nacidas' = t
        BY <1>1, <1>2, <1>4
      <4> QED
        BY <3>1, <4>1
    <3> QED
      BY <1>4, <3>1, <3>2, <3>3
  <2> QED
    BY <1>7, <2>1, <2>2, <2>3
<1>11. Anillo'
  <2> SUFFICES ASSUME NEW x \in EnLista'
               PROVE  /\ sig'[x] \in EnLista'
                      /\ \A u \in vivas' : x < u => sig'[x] # Raiz
                      /\ \E q \in EnLista' : sig'[q] = x
    BY DEF Anillo
  <2>1. EnLista' = EnLista \cup {t} /\ Raiz \in EnLista /\ EnLista \subseteq 0..nacidas
    BY <1>2, <1>4 DEF EnLista, Raiz
  <2>2. CASE x = t
    <3>1. sig'[x] = Raiz /\ p \in EnLista' /\ sig'[p] = x
      BY <1>3, <1>6, <2>1, <2>2
    <3>2. \A u \in vivas' : ~(x < u)
      BY <1>1, <1>2, <1>4, <2>2
    <3> QED
      BY <2>1, <3>1, <3>2
  <2>3. CASE x \in EnLista
    <3>1. sig'[x] \in EnLista'
      BY <1>6, <2>1, <2>3 DEF HostOK, Anillo
    <3>2. ASSUME NEW u \in vivas', x < u PROVE sig'[x] # Raiz
      <4>1. CASE x = p
        BY <1>5, <1>6, <4>1
      <4>2. CASE x # p
        <5>1. sig'[x] = sig[x]
          BY <1>6, <2>1, <2>3, <4>2
        <5>2. sig[x] # Raiz
          BY <2>1, <2>3, <4>2, AnteriorEnLista DEF p
        <5> QED
          BY <5>1, <5>2
      <4> QED
        BY <4>1, <4>2
    <3>3. \E q \in EnLista' : sig'[q] = x
      <4>1. CASE x = Raiz
        BY <1>6, <2>1, <4>1
      <4>2. CASE x # Raiz
        <5>1. PICK q \in EnLista : sig[q] = x
          BY <2>3 DEF HostOK, Anillo
        <5>2. q # p /\ sig'[q] = x
          BY <1>3, <1>6, <2>1, <4>2, <5>1
        <5> QED
          BY <2>1, <5>2
      <4> QED
        BY <4>1, <4>2
    <3> QED
      BY <3>1, <3>2, <3>3
  <2> QED
    BY <2>1, <2>2, <2>3
<1>12. MainAlive'
  <2> SUFFICES ASSUME NEW x \in vivas', duenno[x] # SinContenedor
               PROVE  principal(duenno[x]) \in vivas'
    BY DEF MainAlive
  <2>1. CASE x = t
    BY <1>1, <1>4, <2>1 DEF Nace, EsPrincipal
  <2>2. CASE x \in vivas
    BY <1>4, <2>2 DEF HostOK, MainAlive
  <2> QED
    BY <1>4, <2>1, <2>2
<1> QED
  BY <1>9, <1>10, <1>11, <1>12 DEF HostOK

(* exit.                                                                   *)
LEMMA MuereHost == ASSUME HostOK, NEW t \in Tarea, Muere(t) PROVE HostOK'
<1> DEFINE p == Anterior(t)
<1>1. /\ nacidas \in 0..N /\ vivas \subseteq 1..nacidas /\ libres \subseteq 1..nacidas \ vivas
      /\ sig \in [0..N -> 0..N] /\ N \in Nat /\ t \in vivas /\ t # Raiz
  <2>1. HostType /\ N \in Nat /\ t \in vivas
    BY SnapshotAssumption DEF HostOK, Muere
  <2>2. t # Raiz
    BY <2>1 DEF HostType, Raiz
  <2> QED
    BY <2>1, <2>2 DEF HostType
<1>2. EnLista \subseteq 0..nacidas /\ 0..nacidas \subseteq 0..N /\ t \in EnLista
  BY <1>1 DEF EnLista, Raiz
<1>3. p \in EnLista /\ sig[p] = t /\ \A q \in EnLista : sig[q] = t => q = p
  BY <1>2, AnteriorEnLista
<1>4. /\ nacidas' = nacidas /\ vivas' = vivas \ {t} /\ libres' = libres
      /\ testigos' = testigos \ {t} /\ sig' = [sig EXCEPT ![p] = sig[t]]
  BY DEF Muere
<1> HIDE DEF p
<1>5. p \in 0..nacidas /\ p < t
  BY <1>1, <1>2, <1>3 DEF HostOK, SinSaltos
<1>6. /\ sig' \in [0..N -> 0..N] /\ sig'[p] = sig[t]
      /\ \A x \in 0..nacidas : x # p => sig'[x] = sig[x]
  BY <1>1, <1>2, <1>4, <1>5
<1>7. EnLista' = EnLista \ {t} /\ p \in EnLista'
  BY <1>1, <1>3, <1>4, <1>5 DEF EnLista, Raiz
<1>8. sig[t] \in EnLista /\ sig[t] # t /\ \A u \in vivas : t < u => sig[t] # Raiz /\ sig[t] <= u
  <2>1. sig[t] \in EnLista /\ \A u \in vivas : t < u => sig[t] # Raiz
    BY <1>2 DEF HostOK, Anillo
  <2>2. t \in 0..nacidas /\ \A u \in vivas : t < u => sig[t] <= u
    BY <1>2, <2>1 DEF HostOK, SinSaltos
  <2>3. sig[t] # t
    BY <1>1, <2>2 DEF HostOK, SinSaltos
  <2> QED
    BY <2>1, <2>2, <2>3
<1>9. HostType'
  BY <1>1, <1>4, <1>6 DEF HostOK, HostType
<1>10. \A u \in vivas' : u \in vivas /\ (p < u => t < u)
  <2>1. \A u \in vivas : p < u => t <= u
    BY <1>1, <1>3, <1>5 DEF HostOK, SinSaltos
  <2> QED
    BY <1>1, <1>4, <2>1
<1>11. SinSaltos'
  <2> SUFFICES ASSUME NEW x \in 0..nacidas
               PROVE  /\ sig'[x] \in 0..nacidas
                      /\ sig'[x] # Raiz => x < sig'[x] /\ \A u \in vivas' : x < u => sig'[x] <= u
    BY <1>4 DEF SinSaltos
  <2>1. CASE x = p
    <3>1. sig'[x] = sig[t] /\ t \in 0..nacidas
      BY <1>2, <1>6, <2>1
    <3>2. sig[t] \in 0..nacidas /\ (sig[t] # Raiz => t < sig[t])
      BY <3>1 DEF HostOK, SinSaltos
    <3>3. ASSUME sig[t] # Raiz PROVE x < sig[t] /\ \A u \in vivas' : x < u => sig[t] <= u
      <4>1. x < sig[t]
        BY <1>1, <1>5, <2>1, <3>2, <3>3
      <4> QED
        BY <1>8, <1>10, <2>1, <4>1
    <3> QED
      BY <2>1, <3>1, <3>2, <3>3
  <2>2. CASE x # p
    <3>1. /\ sig[x] \in 0..nacidas
          /\ sig[x] # Raiz => x < sig[x] /\ \A u \in vivas : x < u => sig[x] <= u
      BY DEF HostOK, SinSaltos
    <3> QED
      BY <1>6, <1>10, <2>2, <3>1
  <2> QED
    BY <2>1, <2>2
<1>12. Anillo'
  <2> SUFFICES ASSUME NEW x \in EnLista'
               PROVE  /\ sig'[x] \in EnLista'
                      /\ \A u \in vivas' : x < u => sig'[x] # Raiz
                      /\ \E q \in EnLista' : sig'[q] = x
    BY DEF Anillo
  <2>1. x \in EnLista /\ x # t /\ x \in 0..nacidas
    BY <1>2, <1>7
  <2>2. /\ sig'[x] \in EnLista'
        /\ \A u \in vivas' : x < u => sig'[x] # Raiz
    <3>1. CASE x = p
      BY <1>6, <1>7, <1>8, <1>10, <3>1
    <3>2. CASE x # p
      <4>1. sig'[x] = sig[x] /\ sig[x] \in EnLista /\ sig[x] # t
        BY <1>3, <1>6, <2>1, <3>2 DEF HostOK, Anillo
      <4> QED
        BY <1>7, <1>10, <2>1, <4>1 DEF HostOK, Anillo
    <3> QED
      BY <3>1, <3>2
  <2>3. \E q \in EnLista' : sig'[q] = x
    <3>1. PICK q \in EnLista : sig[q] = x
      BY <2>1 DEF HostOK, Anillo
    <3>2. CASE q = t
      BY <1>6, <1>7, <3>1, <3>2
    <3>3. CASE q # t
      <4>1. q # p /\ q \in 0..nacidas
        BY <1>2, <1>3, <2>1, <3>1
      <4> QED
        BY <1>6, <1>7, <3>1, <3>3, <4>1
    <3> QED
      BY <3>2, <3>3
  <2> QED
    BY <2>2, <2>3
<1>13. MainAlive'
  <2> SUFFICES ASSUME NEW x \in vivas', duenno[x] # SinContenedor
               PROVE  principal(duenno[x]) \in vivas'
    BY DEF MainAlive
  <2>1. principal(duenno[x]) \in vivas /\ x \in vivas /\ x # t
    BY <1>4 DEF HostOK, MainAlive
  <2>2. CASE principal(duenno[x]) = t
    <3>1. x \in Tarea /\ t \in De(duenno[x])
      BY <1>1, <2>1, <2>2, PrincipalEsMinimo DEF Tarea
    <3>2. EsPrincipal(t) /\ x \in De(duenno[t])
      BY <2>2, <3>1 DEF De, EsPrincipal
    <3> QED
      BY <2>1, <3>2 DEF Muere
  <2> QED
    BY <1>4, <2>1, <2>2
<1> QED
  BY <1>9, <1>11, <1>12, <1>13 DEF HostOK

(* What the walk forgets at its end: the tasks that left the list.         *)
LEMMA OlvidaHost == ASSUME HostOK, Olvida, UNCHANGED testigos PROVE HostOK'
<1>1. /\ nacidas' = nacidas /\ vivas' = vivas /\ libres' = {} /\ EnLista' = EnLista
      /\ nacidas \in 0..N /\ N \in Nat
  BY SnapshotAssumption DEF Olvida, EnLista, HostOK, HostType
<1>2. /\ sig' \in [0..N -> 0..N]
      /\ \A t \in 0..nacidas : sig'[t] = IF t \in EnLista THEN sig[t] ELSE Raiz
  BY <1>1 DEF Olvida, EnLista, HostOK, HostType, Raiz
<1>3. EnLista \subseteq 0..nacidas
  BY DEF EnLista, HostOK, HostType, Raiz
<1>4. HostType'
  BY <1>1, <1>2 DEF HostOK, HostType
<1>5. SinSaltos'
  <2> SUFFICES ASSUME NEW t \in 0..nacidas
               PROVE  /\ sig'[t] \in 0..nacidas
                      /\ sig'[t] # Raiz => t < sig'[t] /\ \A u \in vivas : t < u => sig'[t] <= u
    BY <1>1 DEF SinSaltos
  <2>1. sig'[t] \in {sig[t], Raiz} /\ Raiz \in 0..nacidas
    BY <1>1, <1>2 DEF Raiz
  <2> QED
    BY <2>1 DEF HostOK, SinSaltos
<1>6. Anillo'
  BY <1>1, <1>2, <1>3 DEF HostOK, Anillo
<1>7. MainAlive'
  BY <1>1 DEF HostOK, MainAlive
<1> QED
  BY <1>4, <1>5, <1>6, <1>7 DEF HostOK

(* A step that leaves the list alone.                                      *)
LEMMA QuietoHost ==
  ASSUME HostOK, nacidas' = nacidas, vivas' = vivas, sig' = sig,
         libres' \subseteq 1..nacidas \ vivas, testigos' \subseteq vivas
  PROVE  HostOK'
<1>1. HostType'
  BY DEF HostOK, HostType
<1>2. SinSaltos'
  BY DEF HostOK, SinSaltos
<1>3. Anillo'
  BY DEF HostOK, Anillo, EnLista
<1>4. MainAlive'
  BY DEF HostOK, MainAlive
<1> QED
  BY <1>1, <1>2, <1>3, <1>4 DEF HostOK

(* The steps that change the list, or what was freed, or the witnesses.    *)
LEMMA PasosHost ==
  ASSUME [Next]_vars
  PROVE  \/ Nace \/ (\E t \in Tarea : Muere(t) \/ Libera(t))
         \/ Olvida /\ UNCHANGED testigos
         \/ UNCHANGED host /\ testigos' \in {testigos, vivas, {}}
<1>1. CASE Host
  BY <1>1 DEF Host, Kernel
<1>2. CASE Empieza
  BY <1>2 DEF Empieza, Abre
<1>3. CASE Lee
  BY <1>3 DEF Lee, Avanza, Salta, Imprime, ReadSnapshot, Attach
<1>4. CASE Correla
  BY <1>4 DEF Correla, Adjuntado
<1>5. CASE Guarda
  BY <1>5 DEF Guarda
<1>6. CASE ListManaged
  BY <1>6 DEF ListManaged
<1>7. CASE ListFalla
  BY <1>7 DEF ListFalla, Fin
<1>8. CASE RankRAM
  BY <1>8 DEF RankRAM, foto
<1>9. CASE RankCPU
  BY <1>9 DEF RankCPU, foto
<1>10. CASE RankFalla
  BY <1>10 DEF RankFalla, foto
<1>11. CASE Rankeado
  BY <1>11 DEF Rankeado
<1>12. CASE Elimina
  BY <1>12 DEF Elimina, Fin
<1>13. CASE UNCHANGED vars
  BY <1>13 DEF vars, foto
<1> QED
  BY <1>1, <1>2, <1>3, <1>4, <1>5, <1>6, <1>7, <1>8, <1>9, <1>10, <1>11, <1>12, <1>13 DEF Next

(* The list is a ring of living tasks at every moment.                     *)
LEMMA HostAlways == Spec => []HostOK
<1>1. Init => HostOK
  <2> SUFFICES ASSUME Init PROVE HostOK
    OBVIOUS
  <2>1. /\ nacidas = 0 /\ vivas = {} /\ libres = {} /\ testigos = {} /\ EnLista = {0}
        /\ sig \in [0..N -> 0..N] /\ sig[0] = 0 /\ N \in Nat
    BY SnapshotAssumption DEF Init, InitFoto, Raiz, EnLista
  <2>2. HostType
    BY <2>1 DEF HostType
  <2>3. SinSaltos
    BY <2>1 DEF SinSaltos, Raiz
  <2>4. Anillo
    BY <2>1 DEF Anillo
  <2>5. MainAlive
    BY <2>1 DEF MainAlive
  <2> QED
    BY <2>2, <2>3, <2>4, <2>5 DEF HostOK
<1>2. HostOK /\ [Next]_vars => HostOK'
  <2> SUFFICES ASSUME HostOK, [Next]_vars PROVE HostOK'
    OBVIOUS
  <2>1. CASE Nace
    BY <2>1, NaceHost
  <2>2. ASSUME NEW t \in Tarea, Muere(t) PROVE HostOK'
    BY <2>2, MuereHost
  <2>3. ASSUME NEW t \in Tarea, Libera(t) PROVE HostOK'
    <3>1. /\ nacidas' = nacidas /\ vivas' = vivas /\ sig' = sig /\ testigos' = testigos
          /\ libres' \subseteq 1..nacidas \ vivas
      BY <2>3 DEF Libera, HostOK, HostType
    <3> QED
      BY <3>1, QuietoHost DEF HostOK, HostType
  <2>4. CASE Olvida /\ UNCHANGED testigos
    BY <2>4, OlvidaHost
  <2>5. CASE UNCHANGED host /\ testigos' \in {testigos, vivas, {}}
    <3>1. testigos' \subseteq vivas /\ libres' \subseteq 1..nacidas \ vivas
      BY <2>5 DEF HostOK, HostType, host
    <3> QED
      BY <2>5, <3>1, QuietoHost DEF host
  <2> QED
    BY <2>1, <2>2, <2>3, <2>4, <2>5, PasosHost
<1> QED
  BY <1>1, <1>2, PTL DEF Spec
----------------------------------------------------------------------------
(* The walk of continfo_show.                                              *)
Linea == [tarea : Tarea, rss : Nat]
Impresas == {salida[i].tarea : i \in DOMAIN salida}
(* Where the walk can get from here: never past a witness.                 *)
Alcance(X) ==
  /\ EnLista \subseteq X /\ cursor \in X
  /\ \A t \in X : sig[t] \in X /\ \A u \in testigos : t < u => sig[t] # Raiz
CursorOK == fase \in {"avanza", "imprime"} => \E X \in SUBSET (0..nacidas) : Alcance(X)
LineasOK ==
  /\ salida \in Seq(Linea)
  /\ \A i, j \in DOMAIN salida : i < j => salida[i].tarea < salida[j].tarea
  /\ Impresas \subseteq 1..nacidas
(* Nothing on the list was left out below the last line printed.           *)
SinHuecos == \A t \in Impresas, u \in vivas : u < t => u \in Impresas
AvanzaOK ==
  fase = "avanza" => /\ \A t \in Impresas : t <= cursor
                     /\ \A u \in vivas : u <= cursor => u \in Impresas
ImprimeOK ==
  fase = "imprime" => /\ cursor # Raiz /\ \A t \in Impresas : t < cursor
                      /\ \A u \in vivas : u < cursor => u \in Impresas
ReposoOK == fase = "reposo" => salida = <<>> /\ cursor = Raiz /\ testigos = {}
RecorridoOK == fase \in {"parsea", "adjunta", "guarda"} => testigos \subseteq Impresas
WalkOK == /\ fase \in Fases /\ CursorOK /\ LineasOK /\ SinHuecos /\ AvanzaOK /\ ImprimeOK
          /\ ReposoOK /\ RecorridoOK /\ FreedOnlyAfterExit

(* A fork adds a task at the end of the list, ahead of the walk.           *)
LEMMA NaceWalk ==
  ASSUME HostOK, WalkOK, Nace, fase # "indefinido" PROVE WalkOK'
<1> DEFINE p == Anterior(Raiz)
<1>1. PICK t : t = nacidas + 1
  OBVIOUS
<1>2. /\ nacidas \in 0..N /\ vivas \subseteq 1..nacidas /\ N \in Nat /\ t \in 1..N
      /\ sig \in [0..N -> 0..N] /\ testigos \subseteq vivas
  <2>1. HostType /\ N \in Nat /\ nacidas < N
    BY SnapshotAssumption DEF HostOK, Nace
  <2>2. nacidas \in 0..N /\ t \in 1..N
    BY <1>1, <2>1 DEF HostType
  <2> QED
    BY <2>1, <2>2 DEF HostType
<1>3. /\ nacidas' = t /\ vivas' = vivas \cup {t} /\ libres' = libres /\ testigos' = testigos
      /\ sig' = [sig EXCEPT ![p] = t, ![t] = Raiz]
      /\ fase' = fase /\ cursor' = cursor /\ salida' = salida
  BY <1>1 DEF Nace, lector
<1>4. p \in EnLista /\ sig[p] = Raiz
  BY AnteriorEnLista DEF EnLista
<1> HIDE DEF p
<1>5. EnLista \subseteq 0..nacidas /\ EnLista' = EnLista \cup {t} /\ Impresas' = Impresas
  <2>1. \A x \in 1..nacidas : x \in 0..nacidas
    BY <1>2
  <2>2. EnLista \subseteq 0..nacidas
    BY <1>2, <2>1 DEF EnLista, Raiz
  <2>3. EnLista' = EnLista \cup {t}
    BY <1>3, Zenon DEF EnLista
  <2>4. Impresas' = Impresas
    BY <1>3 DEF Impresas
  <2> QED
    BY <2>2, <2>3, <2>4
<1>6. /\ p \in 0..N /\ t \in 0..N /\ p # t /\ t \notin 0..nacidas /\ 0..nacidas' = 0..nacidas \cup {t}
      /\ 1..nacidas' = 1..nacidas \cup {t} /\ 0..nacidas \subseteq 0..N
  <2>1. p \in 0..nacidas
    BY <1>4, <1>5
  <2>2. nacidas' = nacidas + 1 /\ t = nacidas + 1
    BY <1>1, <1>3
  <2>3. ASSUME NEW n \in Nat PROVE 0..n+1 = (0..n) \cup {n + 1} /\ 1..n+1 = (1..n) \cup {n + 1}
    OBVIOUS
  <2>4. 0..nacidas' = 0..nacidas \cup {t} /\ 1..nacidas' = 1..nacidas \cup {t}
    <3>1. nacidas \in Nat
      BY <1>2
    <3> QED
      BY <2>2, <2>3, <3>1
  <2> QED
    BY <1>1, <1>2, <2>1, <2>4
<1>7. /\ sig'[p] = t /\ sig'[t] = Raiz
      /\ \A x \in 0..nacidas : x # p => sig'[x] = sig[x]
  BY <1>2, <1>3, <1>6
<1>8. CursorOK'
  <2> SUFFICES ASSUME fase \in {"avanza", "imprime"}
               PROVE  \E X \in SUBSET (0..nacidas') : Alcance(X)'
    BY <1>3 DEF CursorOK
  <2>1. PICK X \in SUBSET (0..nacidas) : Alcance(X)
    BY DEF WalkOK, CursorOK
  <2> DEFINE Y == X \cup {t}
  <2>2. Y \in SUBSET (0..nacidas') /\ EnLista' \subseteq Y /\ cursor' \in Y
    BY <1>3, <1>5, <1>6, <2>1 DEF Alcance
  <2>3. ASSUME NEW x \in Y PROVE sig'[x] \in Y /\ \A u \in testigos' : x < u => sig'[x] # Raiz
    <3>1. CASE x = t
      <4>1. sig'[x] \in Y
        BY <1>4, <1>7, <2>1, <3>1 DEF Alcance, EnLista
      <4>2. \A u \in testigos' : ~(x < u)
        BY <1>1, <1>2, <1>3, <3>1
      <4> QED
        BY <4>1, <4>2
    <3>2. CASE x = p
      BY <1>1, <1>2, <1>7, <3>2 DEF Raiz
    <3>3. CASE x \in X /\ x # p
      <4>1. sig'[x] = sig[x]
        BY <1>7, <3>3
      <4> QED
        BY <1>3, <2>1, <3>3, <4>1 DEF Alcance
    <3> QED
      BY <3>1, <3>2, <3>3
  <2> HIDE DEF Y
  <2> QED
    BY <2>2, <2>3 DEF Alcance
<1>9. LineasOK'
  <2>1. salida \in Seq(Linea) /\ Impresas \subseteq 1..nacidas
    BY DEF WalkOK, LineasOK
  <2>2. \A i, j \in DOMAIN salida : i < j => salida[i].tarea < salida[j].tarea
    BY DEF WalkOK, LineasOK
  <2> QED
    BY <1>3, <1>5, <1>6, <2>1, <2>2 DEF LineasOK
<1>10. \A x \in Impresas : x \in 1..nacidas /\ ~(t < x)
  BY <1>1, <1>2 DEF WalkOK, LineasOK
<1>11. SinHuecos'
  BY <1>3, <1>5, <1>10 DEF WalkOK, SinHuecos
<1>12. fase \in {"avanza", "imprime"} => cursor \in 0..nacidas /\ ~(t <= cursor)
  <2> SUFFICES ASSUME fase \in {"avanza", "imprime"}
               PROVE  cursor \in 0..nacidas /\ ~(t <= cursor)
    OBVIOUS
  <2>1. cursor \in 0..nacidas
    BY DEF WalkOK, CursorOK, Alcance
  <2> QED
    BY <1>1, <1>2, <2>1
<1>13. AvanzaOK' /\ ImprimeOK'
  <2>1. AvanzaOK'
    BY <1>3, <1>5, <1>12 DEF WalkOK, AvanzaOK
  <2>2. fase = "imprime" => ~(t < cursor)
    BY <1>2, <1>12
  <2>3. ImprimeOK'
    BY <1>3, <1>5, <2>2 DEF WalkOK, ImprimeOK
  <2> QED
    BY <2>1, <2>3
<1>14. ReposoOK' /\ RecorridoOK' /\ FreedOnlyAfterExit' /\ fase' \in Fases
  BY <1>3, <1>5 DEF WalkOK, ReposoOK, RecorridoOK, FreedOnlyAfterExit
<1> QED
  BY <1>8, <1>9, <1>11, <1>13, <1>14 DEF WalkOK

(* A task that ends is unlinked, and keeps its pointer for the walk to     *)
(* leave by.                                                               *)
LEMMA MuereWalk ==
  ASSUME HostOK, WalkOK, NEW t \in Tarea, Muere(t), fase # "indefinido" PROVE WalkOK'
<1> DEFINE p == Anterior(t)
<1>1. /\ nacidas \in 0..N /\ vivas \subseteq 1..nacidas /\ sig \in [0..N -> 0..N] /\ N \in Nat
      /\ t \in vivas /\ testigos \subseteq vivas
  BY SnapshotAssumption DEF HostOK, HostType, Muere
<1>2. /\ nacidas' = nacidas /\ vivas' = vivas \ {t} /\ libres' = libres
      /\ testigos' = testigos \ {t} /\ sig' = [sig EXCEPT ![p] = sig[t]]
      /\ fase' = fase /\ cursor' = cursor /\ salida' = salida
  BY DEF Muere, lector
<1>3. EnLista' \subseteq EnLista /\ Impresas' = Impresas /\ EnLista \subseteq 0..nacidas
  BY <1>1, <1>2 DEF EnLista, Impresas, Raiz
<1>4. p \in EnLista /\ sig[p] = t /\ t \in EnLista
  BY <1>1, AnteriorEnLista DEF EnLista
<1>5. t # Raiz /\ t \in 0..nacidas /\ 0..nacidas \subseteq 0..N
  BY <1>1 DEF Raiz
<1> HIDE DEF p
<1>6. p \in 0..nacidas /\ sig'[p] = sig[t] /\ \A x \in 0..nacidas : x # p => sig'[x] = sig[x]
  BY <1>1, <1>2, <1>3, <1>4, <1>5
<1>7. \A u \in vivas' : p < u => t < u
  <2>1. \A u \in vivas : p < u => t <= u
    BY <1>4, <1>5, <1>6 DEF HostOK, SinSaltos
  <2> QED
    BY <1>1, <1>2, <2>1
<1>8. CursorOK'
  <2> SUFFICES ASSUME fase \in {"avanza", "imprime"}
               PROVE  \E X \in SUBSET (0..nacidas') : Alcance(X)'
    BY <1>2 DEF CursorOK
  <2>1. PICK X \in SUBSET (0..nacidas) : Alcance(X)
    BY DEF WalkOK, CursorOK
  <2>2. EnLista' \subseteq X /\ cursor' \in X /\ t \in X
    BY <1>2, <1>3, <1>4, <2>1 DEF Alcance
  <2>3. ASSUME NEW x \in X PROVE sig'[x] \in X /\ \A u \in testigos' : x < u => sig'[x] # Raiz
    <3>1. CASE x = p
      <4>1. sig'[x] = sig[t] /\ sig[t] \in X /\ \A u \in testigos : t < u => sig[t] # Raiz
        BY <1>6, <2>1, <2>2, <3>1 DEF Alcance
      <4>2. \A u \in testigos' : u \in testigos /\ u \in vivas'
        BY <1>1, <1>2
      <4> QED
        BY <1>7, <3>1, <4>1, <4>2
    <3>2. CASE x # p
      <4>1. sig'[x] = sig[x]
        BY <1>6, <3>2
      <4> QED
        BY <1>2, <2>1, <4>1 DEF Alcance
    <3> QED
      BY <3>1, <3>2
  <2> QED
    BY <1>2, <2>2, <2>3 DEF Alcance
<1>9. LineasOK' /\ SinHuecos' /\ AvanzaOK' /\ ImprimeOK'
  <2>1. LineasOK'
    BY <1>2, <1>3 DEF WalkOK, LineasOK
  <2>2. SinHuecos'
    BY <1>2, <1>3 DEF WalkOK, SinHuecos
  <2>3. AvanzaOK'
    BY <1>2, <1>3 DEF WalkOK, AvanzaOK
  <2>4. ImprimeOK'
    BY <1>2, <1>3 DEF WalkOK, ImprimeOK
  <2> QED
    BY <2>1, <2>2, <2>3, <2>4
<1>10. ReposoOK' /\ RecorridoOK' /\ FreedOnlyAfterExit' /\ fase' \in Fases
  BY <1>2, <1>3 DEF WalkOK, ReposoOK, RecorridoOK, FreedOnlyAfterExit
<1> QED
  BY <1>8, <1>9, <1>10 DEF WalkOK

(* The memory of a task goes only when nothing holds it.                   *)
LEMMA LiberaWalk ==
  ASSUME WalkOK, NEW t \in Tarea, Libera(t) PROVE WalkOK'
<1>1. /\ nacidas' = nacidas /\ vivas' = vivas /\ sig' = sig /\ testigos' = testigos
      /\ fase' = fase /\ cursor' = cursor /\ salida' = salida
      /\ EnLista' = EnLista /\ Impresas' = Impresas
  BY DEF Libera, lector, EnLista, Impresas
<1>2. CursorOK' /\ LineasOK'
  BY <1>1 DEF WalkOK, CursorOK, Alcance, LineasOK
<1>3. SinHuecos' /\ AvanzaOK' /\ ImprimeOK' /\ ReposoOK' /\ RecorridoOK' /\ fase' \in Fases
  BY <1>1 DEF WalkOK, SinHuecos, AvanzaOK, ImprimeOK, ReposoOK, RecorridoOK
<1>4. FreedOnlyAfterExit'
  <2>1. fase = "imprime" => t # cursor
    BY DEF Libera, Fijada
  <2> QED
    BY <1>1, <2>1 DEF Libera, WalkOK, FreedOnlyAfterExit
<1> QED
  BY <1>2, <1>3, <1>4 DEF WalkOK

(* The walk starts at the head: everything on the list is ahead of it.     *)
LEMMA AbreWalk == ASSUME HostOK, WalkOK, Abre PROVE WalkOK'
<1>1. /\ nacidas' = nacidas /\ vivas' = vivas /\ sig' = sig /\ testigos' = vivas
      /\ fase' = "avanza" /\ cursor' = Raiz /\ salida' = <<>>
      /\ EnLista' = EnLista /\ Impresas' = {}
  BY DEF Abre, host, EnLista, WalkOK, ReposoOK, Impresas
<1>2. CursorOK'
  <2>1. EnLista \in SUBSET (0..nacidas)
    BY DEF HostOK, HostType, EnLista, Raiz
  <2>2. Alcance(EnLista)'
    BY <1>1 DEF Alcance, HostOK, Anillo, EnLista
  <2> QED
    BY <1>1, <2>1, <2>2 DEF CursorOK
<1>3. LineasOK'
  BY <1>1 DEF LineasOK
<1>4. AvanzaOK'
  <2>1. \A u \in vivas : ~(u <= Raiz)
    BY DEF HostOK, HostType, Raiz
  <2> QED
    BY <1>1, <2>1 DEF AvanzaOK
<1>5. SinHuecos' /\ ImprimeOK' /\ ReposoOK' /\ RecorridoOK' /\ FreedOnlyAfterExit' /\ fase' \in Fases
  BY <1>1 DEF SinHuecos, ImprimeOK, ReposoOK, RecorridoOK, FreedOnlyAfterExit, Fases
<1> QED
  BY <1>2, <1>3, <1>4, <1>5 DEF WalkOK

(* The next task of the walk is beyond the last one printed.               *)
LEMMA AvanzaWalk == ASSUME HostOK, WalkOK, Avanza PROVE WalkOK'
<1>1. fase = "avanza" /\ salida' = salida /\ testigos' = testigos /\ Impresas' = Impresas
  BY DEF Avanza, Impresas
<1>2. PICK X \in SUBSET (0..nacidas) : Alcance(X)
  BY <1>1 DEF WalkOK, CursorOK
<1>3. PICK s : s = sig[cursor]
  OBVIOUS
<1>4. /\ cursor \in 0..nacidas /\ s \in X /\ s \in 0..nacidas /\ nacidas \in Nat
      /\ vivas \subseteq 1..nacidas /\ testigos \subseteq vivas
      /\ libres \subseteq 1..nacidas \ vivas
  BY <1>2, <1>3 DEF Alcance, HostOK, HostType
<1>5. /\ \A u \in testigos : cursor < u => s # Raiz
      /\ s # Raiz => cursor < s /\ \A u \in vivas : cursor < u => s <= u
  BY <1>2, <1>3, <1>4 DEF Alcance, HostOK, SinSaltos
<1>6. /\ \A t \in Impresas : t <= cursor
      /\ \A u \in vivas : u <= cursor => u \in Impresas
      /\ Impresas \subseteq 1..nacidas
  BY <1>1 DEF WalkOK, AvanzaOK, LineasOK
<1>7. CASE s = Raiz /\ fase' = "parsea" /\ Olvida
  <2>1. nacidas' = nacidas /\ vivas' = vivas
    BY <1>7 DEF Olvida
  <2>2. RecorridoOK'
    BY <1>1, <1>4, <1>5, <1>6, <1>7 DEF RecorridoOK
  <2>3. LineasOK' /\ SinHuecos'
    BY <1>1, <2>1 DEF WalkOK, LineasOK, SinHuecos
  <2>4. CursorOK' /\ AvanzaOK' /\ ImprimeOK' /\ ReposoOK' /\ FreedOnlyAfterExit' /\ fase' \in Fases
    BY <1>7 DEF CursorOK, AvanzaOK, ImprimeOK, ReposoOK, FreedOnlyAfterExit, Fases
  <2> QED
    BY <2>2, <2>3, <2>4 DEF WalkOK
<1>8. CASE s # Raiz /\ s \notin libres /\ fase' = "imprime" /\ cursor' = s /\ UNCHANGED host
  <2>1. /\ nacidas' = nacidas /\ vivas' = vivas /\ libres' = libres /\ sig' = sig
        /\ EnLista' = EnLista
    BY <1>8 DEF host, EnLista
  <2>2. CursorOK'
    <3>1. Alcance(X)'
      BY <1>1, <1>2, <1>4, <1>8, <2>1 DEF Alcance
    <3> QED
      BY <2>1, <3>1 DEF CursorOK
  <2>3. ImprimeOK'
    <3>1. \A t \in Impresas : t < s
      BY <1>4, <1>5, <1>6, <1>8
    <3>2. \A u \in vivas : u < s => u \in Impresas
      BY <1>4, <1>5, <1>6, <1>8
    <3> QED
      BY <1>1, <1>8, <2>1, <3>1, <3>2 DEF ImprimeOK
  <2>4. LineasOK' /\ SinHuecos'
    BY <1>1, <2>1 DEF WalkOK, LineasOK, SinHuecos
  <2>5. AvanzaOK' /\ ReposoOK' /\ RecorridoOK' /\ FreedOnlyAfterExit' /\ fase' \in Fases
    BY <1>8, <2>1 DEF AvanzaOK, ReposoOK, RecorridoOK, FreedOnlyAfterExit, Fases
  <2> QED
    BY <2>2, <2>3, <2>4, <2>5 DEF WalkOK
<1>9. CASE {cursor, s} \cap libres # {} /\ fase' = "indefinido" /\ UNCHANGED <<cursor, host>>
  <2>1. /\ nacidas' = nacidas /\ vivas' = vivas /\ libres' = libres /\ cursor' = cursor
        /\ EnLista' = EnLista
    BY <1>9 DEF host, EnLista
  <2>2. cursor \notin EnLista
    <3> SUFFICES ASSUME cursor \in EnLista PROVE FALSE
      OBVIOUS
    <3>1. s \in EnLista
      BY <1>3 DEF HostOK, Anillo
    <3>2. EnLista \cap libres = {}
      BY <1>4 DEF EnLista, Raiz
    <3> QED
      BY <1>9, <3>1, <3>2
  <2>3. LineasOK' /\ SinHuecos'
    BY <1>1, <2>1 DEF WalkOK, LineasOK, SinHuecos
  <2>4. FreedOnlyAfterExit'
    BY <1>9, <2>1, <2>2 DEF FreedOnlyAfterExit, EnLista
  <2>5. CursorOK' /\ AvanzaOK' /\ ImprimeOK' /\ ReposoOK' /\ RecorridoOK' /\ fase' \in Fases
    BY <1>9 DEF CursorOK, AvanzaOK, ImprimeOK, ReposoOK, RecorridoOK, Fases
  <2> QED
    BY <2>3, <2>4, <2>5 DEF WalkOK
<1> QED
  BY <1>3, <1>7, <1>8, <1>9 DEF Avanza, Salta

(* The line printed is the last one, and no task of the list was skipped.  *)
LEMMA ImprimeWalk == ASSUME HostOK, WalkOK, Imprime PROVE WalkOK'
<1>1. fase = "imprime" /\ fase' = "avanza" /\ cursor' = cursor /\ testigos' = testigos
  BY DEF Imprime
<1>2. /\ nacidas' = nacidas /\ vivas' = vivas /\ libres' = libres /\ sig' = sig
      /\ EnLista' = EnLista
  BY DEF Imprime, host, EnLista
<1>3. PICK X \in SUBSET (0..nacidas) : Alcance(X)
  BY <1>1 DEF WalkOK, CursorOK
<1>4. nacidas \in 0..N /\ N \in Nat /\ cursor \in 1..nacidas /\ cursor \in Tarea
  <2>1. cursor \in 0..nacidas /\ cursor # Raiz /\ nacidas \in 0..N /\ N \in Nat
    BY <1>1, <1>3, SnapshotAssumption DEF Alcance, HostOK, HostType, WalkOK, ImprimeOK
  <2> QED
    BY <2>1 DEF Raiz, Tarea
<1>5. PICK w \in Nat : salida' = Append(salida, [tarea |-> cursor, rss |-> w])
  <2>1. pesos[cursor] \subseteq Nat
    BY <1>4, SnapshotAssumption
  <2> QED
    BY <2>1 DEF Imprime
<1>6. PICK l : l = [tarea |-> cursor, rss |-> w]
  OBVIOUS
<1>7. l \in Linea /\ l.tarea = cursor
  BY <1>4, <1>6 DEF Linea
<1>8. salida \in Seq(Linea) /\ Len(salida) \in Nat /\ DOMAIN salida = 1..Len(salida)
  BY DEF WalkOK, LineasOK
<1>9. /\ salida' \in Seq(Linea) /\ DOMAIN salida' = 1..Len(salida) + 1
      /\ \A i \in 1..Len(salida) : salida'[i] = salida[i]
      /\ salida'[Len(salida) + 1] = l
  BY <1>5, <1>6, <1>7, <1>8, AppendProperties, LenProperties
<1>10. Impresas' = Impresas \cup {cursor}
  <2>1. \A i \in DOMAIN salida' : i \in DOMAIN salida \/ i = Len(salida) + 1
    BY <1>8, <1>9
  <2>2. \A i \in DOMAIN salida : i \in DOMAIN salida' /\ salida'[i] = salida[i]
    BY <1>8, <1>9
  <2>3. Len(salida) + 1 \in DOMAIN salida'
    BY <1>8, <1>9
  <2> QED
    BY <1>7, <1>9, <2>1, <2>2, <2>3 DEF Impresas
<1>11. /\ \A t \in Impresas : t < cursor
       /\ \A u \in vivas : u < cursor => u \in Impresas
       /\ Impresas \subseteq 1..nacidas /\ vivas \subseteq 1..nacidas
  BY <1>1 DEF WalkOK, ImprimeOK, LineasOK, HostOK, HostType
<1>12. CursorOK'
  BY <1>1, <1>2, <1>3 DEF CursorOK, Alcance
<1>13. LineasOK'
  <2>1. ASSUME NEW i \in DOMAIN salida', NEW j \in DOMAIN salida', i < j
        PROVE  salida'[i].tarea < salida'[j].tarea
    <3>1. i \in 1..Len(salida) /\ i \in DOMAIN salida /\ salida'[i] = salida[i]
      BY <1>8, <1>9, <2>1
    <3>2. CASE j \in DOMAIN salida
      BY <1>8, <1>9, <2>1, <3>1, <3>2 DEF WalkOK, LineasOK
    <3>3. CASE j = Len(salida) + 1
      BY <1>7, <1>9, <1>11, <3>1, <3>3 DEF Impresas
    <3> QED
      BY <1>8, <1>9, <3>2, <3>3
  <2> QED
    BY <1>2, <1>4, <1>9, <1>10, <1>11, <2>1 DEF LineasOK
<1>14. AvanzaOK'
  <2>1. \A t \in Impresas' : t <= cursor
    BY <1>4, <1>10, <1>11
  <2>2. \A u \in vivas : u <= cursor => u \in Impresas'
    BY <1>4, <1>10, <1>11
  <2> QED
    BY <1>1, <1>2, <2>1, <2>2 DEF AvanzaOK
<1>15. SinHuecos'
  <2> SUFFICES ASSUME NEW t \in Impresas', NEW u \in vivas, u < t PROVE u \in Impresas'
    BY <1>2 DEF SinHuecos
  <2>1. CASE t \in Impresas
    BY <1>10, <2>1 DEF WalkOK, SinHuecos
  <2>2. CASE t = cursor
    BY <1>10, <1>11, <2>2
  <2> QED
    BY <1>10, <2>1, <2>2
<1>16. ImprimeOK' /\ ReposoOK' /\ RecorridoOK' /\ FreedOnlyAfterExit' /\ fase' \in Fases
  BY <1>1 DEF ImprimeOK, ReposoOK, RecorridoOK, FreedOnlyAfterExit, Fases
<1> QED
  BY <1>12, <1>13, <1>14, <1>15, <1>16 DEF WalkOK

(* The phases after the walk leave its lines alone.                        *)
LEMMA DespuesWalk ==
  ASSUME WalkOK, UNCHANGED <<host, salida, testigos>>,
         fase' \in Fases \ {"reposo", "avanza", "imprime", "indefinido"},
         fase' \in {"parsea", "adjunta", "guarda"} => fase \in {"parsea", "adjunta", "guarda"}
  PROVE  WalkOK'
<1>1. nacidas' = nacidas /\ vivas' = vivas /\ salida' = salida /\ Impresas' = Impresas
  BY DEF host, Impresas
<1>2. LineasOK' /\ SinHuecos'
  BY <1>1 DEF WalkOK, LineasOK, SinHuecos
<1>3. CursorOK' /\ AvanzaOK' /\ ImprimeOK' /\ ReposoOK' /\ FreedOnlyAfterExit'
  BY DEF CursorOK, AvanzaOK, ImprimeOK, ReposoOK, FreedOnlyAfterExit
<1>4. RecorridoOK'
  BY <1>1 DEF WalkOK, RecorridoOK
<1> QED
  BY <1>2, <1>3, <1>4 DEF WalkOK

(* The snapshot is dropped at the end of the cycle.                        *)
LEMMA FinWalk == ASSUME Fin PROVE WalkOK'
<1>1. /\ fase' = "reposo" /\ cursor' = Raiz /\ salida' = <<>> /\ testigos' = {}
      /\ Impresas' = {}
  BY DEF Fin, Impresas
<1>2. LineasOK' /\ SinHuecos'
  BY <1>1 DEF LineasOK, SinHuecos
<1>3. CursorOK' /\ AvanzaOK' /\ ImprimeOK' /\ ReposoOK' /\ RecorridoOK' /\ FreedOnlyAfterExit'
  BY <1>1 DEF CursorOK, AvanzaOK, ImprimeOK, ReposoOK, RecorridoOK, FreedOnlyAfterExit
<1>4. fase' \in Fases
  BY <1>1 DEF Fases
<1> QED
  BY <1>2, <1>3, <1>4 DEF WalkOK

(* What WalkOK says of the walk holds in every state.                      *)
LEMMA WalkAlways == Spec => []WalkOK
<1>1. Init => WalkOK
  <2> SUFFICES ASSUME Init PROVE WalkOK
    OBVIOUS
  <2>1. /\ fase = "reposo" /\ cursor = Raiz /\ salida = <<>> /\ testigos = {} /\ Impresas = {}
    BY DEF Init, InitFoto, Impresas
  <2>2. LineasOK /\ SinHuecos
    BY <2>1 DEF LineasOK, SinHuecos
  <2>3. CursorOK /\ AvanzaOK /\ ImprimeOK /\ ReposoOK /\ RecorridoOK /\ FreedOnlyAfterExit
    BY <2>1 DEF CursorOK, AvanzaOK, ImprimeOK, ReposoOK, RecorridoOK, FreedOnlyAfterExit
  <2> QED
    BY <2>1, <2>2, <2>3 DEF WalkOK, Fases
<1>2. HostOK /\ WalkOK /\ [Next]_vars => WalkOK'
  <2> SUFFICES ASSUME HostOK, WalkOK, [Next]_vars PROVE WalkOK'
    OBVIOUS
  <2>1. CASE Host
    <3>1. fase # "indefinido"
      BY <2>1 DEF Host
    <3> QED
      BY <2>1, <3>1, NaceWalk, MuereWalk, LiberaWalk DEF Host, Kernel
  <2>2. CASE Empieza
    BY <2>2, AbreWalk DEF Empieza
  <2>3. CASE Avanza
    BY <2>3, AvanzaWalk
  <2>4. CASE Imprime
    BY <2>4, ImprimeWalk
  <2>5. CASE ReadSnapshot
    BY <2>5, DespuesWalk DEF ReadSnapshot, Fases
  <2>6. CASE Attach
    BY <2>6, DespuesWalk DEF Attach, Fases
  <2>7. CASE Correla
    BY <2>7, DespuesWalk DEF Correla, Adjuntado, Fases
  <2>8. CASE Guarda
    BY <2>8, DespuesWalk DEF Guarda, Fases
  <2>9. CASE ListManaged
    BY <2>9, DespuesWalk DEF ListManaged, Fases
  <2>10. CASE ListFalla \/ Elimina
    BY <2>10, FinWalk DEF ListFalla, Elimina
  <2>11. CASE RankRAM
    BY <2>11, DespuesWalk DEF RankRAM, foto, lector, Fases
  <2>12. CASE RankCPU
    BY <2>12, DespuesWalk DEF RankCPU, foto, lector, Fases
  <2>13. CASE RankFalla
    BY <2>13, DespuesWalk DEF RankFalla, foto, lector, Fases
  <2>14. CASE Rankeado
    BY <2>14, DespuesWalk DEF Rankeado, Fases
  <2>15. CASE UNCHANGED vars
    <3>1. /\ nacidas' = nacidas /\ vivas' = vivas /\ libres' = libres /\ sig' = sig
          /\ testigos' = testigos /\ fase' = fase /\ cursor' = cursor /\ salida' = salida
          /\ EnLista' = EnLista /\ Impresas' = Impresas
      BY <2>15 DEF vars, foto, host, lector, EnLista, Impresas
    <3>2. CursorOK' /\ LineasOK'
      BY <3>1 DEF WalkOK, CursorOK, Alcance, LineasOK
    <3>3. SinHuecos' /\ AvanzaOK' /\ ImprimeOK' /\ ReposoOK' /\ RecorridoOK' /\ fase' \in Fases
      BY <3>1 DEF WalkOK, SinHuecos, AvanzaOK, ImprimeOK, ReposoOK, RecorridoOK
    <3>4. FreedOnlyAfterExit'
      BY <3>1 DEF WalkOK, FreedOnlyAfterExit
    <3> QED
      BY <3>2, <3>3, <3>4 DEF WalkOK
  <2> QED
    BY <2>1, <2>2, <2>3, <2>4, <2>5, <2>6, <2>7, <2>8, <2>9, <2>10, <2>11, <2>12, <2>13, <2>14, <2>15 DEF Next, Lee
<1> QED
  BY <1>1, <1>2, HostAlways, PTL DEF Spec

(* continfo.c:137-149 prints no task whose memory was freed, and reads a   *)
(* freed pointer only after the task it was printing has ended, however    *)
(* many processes come and go.                                             *)
THEOREM FreedOnlyAfterExitAlways == Spec => []FreedOnlyAfterExit
<1>1. WalkOK => FreedOnlyAfterExit
  BY DEF WalkOK
<1> QED
  BY <1>1, WalkAlways, PTL

(* A task on the list all along is printed once, and in order of creation. *)
THEOREM WalkIsExactAlways == Spec => []WalkIsExact
<1>1. WalkOK => WalkIsExact
  BY DEF WalkOK, WalkIsExact, RecorridoOK, LineasOK, Impresas
<1> QED
  BY <1>1, WalkAlways, PTL
----------------------------------------------------------------------------
(* Splitting the snapshot into processes.  FlattenSeq is recursive: its    *)
(* recursion has a solution, the concatenations from the left.             *)
LEMMA AplanaExiste ==
  ASSUME NEW S, NEW q \in Seq(Seq(S)), q # <<>>
  PROVE  \E f \in [1..Len(q) -> Seq(S)] :
           /\ FlattenSeq(q) = f[Len(q)]
           /\ \A i \in 1..Len(q) : f[i] = IF i = 1 THEN q[i] ELSE f[i - 1] \o q[i]
<1> DEFINE n == Len(q)
           Paso(f, i) == IF i = 1 THEN q[i] ELSE f[i - 1] \o q[i]
           Ec(f) == f = [i \in 1..n |-> Paso(f, i)]
           Hay(m) == m <= n => \E f \in [1..m -> Seq(S)] : \A i \in 1..m : f[i] = Paso(f, i)
           T == {m \in Nat : Hay(m)}
<1>1. n \in Nat /\ n # 0 /\ \A i \in 1..n : q[i] \in Seq(S)
  BY LenProperties, EmptySeq, ElementOfSeq
<1>2. Hay(0)
  <2> DEFINE v == [i \in 1..0 |-> <<>>]
  <2>1. v \in [1..0 -> Seq(S)] /\ \A i \in 1..0 : FALSE
    OBVIOUS
  <2> HIDE DEF v, Paso
  <2> QED
    BY <2>1
<1>3. ASSUME NEW m \in Nat, Hay(m) PROVE Hay(m + 1)
  <2> SUFFICES ASSUME m + 1 <= n
               PROVE  \E f \in [1..m+1 -> Seq(S)] : \A i \in 1..m+1 : f[i] = Paso(f, i)
    OBVIOUS
  <2>1. m \in Nat /\ m <= n
    BY <1>1
  <2>2. PICK f \in [1..m -> Seq(S)] : \A i \in 1..m : f[i] = Paso(f, i)
    <3> HIDE DEF Paso
    <3> QED
      BY <1>3, <2>1
  <2>3. Paso(f, m + 1) \in Seq(S)
    <3>1. CASE m = 0
      BY <1>1, <3>1
    <3>2. CASE m # 0
      <4>1. f[m] \in Seq(S) /\ q[m + 1] \in Seq(S) /\ m + 1 # 1 /\ (m + 1) - 1 = m
        BY <1>1, <2>1, <3>2
      <4>2. f[m] \o q[m + 1] \in Seq(S)
        BY <4>1, ConcatProperties
      <4> QED
        BY <4>1, <4>2
    <3> QED
      BY <3>1, <3>2
  <2> DEFINE g == [i \in 1..m+1 |-> IF i <= m THEN f[i] ELSE Paso(f, m + 1)]
  <2>4. g \in [1..m+1 -> Seq(S)] /\ \A i \in 1..m : g[i] = f[i]
    <3> HIDE DEF Paso
    <3> QED
      BY <2>1, <2>3
  <2>5. ASSUME NEW i \in 1..m+1 PROVE g[i] = Paso(g, i)
    <3>1. i = 1 \/ i - 1 \in 1..m
      BY <2>1
    <3>2. Paso(g, i) = Paso(f, i)
      BY <2>4, <3>1
    <3>3. g[i] = Paso(f, i)
      <4> HIDE DEF Paso
      <4>1. i \in 1..m \/ (i = m + 1 /\ ~(i <= m))
        BY <2>1
      <4> QED
        BY <2>1, <2>2, <4>1
    <3> QED
      BY <3>2, <3>3
  <2> HIDE DEF g, Paso
  <2> QED
    BY <2>4, <2>5
<1>4. T = Nat
  <2> HIDE DEF Hay
  <2>1. T \in SUBSET Nat /\ 0 \in T /\ \A m \in T : m + 1 \in T
    BY <1>2, <1>3
  <2> HIDE DEF T
  <2> QED
    BY <2>1, InduccionConjunto
<1>5. PICK f \in [1..n -> Seq(S)] : \A i \in 1..n : f[i] = Paso(f, i)
  <2>1. Hay(n)
    <3> HIDE DEF Hay
    <3> QED
      BY <1>1, <1>4
  <2> HIDE DEF Paso
  <2> QED
    BY <1>1, <2>1
<1>6. Ec(f)
  <2> HIDE DEF Paso
  <2> QED
    BY <1>5
<1> DEFINE F == CHOOSE g : Ec(g)
<1>7. FlattenSeq(q) = F[n]
  BY <1>1 DEF FlattenSeq
<1>8. Ec(F)
  <2> HIDE DEF Ec
  <2> QED
    BY <1>6
<1> HIDE DEF F
<1>9. ASSUME NEW i \in 1..n PROVE F[i] = Paso(F, i)
  BY <1>8, Zenon
<1> DEFINE U == {m \in Nat : m \in 1..n => F[m] = f[m]}
<1>10. 0 \in U
  OBVIOUS
<1>11. ASSUME NEW m \in U PROVE m + 1 \in U
  <2> SUFFICES ASSUME m + 1 \in 1..n PROVE F[m + 1] = f[m + 1]
    OBVIOUS
  <2>1. F[m + 1] = Paso(F, m + 1) /\ f[m + 1] = Paso(f, m + 1)
    BY <1>5, <1>9
  <2>2. CASE m = 0
    BY <2>1, <2>2
  <2>3. CASE m # 0
    <3>1. m \in 1..n /\ m \in Nat /\ (m + 1) - 1 = m /\ m + 1 # 1
      BY <1>1, <2>3
    <3>2. F[m] = f[m]
      BY <1>11, <3>1
    <3>3. Paso(F, m + 1) = F[m] \o q[m + 1] /\ Paso(f, m + 1) = f[m] \o q[m + 1]
      BY <3>1
    <3> QED
      BY <2>1, <3>2, <3>3
  <2> QED
    BY <2>2, <2>3
<1>12. U = Nat
  <2>1. U \in SUBSET Nat
    OBVIOUS
  <2> HIDE DEF U
  <2> QED
    BY <1>10, <1>11, <2>1, InduccionConjunto
<1>13. F[n] = f[n]
  BY <1>1, <1>12
<1> QED
  BY <1>5, <1>7, <1>13

(* Flattening sequences of at most one process, in the order of their      *)
(* PIDs, gives the processes of all of them, in that order.                *)
LEMMA AplanaEnOrden ==
  ASSUME NEW S, \A s \in S : s.pid \in Int,
         NEW q \in Seq(Seq(S)), \A i \in 1..Len(q) : Len(q[i]) <= 1,
         \A i, j \in 1..Len(q) :
           i < j /\ Len(q[i]) = 1 /\ Len(q[j]) = 1 => q[i][1].pid < q[j][1].pid
  PROVE  /\ FlattenSeq(q) \in Seq(S)
         /\ \A k, l \in 1..Len(FlattenSeq(q)) :
              k < l => FlattenSeq(q)[k].pid < FlattenSeq(q)[l].pid
         /\ \A k \in 1..Len(FlattenSeq(q)) : \E i \in 1..Len(q) :
              Len(q[i]) = 1 /\ FlattenSeq(q)[k] = q[i][1]
         /\ \A i \in 1..Len(q) : Len(q[i]) = 1 =>
              \E k \in 1..Len(FlattenSeq(q)) : FlattenSeq(q)[k] = q[i][1]
<1> DEFINE n == Len(q)
           De1(r, m) == /\ r \in Seq(S)
                        /\ \A k, l \in 1..Len(r) : k < l => r[k].pid < r[l].pid
                        /\ \A k \in 1..Len(r) : \E i \in 1..m : Len(q[i]) = 1 /\ r[k] = q[i][1]
                        /\ \A i \in 1..m : Len(q[i]) = 1 => \E k \in 1..Len(r) : r[k] = q[i][1]
<1>1. n \in Nat /\ \A i \in 1..n : q[i] \in Seq(S) /\ Len(q[i]) \in {0, 1}
  <2>1. n \in Nat /\ \A i \in 1..n : q[i] \in Seq(S)
    BY LenProperties, ElementOfSeq
  <2>2. \A i \in 1..n : Len(q[i]) \in Nat
    BY <2>1, LenProperties
  <2>3. ASSUME NEW x \in Nat, x <= 1 PROVE x \in {0, 1}
    BY <2>3
  <2>4. ASSUME NEW i \in 1..n PROVE Len(q[i]) \in {0, 1}
    <3>1. PICK x \in Nat : x = Len(q[i])
      BY <2>2
    <3>2. x <= 1
      BY <3>1
    <3> QED
      BY <2>3, <3>1, <3>2
  <2> QED
    BY <2>1, <2>4
<1>2. CASE q = <<>>
  <2>1. FlattenSeq(q) = q /\ Len(q) = 0
    BY <1>2 DEF FlattenSeq
  <2>2. <<>> \in Seq(S) /\ Len(<<>>) = 0
    BY EmptySeq
  <2>3. PICK r : r = FlattenSeq(q)
    OBVIOUS
  <2>4. r \in Seq(S) /\ Len(r) = 0
    BY <1>2, <2>1, <2>2, <2>3
  <2>5. \A k \in 1..0 : FALSE
    OBVIOUS
  <2> QED
    BY <2>1, <2>3, <2>4, <2>5
<1>3. CASE q # <<>>
  <2>1. PICK f \in [1..n -> Seq(S)] :
          /\ FlattenSeq(q) = f[n]
          /\ \A i \in 1..n : f[i] = IF i = 1 THEN q[i] ELSE f[i - 1] \o q[i]
    BY <1>3, AplanaExiste
  <2> DEFINE Bien(m) == m \in 1..n => De1(f[m], m)
             T == {m \in Nat : Bien(m)}
  <2>2. Bien(0)
    OBVIOUS
  <2>3. ASSUME NEW m \in Nat, Bien(m) PROVE Bien(m + 1)
    <3> SUFFICES ASSUME m + 1 \in 1..n PROVE De1(f[m + 1], m + 1)
      OBVIOUS
    <3>0. m \in Nat /\ (m \in 1..n => De1(f[m], m))
      BY <2>3
    <3>1. q[m + 1] \in Seq(S) /\ Len(q[m + 1]) \in {0, 1}
      BY <1>1
    <3>2. CASE m = 0
      <4>1. f[m + 1] = q[1]
        <5>1. m + 1 = 1 /\ 1 \in 1..n
          BY <3>2
        <5>2. f[1] = IF 1 = 1 THEN q[1] ELSE f[1 - 1] \o q[1]
          BY <2>1, <5>1
        <5> QED
          BY <5>1, <5>2
      <4>2. De1(q[1], 1)
        <5>1. PICK r : r = q[1]
          OBVIOUS
        <5>2. r \in Seq(S) /\ Len(r) \in {0, 1}
          BY <3>1, <3>2, <5>1
        <5>3. \A i \in 1..1 : i = 1
          OBVIOUS
        <5>4. \A k \in 1..Len(r) : Len(r) = 1 /\ k = 1
          <6>1. CASE Len(r) = 0
            BY <6>1
          <6>2. CASE Len(r) = 1
            BY <6>2
          <6> QED
            BY <5>2, <6>1, <6>2
        <5>5. \A k, l \in 1..Len(r) : ~(k < l)
          BY <5>4
        <5>6. De1(r, 1)
          BY <5>1, <5>2, <5>3, <5>4, <5>5
        <5> HIDE DEF De1
        <5> QED
          BY <5>1, <5>6
      <4> HIDE DEF De1
      <4> QED
        BY <3>2, <4>1, <4>2
    <3>3. CASE m # 0
      <4>1. m \in 1..n /\ m + 1 # 1 /\ (m + 1) - 1 = m
        BY <1>1, <3>0, <3>3
      <4>2. De1(f[m], m)
        BY <3>0, <4>1
      <4>3. PICK r : r = f[m]
        OBVIOUS
      <4>4. PICK s : s = f[m + 1]
        OBVIOUS
      <4>5. s = r \o q[m + 1]
        BY <2>1, <4>1, <4>3, <4>4
      <4>6. /\ r \in Seq(S) /\ Len(r) \in Nat
            /\ \A k, l \in 1..Len(r) : k < l => r[k].pid < r[l].pid
            /\ \A k \in 1..Len(r) : \E i \in 1..m : Len(q[i]) = 1 /\ r[k] = q[i][1]
            /\ \A i \in 1..m : Len(q[i]) = 1 => \E k \in 1..Len(r) : r[k] = q[i][1]
        BY <4>2, <4>3, LenProperties
      <4>7. /\ s \in Seq(S) /\ Len(s) = Len(r) + Len(q[m + 1])
            /\ \A k \in 1..Len(r) : s[k] = r[k]
            /\ Len(q[m + 1]) = 1 => s[Len(r) + 1] = q[m + 1][1]
        <5>1. /\ r \o q[m + 1] \in Seq(S) /\ Len(r \o q[m + 1]) = Len(r) + Len(q[m + 1])
              /\ \A i \in 1..Len(r) + Len(q[m + 1]) :
                   (r \o q[m + 1])[i] = IF i <= Len(r) THEN r[i] ELSE q[m + 1][i - Len(r)]
          BY <3>1, <4>6, ConcatProperties
        <5>2. ASSUME NEW k \in 1..Len(r) PROVE s[k] = r[k]
          <6>1. k \in 1..Len(r) + Len(q[m + 1]) /\ k <= Len(r)
            <7>1. Len(r) \in Nat /\ Len(q[m + 1]) \in Nat
              BY <3>1, <4>6, LenProperties
            <7> QED
              BY <7>1
          <6> QED
            BY <4>5, <5>1, <6>1
        <5>3. ASSUME Len(q[m + 1]) = 1 PROVE s[Len(r) + 1] = q[m + 1][1]
          <6>1. /\ Len(r) + 1 \in 1..Len(r) + Len(q[m + 1]) /\ ~(Len(r) + 1 <= Len(r))
                /\ Len(r) + 1 - Len(r) = 1
            BY <4>6, <5>3
          <6> QED
            BY <4>5, <5>1, <6>1
        <5> QED
          BY <4>5, <5>1, <5>2, <5>3
      <4>8. CASE Len(q[m + 1]) = 0
        <5>0. Len(q[m + 1]) # 1
          BY <4>8
        <5>1. /\ Len(s) = Len(r)
              /\ \A i \in 1..m+1 : i \in 1..m \/ i = m + 1
              /\ \A i \in 1..m : i \in 1..m+1
          <6>1. Len(s) = Len(r)
            BY <4>6, <4>7, <4>8
          <6>2. m \in Nat
            BY <3>0
          <6> QED
            BY <6>1, <6>2
        <5>2. \A k, l \in 1..Len(s) : k < l => s[k].pid < s[l].pid
          BY <4>6, <4>7, <5>1
        <5>3. ASSUME NEW k \in 1..Len(s)
              PROVE  \E i \in 1..m+1 : Len(q[i]) = 1 /\ s[k] = q[i][1]
          <6>1. PICK i \in 1..m : Len(q[i]) = 1 /\ r[k] = q[i][1]
            BY <4>6, <5>1
          <6>2. s[k] = r[k] /\ i \in 1..m+1
            BY <4>7, <5>1
          <6> QED
            BY <6>1, <6>2
        <5>4. ASSUME NEW i \in 1..m+1, Len(q[i]) = 1
              PROVE  \E k \in 1..Len(s) : s[k] = q[i][1]
          <6>1. i \in 1..m
            <7> SUFFICES ASSUME i = m + 1 PROVE FALSE
              BY <5>1
            <7> QED
              BY <5>0, <5>4, Zenon
          <6>2. PICK k \in 1..Len(r) : r[k] = q[i][1]
            BY <4>6, <5>4, <6>1
          <6>3. s[k] = r[k] /\ k \in 1..Len(s)
            BY <4>7, <5>1
          <6> QED
            BY <6>2, <6>3
        <5> QED
          BY <4>4, <4>7, <5>2, <5>3, <5>4
      <4>9. CASE Len(q[m + 1]) = 1
        <5>1. /\ Len(s) = Len(r) + 1
              /\ \A i \in 1..m+1 : i \in 1..m \/ i = m + 1
              /\ \A i \in 1..m : i \in 1..m+1
              /\ \A i \in 1..Len(s) : i \in 1..Len(r) \/ i = Len(r) + 1
              /\ \A i \in 1..Len(r) : i \in 1..Len(s)
              /\ Len(r) + 1 \in 1..Len(s) /\ m + 1 \in 1..m+1
          BY <3>0, <4>6, <4>7, <4>9
        <5>2. \A k, l \in 1..Len(s) : k < l => s[k].pid < s[l].pid
          <6> SUFFICES ASSUME NEW k \in 1..Len(s), NEW l \in 1..Len(s), k < l
                       PROVE  s[k].pid < s[l].pid
            OBVIOUS
          <6>1. k \in 1..Len(r)
            BY <4>6, <5>1
          <6>2. CASE l \in 1..Len(r)
            BY <4>6, <4>7, <6>1, <6>2
          <6>3. CASE l = Len(r) + 1
            <7>1. PICK i \in 1..m : Len(q[i]) = 1 /\ s[k] = q[i][1]
              BY <4>6, <4>7, <6>1
            <7>2. i \in 1..n /\ i < m + 1
              BY <1>1, <3>0, <4>1
            <7> QED
              BY <4>7, <4>9, <6>3, <7>1, <7>2
          <6> QED
            BY <5>1, <6>2, <6>3
        <5>3. ASSUME NEW k \in 1..Len(s)
              PROVE  \E i \in 1..m+1 : Len(q[i]) = 1 /\ s[k] = q[i][1]
          <6>1. CASE k \in 1..Len(r)
            <7>1. PICK i \in 1..m : Len(q[i]) = 1 /\ r[k] = q[i][1]
              BY <4>6, <6>1
            <7>2. s[k] = r[k] /\ i \in 1..m+1
              BY <4>7, <5>1, <6>1
            <7> QED
              BY <7>1, <7>2
          <6>2. CASE k = Len(r) + 1
            BY <4>7, <4>9, <5>1, <6>2
          <6> QED
            BY <5>1, <6>1, <6>2
        <5>4. ASSUME NEW i \in 1..m+1, Len(q[i]) = 1
              PROVE  \E k \in 1..Len(s) : s[k] = q[i][1]
          <6>1. CASE i \in 1..m
            <7>1. PICK k \in 1..Len(r) : r[k] = q[i][1]
              BY <4>6, <5>4, <6>1
            <7>2. s[k] = r[k] /\ k \in 1..Len(s)
              BY <4>7, <5>1
            <7> QED
              BY <7>1, <7>2
          <6>2. CASE i = m + 1
            BY <4>7, <4>9, <5>1, <6>2
          <6> QED
            BY <5>1, <6>1, <6>2
        <5> QED
          BY <4>4, <4>7, <5>2, <5>3, <5>4
      <4> QED
        BY <3>1, <4>8, <4>9
    <3> QED
      BY <3>2, <3>3
  <2> HIDE DEF De1
  <2>4. T = Nat
    <3> HIDE DEF Bien
    <3>1. T \in SUBSET Nat /\ 0 \in T /\ \A m \in T : m + 1 \in T
      BY <2>2, <2>3
    <3> HIDE DEF T
    <3> QED
      BY <3>1, InduccionConjunto
  <2>5. n \in 1..n /\ n \in T
    <3>1. n # 0
      BY <1>3, EmptySeq
    <3> HIDE DEF n, T
    <3> QED
      BY <1>1, <2>4, <3>1
  <2>6. De1(f[n], n)
    <3> HIDE DEF n
    <3> QED
      BY <2>5
  <2> QED
    BY <2>1, <2>6 DEF De1
<1> QED
  BY <1>2, <1>3

(* Flattening any sequences gives their elements and no others.            *)
LEMMA AplanaTodo ==
  ASSUME NEW S, NEW q \in Seq(Seq(S))
  PROVE  /\ FlattenSeq(q) \in Seq(S)
         /\ \A k \in 1..Len(FlattenSeq(q)) : \E i \in 1..Len(q) : \E j \in 1..Len(q[i]) :
              FlattenSeq(q)[k] = q[i][j]
         /\ \A i \in 1..Len(q) : \A j \in 1..Len(q[i]) :
              \E k \in 1..Len(FlattenSeq(q)) : FlattenSeq(q)[k] = q[i][j]
<1> DEFINE n == Len(q)
           De1(r, m) == /\ r \in Seq(S)
                        /\ \A k \in 1..Len(r) : \E i \in 1..m : \E j \in 1..Len(q[i]) : r[k] = q[i][j]
                        /\ \A i \in 1..m : \A j \in 1..Len(q[i]) : \E k \in 1..Len(r) : r[k] = q[i][j]
<1>1. n \in Nat /\ \A i \in 1..n : q[i] \in Seq(S) /\ Len(q[i]) \in Nat
  <2>1. n \in Nat /\ \A i \in 1..n : q[i] \in Seq(S)
    BY LenProperties, ElementOfSeq
  <2> QED
    BY <2>1, LenProperties
<1>2. CASE q = <<>>
  <2>1. FlattenSeq(q) = q /\ Len(q) = 0
    BY <1>2 DEF FlattenSeq
  <2>2. <<>> \in Seq(S) /\ Len(<<>>) = 0
    BY EmptySeq
  <2>3. PICK r : r = FlattenSeq(q)
    OBVIOUS
  <2>4. r \in Seq(S) /\ Len(r) = 0
    BY <1>2, <2>1, <2>2, <2>3
  <2>5. \A k \in 1..0 : FALSE
    OBVIOUS
  <2> QED
    BY <2>1, <2>3, <2>4, <2>5
<1>3. CASE q # <<>>
  <2>1. PICK f \in [1..n -> Seq(S)] :
          /\ FlattenSeq(q) = f[n]
          /\ \A i \in 1..n : f[i] = IF i = 1 THEN q[i] ELSE f[i - 1] \o q[i]
    BY <1>3, AplanaExiste
  <2> DEFINE Bien(m) == m \in 1..n => De1(f[m], m)
             T == {m \in Nat : Bien(m)}
  <2>2. Bien(0)
    OBVIOUS
  <2>3. ASSUME NEW m \in Nat, Bien(m) PROVE Bien(m + 1)
    <3> SUFFICES ASSUME m + 1 \in 1..n PROVE De1(f[m + 1], m + 1)
      OBVIOUS
    <3>0. m \in Nat /\ (m \in 1..n => De1(f[m], m))
      BY <2>3
    <3>1. q[m + 1] \in Seq(S) /\ Len(q[m + 1]) \in Nat
      BY <1>1
    <3>2. CASE m = 0
      <4>1. f[m + 1] = q[1]
        <5>1. m + 1 = 1 /\ 1 \in 1..n
          BY <3>2
        <5>2. f[1] = IF 1 = 1 THEN q[1] ELSE f[1 - 1] \o q[1]
          BY <2>1, <5>1
        <5> QED
          BY <5>1, <5>2
      <4>2. De1(q[1], 1)
        <5>1. PICK r : r = q[1]
          OBVIOUS
        <5>2. r \in Seq(S)
          BY <3>1, <3>2, <5>1
        <5>3. 1 \in 1..1 /\ \A i \in 1..1 : i = 1
          OBVIOUS
        <5>4. De1(r, 1)
          BY <5>1, <5>2, <5>3, Zenon
        <5> HIDE DEF De1
        <5> QED
          BY <5>1, <5>4
      <4> HIDE DEF De1
      <4> QED
        BY <3>2, <4>1, <4>2
    <3>3. CASE m # 0
      <4>1. m \in 1..n /\ m + 1 # 1 /\ (m + 1) - 1 = m
        BY <1>1, <3>0, <3>3
      <4>2. De1(f[m], m)
        BY <3>0, <4>1
      <4>3. PICK r : r = f[m]
        OBVIOUS
      <4>4. PICK s : s = f[m + 1]
        OBVIOUS
      <4>5. s = r \o q[m + 1]
        BY <2>1, <4>1, <4>3, <4>4
      <4>6. /\ r \in Seq(S) /\ Len(r) \in Nat
            /\ \A k \in 1..Len(r) : \E i \in 1..m : \E j \in 1..Len(q[i]) : r[k] = q[i][j]
            /\ \A i \in 1..m : \A j \in 1..Len(q[i]) : \E k \in 1..Len(r) : r[k] = q[i][j]
        BY <4>2, <4>3, LenProperties
      <4>7. PICK u : u = q[m + 1]
        OBVIOUS
      <4>8. /\ s \in Seq(S) /\ Len(s) = Len(r) + Len(u) /\ Len(u) \in Nat
            /\ \A i \in 1..Len(r) + Len(u) : s[i] = IF i <= Len(r) THEN r[i] ELSE u[i - Len(r)]
        BY <3>1, <4>5, <4>6, <4>7, ConcatProperties
      <4>9. \A k \in 1..Len(r) : k \in 1..Len(s) /\ s[k] = r[k]
        BY <4>6, <4>8
      <4>10. ASSUME NEW j \in 1..Len(u) PROVE Len(r) + j \in 1..Len(s) /\ s[Len(r) + j] = u[j]
        <5>1. Len(r) + j \in 1..Len(r) + Len(u) /\ ~(Len(r) + j <= Len(r)) /\ Len(r) + j - Len(r) = j
          BY <4>6, <4>8
        <5> QED
          BY <4>8, <5>1
      <4>11. /\ m + 1 \in 1..m+1 /\ \A i \in 1..m+1 : i \in 1..m \/ i = m + 1
             /\ \A i \in 1..m : i \in 1..m+1
        BY <3>0
      <4>12. ASSUME NEW k \in 1..Len(s)
             PROVE  \E i \in 1..m+1 : \E j \in 1..Len(q[i]) : s[k] = q[i][j]
        <5>1. CASE k \in 1..Len(r)
          <6>1. PICK i \in 1..m : \E j \in 1..Len(q[i]) : r[k] = q[i][j]
            BY <4>6, <5>1
          <6>2. s[k] = r[k] /\ i \in 1..m+1
            BY <4>9, <4>11, <5>1
          <6> QED
            BY <6>1, <6>2
        <5>2. CASE k \notin 1..Len(r)
          <6>1. k - Len(r) \in 1..Len(u) /\ ~(k <= Len(r)) /\ k \in 1..Len(r) + Len(u)
            BY <4>6, <4>8, <5>2
          <6>2. s[k] = u[k - Len(r)]
            BY <4>8, <6>1
          <6>3. \E j \in 1..Len(u) : s[k] = u[j]
            BY <6>1, <6>2
          <6> QED
            BY <4>7, <4>11, <6>3
        <5> QED
          BY <5>1, <5>2
      <4>13. ASSUME NEW i \in 1..m+1, NEW j \in 1..Len(q[i])
             PROVE  \E k \in 1..Len(s) : s[k] = q[i][j]
        <5>1. CASE i \in 1..m
          <6>1. PICK k \in 1..Len(r) : r[k] = q[i][j]
            BY <4>6, <5>1
          <6> QED
            BY <4>9, <6>1
        <5>2. CASE i = m + 1
          <6>1. j \in 1..Len(u) /\ q[i][j] = u[j]
            BY <4>7, <5>2
          <6> QED
            BY <4>10, <6>1
        <5> QED
          BY <4>11, <5>1, <5>2
      <4> QED
        BY <4>4, <4>8, <4>12, <4>13
    <3> QED
      BY <3>2, <3>3
  <2> HIDE DEF De1
  <2>4. T = Nat
    <3> HIDE DEF Bien
    <3>1. T \in SUBSET Nat /\ 0 \in T /\ \A m \in T : m + 1 \in T
      BY <2>2, <2>3
    <3> HIDE DEF T
    <3> QED
      BY <3>1, InduccionConjunto
  <2>5. n \in 1..n /\ n \in T
    <3>1. n # 0
      BY <1>3, EmptySeq
    <3> HIDE DEF n, T
    <3> QED
      BY <1>1, <2>4, <3>1
  <2>6. De1(f[n], n)
    <3> HIDE DEF n
    <3> QED
      BY <2>5
  <2> QED
    BY <2>1, <2>6 DEF De1
<1> QED
  BY <1>2, <1>3

(* Nothing but one process among sequences of at most one gives that one.  *)
LEMMA AplanaUno ==
  ASSUME NEW S, \A s \in S : s.pid \in Int,
         NEW q \in Seq(Seq(S)), \A i \in 1..Len(q) : Len(q[i]) <= 1,
         \A i \in 1..Len(q) : Len(q[i]) = 1 => i = 1
  PROVE  /\ Len(FlattenSeq(q)) <= 1
         /\ \A k \in 1..Len(FlattenSeq(q)) : FlattenSeq(q)[k] = q[1][1]
<1>1. \A i, j \in 1..Len(q) :
        i < j /\ Len(q[i]) = 1 /\ Len(q[j]) = 1 => q[i][1].pid < q[j][1].pid
  <2> SUFFICES ASSUME NEW i \in 1..Len(q), NEW j \in 1..Len(q), i < j, Len(q[i]) = 1, Len(q[j]) = 1
               PROVE  FALSE
    OBVIOUS
  <2>1. i = 1 /\ j = 1
    OBVIOUS
  <2> QED
    BY <2>1
<1>2. PICK r : r = FlattenSeq(q)
  OBVIOUS
<1>3. /\ r \in Seq(S)
      /\ \A k, l \in 1..Len(r) : k < l => r[k].pid < r[l].pid
      /\ \A k \in 1..Len(r) : \E i \in 1..Len(q) : Len(q[i]) = 1 /\ r[k] = q[i][1]
  <2> DEFINE P(x) == /\ x \in Seq(S)
                     /\ \A k, l \in 1..Len(x) : k < l => x[k].pid < x[l].pid
                     /\ \A k \in 1..Len(x) : \E i \in 1..Len(q) : Len(q[i]) = 1 /\ x[k] = q[i][1]
  <2>1. P(FlattenSeq(q))
    BY <1>1, AplanaEnOrden
  <2> HIDE DEF P
  <2>2. P(r)
    BY <1>2, <2>1
  <2> QED
    BY <2>2 DEF P
<1>4. \A k \in 1..Len(r) : r[k] = q[1][1]
  BY <1>3
<1>5. Len(r) <= 1
  <2>1. Len(r) \in Nat /\ \A k \in 1..Len(r) : r[k] \in S
    BY <1>3, LenProperties, ElementOfSeq
  <2>2. ASSUME 2 <= Len(r) PROVE FALSE
    <3>1. 1 \in 1..Len(r) /\ 2 \in 1..Len(r) /\ 1 < 2
      BY <2>1, <2>2
    <3>2. r[1].pid < r[2].pid
      BY <1>3, <3>1
    <3>3. r[1] = r[2] /\ r[1].pid \in Int
      BY <1>4, <2>1, <3>1
    <3> QED
      BY <3>2, <3>3
  <2> QED
    BY <2>1, <2>2
<1> QED
  BY <1>2, <1>4, <1>5
----------------------------------------------------------------------------
(* What parser.go makes of the lines of one process.                       *)
Figuras == [pid : Int, cid : Contenedores \cup {SinContenedor}, rss : Nat, vsz : Nat, cpu : Int]
DeLinea(l) == FlattenSeq([j \in DOMAIN Lineas(l) |-> parseProcessLine(Lineas(l)[j])])
(* Every process comes from one of the lines, one of its own unless the    *)
(* text invents some; a text of one line gives one process, with the       *)
(* figures of the module.                                                  *)
BienLeida(l, g) ==
  /\ g \in Seq(Figuras)
  /\ \A k \in 1..Len(g) : \E j \in DOMAIN texto[l.tarea] :
       /\ g[k].pid = Lineas(l)[j][1]
       /\ j # 1 => Inventa(l)
  /\ ~Inventa(l) => Len(g) <= 1
  /\ UnaLinea(l.tarea) => /\ \E k \in 1..Len(g) : g[k].pid = l.tarea
                          /\ \A k \in 1..Len(g) : g[k].rss = l.rss

(* A line gives nothing, or one process with the PID it starts with.       *)
LEMMA UnaLineaLeida ==
  ASSUME NEW f
  PROVE  /\ parseProcessLine(f) \in Seq(Figuras) /\ Len(parseProcessLine(f)) \in {0, 1}
         /\ parseProcessLine(f) # <<>> <=> Len(parseProcessLine(f)) = 1
         /\ Len(parseProcessLine(f)) = 1 => parseProcessLine(f)[1].pid = f[1]
<1>1. CASE Len(f) < 7 \/ f[1] \notin Int
  <2>1. parseProcessLine(f) = <<>>
    BY <1>1, Zenon DEF parseProcessLine
  <2> QED
    BY <2>1, EmptySeq
<1>2. CASE ~(Len(f) < 7 \/ f[1] \notin Int)
  <2>1. PICK p : p = Proceso(f, Len(f) - 3, Len(f) - 2, Len(f))
    OBVIOUS
  <2>2. parseProcessLine(f) = <<p>>
    BY <1>2, <2>1, Zenon DEF parseProcessLine
  <2>3. \A x : Numero(x) \in Nat /\ Decimal(x) \in Int
    BY DEF Numero, Decimal
  <2>4. p \in Figuras /\ p.pid = f[1]
    BY <1>2, <2>1, <2>3 DEF Proceso, Figuras
  <2>5. <<p>> \in Seq(Figuras) /\ Len(<<p>>) = 1 /\ <<p>>[1] = p /\ <<p>> # <<>>
    BY <2>4
  <2> QED
    BY <2>2, <2>4, <2>5
<1> QED
  BY <1>1, <1>2

(* The first line starts with the PID; the only line of a text has all the *)
(* fields and the figures where the parser looks for them.                 *)
LEMMA PrimeraLinea ==
  ASSUME NEW l \in Linea
  PROVE  /\ 1 \in DOMAIN texto[l.tarea] /\ Lineas(l)[1][1] = l.tarea
         /\ UnaLinea(l.tarea) => /\ Len(parseProcessLine(Lineas(l)[1])) = 1
                                 /\ parseProcessLine(Lineas(l)[1])[1].rss = l.rss
<1> DEFINE cab == <<l.tarea>>
           cola == <<l.rss + 1, l.rss, l.rss, l.rss>>
<1>1. /\ l.tarea \in Tarea /\ l.tarea \in Int /\ l.rss \in Nat
  BY SnapshotAssumption DEF Linea, Tarea
<1>2. PICK ls : ls = texto[l.tarea]
  OBVIOUS
<1>3. ls \in Seq(Seq(Campo)) /\ ls # <<>>
  BY <1>1, <1>2, SnapshotAssumption
<1>4. /\ Len(ls) \in Nat /\ DOMAIN ls = 1..Len(ls) /\ Len(ls) >= 1
  BY <1>3, LenProperties, EmptySeq
<1>5. 1 \in DOMAIN ls /\ ls[1] \in Seq(Campo)
  <2>1. 1 \in 1..Len(ls)
    BY <1>4
  <2> QED
    BY <1>3, <1>4, <2>1, ElementOfSeq
<1>6. PICK a : a = ls[1]
  OBVIOUS
<1>7. a \in Seq(Campo) /\ Len(a) \in Nat
  BY <1>5, <1>6, LenProperties
<1>8. PICK u : u = IF 1 = Len(ls) THEN cola ELSE <<>>
  OBVIOUS
<1>9. cola \in Seq(Campo) /\ Len(cola) = 4 /\ cola[1] = l.rss + 1 /\ cola[2] = l.rss /\ cola[4] = l.rss
  <2>1. l.rss \in Campo /\ l.rss + 1 \in Campo
    BY <1>1 DEF Campo
  <2> QED
    BY <2>1
<1>10. cab \in Seq(Campo) /\ Len(cab) = 1 /\ cab[1] = l.tarea
  <2>1. l.tarea \in Campo
    BY <1>1 DEF Campo
  <2> QED
    BY <2>1
<1>11. u \in Seq(Campo) /\ Len(u) \in Nat
  <2>1. <<>> \in Seq(Campo) /\ Len(<<>>) = 0
    BY EmptySeq
  <2> HIDE DEF cola
  <2> QED
    BY <1>8, <1>9, <2>1
<1>12. Lineas(l)[1] = cab \o a \o u
  <2>1. Lineas(l)[1] = (IF 1 = 1 THEN <<l.tarea>> ELSE <<>>) \o ls[1] \o
                       (IF 1 = Len(ls) THEN cola ELSE <<>>)
    BY <1>2, <1>5 DEF Lineas
  <2> QED
    BY <1>6, <1>8, <2>1
<1> HIDE DEF cab, cola
<1>13. /\ cab \o a \in Seq(Campo) /\ Len(cab \o a) = 1 + Len(a)
       /\ (cab \o a)[1] = l.tarea
  <2>1. /\ cab \o a \in Seq(Campo) /\ Len(cab \o a) = Len(cab) + Len(a)
        /\ \A i \in 1..Len(cab) + Len(a) :
             (cab \o a)[i] = IF i <= Len(cab) THEN cab[i] ELSE a[i - Len(cab)]
    BY <1>7, <1>10, ConcatProperties
  <2>2. 1 \in 1..Len(cab) + Len(a) /\ 1 <= Len(cab)
    BY <1>7, <1>10
  <2> QED
    BY <1>10, <2>1, <2>2
<1>14. PICK h : h = cab \o a
  OBVIOUS
<1>15. PICK f : f = h \o u
  OBVIOUS
<1>16. h \in Seq(Campo) /\ Len(h) = 1 + Len(a) /\ Len(h) \in Nat /\ h[1] = l.tarea
  BY <1>7, <1>13, <1>14
<1>17. /\ f \in Seq(Campo) /\ Len(f) = Len(h) + Len(u)
       /\ \A i \in 1..Len(h) + Len(u) : f[i] = IF i <= Len(h) THEN h[i] ELSE u[i - Len(h)]
  <2>1. /\ h \o u \in Seq(Campo) /\ Len(h \o u) = Len(h) + Len(u)
        /\ \A i \in 1..Len(h) + Len(u) :
             (h \o u)[i] = IF i <= Len(h) THEN h[i] ELSE u[i - Len(h)]
    <3>1. h \in Seq(Campo) /\ u \in Seq(Campo)
      BY <1>11, <1>16
    <3> QED
      BY ONLY <3>1, ConcatProperties
  <2> QED
    BY <1>15, <2>1
<1>18. f[1] = l.tarea
  <2>1. 1 \in 1..Len(h) + Len(u) /\ 1 <= Len(h)
    BY <1>7, <1>11, <1>16
  <2> QED
    BY <1>16, <1>17, <2>1
<1>19. Lineas(l)[1] = f
  BY <1>12, <1>14, <1>15
<1>20. ASSUME UnaLinea(l.tarea)
       PROVE  Len(parseProcessLine(f)) = 1 /\ parseProcessLine(f)[1].rss = l.rss
  <2>1. Len(ls) = 1 /\ Len(a) >= 2
    BY <1>1, <1>2, <1>6, <1>20, SnapshotAssumption DEF UnaLinea
  <2>2. u = cola
    BY <1>8, <2>1
  <2>3. PICK n \in Nat : n = Len(h) /\ n >= 3
    BY <1>7, <1>16, <2>1
  <2>4. Len(u) = 4 /\ Len(f) = n + 4
    BY <1>9, <1>17, <2>2, <2>3
  <2>5. f[n + 2] = l.rss
    <3>1. n + 2 \in 1..Len(h) + Len(u) /\ ~(n + 2 <= Len(h)) /\ n + 2 - Len(h) = 2
      BY <2>3, <2>4
    <3>2. f[n + 2] = u[n + 2 - Len(h)]
      BY <1>17, <3>1
    <3> QED
      BY <1>9, <2>2, <3>1, <3>2
  <2>6. ~(Len(f) < 7 \/ f[1] \notin Int) /\ Len(f) - 2 = n + 2
    BY <1>1, <1>18, <2>3, <2>4
  <2>7. PICK p : p = Proceso(f, Len(f) - 3, Len(f) - 2, Len(f))
    OBVIOUS
  <2>8. parseProcessLine(f) = <<p>>
    BY <2>6, <2>7, Zenon DEF parseProcessLine
  <2>9. p.rss = Numero(l.rss)
    BY <2>5, <2>6, <2>7 DEF Proceso
  <2>10. Numero(l.rss) = l.rss
    BY <1>1 DEF Numero
  <2>11. Len(<<p>>) = 1 /\ <<p>>[1] = p
    OBVIOUS
  <2> QED
    BY <2>8, <2>9, <2>10, <2>11
<1> QED
  BY <1>2, <1>5, <1>18, <1>19, <1>20

(* The lines of one process, parsed one by one, are BienLeida.             *)
LEMMA LineasFacts ==
  ASSUME NEW l \in Linea
  PROVE  BienLeida(l, DeLinea(l))
<1> DEFINE n == Len(texto[l.tarea])
           q == [j \in DOMAIN Lineas(l) |-> parseProcessLine(Lineas(l)[j])]
<1>1. n \in Nat /\ DOMAIN texto[l.tarea] = 1..n /\ DOMAIN Lineas(l) = 1..n
  <2>1. l.tarea \in Tarea
    BY DEF Linea
  <2>2. texto[l.tarea] \in Seq(Seq(Campo))
    BY <2>1, SnapshotAssumption
  <2> QED
    BY <2>2, LenProperties DEF Lineas
<1> HIDE DEF n
<1>2. q = [j \in 1..n |-> parseProcessLine(Lineas(l)[j])]
  BY <1>1
<1>3. q \in Seq(Seq(Figuras)) /\ Len(q) = n /\ \A j \in 1..n : q[j] = parseProcessLine(Lineas(l)[j])
  <2>1. \A j \in 1..n : parseProcessLine(Lineas(l)[j]) \in Seq(Figuras)
    BY UnaLineaLeida
  <2>2. [j \in 1..n |-> parseProcessLine(Lineas(l)[j])] \in Seq(Seq(Figuras))
    BY <1>1, <2>1, IsASeq
  <2>3. q \in Seq(Seq(Figuras)) /\ DOMAIN q = 1..n
        /\ \A j \in 1..n : q[j] = parseProcessLine(Lineas(l)[j])
    BY <1>2, <2>2
  <2> HIDE DEF q
  <2>4. Len(q) \in Nat /\ DOMAIN q = 1..Len(q)
    BY <2>3, LenProperties
  <2> QED
    BY <1>1, <2>3, <2>4
<1>4. DeLinea(l) = FlattenSeq(q)
  BY DEF DeLinea
<1> HIDE DEF q
<1>5. PICK g : g = FlattenSeq(q)
  OBVIOUS
<1>6. /\ \A j \in 1..n : Len(q[j]) \in {0, 1} /\ (q[j] # <<>> <=> Len(q[j]) = 1)
      /\ \A j \in 1..n : Len(q[j]) = 1 => q[j][1].pid = Lineas(l)[j][1]
  BY <1>3, UnaLineaLeida
<1>7. \A s \in Figuras : s.pid \in Int
  BY DEF Figuras
<1>8. /\ g \in Seq(Figuras)
      /\ \A k \in 1..Len(g) : \E i \in 1..n : \E j \in 1..Len(q[i]) : g[k] = q[i][j]
      /\ \A i \in 1..n : \A j \in 1..Len(q[i]) : \E k \in 1..Len(g) : g[k] = q[i][j]
  <2> DEFINE P(x, m) ==
        /\ x \in Seq(Figuras)
        /\ \A k \in 1..Len(x) : \E i \in 1..m : \E j \in 1..Len(q[i]) : x[k] = q[i][j]
        /\ \A i \in 1..m : \A j \in 1..Len(q[i]) : \E k \in 1..Len(x) : x[k] = q[i][j]
  <2>1. P(FlattenSeq(q), Len(q))
    BY <1>3, AplanaTodo
  <2> HIDE DEF P
  <2>2. P(g, n)
    BY <1>3, <1>5, <2>1
  <2> QED
    BY <2>2 DEF P
<1>9. \A j \in 1..n : j # 1 /\ Len(q[j]) = 1 => Inventa(l)
  <2> SUFFICES ASSUME NEW j \in 1..n, j # 1, Len(q[j]) = 1 PROVE Inventa(l)
    OBVIOUS
  <2>1. j \in 2..Len(texto[l.tarea])
    BY <1>1 DEF n
  <2>2. parseProcessLine(Lineas(l)[j]) # <<>>
    BY <1>3, <1>6
  <2> QED
    BY <2>1, <2>2 DEF Inventa
<1>10. ASSUME NEW k \in 1..Len(g)
       PROVE  \E j \in 1..n : /\ Len(q[j]) = 1 /\ g[k] = q[j][1] /\ g[k].pid = Lineas(l)[j][1]
                              /\ j # 1 => Inventa(l)
  <2>1. PICK i \in 1..n : \E j \in 1..Len(q[i]) : g[k] = q[i][j]
    BY <1>8
  <2>2. PICK j \in 1..Len(q[i]) : g[k] = q[i][j]
    BY <2>1
  <2>3. Len(q[i]) = 1 /\ j = 1
    <3>1. CASE Len(q[i]) = 0
      BY <3>1
    <3>2. CASE Len(q[i]) = 1
      BY <3>2
    <3> QED
      BY <1>6, <3>1, <3>2
  <2>4. g[k] = q[i][1] /\ g[k].pid = Lineas(l)[i][1]
    BY <1>6, <2>2, <2>3
  <2> QED
    BY <1>9, <2>3, <2>4
<1>11. ASSUME ~Inventa(l) PROVE Len(g) <= 1
  <2>1. \A i \in 1..Len(q) : Len(q[i]) <= 1
    <3>1. \A x \in {0, 1} : x <= 1
      OBVIOUS
    <3>2. \A i \in 1..Len(q) : Len(q[i]) \in {0, 1}
      BY <1>3, <1>6, Zenon
    <3> QED
      BY <3>1, <3>2, Zenon
  <2>2. \A i \in 1..Len(q) : Len(q[i]) = 1 => i = 1
    BY <1>3, <1>9, <1>11
  <2>3. Len(FlattenSeq(q)) <= 1
    BY <1>3, <1>7, <2>1, <2>2, AplanaUno
  <2> QED
    BY <1>5, <2>3
<1>12. ASSUME UnaLinea(l.tarea)
       PROVE  /\ \E k \in 1..Len(g) : g[k].pid = l.tarea
              /\ \A k \in 1..Len(g) : g[k].rss = l.rss
  <2>1. n = 1 /\ 1 \in 1..n
    BY <1>12 DEF UnaLinea, n
  <2>2. /\ Lineas(l)[1][1] = l.tarea /\ Len(q[1]) = 1 /\ q[1][1].rss = l.rss
        /\ q[1][1].pid = l.tarea
    BY <1>3, <1>6, <1>12, <2>1, PrimeraLinea
  <2>3. \E k \in 1..Len(g) : g[k] = q[1][1]
    <3>1. 1 \in 1..Len(q[1])
      BY <2>2
    <3> QED
      BY <1>8, <2>1, <3>1
  <2>4. \A k \in 1..Len(g) : g[k] = q[1][1]
    <3>1. \A j \in 1..n : j = 1
      BY <2>1
    <3> QED
      BY <1>10, <3>1, Zenon
  <2> QED
    BY <2>2, <2>3, <2>4
<1>13. \A k \in 1..Len(g) : \E j \in DOMAIN texto[l.tarea] :
         /\ g[k].pid = Lineas(l)[j][1]
         /\ j # 1 => Inventa(l)
  BY <1>1, <1>10
<1>14. BienLeida(l, g)
  BY <1>8, <1>11, <1>12, <1>13, Zenon DEF BienLeida
<1> QED
  BY <1>4, <1>5, <1>14
----------------------------------------------------------------------------
(* What is known of the processes from the parser on.                      *)
Parseado == fase \in {"adjunta", "guarda", "lista", "rankea", "elimina"}
EnOrden(ps) == \A k, l \in 1..Len(ps) : k < l => ps[k].pid < ps[l].pid
(* Each process comes from a line of some text, the first one unless the   *)
(* text invents processes.                                                 *)
Fiel(p) == \E i \in DOMAIN salida :
             /\ \E j \in DOMAIN texto[salida[i].tarea] :
                  p.pid = Lineas(salida[i])[j][1] /\ (j # 1 => Inventa(salida[i]))
             /\ UnaLinea(salida[i].tarea) => p.rss = salida[i].rss
Fieles(ps) == \A k \in 1..Len(ps) : Fiel(ps[k])
Completos(ps) ==
  \A i \in DOMAIN salida : UnaLinea(salida[i].tarea) =>
    \E k \in 1..Len(ps) : ps[k].pid = salida[i].tarea /\ ps[k].rss = salida[i].rss
ProcsOK == /\ procs \in Seq(Figuras)
           /\ ~Parseado => procs = <<>>
           /\ Parseado => Fieles(procs) /\ Completos(procs) /\ (Veraces => EnOrden(procs))
(* The processes whose cgroup has been read.                               *)
Hechos == IF fase = "adjunta" THEN 1..cursor - 1 ELSE 1..Len(procs)
(* A PID that was printed is not born again; one a text invented may be    *)
(* born after its cgroup was looked for.                                   *)
CidOK(k) ==
  /\ procs[k].cid # SinContenedor => procs[k].pid \in De(procs[k].cid)
  /\ fase \in {"adjunta", "guarda"} /\ procs[k].pid \in vivas \cap Impresas =>
       procs[k].cid = duenno[procs[k].pid]
  /\ Veraces /\ procs[k].cid # SinContenedor /\ UnaLinea(principal(procs[k].cid)) =>
       \E l \in Hechos : procs[l].pid = principal(procs[k].cid) /\ procs[l].cid # SinContenedor
AdjuntoOK ==
  Parseado => /\ fase = "adjunta" => cursor \in 1..Len(procs) + 1
              /\ \A k \in Hechos : CidOK(k)
LecturaOK == ProcsOK /\ AdjuntoOK

(* When no text invents a process, each one has the PID of a line printed. *)
LEMMA VerazImpresa ==
  ASSUME WalkOK, Veraces, NEW p, Fiel(p)
  PROVE  p.pid \in Impresas
<1>1. PICK i \in DOMAIN salida : \E j \in DOMAIN texto[salida[i].tarea] :
        p.pid = Lineas(salida[i])[j][1] /\ (j # 1 => Inventa(salida[i]))
  BY DEF Fiel
<1>2. p.pid = Lineas(salida[i])[1][1]
  BY <1>1 DEF Veraces
<1>3. salida[i] \in Linea
  BY ElementOfSeq, LenProperties DEF WalkOK, LineasOK
<1>4. p.pid = salida[i].tarea
  BY <1>2, <1>3, PrimeraLinea
<1> QED
  BY <1>1, <1>4 DEF Impresas

(* What ReadSnapshot stores: the processes of the lines, in their order.   *)
LEMMA ReadProcs ==
  ASSUME WalkOK, NEW r, r = FlattenSeq([i \in DOMAIN salida |-> DeLinea(salida[i])])
  PROVE  r \in Seq(Figuras) /\ Fieles(r) /\ Completos(r) /\ (Veraces => EnOrden(r))
<1> DEFINE q == [i \in DOMAIN salida |-> DeLinea(salida[i])]
           n == Len(salida)
<1>1. /\ salida \in Seq(Linea) /\ n \in Nat /\ DOMAIN salida = 1..n
      /\ \A i \in 1..n : salida[i] \in Linea
  BY ElementOfSeq, LenProperties DEF WalkOK, LineasOK
<1>2. \A i \in 1..n : BienLeida(salida[i], DeLinea(salida[i]))
  BY <1>1, LineasFacts
<1> HIDE DEF n
<1>3. q = [i \in 1..n |-> DeLinea(salida[i])]
  BY <1>1
<1>4. \A i \in 1..n : DeLinea(salida[i]) \in Seq(Figuras)
  BY <1>2 DEF BienLeida
<1>5. q \in Seq(Seq(Figuras)) /\ Len(q) = n /\ \A i \in 1..n : q[i] = DeLinea(salida[i])
  <2>1. [i \in 1..n |-> DeLinea(salida[i])] \in Seq(Seq(Figuras))
    BY <1>1, <1>4, IsASeq
  <2>2. q \in Seq(Seq(Figuras)) /\ DOMAIN q = 1..n /\ \A i \in 1..n : q[i] = DeLinea(salida[i])
    BY <1>3, <2>1
  <2> HIDE DEF q
  <2>3. Len(q) \in Nat /\ DOMAIN q = 1..Len(q)
    BY <2>2, LenProperties
  <2> QED
    BY <1>1, <2>2, <2>3
<1>6. r = FlattenSeq(q)
  OBVIOUS
<1> HIDE DEF q
<1>7. \A i \in 1..n : BienLeida(salida[i], q[i])
  BY <1>2, <1>5
<1>8. /\ r \in Seq(Figuras)
      /\ \A k \in 1..Len(r) : \E i \in 1..n : \E j \in 1..Len(q[i]) : r[k] = q[i][j]
      /\ \A i \in 1..n : \A j \in 1..Len(q[i]) : \E k \in 1..Len(r) : r[k] = q[i][j]
  <2> DEFINE P(x, m) ==
        /\ x \in Seq(Figuras)
        /\ \A k \in 1..Len(x) : \E i \in 1..m : \E j \in 1..Len(q[i]) : x[k] = q[i][j]
        /\ \A i \in 1..m : \A j \in 1..Len(q[i]) : \E k \in 1..Len(x) : x[k] = q[i][j]
  <2>1. P(FlattenSeq(q), Len(q))
    BY <1>5, AplanaTodo
  <2> HIDE DEF P
  <2>2. P(r, n)
    BY <1>5, <1>6, <2>1
  <2> QED
    BY <2>2 DEF P
<1>9. Fieles(r)
  <2> SUFFICES ASSUME NEW k \in 1..Len(r) PROVE Fiel(r[k])
    BY DEF Fieles
  <2>1. PICK i \in 1..n : \E j \in 1..Len(q[i]) : r[k] = q[i][j]
    BY <1>8
  <2>2. PICK h \in 1..Len(q[i]) : r[k] = q[i][h]
    BY <2>1
  <2>3. BienLeida(salida[i], q[i])
    BY <1>7
  <2>4. \E j \in DOMAIN texto[salida[i].tarea] :
          q[i][h].pid = Lineas(salida[i])[j][1] /\ (j # 1 => Inventa(salida[i]))
    BY <2>3, Zenon DEF BienLeida
  <2>5. UnaLinea(salida[i].tarea) => q[i][h].rss = salida[i].rss
    BY <2>3, Zenon DEF BienLeida
  <2>6. i \in DOMAIN salida
    BY <1>1
  <2> QED
    BY <2>2, <2>4, <2>5, <2>6, Zenon DEF Fiel
<1>10. Completos(r)
  <2> SUFFICES ASSUME NEW i \in 1..n, UnaLinea(salida[i].tarea)
               PROVE  \E k \in 1..Len(r) : r[k].pid = salida[i].tarea /\ r[k].rss = salida[i].rss
    BY <1>1, Zenon DEF Completos
  <2>1. BienLeida(salida[i], q[i])
    BY <1>7
  <2>2. PICK h \in 1..Len(q[i]) : q[i][h].pid = salida[i].tarea
    BY <2>1, Zenon DEF BienLeida
  <2>3. q[i][h].rss = salida[i].rss
    BY <2>1, <2>2, Zenon DEF BienLeida
  <2>4. PICK k \in 1..Len(r) : r[k] = q[i][h]
    BY <1>8, <2>2
  <2> QED
    BY <2>2, <2>3, <2>4
<1>11. ASSUME Veraces PROVE EnOrden(r)
  <2>1. \A i \in 1..n : ~Inventa(salida[i])
    BY <1>1, <1>11 DEF Veraces
  <2>2. \A i \in 1..Len(q) : Len(q[i]) <= 1
    BY <1>5, <1>7, <2>1 DEF BienLeida
  <2>3. \A i \in 1..n : Len(q[i]) = 1 => q[i][1].pid = salida[i].tarea
    <3> SUFFICES ASSUME NEW i \in 1..n, Len(q[i]) = 1 PROVE q[i][1].pid = salida[i].tarea
      OBVIOUS
    <3>1. BienLeida(salida[i], q[i]) /\ 1 \in 1..Len(q[i])
      BY <1>7
    <3>2. PICK j \in DOMAIN texto[salida[i].tarea] :
            q[i][1].pid = Lineas(salida[i])[j][1] /\ (j # 1 => Inventa(salida[i]))
      BY <3>1, Zenon DEF BienLeida
    <3>3. q[i][1].pid = Lineas(salida[i])[1][1]
      BY <2>1, <3>2
    <3> QED
      BY <1>1, <3>3, PrimeraLinea
  <2>4. \A i, j \in 1..n : i < j => salida[i].tarea < salida[j].tarea
    BY <1>1 DEF WalkOK, LineasOK
  <2>5. \A i, j \in 1..Len(q) :
          i < j /\ Len(q[i]) = 1 /\ Len(q[j]) = 1 => q[i][1].pid < q[j][1].pid
    BY <1>5, <2>3, <2>4
  <2>6. \A s \in Figuras : s.pid \in Int
    BY DEF Figuras
  <2>7. \A k, l \in 1..Len(FlattenSeq(q)) :
          k < l => FlattenSeq(q)[k].pid < FlattenSeq(q)[l].pid
    BY <1>5, <2>2, <2>5, <2>6, AplanaEnOrden
  <2> DEFINE O(x) == \A k, l \in 1..Len(x) : k < l => x[k].pid < x[l].pid
  <2>8. O(FlattenSeq(q))
    BY <2>7
  <2> HIDE DEF O
  <2>9. O(r)
    BY <1>6, <2>8
  <2> QED
    BY <2>9 DEF O, EnOrden
<1> QED
  BY <1>8, <1>9, <1>10, <1>11

(* One container id more; PIDs and figures stay.                           *)
LEMMA AttachProcs ==
  ASSUME HostOK, procs \in Seq(Figuras), cursor \in 1..Len(procs), Attach
  PROVE  /\ procs' \in Seq(Figuras) /\ Len(procs') = Len(procs)
         /\ \A k \in 1..Len(procs) :
              /\ procs'[k].pid = procs[k].pid /\ procs'[k].rss = procs[k].rss
              /\ procs'[k].cid = IF k = cursor THEN containerIDFor(procs[cursor].pid)
                                                ELSE procs[k].cid
<1> DEFINE c == containerIDFor(procs[cursor].pid)
<1>1. PICK p \in Figuras : p = procs[cursor]
  BY ElementOfSeq
<1>2. c \in Contenedores \cup {SinContenedor}
  <2>1. vivas \subseteq Tarea
    <3>1. vivas \subseteq 1..nacidas /\ nacidas \in 0..N /\ N \in Nat
      BY SnapshotAssumption DEF HostOK, HostType
    <3>2. 1..nacidas \subseteq 1..N
      BY <3>1
    <3> QED
      BY <3>1, <3>2 DEF Tarea
  <2> QED
    BY <1>1, <2>1 DEF containerIDFor, Contenedores
<1>3. procs' = [procs EXCEPT ![cursor].cid = c]
  BY DEF Attach, AdjuntaEn
<1> HIDE DEF c
<1>4. PICK e : e = [p EXCEPT !.cid = c]
  OBVIOUS
<1>5. e \in Figuras /\ e.pid = p.pid /\ e.rss = p.rss /\ e.cid = c
  BY <1>2, <1>4 DEF Figuras
<1>6. procs' = [procs EXCEPT ![cursor] = e]
  BY <1>1, <1>3, <1>4
<1>7. /\ procs' \in Seq(Figuras) /\ Len(procs') = Len(procs)
      /\ \A k \in 1..Len(procs) : procs'[k] = IF k = cursor THEN e ELSE procs[k]
  BY <1>5, <1>6, ExceptSeq
<1> QED
  BY <1>1, <1>5, <1>7 DEF c

(* A step that leaves the processes alone, with none born again.           *)
LEMMA QuietoLectura ==
  ASSUME LecturaOK, Parseado, Parseado', procs' = procs, salida' = salida, Hechos' = Hechos,
         fase' = "adjunta" => fase = "adjunta" /\ cursor' = cursor,
         fase' \in {"adjunta", "guarda"} =>
           /\ fase \in {"adjunta", "guarda"}
           /\ vivas' \cap Impresas \subseteq vivas
  PROVE  LecturaOK'
<1>0. Impresas' = Impresas /\ (Veraces' <=> Veraces)
  BY DEF Impresas, Veraces
<1>1. ProcsOK'
  BY <1>0 DEF LecturaOK, ProcsOK, EnOrden, Fieles, Fiel, Completos
<1>2. fase' = "adjunta" => cursor' \in 1..Len(procs') + 1
  BY DEF LecturaOK, AdjuntoOK
<1>3. ASSUME NEW k \in Hechos PROVE CidOK(k)'
  <2>1. CidOK(k)
    BY DEF LecturaOK, AdjuntoOK
  <2>2. fase' \in {"adjunta", "guarda"} /\ procs[k].pid \in vivas' \cap Impresas =>
          fase \in {"adjunta", "guarda"} /\ procs[k].pid \in vivas \cap Impresas
    OBVIOUS
  <2> QED
    BY <1>0, <2>1, <2>2 DEF CidOK, De
<1> QED
  BY <1>1, <1>2, <1>3 DEF LecturaOK, AdjuntoOK

(* Nothing is known while there is no parsed snapshot.                     *)
LEMMA SinLectura == ASSUME procs' = <<>>, ~Parseado' PROVE LecturaOK'
<1>1. ProcsOK'
  BY EmptySeq DEF ProcsOK
<1> QED
  BY <1>1 DEF LecturaOK, AdjuntoOK

(* A snapshot that was just parsed has no container ids yet.               *)
LEMMA ReadLectura == ASSUME WalkOK, LecturaOK, ReadSnapshot PROVE LecturaOK'
<1>1. procs' = FlattenSeq([i \in DOMAIN salida |-> DeLinea(salida[i])])
  BY DEF ReadSnapshot, DeLinea
<1>2. salida' = salida /\ fase' = "adjunta" /\ cursor' = 1 /\ (Veraces' <=> Veraces)
  BY DEF ReadSnapshot, Veraces
<1>3. /\ procs' \in Seq(Figuras) /\ Fieles(procs') /\ Completos(procs')
      /\ Veraces => EnOrden(procs')
  BY <1>1, ReadProcs
<1>4. ProcsOK'
  BY <1>2, <1>3 DEF ProcsOK, Parseado, EnOrden, Fieles, Fiel, Completos
<1>5. AdjuntoOK'
  <2>1. Hechos' = {}
    BY <1>2 DEF Hechos
  <2>2. cursor' \in 1..Len(procs') + 1
    <3>1. Len(procs') \in Nat
      BY <1>3, LenProperties
    <3> QED
      BY <1>2, <3>1
  <2> QED
    BY <2>1, <2>2 DEF AdjuntoOK
<1> QED
  BY <1>4, <1>5 DEF LecturaOK

(* The cgroup of one process.  When it is that of a container, the main    *)
(* process of the container is older and alive, so its line comes before:  *)
(* either it is this one or its cgroup has been read.                      *)
LEMMA AttachLectura == ASSUME HostOK, WalkOK, LecturaOK, Attach PROVE LecturaOK'
<1> DEFINE n == Len(procs)
           t == procs[cursor].pid
<1>1. /\ fase = "adjunta" /\ fase' = "adjunta" /\ salida' = salida /\ vivas' = vivas
      /\ cursor' = cursor + 1 /\ cursor <= n
      /\ Impresas' = Impresas /\ (Veraces' <=> Veraces)
  BY DEF Attach, host, Impresas, Veraces
<1>2. /\ procs \in Seq(Figuras) /\ n \in Nat /\ cursor \in 1..n
      /\ Fieles(procs) /\ Completos(procs) /\ (Veraces => EnOrden(procs))
      /\ \A k \in 1..cursor - 1 : CidOK(k)
  <2>1. procs \in Seq(Figuras) /\ Parseado
    BY <1>1 DEF LecturaOK, ProcsOK, Parseado
  <2>2. n \in Nat /\ cursor \in 1..n + 1
    BY <1>1, <2>1, LenProperties DEF LecturaOK, AdjuntoOK
  <2>3. cursor \in 1..n
    BY <1>1, <2>2
  <2> QED
    BY <1>1, <2>1, <2>2, <2>3 DEF LecturaOK, ProcsOK, AdjuntoOK, Hechos
<1>3. /\ procs' \in Seq(Figuras) /\ Len(procs') = n
      /\ \A k \in 1..n :
           /\ procs'[k].pid = procs[k].pid /\ procs'[k].rss = procs[k].rss
           /\ procs'[k].cid = IF k = cursor THEN containerIDFor(t) ELSE procs[k].cid
  BY <1>2, AttachProcs
<1> HIDE DEF n
<1>4. ProcsOK'
  <2>1. Veraces => EnOrden(procs')
    BY <1>2, <1>3 DEF EnOrden, n
  <2>2. Fieles(procs')
    <3>1. ASSUME NEW k \in 1..n PROVE Fiel(procs'[k])
      <4>1. procs'[k].pid = procs[k].pid /\ procs'[k].rss = procs[k].rss
        BY <1>3
      <4>2. Fiel(procs[k])
        BY <1>2 DEF Fieles, n
      <4> QED
        BY <4>1, <4>2, Zenon DEF Fiel
    <3> QED
      BY <1>3, <3>1 DEF Fieles
  <2>3. Completos(procs')
    BY <1>2, <1>3 DEF Completos, n
  <2> QED
    BY <1>1, <1>3, <2>1, <2>2, <2>3 DEF ProcsOK, Parseado, EnOrden, Fieles, Fiel, Completos
<1>5. Hechos' = 1..cursor /\ 1..cursor \subseteq 1..n /\ cursor \in 1..cursor
  <2>1. cursor + 1 - 1 = cursor
    BY <1>2
  <2> QED
    BY <1>1, <1>2, <2>1 DEF Hechos
<1>6. Hechos = 1..cursor - 1
  BY <1>1 DEF Hechos
<1>7. ASSUME NEW k \in 1..cursor - 1 PROVE CidOK(k)'
  <2>1. k \in 1..n /\ k # cursor /\ \A l \in 1..cursor - 1 : l \in 1..cursor /\ l \in 1..n /\ l # cursor
    BY <1>2
  <2>2. CidOK(k)
    BY <1>2
  <2>3. procs'[k].pid = procs[k].pid /\ procs'[k].cid = procs[k].cid
    BY <1>3, <2>1
  <2>4. ASSUME Veraces, procs[k].cid # SinContenedor, UnaLinea(principal(procs[k].cid))
        PROVE  \E l \in Hechos' : procs'[l].pid = principal(procs[k].cid) /\ procs'[l].cid # SinContenedor
    <3>1. PICK l \in 1..cursor - 1 :
            procs[l].pid = principal(procs[k].cid) /\ procs[l].cid # SinContenedor
      BY <1>6, <2>2, <2>4 DEF CidOK
    <3> QED
      BY <1>3, <1>5, <2>1, <3>1
  <2> QED
    BY <1>1, <2>2, <2>3, <2>4 DEF CidOK
<1>10. PICK c : c = cursor
  OBVIOUS
<1>8. CidOK(c)'
  <2>1. procs'[c].pid = t /\ procs'[c].cid = containerIDFor(t)
    BY <1>2, <1>3, <1>10
  <2>2. Fiel(procs[cursor])
    BY <1>2 DEF Fieles, n
  <2>3. Veraces => t \in Impresas
    BY <2>2, VerazImpresa
  <2>4. vivas \subseteq Tarea /\ N \in Nat
    <3>1. vivas \subseteq 1..nacidas /\ nacidas \in 0..N /\ N \in Nat
      BY SnapshotAssumption DEF HostOK, HostType
    <3>2. 1..nacidas \subseteq 1..N
      BY <3>1
    <3> QED
      BY <3>1, <3>2 DEF Tarea
  <2>5. CASE t \notin vivas
    <3> HIDE DEF t
    <3>1. procs'[c].cid = SinContenedor
      BY <2>1, <2>5 DEF containerIDFor
    <3> QED
      BY <1>1, <2>1, <2>5, <3>1 DEF CidOK
  <2>6. CASE t \in vivas
    <3>1. procs'[c].cid = duenno[t] /\ t \in De(duenno[t])
      BY <2>1, <2>4, <2>6 DEF containerIDFor, De
    <3>2. ASSUME Veraces, duenno[t] # SinContenedor, UnaLinea(principal(duenno[t]))
          PROVE  \E l \in Hechos' :
                   procs'[l].pid = principal(duenno[t]) /\ procs'[l].cid # SinContenedor
      <4>1. PICK m : m = principal(duenno[t])
        OBVIOUS
      <4>2. m \in vivas /\ m \in De(duenno[t]) /\ m <= t
        BY <2>4, <2>6, <3>1, <3>2, <4>1, PrincipalEsMinimo DEF HostOK, MainAlive, De
      <4>3. m \in Tarea /\ duenno[m] = duenno[t] /\ t \in Tarea
        BY <2>4, <2>6, <4>2 DEF De
      <4>4. t \in Impresas
        BY <2>3, <3>2
      <4>6. m \in Impresas
        <5>1. m = t \/ m < t
          BY <2>4, <4>2, <4>3 DEF Tarea
        <5> QED
          BY <4>2, <4>4, <5>1 DEF WalkOK, SinHuecos
      <4>7. PICK l \in 1..n : procs[l].pid = m
        <5>1. PICK j \in DOMAIN salida : m = salida[j].tarea
          BY <4>6 DEF Impresas
        <5>2. UnaLinea(salida[j].tarea)
          BY <3>2, <4>1, <5>1
        <5> QED
          BY <1>2, <5>1, <5>2 DEF Completos, n
      <4>8. ~(cursor < l)
        <5> SUFFICES ASSUME cursor < l PROVE FALSE
          OBVIOUS
        <5>1. t < m
          BY <1>2, <3>2, <4>7 DEF EnOrden, n
        <5> QED
          BY <2>4, <4>2, <4>3, <5>1 DEF Tarea
      <4>9. l \in 1..cursor
        BY <1>2, <4>8
      <4>10. procs'[l].pid = m
        BY <1>3, <4>7
      <4>11. procs'[l].cid # SinContenedor
        <5>1. CASE l = cursor
          BY <1>10, <3>1, <3>2, <5>1
        <5>2. CASE l # cursor
          <6>1. l \in 1..cursor - 1
            BY <1>2, <4>9, <5>2
          <6>2. CidOK(l)
            BY <1>2, <6>1
          <6>3. procs[l].cid = duenno[m]
            BY <1>1, <4>2, <4>6, <4>7, <6>2 DEF CidOK
          <6> QED
            BY <1>3, <3>2, <4>3, <5>2, <6>3
        <5> QED
          BY <5>1, <5>2
      <4> QED
        BY <1>5, <4>1, <4>9, <4>10, <4>11
    <3> HIDE DEF t
    <3> QED
      BY <1>1, <2>1, <3>1, <3>2 DEF CidOK, De
  <2> QED
    BY <2>5, <2>6
<1>9. AdjuntoOK'
  <2>1. cursor' \in 1..Len(procs') + 1
    BY <1>1, <1>2, <1>3
  <2>2. \A k \in 1..cursor : k \in 1..cursor - 1 \/ k = c
    BY <1>2, <1>10
  <2>3. \A k \in Hechos' : CidOK(k)'
    BY <1>5, <1>7, <1>8, <2>2
  <2> QED
    BY <2>1, <2>3 DEF AdjuntoOK
<1> QED
  BY <1>4, <1>9 DEF LecturaOK

(* Processes come and go while the snapshot is being read: a PID that was  *)
(* printed is not born again.                                              *)
LEMMA HostLectura == ASSUME HostOK, WalkOK, LecturaOK, Host PROVE LecturaOK'
<1>1. fase' = fase /\ cursor' = cursor /\ salida' = salida /\ procs' = procs
  BY DEF Host, Kernel, Nace, Muere, Libera, lector
<1>2. \A t \in vivas' : t \in vivas \/ t = nacidas + 1
  BY DEF Host, Kernel, Nace, Muere, Libera
<1>3. CASE Parseado
  <2>1. vivas' \cap Impresas \subseteq vivas
    <3>1. Impresas \subseteq 1..nacidas /\ nacidas \in 0..N /\ N \in Nat
      BY SnapshotAssumption DEF WalkOK, LineasOK, HostOK, HostType
    <3>2. nacidas + 1 \notin 1..nacidas
      BY <3>1
    <3> QED
      BY <1>2, <3>1, <3>2
  <2>2. Hechos' = Hechos /\ Parseado'
    BY <1>1, <1>3 DEF Hechos, Parseado
  <2> QED
    BY <1>1, <1>3, <2>1, <2>2, QuietoLectura
<1>4. CASE ~Parseado
  BY <1>1, <1>4, SinLectura DEF LecturaOK, ProcsOK, Parseado
<1> QED
  BY <1>3, <1>4

(* What LecturaOK says of the processes holds in every state.              *)
LEMMA LecturaAlways == Spec => []LecturaOK
<1>1. Init => LecturaOK
  <2> SUFFICES ASSUME Init PROVE LecturaOK
    OBVIOUS
  <2>1. procs = <<>> /\ ~Parseado
    BY DEF Init, InitFoto, Parseado
  <2> QED
    BY <2>1, EmptySeq DEF LecturaOK, ProcsOK, AdjuntoOK
<1>2. HostOK /\ WalkOK /\ LecturaOK /\ [Next]_vars => LecturaOK'
  <2> SUFFICES ASSUME HostOK, WalkOK, LecturaOK, [Next]_vars PROVE LecturaOK'
    OBVIOUS
  <2>0. ~Parseado => procs = <<>>
    BY DEF LecturaOK, ProcsOK
  <2>1. CASE Host
    BY <2>1, HostLectura
  <2>2. CASE Empieza \/ Avanza \/ Imprime
    BY <2>0, <2>2, SinLectura DEF Empieza, Abre, Avanza, Salta, Imprime, Parseado
  <2>3. CASE ReadSnapshot
    BY <2>3, ReadLectura
  <2>4. CASE Attach
    BY <2>4, AttachLectura
  <2>5. CASE Correla
    <3>1. /\ fase = "adjunta" /\ fase' = "guarda" /\ cursor > Len(procs) /\ procs' = procs
          /\ salida' = salida /\ vivas' = vivas
      BY <2>5 DEF Correla, Adjuntado, host
    <3>2. cursor \in 1..Len(procs) + 1 /\ Len(procs) \in Nat
      BY <3>1, LenProperties DEF LecturaOK, ProcsOK, AdjuntoOK, Parseado
    <3>3. cursor - 1 = Len(procs)
      BY <3>1, <3>2
    <3>4. Hechos' = Hechos /\ Parseado /\ Parseado'
      BY <3>1, <3>3 DEF Hechos, Parseado
    <3> QED
      BY <3>1, <3>4, QuietoLectura
  <2>6. CASE Guarda \/ ListManaged \/ RankRAM \/ RankCPU \/ RankFalla \/ Rankeado
    <3>1. /\ fase \in {"guarda", "lista", "rankea"} /\ fase' \in {"lista", "rankea", "elimina"}
          /\ procs' = procs /\ salida' = salida
      BY <2>6 DEF Guarda, ListManaged, RankRAM, RankCPU, RankFalla, Rankeado, foto, lector
    <3>2. Hechos' = Hechos /\ Parseado /\ Parseado'
      BY <3>1 DEF Hechos, Parseado
    <3> QED
      BY <3>1, <3>2, QuietoLectura
  <2>7. CASE ListFalla \/ Elimina
    BY <2>7, SinLectura DEF ListFalla, Elimina, Fin, Parseado
  <2>8. CASE UNCHANGED vars
    <3>1. fase' = fase /\ cursor' = cursor /\ salida' = salida /\ procs' = procs /\ vivas' = vivas
      BY <2>8 DEF vars, foto, host, lector
    <3>2. Hechos' = Hechos /\ (Parseado' <=> Parseado)
      BY <3>1 DEF Hechos, Parseado
    <3>3. CASE Parseado
      BY <3>1, <3>2, <3>3, QuietoLectura
    <3>4. CASE ~Parseado
      BY <2>0, <3>1, <3>2, <3>4, SinLectura
    <3> QED
      BY <3>3, <3>4
  <2> QED
    BY <2>1, <2>2, <2>3, <2>4, <2>5, <2>6, <2>7, <2>8 DEF Next, Lee
<1> QED
  BY <1>1, <1>2, HostAlways, WalkAlways, PTL DEF Spec

(* However many "|" and numbers a name or a command has, whoever is on one *)
(* line is read with his PID and his RSS; what else is read stems from a   *)
(* text with a newline, whatever it looks like (parser.go:63-140).         *)
THEOREM ParsedRightAlways == Spec => []ParsedRight
<1>1. WalkOK /\ LecturaOK => ParsedRight
  <2> SUFFICES ASSUME WalkOK, LecturaOK, fase = "adjunta" PROVE ParsedRight
    BY DEF ParsedRight
  <2> DEFINE n == Len(procs)
  <2>1. /\ procs \in Seq(Figuras) /\ n \in Nat /\ DOMAIN procs = 1..n
        /\ Fieles(procs) /\ Completos(procs) /\ (Veraces => EnOrden(procs))
    BY LenProperties DEF LecturaOK, ProcsOK, Parseado
  <2>2. \A i \in DOMAIN salida : UnaLinea(salida[i].tarea) =>
          \E k \in DOMAIN procs : procs[k].pid = salida[i].tarea /\ procs[k].rss = salida[i].rss
    BY <2>1 DEF Completos
  <2>3. ASSUME NEW k \in DOMAIN procs
        PROVE  \E i \in DOMAIN salida :
                 /\ \E j \in DOMAIN texto[salida[i].tarea] : procs[k].pid = Lineas(salida[i])[j][1]
                 /\ UnaLinea(salida[i].tarea) => procs[k].rss = salida[i].rss
    <3>1. Fiel(procs[k])
      BY <2>1 DEF Fieles
    <3> QED
      BY <3>1, Zenon DEF Fiel
  <2>4. ASSUME Veraces, NEW k \in DOMAIN procs, NEW l \in DOMAIN procs, procs[k].pid = procs[l].pid
        PROVE  k = l
    <3>1. \A a, b \in 1..n : a < b => procs[a].pid < procs[b].pid
      BY <2>1, <2>4 DEF EnOrden
    <3>2. \A a \in 1..n : procs[a].pid \in Int
      <4>1. \A p \in Figuras : p.pid \in Int
        BY DEF Figuras
      <4>2. \A a \in 1..n : procs[a] \in Figuras
        BY <2>1, ElementOfSeq
      <4> QED
        BY <4>1, <4>2
    <3> HIDE DEF n
    <3> QED
      BY <2>1, <2>4, <3>1, <3>2
  <2> QED
    BY <2>2, <2>3, <2>4, Zenon DEF ParsedRight
<1> QED
  BY <1>1, WalkAlways, LecturaAlways, PTL

(* When Attach is done no PID is on the account of a container it is not   *)
(* of, not even one that a text invented, and a process that lived through *)
(* the whole reading is on its own's.                                      *)
THEOREM CorrelatedRightAlways == Spec => []CorrelatedRight
<1>1. HostOK /\ WalkOK /\ LecturaOK => CorrelatedRight
  <2> SUFFICES ASSUME HostOK, WalkOK, LecturaOK, Leido PROVE
        /\ \A i \in DOMAIN procs : procs[i].cid # SinContenedor => procs[i].pid \in De(procs[i].cid)
        /\ \A t \in testigos : UnaLinea(t) /\ duenno[t] # SinContenedor => Correlado(t)
    BY DEF CorrelatedRight
  <2>1. fase = "guarda" /\ Parseado /\ Hechos = 1..Len(procs) /\ DOMAIN procs = 1..Len(procs)
    BY LenProperties DEF Leido, Parseado, Hechos, LecturaOK, ProcsOK
  <2>2. \A i \in DOMAIN procs : CidOK(i)
    BY <2>1 DEF LecturaOK, AdjuntoOK
  <2>3. \A i \in DOMAIN procs : procs[i].cid # SinContenedor => procs[i].pid \in De(procs[i].cid)
    BY <2>2 DEF CidOK
  <2>4. ASSUME NEW t \in testigos, UnaLinea(t), duenno[t] # SinContenedor PROVE Correlado(t)
    <3>1. t \in Impresas /\ t \in vivas
      BY <2>1 DEF WalkOK, RecorridoOK, HostOK, HostType
    <3>2. PICK i \in DOMAIN salida : t = salida[i].tarea
      BY <3>1 DEF Impresas
    <3>3. PICK k \in 1..Len(procs) : procs[k].pid = t
      BY <2>1, <2>4, <3>2 DEF LecturaOK, ProcsOK, Completos
    <3>4. procs[k].cid = duenno[t]
      BY <2>1, <2>2, <3>1, <3>3 DEF CidOK
    <3> QED
      BY <2>1, <2>4, <3>3, <3>4 DEF Correlado
  <2> QED
    BY <2>3, <2>4
<1> QED
  BY <1>1, HostAlways, WalkAlways, LecturaAlways, PTL

(* A container whose main process is on one line never enters the          *)
(* decisions through its children alone, unless some text has a line that  *)
(* the parser takes for a process.                                         *)
THEOREM MainCorrelatedAlways == Spec => []MainCorrelated
<1>1. LecturaOK => MainCorrelated
  <2> SUFFICES ASSUME LecturaOK, Leido, Veraces, NEW c \in Contenedores, NEW t \in De(c),
                      Correlado(t), UnaLinea(principal(c))
               PROVE  Correlado(principal(c))
    BY DEF MainCorrelated
  <2>1. fase = "guarda" /\ Parseado /\ Hechos = 1..Len(procs) /\ DOMAIN procs = 1..Len(procs)
    BY LenProperties DEF Leido, Parseado, Hechos, LecturaOK, ProcsOK
  <2>2. PICK i \in DOMAIN procs : procs[i].pid = t /\ procs[i].cid # SinContenedor
    BY DEF Correlado
  <2>3. CidOK(i)
    BY <2>1 DEF LecturaOK, AdjuntoOK
  <2>4. procs[i].cid = c
    BY <2>2, <2>3 DEF CidOK, De
  <2>5. PICK l \in Hechos : procs[l].pid = principal(c) /\ procs[l].cid # SinContenedor
    BY <2>2, <2>3, <2>4 DEF CidOK
  <2> QED
    BY <2>1, <2>5 DEF Correlado
<1> QED
  BY <1>1, LecturaAlways, PTL
----------------------------------------------------------------------------
(* The series and the totals drawn beside them.                            *)
LEMMA SumaSolucion ==
  ASSUME NEW s \in Seq(Nat)
  PROVE  \E g \in [0..Len(s) -> Nat] :
           /\ g[0] = 0 /\ \A i \in 1..Len(s) : g[i] = g[i - 1] + s[i]
           /\ Suma(s) = g[Len(s)]
<1> DEFINE n == Len(s)
           Paso(f, i) == IF i = 0 THEN 0 ELSE f[i - 1] + s[i]
           Hay(m) == m <= n => \E f \in [0..m -> Nat] : \A i \in 0..m : f[i] = Paso(f, i)
           T == {m \in Nat : Hay(m)}
           Ec(f) == f = [i \in 0..n |-> Paso(f, i)]
           F == CHOOSE f : Ec(f)
<1>1. n \in Nat /\ \A i \in 1..n : s[i] \in Nat
  BY LenProperties, ElementOfSeq
<1>2. Suma(s) = F[n]
  BY DEF Suma
<1> HIDE DEF n
<1>3. Hay(0)
  <2> DEFINE z == [i \in 0..0 |-> 0]
  <2>1. z \in [0..0 -> Nat] /\ \A i \in 0..0 : z[i] = Paso(z, i)
    OBVIOUS
  <2> HIDE DEF z, Paso
  <2> QED
    BY <2>1
<1>4. ASSUME NEW m \in Nat, Hay(m) PROVE Hay(m + 1)
  <2> SUFFICES ASSUME m + 1 <= n
               PROVE  \E f \in [0..m+1 -> Nat] : \A i \in 0..m+1 : f[i] = Paso(f, i)
    OBVIOUS
  <2>1. m <= n /\ m + 1 \in 1..n
    BY <1>1
  <2>2. PICK f \in [0..m -> Nat] : \A i \in 0..m : f[i] = Paso(f, i)
    <3> HIDE DEF Paso
    <3> QED
      BY <1>4, <2>1
  <2> DEFINE g == [i \in 0..m+1 |-> IF i <= m THEN f[i] ELSE f[m] + s[m + 1]]
  <2>3. f[m] + s[m + 1] \in Nat
    BY <1>1, <2>1
  <2>4. g \in [0..m+1 -> Nat] /\ g[m + 1] = f[m] + s[m + 1] /\ \A i \in 0..m : g[i] = f[i]
    BY <2>3
  <2> HIDE DEF g
  <2>5. ASSUME NEW i \in 0..m+1 PROVE g[i] = Paso(g, i)
    <3>1. CASE i = m + 1
      BY <2>4, <3>1
    <3>2. CASE i \in 0..m
      <4>1. g[i] = Paso(f, i)
        BY <2>2, <2>4, <3>2
      <4>2. i = 0 \/ g[i - 1] = f[i - 1]
        BY <2>4, <3>2
      <4> QED
        BY <4>1, <4>2
    <3> QED
      BY <3>1, <3>2
  <2> HIDE DEF Paso
  <2> QED
    BY <2>4, <2>5
<1>5. T = Nat
  <2> HIDE DEF Hay
  <2>1. T \in SUBSET Nat /\ 0 \in T /\ \A m \in T : m + 1 \in T
    BY <1>3, <1>4
  <2> HIDE DEF T
  <2> QED
    BY <2>1, InduccionConjunto
<1>6. PICK f \in [0..n -> Nat] : \A i \in 0..n : f[i] = Paso(f, i)
  <2>1. Hay(n)
    <3> HIDE DEF Hay
    <3> QED
      BY <1>1, <1>5
  <2>2. n <= n
    BY <1>1
  <2> HIDE DEF Paso
  <2> QED
    BY <2>1, <2>2, Zenon
<1>7. Ec(f)
  <2> HIDE DEF Paso
  <2> QED
    BY <1>6
<1>8. Ec(F)
  <2> HIDE DEF Ec
  <2> QED
    BY <1>7
<1> HIDE DEF F
<1>9. \A i \in 0..n : F[i] = Paso(F, i)
  BY <1>8, Zenon
<1> DEFINE Igual(m) == m \in 0..n => F[m] = f[m]
           U == {m \in Nat : Igual(m)}
<1>10. Igual(0)
  BY <1>6, <1>9
<1>11. ASSUME NEW m \in Nat, Igual(m) PROVE Igual(m + 1)
  <2> SUFFICES ASSUME m + 1 \in 0..n PROVE F[m + 1] = f[m + 1]
    OBVIOUS
  <2>1. m \in 0..n /\ m + 1 # 0 /\ (m + 1) - 1 = m
    BY <1>1
  <2>2. F[m + 1] = F[m] + s[m + 1] /\ f[m + 1] = f[m] + s[m + 1]
    BY <1>6, <1>9, <2>1
  <2> QED
    BY <1>11, <2>1, <2>2
<1>12. U = Nat
  <2> HIDE DEF Igual
  <2>1. U \in SUBSET Nat /\ 0 \in U /\ \A m \in U : m + 1 \in U
    BY <1>10, <1>11
  <2> HIDE DEF U
  <2> QED
    BY <2>1, InduccionConjunto
<1>13. F[n] = f[n]
  <2>1. Igual(n)
    <3> HIDE DEF Igual
    <3> QED
      BY <1>1, <1>12
  <2> QED
    BY <1>1, <2>1
<1>14. f[0] = 0 /\ \A i \in 1..n : f[i] = f[i - 1] + s[i]
  BY <1>1, <1>6
<1>15. Suma(s) = f[n]
  BY <1>2, <1>13
<1> QED
  BY <1>14, <1>15 DEF n

(* One entry more in a series.                                             *)
LEMMA SumaAppend ==
  ASSUME NEW s \in Seq(Nat), NEW k \in Nat
  PROVE  /\ Append(s, k) \in Seq(Nat) /\ Suma(s) \in Nat
         /\ Suma(Append(s, k)) = Suma(s) + k
<1>1. PICK t \in Seq(Nat) : t = Append(s, k)
  BY AppendProperties
<1>2. PICK n : n = Len(s)
  OBVIOUS
<1>3. /\ n \in Nat /\ Len(t) = n + 1 /\ t[n + 1] = k /\ \A i \in 1..n : t[i] = s[i] /\ s[i] \in Nat
  BY <1>1, <1>2, AppendProperties, LenProperties, ElementOfSeq
<1>4. PICK g \in [0..n -> Nat] :
        g[0] = 0 /\ (\A i \in 1..n : g[i] = g[i - 1] + s[i]) /\ Suma(s) = g[n]
  BY <1>2, SumaSolucion
<1>5. PICK h \in [0..n + 1 -> Nat] :
        h[0] = 0 /\ (\A i \in 1..n + 1 : h[i] = h[i - 1] + t[i]) /\ Suma(t) = h[n + 1]
  BY <1>3, SumaSolucion
<1> DEFINE Igual(m) == m \in 0..n => h[m] = g[m]
           U == {m \in Nat : Igual(m)}
<1>6. Igual(0)
  BY <1>4, <1>5
<1>7. ASSUME NEW m \in Nat, Igual(m) PROVE Igual(m + 1)
  <2> SUFFICES ASSUME m + 1 \in 0..n PROVE h[m + 1] = g[m + 1]
    OBVIOUS
  <2>1. m \in 0..n /\ m + 1 \in 1..n /\ m + 1 \in 1..n + 1 /\ (m + 1) - 1 = m
    BY <1>3
  <2>2. h[m + 1] = h[m] + t[m + 1] /\ g[m + 1] = g[m] + s[m + 1]
    BY <1>4, <1>5, <2>1
  <2> QED
    BY <1>3, <1>7, <2>1, <2>2
<1>8. U = Nat
  <2> HIDE DEF Igual
  <2>1. U \in SUBSET Nat /\ 0 \in U /\ \A m \in U : m + 1 \in U
    BY <1>6, <1>7
  <2> HIDE DEF U
  <2> QED
    BY <2>1, InduccionConjunto
<1>9. h[n] = g[n]
  <2>1. Igual(n)
    <3> HIDE DEF Igual
    <3> QED
      BY <1>3, <1>8
  <2> QED
    BY <1>3, <2>1
<1>10. h[n + 1] = h[n] + t[n + 1] /\ g[n] \in Nat
  <2>1. n + 1 \in 1..n + 1 /\ (n + 1) - 1 = n /\ n \in 0..n
    BY <1>3
  <2> QED
    BY <1>4, <1>5, <2>1
<1> QED
  BY <1>1, <1>3, <1>4, <1>5, <1>9, <1>10

(* The same entry n times at the end of a series.                          *)
LEMMA Repetido ==
  ASSUME NEW s \in Seq(Nat), NEW k \in Nat, NEW n \in Nat
  PROVE  LET u == s \o [i \in 1..n |-> k]
         IN /\ u \in Seq(Nat) /\ Len(u) = Len(s) + n
            /\ \A i \in 1..Len(s) + n : u[i] = IF i <= Len(s) THEN s[i] ELSE k
<1> DEFINE v == [i \in 1..n |-> k]
           m == Len(s)
<1>1. v \in Seq(Nat) /\ Len(v) = n /\ \A i \in 1..n : v[i] = k
  <2>1. v \in Seq(Nat)
    BY IsASeq
  <2>2. DOMAIN v = 1..n /\ \A i \in 1..n : v[i] = k
    OBVIOUS
  <2> HIDE DEF v
  <2>3. Len(v) \in Nat /\ DOMAIN v = 1..Len(v)
    BY <2>1, LenProperties
  <2> QED
    BY <2>1, <2>2, <2>3
<1>2. m \in Nat
  BY LenProperties
<1> HIDE DEF v
<1>3. /\ s \o v \in Seq(Nat) /\ Len(s \o v) = Len(s) + Len(v)
      /\ \A i \in 1..Len(s) + Len(v) :
           (s \o v)[i] = IF i <= Len(s) THEN s[i] ELSE v[i - Len(s)]
  BY <1>1, ConcatProperties
<1>4. ASSUME NEW i \in 1..m + n, ~(i <= m) PROVE v[i - m] = k
  <2>1. i - m \in 1..n
    BY <1>2, <1>4
  <2> QED
    BY <1>1, <2>1
<1>5. PICK u : u = s \o v
  OBVIOUS
<1>6. /\ u \in Seq(Nat) /\ Len(u) = m + n
      /\ \A i \in 1..m + n : u[i] = IF i <= m THEN s[i] ELSE k
  BY <1>1, <1>3, <1>4, <1>5
<1> QED
  BY <1>5, <1>6 DEF v

(* Their sum.                                                              *)
LEMMA SumaRepetido ==
  ASSUME NEW s \in Seq(Nat), NEW k \in Nat, NEW n \in Nat
  PROVE  Suma(s) \in Nat /\ Suma(s \o [i \in 1..n |-> k]) = Suma(s) + n * k
<1> DEFINE u(m) == s \o [i \in 1..m |-> k]
           Bien(m) == Suma(u(m)) = Suma(s) + m * k
           T == {m \in Nat : Bien(m)}
<1>1. \A m \in Nat : /\ u(m) \in Seq(Nat) /\ Len(u(m)) = Len(s) + m
                     /\ \A i \in 1..Len(s) + m : u(m)[i] = IF i <= Len(s) THEN s[i] ELSE k
  BY Repetido
<1>2. \A x, y \in Seq(Nat) :
        Len(x) = Len(y) /\ (\A i \in 1..Len(x) : x[i] = y[i]) => x = y
  BY SeqEqual
<1>3. Len(s) \in Nat /\ Suma(s) \in Nat
  BY LenProperties, SumaAppend
<1> HIDE DEF u
<1>4. u(0) = s
  BY <1>1, <1>2, <1>3
<1>5. ASSUME NEW m \in Nat PROVE u(m + 1) = Append(u(m), k)
  <2>1. PICK x \in Seq(Nat) : x = u(m)
    BY <1>1
  <2>2. PICK y \in Seq(Nat) : y = u(m + 1)
    BY <1>1
  <2>3. PICK l \in Nat : l = Len(s)
    BY <1>3
  <2>4. Len(x) = l + m /\ \A i \in 1..l + m : x[i] = IF i <= l THEN s[i] ELSE k
    BY <1>1, <2>1, <2>3
  <2>5. Len(y) = l + (m + 1) /\ \A i \in 1..l + (m + 1) : y[i] = IF i <= l THEN s[i] ELSE k
    <3>1. m + 1 \in Nat
      OBVIOUS
    <3> QED
      BY <1>1, <2>2, <2>3, <3>1, Zenon
  <2>6. /\ Append(x, k) \in Seq(Nat) /\ Len(Append(x, k)) = Len(x) + 1
        /\ \A i \in 1..Len(x) : Append(x, k)[i] = x[i]
        /\ Append(x, k)[Len(x) + 1] = k
    BY AppendProperties
  <2>7. PICK z \in Seq(Nat) : z = Append(x, k)
    BY <2>6
  <2>8. Len(z) = l + m + 1 /\ (\A i \in 1..l + m : z[i] = x[i]) /\ z[l + m + 1] = k
    BY <2>4, <2>6, <2>7
  <2>9. ASSUME NEW i \in 1..Len(y) PROVE y[i] = z[i]
    <3>1. CASE i \in 1..l + m
      BY <2>4, <2>5, <2>8, <3>1
    <3>2. CASE i = l + m + 1
      <4>1. ~(i <= l) /\ i \in 1..l + (m + 1)
        BY <3>2
      <4> QED
        BY <2>5, <2>8, <3>2, <4>1
    <3> QED
      BY <2>5, <3>1, <3>2
  <2>10. Len(y) = Len(z)
    BY <2>5, <2>8
  <2>11. y = z
    BY <1>2, <2>9, <2>10
  <2> QED
    BY <2>1, <2>2, <2>7, <2>11
<1>6. Bien(0)
  BY <1>3, <1>4
<1>7. ASSUME NEW m \in Nat, Bien(m) PROVE Bien(m + 1)
  <2>1. Suma(Append(u(m), k)) = Suma(u(m)) + k
    BY <1>1, SumaAppend
  <2>2. (m + 1) * k = m * k + k /\ m * k \in Nat
    OBVIOUS
  <2>3. PICK p \in Nat : p = m * k
    BY <2>2
  <2>4. Suma(u(m)) = Suma(s) + p /\ (m + 1) * k = p + k
    BY <1>7, <2>2, <2>3
  <2>5. PICK a \in Nat : a = Suma(s)
    BY <1>3
  <2>6. PICK b : b = Suma(u(m))
    OBVIOUS
  <2>7. Suma(u(m + 1)) = b + k
    BY <1>5, <2>1, <2>6, Zenon
  <2>8. b = a + p
    BY <2>4, <2>5, <2>6, Zenon
  <2>9. b + k = a + (p + k)
    BY <2>8
  <2>10. Suma(u(m + 1)) = Suma(s) + (m + 1) * k
    BY <2>4, <2>5, <2>7, <2>9, Zenon
  <2> QED
    BY <2>10
<1>8. T = Nat
  <2> HIDE DEF Bien
  <2>1. T \in SUBSET Nat /\ 0 \in T /\ \A m \in T : m + 1 \in T
    BY <1>6, <1>7
  <2> HIDE DEF T
  <2> QED
    BY <2>1, InduccionConjunto
<1>9. Bien(n)
  <2> HIDE DEF Bien
  <2> QED
    BY <1>8
<1> QED
  BY <1>3, <1>9 DEF u

(* Trimming the old end of a series leaves no greater sum.                 *)
LEMMA SumaRecorte ==
  ASSUME NEW s \in Seq(Nat), NEW i \in 0..Len(s)
  PROVE  LET c == SubSeq(s, i + 1, Len(s))
         IN /\ c \in Seq(Nat) /\ Len(c) = Len(s) - i
            /\ \A j \in 1..Len(s) - i : c[j] = s[i + j]
            /\ Suma(c) \in Nat /\ Suma(c) <= Suma(s)
            /\ i = 0 => c = s
<1>1. PICK n \in Nat : n = Len(s)
  BY LenProperties
<1>2. PICK c : c = SubSeq(s, i + 1, Len(s))
  OBVIOUS
<1>3. i \in Nat /\ i <= n /\ \A j \in 1..n : s[j] \in Nat
  BY <1>1, ElementOfSeq
<1>4. c \in Seq(Nat) /\ Len(c) = n - i /\ \A j \in 1..n - i : c[j] = s[i + j]
  <2>1. i + 1 \in Int /\ n \in Int /\ \A j \in i + 1..n : s[j] \in Nat
    BY <1>3
  <2>2. /\ SubSeq(s, i + 1, n) \in Seq(Nat)
        /\ Len(SubSeq(s, i + 1, n)) = IF i + 1 <= n THEN n - (i + 1) + 1 ELSE 0
        /\ \A j \in 1..n - (i + 1) + 1 : SubSeq(s, i + 1, n)[j] = s[i + 1 + j - 1]
    BY <2>1, SubSeqProperties
  <2>3. n - (i + 1) + 1 = n - i /\ \A j \in 1..n - i : i + 1 + j - 1 = i + j
    BY <1>3
  <2>4. c \in Seq(Nat) /\ Len(c) = IF i + 1 <= n THEN n - i ELSE 0
    BY <1>1, <1>2, <2>2, <2>3
  <2>5. \A j \in 1..n - i : c[j] = s[i + j]
    BY <1>1, <1>2, <2>2, <2>3
  <2> QED
    BY <1>3, <2>4, <2>5
<1>5. PICK g \in [0..n -> Nat] :
        g[0] = 0 /\ (\A j \in 1..n : g[j] = g[j - 1] + s[j]) /\ Suma(s) = g[n]
  BY <1>1, SumaSolucion
<1>6. PICK m \in Nat : m = n - i
  BY <1>3
<1>7. PICK h \in [0..m -> Nat] :
        h[0] = 0 /\ (\A j \in 1..m : h[j] = h[j - 1] + c[j]) /\ Suma(c) = h[m]
  BY <1>4, <1>6, SumaSolucion
<1> DEFINE Bien(j) == j \in 0..m => h[j] <= g[i + j]
           T == {j \in Nat : Bien(j)}
<1>8. Bien(0)
  <2>1. i + 0 \in 0..n
    BY <1>3
  <2> QED
    BY <1>5, <1>7, <2>1
<1>9. ASSUME NEW j \in Nat, Bien(j) PROVE Bien(j + 1)
  <2> SUFFICES ASSUME j + 1 \in 0..m PROVE h[j + 1] <= g[i + (j + 1)]
    OBVIOUS
  <2>1. /\ j \in 0..m /\ j + 1 \in 1..m /\ (j + 1) - 1 = j /\ j + 1 \in 1..n - i
        /\ i + (j + 1) \in 1..n /\ i + (j + 1) - 1 = i + j /\ i + j \in 0..n
    BY <1>3, <1>6
  <2>2. h[j + 1] = h[j] + c[j + 1] /\ c[j + 1] = s[i + (j + 1)]
    BY <1>4, <1>7, <2>1
  <2>3. g[i + (j + 1)] = g[i + j] + s[i + (j + 1)]
    BY <1>5, <2>1
  <2>4. h[j] \in Nat /\ g[i + j] \in Nat /\ s[i + (j + 1)] \in Nat /\ h[j] <= g[i + j]
    BY <1>3, <1>5, <1>7, <1>9, <2>1
  <2>5. \A x, y, z \in Nat : x <= y => x + z <= y + z
    OBVIOUS
  <2>6. h[j] + s[i + (j + 1)] <= g[i + j] + s[i + (j + 1)]
    BY <2>4, <2>5, Zenon
  <2> QED
    BY <2>2, <2>3, <2>6, Zenon
<1>10. T = Nat
  <2> HIDE DEF Bien
  <2>1. 0 \in T
    BY <1>8
  <2>2. ASSUME NEW j \in T PROVE j + 1 \in T
    <3>1. j \in Nat /\ Bien(j)
      OBVIOUS
    <3>2. j + 1 \in Nat /\ Bien(j + 1)
      BY <1>9, <3>1
    <3> QED
      BY <3>2
  <2>3. T \in SUBSET Nat
    OBVIOUS
  <2> HIDE DEF T
  <2> QED
    BY <2>1, <2>2, <2>3, InduccionConjunto
<1>11. h[m] <= g[n] /\ h[m] \in Nat
  <2>1. Bien(m)
    <3> HIDE DEF Bien
    <3> QED
      BY <1>10
  <2>2. m \in 0..m /\ i + m = n
    BY <1>3, <1>6
  <2> QED
    BY <1>7, <2>1, <2>2
<1>12. i = 0 => c = s
  <2> SUFFICES ASSUME i = 0 PROVE c = s
    OBVIOUS
  <2>1. Len(c) = Len(s) /\ \A j \in 1..Len(s) : c[j] = s[j]
    BY <1>1, <1>4
  <2>2. \A x, y \in Seq(Nat) :
          Len(x) = Len(y) /\ (\A j \in 1..Len(x) : x[j] = y[j]) => x = y
    BY SeqEqual
  <2> QED
    BY <1>4, <2>1, <2>2
<1> QED
  BY <1>1, <1>2, <1>4, <1>5, <1>7, <1>11, <1>12

(* What an XADD does to a series, sent again or not, trimmed or not: the   *)
(* last entry stays and, while the series is short, so do all the others.  *)
LEMMA XAddFacts ==
  ASSUME NEW s \in Seq(Nat), NEW k \in Nat, NEW n \in 0..Intentos, NEW t \in XAdd(s, k, n)
  PROVE  /\ t \in Seq(Nat) /\ Suma(s) \in Nat /\ Suma(t) \in Nat /\ n * k \in Nat
         /\ Suma(t) <= Suma(s) + n * k
         /\ Len(t) < MaxLen => Len(s) < MaxLen /\ Suma(t) = Suma(s) + n * k
         /\ Ultimo(t) = IF n = 0 THEN Ultimo(s) ELSE k
<1>1. n \in Nat /\ MaxLen \in Nat /\ MaxLen >= 1
  BY StoreAssumption
<1>2. Suma(s) \in Nat /\ n * k \in Nat
  <2>1. n * k \in Nat
    BY <1>1
  <2> QED
    BY <1>1, <2>1, SumaAppend
<1>3. CASE n = 0
  <2>1. t = s /\ n * k = 0
    BY <1>1, <1>3 DEF XAdd
  <2> QED
    BY <1>2, <1>3, <2>1
<1>4. CASE n # 0
  <2>1. PICK u : u = s \o [i \in 1..n |-> k]
    OBVIOUS
  <2>2. PICK l \in Nat : l = Len(s)
    BY LenProperties
  <2>3. u \in Seq(Nat) /\ Len(u) = l + n /\ \A i \in 1..l + n : u[i] = IF i <= l THEN s[i] ELSE k
    BY <1>1, <2>1, <2>2, Repetido
  <2>4. Suma(u) = Suma(s) + n * k
    BY <1>1, <2>1, SumaRepetido
  <2>5. t \in Recortes(u, MaxLen)
    BY <1>4, <2>1 DEF XAdd
  <2>6. PICK i \in 0..(IF Len(u) > MaxLen THEN Len(u) - MaxLen ELSE 0) :
          t = SubSeq(u, i + 1, Len(u))
    BY <2>5 DEF Recortes
  <2>7. i \in 0..Len(u) /\ (i = 0 \/ Len(u) - i >= MaxLen) /\ i < Len(u)
    <3>1. PICK d \in Nat : d = Len(u) /\ d >= 1
      BY <1>1, <1>4, <2>2, <2>3
    <3>2. CASE d > MaxLen
      <4>1. i \in 0..d - MaxLen
        BY <2>6, <3>1, <3>2
      <4> QED
        BY <1>1, <3>1, <3>2, <4>1
    <3>3. CASE ~(d > MaxLen)
      <4>1. i \in 0..0
        BY <2>6, <3>1, <3>3
      <4> QED
        BY <3>1, <4>1
    <3> QED
      BY <3>2, <3>3
  <2>8. /\ t \in Seq(Nat) /\ Len(t) = Len(u) - i
        /\ \A j \in 1..Len(u) - i : t[j] = u[i + j]
        /\ Suma(t) \in Nat /\ Suma(t) <= Suma(u)
        /\ i = 0 => t = u
    BY <2>3, <2>6, <2>7, SumaRecorte
  <2>9. Len(t) < MaxLen => Len(s) < MaxLen /\ Suma(t) = Suma(s) + n * k
    <3> SUFFICES ASSUME Len(t) < MaxLen PROVE Len(s) < MaxLen /\ Suma(t) = Suma(s) + n * k
      OBVIOUS
    <3>1. i = 0
      BY <1>1, <2>2, <2>3, <2>7, <2>8
    <3>2. Len(s) < MaxLen
      BY <1>1, <2>2, <2>3, <2>8, <3>1
    <3> QED
      BY <2>4, <2>8, <3>1, <3>2
  <2>10. Ultimo(t) = k
    <3>1. Len(t) \in Nat /\ Len(t) >= 1 /\ i + Len(t) = l + n /\ Len(t) \in 1..Len(u) - i
      BY <1>1, <2>2, <2>3, <2>7, <2>8
    <3>2. t[Len(t)] = u[l + n]
      BY <2>8, <3>1
    <3>3. ~(l + n <= l) /\ l + n \in 1..l + n
      BY <1>1, <1>4, <2>2
    <3>4. u[l + n] = k
      BY <2>3, <3>3
    <3>5. Len(<<>>) # Len(t)
      BY <3>1
    <3>6. t # <<>>
      BY <3>5, Zenon
    <3> QED
      BY <3>2, <3>4, <3>6, Zenon DEF Ultimo, Last
  <2> QED
    BY <1>2, <1>4, <2>4, <2>8, <2>9, <2>10
<1> QED
  BY <1>3, <1>4
----------------------------------------------------------------------------
(* What AllMetrics gives the rankings.                                     *)
MetricaOK(c, cm) == cm.rss \in Nat /\ cm.pids # {} /\ cm.pids \subseteq De(c)

(* One container of aggregate.                                             *)
LEMMA AggregateSums ==
  ASSUME NEW ps, NEW listados, NEW c \in DOMAIN aggregate(ps, listados)
  PROVE  LET suyos == {p \in ps : p.cid = c}
         IN /\ aggregate(ps, listados)[c].rss = MapThenSumSet(LAMBDA p : p.rss, suyos)
            /\ aggregate(ps, listados)[c].pids = {p.pid : p \in suyos}
BY DEF aggregate

(* There are finitely many containers, and finitely many processes.        *)
LEMMA ContenedoresFinitos ==
  IsFiniteSet(Contenedores) /\ \A S, s : s \in Seq(S) => IsFiniteSet(ToSet(s))
<1>1. IsFiniteSet(Contenedores)
  <2> DEFINE f == [t \in Tarea |-> duenno[t]]
             D == {duenno[t] : t \in Tarea}
  <2>1. IsFiniteSet(Tarea)
    BY SnapshotAssumption, FS_Interval DEF Tarea
  <2>2. f \in Surjection(Tarea, D)
    BY DEF Surjection
  <2>3. IsFiniteSet(D)
    BY <2>1, <2>2, FS_Surjection
  <2> QED
    BY <2>3, FS_Subset DEF Contenedores
<1>2. ASSUME NEW S, NEW s, s \in Seq(S) PROVE IsFiniteSet(ToSet(s))
  <2>1. Len(s) \in Nat /\ DOMAIN s = 1..Len(s) /\ s \in [1..Len(s) -> S]
    BY <1>2, LenProperties
  <2>2. IsFiniteSet(1..Len(s))
    BY <2>1, FS_Interval
  <2>3. s \in Surjection(1..Len(s), ToSet(s))
    BY <2>1 DEF Surjection, ToSet
  <2> QED
    BY <2>2, <2>3, FS_Surjection
<1> QED
  BY <1>1, <1>2

(* The containers of AllMetrics are listed and known, and are finitely     *)
(* many; once Attach is done, each has its own processes and their RSS.    *)
LEMMA MetricsFacts ==
  ASSUME LecturaOK, NEW listados
  PROVE  /\ DOMAIN Metrics(listados) \subseteq listados \cap Contenedores
         /\ Cardinality(DOMAIN Metrics(listados)) \in Nat
         /\ Parseado /\ fase # "adjunta" =>
              \A c \in DOMAIN Metrics(listados) : MetricaOK(c, Metrics(listados)[c])
<1> DEFINE Reg(k) == [k |-> k, pid |-> procs[k].pid, cid |-> procs[k].cid, rss |-> procs[k].rss,
                       vsz |-> procs[k].vsz, cpu |-> procs[k].cpu]
           ps == {Reg(k) : k \in DOMAIN procs}
           L == [c \in listados |-> "bajo"]
           D == DOMAIN Metrics(listados)
<1>1. procs \in Seq(Figuras) /\ DOMAIN procs = 1..Len(procs) /\ Len(procs) \in Nat
  BY LenProperties DEF LecturaOK, ProcsOK
<1>2. \A p \in ps : \E k \in 1..Len(procs) :
        p.cid = procs[k].cid /\ p.pid = procs[k].pid /\ p.rss = procs[k].rss
  BY <1>1
<1>3. \A p \in ps : p.cid \in Contenedores \cup {SinContenedor} /\ p.rss \in Nat
  <2>1. \A k \in 1..Len(procs) : procs[k] \in Figuras
    BY <1>1, ElementOfSeq
  <2>2. \A k \in 1..Len(procs) :
          procs[k].cid \in Contenedores \cup {SinContenedor} /\ procs[k].rss \in Nat
    BY <2>1 DEF Figuras
  <2> HIDE DEF ps
  <2> QED
    BY <1>2, <2>2
<1>4. Metrics(listados) = aggregate(ps, L) /\ DOMAIN L = listados
  BY DEF Metrics
<1>9. IsFiniteSet(ps)
  <2> DEFINE f == [k \in 1..Len(procs) |-> Reg(k)]
  <2>1. IsFiniteSet(1..Len(procs))
    BY <1>1, FS_Interval
  <2>2. f \in Surjection(1..Len(procs), ps)
    BY <1>1 DEF Surjection
  <2> HIDE DEF f, ps
  <2> QED
    BY <2>1, <2>2, FS_Surjection
<1> HIDE DEF ps, L
<1>5. D = ({p.cid : p \in ps} \ {SinContenedor}) \cap listados
  BY <1>4, AggregateFacts
<1>6. D \subseteq listados \cap Contenedores
  BY <1>3, <1>5
<1>7. Cardinality(D) \in Nat
  <2> HIDE DEF D
  <2> QED
    BY <1>6, ContenedoresFinitos, FS_Subset, FS_CardinalityType
<1>8. ASSUME Parseado, fase # "adjunta", NEW c \in D PROVE MetricaOK(c, Metrics(listados)[c])
  <2> DEFINE suyos == {p \in ps : p.cid = c}
             cm == Metrics(listados)[c]
  <2>1. cm.rss = MapThenSumSet(LAMBDA p : p.rss, suyos) /\ cm.pids = {p.pid : p \in suyos}
    BY <1>4, <1>8, AggregateSums
  <2>2. IsFiniteSet(suyos) /\ \A p \in suyos : p.rss \in Nat
    BY <1>3, <1>9, FS_Subset
  <2>3. suyos # {} /\ c # SinContenedor
    BY <1>5, <1>8
  <2>4. \A p \in suyos : p.pid \in De(c)
    <3> SUFFICES ASSUME NEW p \in ps, p.cid = c PROVE p.pid \in De(c)
      OBVIOUS
    <3>1. PICK k \in 1..Len(procs) : p.cid = procs[k].cid /\ p.pid = procs[k].pid
      BY <1>2
    <3>2. CidOK(k)
      BY <1>8, <3>1 DEF LecturaOK, AdjuntoOK, Hechos
    <3> QED
      BY <2>3, <3>1, <3>2 DEF CidOK
  <2> HIDE DEF suyos
  <2>5. cm.rss \in Nat
    BY <2>1, <2>2, SumaRss
  <2>6. cm.pids # {} /\ cm.pids \subseteq De(c)
    BY <2>1, <2>3, <2>4
  <2> QED
    BY <2>5, <2>6 DEF MetricaOK
<1> QED
  BY <1>6, <1>7, <1>8

----------------------------------------------------------------------------
(* What the daemon has in Valkey besides the rankings.                     *)
StoreOK == /\ ciclos \in 0..MaxCiclos /\ usada \in Nat /\ total \in Nat
           /\ streamRAM \in Seq(Nat) /\ streamElim \in Seq(Nat) /\ TotalsAgree

(* Whatever line gives the RAM in use, it is a natural number.             *)
LEMMA UsedKBNat == ASSUME NEW leida \in Nat PROVE UsedKB(leida) \in Nat
BY DEF UsedKB, Numero

(* SaveRAMSnapshot, however often it is carried out.                       *)
LEMMA GuardaStore == ASSUME StoreOK, Guarda PROVE StoreOK'
<1>1. PICK v : v = UsedKB(ciclos)
  OBVIOUS
<1>2. /\ ciclos \in 0..MaxCiclos /\ v \in Nat /\ usada \in Nat
      /\ streamRAM \in Seq(Nat) /\ usada = Ultimo(streamRAM)
  <2>1. ciclos \in Nat
    BY ObservacionAssumption DEF StoreOK
  <2> QED
    BY <1>1, <2>1, UsedKBNat DEF StoreOK, TotalsAgree
<1>3. PICK n \in 0..Intentos : /\ usada' = IF n = 0 THEN usada ELSE v
                               /\ streamRAM' \in XAdd(streamRAM, v, n)
  BY <1>1 DEF Guarda, SaveRAMSnapshot
<1>4. total' = total /\ streamElim' = streamElim /\ ciclos' = ciclos
  BY DEF Guarda, SaveRAMSnapshot
<1>5. /\ streamRAM' \in Seq(Nat)
      /\ Ultimo(streamRAM') = IF n = 0 THEN Ultimo(streamRAM) ELSE v
  BY <1>2, <1>3, XAddFacts
<1>6. usada' = Ultimo(streamRAM') /\ usada' \in Nat
  BY <1>2, <1>3, <1>5, Zenon
<1>7. /\ total' \in Nat /\ streamElim' \in Seq(Nat) /\ total' >= Suma(streamElim')
      /\ Len(streamElim') < MaxLen => total' = Suma(streamElim')
  BY <1>4 DEF StoreOK, TotalsAgree
<1> QED
  BY <1>2, <1>4, <1>5, <1>6, <1>7 DEF StoreOK, TotalsAgree

(* RecordEliminaciones, however often it is carried out.                   *)
LEMMA EliminaStore == ASSUME LecturaOK, StoreOK, Elimina PROVE StoreOK'
<1>1. PICK k \in 0..Cardinality(DOMAIN Metrics(managed)) : RecordEliminaciones(k)
  BY DEF Elimina
<1>2. k \in Nat
  BY MetricsFacts
<1>3. /\ total \in Nat /\ streamElim \in Seq(Nat) /\ total >= Suma(streamElim)
      /\ Len(streamElim) < MaxLen => total = Suma(streamElim)
  BY DEF StoreOK, TotalsAgree
<1>4. ciclos' = ciclos
  BY DEF Elimina, Fin
<1>5. usada' = usada /\ streamRAM' = streamRAM
  BY <1>1 DEF RecordEliminaciones, valkey
<1>6. /\ total' \in Nat /\ streamElim' \in Seq(Nat) /\ total' >= Suma(streamElim')
      /\ Len(streamElim') < MaxLen => total' = Suma(streamElim')
  <2>1. CASE total' = total /\ streamElim' = streamElim
    BY <1>3, <2>1
  <2>2. CASE \E n \in 0..Intentos : total' = total + n * k /\ streamElim' \in XAdd(streamElim, k, n)
    <3>1. PICK n \in 0..Intentos : total' = total + n * k /\ streamElim' \in XAdd(streamElim, k, n)
      BY <2>2
    <3>2. PICK p : p = n * k
      OBVIOUS
    <3>3. PICK t : t = streamElim'
      OBVIOUS
    <3>4. /\ t \in Seq(Nat) /\ Suma(streamElim) \in Nat /\ Suma(t) \in Nat /\ p \in Nat
          /\ Suma(t) <= Suma(streamElim) + p
          /\ Len(t) < MaxLen => Len(streamElim) < MaxLen /\ Suma(t) = Suma(streamElim) + p
      BY <1>2, <1>3, <3>1, <3>2, <3>3, XAddFacts
    <3>5. total' = total + p
      BY <3>1, <3>2
    <3>6. total + p \in Nat /\ total + p >= Suma(t) /\ (Len(t) < MaxLen => total + p = Suma(t))
      BY <1>3, <3>4
    <3> QED
      BY <3>3, <3>4, <3>5, <3>6
  <2> QED
    BY <1>1, <2>1, <2>2 DEF RecordEliminaciones, valkey
<1> QED
  BY <1>4, <1>5, <1>6 DEF StoreOK, TotalsAgree

(* What StoreOK says of the series and totals holds in every state.        *)
LEMMA StoreAlways == Spec => []StoreOK
<1>1. Init => StoreOK
  <2> SUFFICES ASSUME Init PROVE StoreOK
    OBVIOUS
  <2>1. ciclos = 0 /\ usada = 0 /\ total = 0 /\ streamRAM = <<>> /\ streamElim = <<>>
    BY DEF Init, InitStore
  <2>2. <<>> \in Seq(Nat) /\ Len(<<>>) = 0
    BY EmptySeq, LenProperties
  <2>3. Suma(<<>>) = 0
    BY <2>2, SumaSolucion
  <2>4. Ultimo(<<>>) = 0
    BY DEF Ultimo
  <2> QED
    BY <2>1, <2>2, <2>3, <2>4, ObservacionAssumption DEF StoreOK, TotalsAgree
<1>2. LecturaOK /\ StoreOK /\ [Next]_vars => StoreOK'
  <2> SUFFICES ASSUME LecturaOK, StoreOK, [Next]_vars PROVE StoreOK'
    OBVIOUS
  <2> DEFINE Igual == /\ usada' = usada /\ streamRAM' = streamRAM /\ total' = total
                      /\ streamElim' = streamElim
  <2>1. ASSUME Igual, ciclos' \in 0..MaxCiclos PROVE StoreOK'
    BY <2>1 DEF StoreOK, TotalsAgree
  <2>2. CASE Guarda
    BY <2>2, GuardaStore
  <2>3. CASE Elimina
    BY <2>3, EliminaStore
  <2>4. CASE Empieza
    <3>1. Igual /\ ciclos < MaxCiclos /\ ciclos' = ciclos + 1
      BY <2>4 DEF Empieza, valkey
    <3>2. ciclos' \in 0..MaxCiclos
      BY <3>1, ObservacionAssumption DEF StoreOK
    <3> QED
      BY <2>1, <3>1, <3>2
  <2>5. CASE Host \/ Lee \/ Correla \/ ListManaged \/ ListFalla \/ Rankeado \/ UNCHANGED vars
    <3>1. Igual /\ ciclos' = ciclos
      BY <2>5 DEF Host, Lee, Correla, ListManaged, ListFalla, Fin, Rankeado, vars, valkey
    <3> QED
      BY <2>1, <3>1 DEF StoreOK
  <2>6. CASE RankRAM \/ RankCPU \/ RankFalla
    <3>1. Igual /\ ciclos' = ciclos
      BY <2>6 DEF RankRAM, RankCPU, RankFalla
    <3> QED
      BY <2>1, <3>1 DEF StoreOK
  <2> QED
    BY <2>2, <2>3, <2>4, <2>5, <2>6 DEF Next
<1> QED
  BY <1>1, <1>2, LecturaAlways, PTL DEF Spec

(* The cards of the dashboard agree with the series beside them through    *)
(* failed calls and repeated ones: the RAM with the last point always, the *)
(* eliminations with the sum as long as the series is shorter than what    *)
(* Valkey trims it to, and with no less than it after (store.go:78-116).   *)
THEOREM TotalsAgreeAlways == Spec => []TotalsAgree
<1>1. StoreOK => TotalsAgree
  BY DEF StoreOK
<1> QED
  BY <1>1, StoreAlways, PTL
----------------------------------------------------------------------------
(* The rankings.  Puntuado is what PeakKept asks of a container: one of    *)
(* its members is in the RAM ranking with at least that score.             *)
MemberOK(m) == m[1] \in Contenedores /\ m[2] \subseteq De(m[1]) /\ m[2] # {}
Puntuado(c, score) == \E m \in DOMAIN rankRAM : m[1] = c /\ rankRAM[m] >= score
RankingsOK == /\ \A m \in DOMAIN rankRAM : rankRAM[m] \in Nat
              /\ \A m \in DOMAIN rankRAM \cup DOMAIN rankCPU : MemberOK(m)
RankOK ==
  /\ managed \subseteq Contenedores /\ porRankear \subseteq DOMAIN Metrics(managed)
  /\ medio \in porRankear \cup {SinContenedor}
  /\ fase # "rankea" => porRankear = {}
  /\ RankingsOK
  /\ medio # SinContenedor => Puntuado(medio, Metrics(managed)[medio].rss)
  /\ pico \in [Contenedores -> Nat] /\ PeakKept

(* ZADD GT adds the member and lowers no score.                            *)
LEMMA ZAddFacts ==
  ASSUME NEW rank, NEW m, NEW score
  PROVE  /\ DOMAIN ZAddGT(rank, m, score) = DOMAIN rank \cup {m}
         /\ score \in Nat /\ (\A x \in DOMAIN rank : rank[x] \in Nat) =>
              /\ ZAddGT(rank, m, score)[m] >= score
              /\ \A x \in DOMAIN rank \cup {m} : ZAddGT(rank, m, score)[x] \in Nat
              /\ \A x \in DOMAIN rank : ZAddGT(rank, m, score)[x] >= rank[x]
<1>1. CASE m \in DOMAIN rank /\ rank[m] >= score
  <2>1. ZAddGT(rank, m, score) = rank /\ DOMAIN rank = DOMAIN rank \cup {m}
    BY <1>1 DEF ZAddGT
  <2> QED
    BY <1>1, <2>1
<1>2. CASE ~(m \in DOMAIN rank /\ rank[m] >= score)
  <2>1. ZAddGT(rank, m, score) = [x \in DOMAIN rank \cup {m} |-> IF x = m THEN score ELSE rank[x]]
    BY <1>2 DEF ZAddGT, Con
  <2> QED
    BY <1>2, <2>1
<1> QED
  BY <1>1, <1>2

(* In a step that touches neither, and outside UpdateRankings.             *)
LEMMA QuietoRank ==
  ASSUME RankOK, UNCHANGED <<rankRAM, rankCPU, pico, managed, porRankear, medio>>,
         fase # "rankea", fase' # "rankea"
  PROVE  RankOK'
<1>1. porRankear' = {} /\ medio' = SinContenedor /\ managed' \subseteq Contenedores
  BY DEF RankOK
<1>2. RankingsOK' /\ pico' \in [Contenedores -> Nat] /\ PeakKept'
  BY DEF RankOK, RankingsOK, PeakKept
<1> QED
  BY <1>1, <1>2 DEF RankOK

(* runCycle returns.                                                       *)
LEMMA FinRank == ASSUME RankOK, Fin, UNCHANGED <<rankRAM, rankCPU>> PROVE RankOK'
<1>1. porRankear' = {} /\ medio' = SinContenedor /\ managed' = {} /\ pico' = pico
  BY DEF Fin
<1>2. RankingsOK' /\ pico' \in [Contenedores -> Nat] /\ PeakKept'
  BY <1>1 DEF RankOK, RankingsOK, PeakKept
<1> QED
  BY <1>1, <1>2 DEF RankOK

(* The rankings have nothing to do with who is listed.                     *)
LEMMA ListRank == ASSUME RankOK, ListManaged PROVE RankOK'
<1>1. /\ fase = "lista" /\ fase' = "rankea" /\ managed' \subseteq Contenedores
      /\ porRankear' = DOMAIN Metrics(managed)' /\ medio' = medio /\ pico' = pico
      /\ rankRAM' = rankRAM /\ rankCPU' = rankCPU
  BY DEF ListManaged, Metrics, valkey
<1>2. medio' = SinContenedor
  BY <1>1 DEF RankOK
<1>3. RankingsOK' /\ pico' \in [Contenedores -> Nat] /\ PeakKept'
  BY <1>1 DEF RankOK, RankingsOK, PeakKept
<1> QED
  BY <1>1, <1>2, <1>3 DEF RankOK

(* What one ZADD adds is a container of the snapshot with its processes.   *)
LEMMA NuevoMember ==
  ASSUME LecturaOK, RankOK, fase = "rankea", NEW c \in porRankear
  PROVE  /\ Metrics(managed)[c].rss \in Nat /\ c \in Contenedores
         /\ member(c, Metrics(managed)[c])[1] = c
         /\ MemberOK(member(c, Metrics(managed)[c]))
<1>1. PICK cm : cm = Metrics(managed)[c]
  OBVIOUS
<1>2. c \in DOMAIN Metrics(managed) /\ Parseado
  BY DEF RankOK, Parseado
<1>3. MetricaOK(c, cm) /\ c \in Contenedores
  BY <1>1, <1>2, MetricsFacts
<1>4. member(c, cm) = <<c, cm.pids>>
  BY DEF member
<1>5. member(c, cm)[1] = c /\ member(c, cm)[2] = cm.pids
  BY <1>4
<1> QED
  BY <1>1, <1>3, <1>5 DEF MetricaOK, MemberOK

(* The first ZADD of a container.                                          *)
LEMMA RAMRank == ASSUME LecturaOK, RankOK, RankRAM PROVE RankOK'
<1>1. PICK c \in porRankear :
        /\ rankRAM' = ZAdd(rankRAM, c, Metrics(managed)[c].rss)
        /\ \/ medio' = c /\ porRankear' = porRankear
           \/ medio' = SinContenedor /\ porRankear' = {}
  BY DEF RankRAM, Abandona
<1>2. /\ fase = "rankea" /\ fase' = "rankea" /\ procs' = procs /\ managed' = managed
      /\ pico' = pico /\ rankCPU' = rankCPU
  BY DEF RankRAM, foto, lector
<1>3. Metrics(managed)' = Metrics(managed)
  BY <1>2 DEF Metrics
<1>4. PICK v : v = Metrics(managed)[c].rss
  OBVIOUS
<1>5. PICK m : m = member(c, Metrics(managed)[c])
  OBVIOUS
<1>6. v \in Nat /\ c \in Contenedores /\ m[1] = c /\ MemberOK(m)
  BY <1>2, <1>4, <1>5, NuevoMember
<1>7. rankRAM' = ZAddGT(rankRAM, m, v)
  BY <1>1, <1>4, <1>5 DEF ZAdd
<1>8. \A x \in DOMAIN rankRAM : rankRAM[x] \in Nat
  BY DEF RankOK, RankingsOK
<1>9. /\ DOMAIN rankRAM' = DOMAIN rankRAM \cup {m} /\ rankRAM'[m] >= v
      /\ \A x \in DOMAIN rankRAM \cup {m} : rankRAM'[x] \in Nat
      /\ \A x \in DOMAIN rankRAM : rankRAM'[x] >= rankRAM[x]
  BY <1>6, <1>7, <1>8, ZAddFacts
<1>10. RankingsOK'
  <2>1. \A x \in DOMAIN rankRAM \cup DOMAIN rankCPU : MemberOK(x)
    BY DEF RankOK, RankingsOK
  <2>2. \A x \in DOMAIN rankRAM' \cup DOMAIN rankCPU' : MemberOK(x)
    BY <1>2, <1>6, <1>9, <2>1
  <2> QED
    BY <1>9, <2>2 DEF RankingsOK, MemberOK
<1>11. medio' # SinContenedor => Puntuado(medio, Metrics(managed)[medio].rss)'
  <2> SUFFICES ASSUME medio' # SinContenedor
               PROVE  Puntuado(medio, Metrics(managed)[medio].rss)'
    OBVIOUS
  <2>1. medio' = c /\ Metrics(managed)'[medio'].rss = v
    BY <1>1, <1>3, <1>4
  <2>2. m \in DOMAIN rankRAM' /\ m[1] = c /\ rankRAM'[m] >= v
    BY <1>6, <1>9
  <2> QED
    BY <2>1, <2>2 DEF Puntuado
<1>12. pico' \in [Contenedores -> Nat] /\ PeakKept'
  <2>1. pico \in [Contenedores -> Nat] /\ PeakKept
    BY DEF RankOK
  <2>2. ASSUME NEW d \in Contenedores, pico[d] > 0
        PROVE  \E x \in DOMAIN rankRAM' : x[1] = d /\ rankRAM'[x] >= pico[d]
    <3>1. PICK x \in DOMAIN rankRAM : x[1] = d /\ rankRAM[x] >= pico[d]
      BY <2>1, <2>2 DEF PeakKept
    <3>2. rankRAM[x] \in Nat /\ rankRAM'[x] \in Nat /\ pico[d] \in Nat /\ rankRAM'[x] >= rankRAM[x]
      BY <1>8, <1>9, <2>1
    <3>3. rankRAM'[x] >= pico[d]
      BY <3>1, <3>2
    <3> QED
      BY <1>9, <3>1, <3>3
  <2> QED
    BY <1>2, <2>1, <2>2 DEF PeakKept
<1>13. /\ managed' \subseteq Contenedores /\ porRankear' \subseteq DOMAIN Metrics(managed)'
       /\ medio' \in porRankear' \cup {SinContenedor}
  BY <1>1, <1>2, <1>3 DEF RankOK
<1> QED
  BY <1>2, <1>10, <1>11, <1>12, <1>13 DEF RankOK

(* The second one.                                                         *)
LEMMA CPURank == ASSUME LecturaOK, RankOK, RankCPU PROVE RankOK'
<1>1. PICK c : c = medio
  OBVIOUS
<1>2. PICK v : v = Metrics(managed)[c].rss
  OBVIOUS
<1>3. /\ fase = "rankea" /\ c # SinContenedor /\ c \in porRankear /\ fase' = "rankea"
      /\ procs' = procs /\ managed' = managed /\ rankRAM' = rankRAM /\ medio' = SinContenedor
      /\ porRankear' \subseteq porRankear
  BY <1>1 DEF RankOK, RankCPU, Abandona, foto, lector
<1>4. /\ rankCPU' = ZAdd(rankCPU, c, Metrics(managed)[c].cpu)
      /\ pico' = [pico EXCEPT ![c] = IF v > pico[c] THEN v ELSE pico[c]]
  BY <1>1, <1>2 DEF RankCPU
<1>5. PICK m : m = member(c, Metrics(managed)[c])
  OBVIOUS
<1>6. v \in Nat /\ c \in Contenedores /\ MemberOK(m)
  BY <1>2, <1>3, <1>5, NuevoMember
<1>7. DOMAIN rankCPU' = DOMAIN rankCPU \cup {m}
  BY <1>4, <1>5, ZAddFacts DEF ZAdd
<1>8. RankingsOK'
  <2>1. /\ \A x \in DOMAIN rankRAM : rankRAM[x] \in Nat
        /\ \A x \in DOMAIN rankRAM \cup DOMAIN rankCPU : MemberOK(x)
    BY DEF RankOK, RankingsOK
  <2>2. \A x \in DOMAIN rankRAM' \cup DOMAIN rankCPU' : MemberOK(x)
    BY <1>3, <1>6, <1>7, <2>1
  <2> QED
    BY <1>3, <2>1, <2>2 DEF RankingsOK, MemberOK
<1>9. Puntuado(c, v)
  BY <1>1, <1>2, <1>3 DEF RankOK
<1>10. /\ pico' \in [Contenedores -> Nat] /\ \A d \in Contenedores : d # c => pico'[d] = pico[d]
       /\ pico'[c] = v \/ pico'[c] = pico[c]
  BY <1>4, <1>6 DEF RankOK
<1>11. PeakKept'
  <2> SUFFICES ASSUME NEW d \in Contenedores, pico'[d] > 0
               PROVE  \E x \in DOMAIN rankRAM : x[1] = d /\ rankRAM[x] >= pico'[d]
    BY <1>3 DEF PeakKept
  <2>1. CASE pico'[d] = pico[d]
    BY <2>1 DEF RankOK, PeakKept
  <2>2. CASE d = c /\ pico'[d] = v
    BY <1>9, <2>2 DEF Puntuado
  <2> QED
    BY <1>10, <2>1, <2>2
<1>12. Metrics(managed)' = Metrics(managed)
  BY <1>3 DEF Metrics
<1>13. managed' \subseteq Contenedores /\ porRankear' \subseteq DOMAIN Metrics(managed)'
  BY <1>3, <1>12 DEF RankOK
<1> QED
  BY <1>3, <1>8, <1>10, <1>11, <1>13 DEF RankOK

(* What RankOK says of the rankings holds in every state.                  *)
LEMMA RankAlways == Spec => []RankOK
<1>1. Init => RankOK
  <2> SUFFICES ASSUME Init PROVE RankOK
    OBVIOUS
  <2>1. /\ managed = {} /\ porRankear = {} /\ medio = SinContenedor
        /\ pico = [c \in Contenedores |-> 0] /\ rankRAM = <<>> /\ rankCPU = <<>>
    BY DEF Init, InitStore
  <2>2. DOMAIN rankRAM = {} /\ DOMAIN rankCPU = {}
    BY <2>1
  <2>3. RankingsOK
    BY <2>2 DEF RankingsOK
  <2>4. pico \in [Contenedores -> Nat] /\ PeakKept
    BY <2>1 DEF PeakKept
  <2> QED
    BY <2>1, <2>3, <2>4 DEF RankOK
<1>2. LecturaOK /\ RankOK /\ [Next]_vars => RankOK'
  <2> SUFFICES ASSUME LecturaOK, RankOK, [Next]_vars PROVE RankOK'
    OBVIOUS
  <2>1. CASE Host
    <3>1. fase # "rankea" /\ fase' = fase
      BY <2>1 DEF Host, Kernel, Nace, Muere, Libera, lector
    <3> QED
      BY <2>1, <3>1, QuietoRank DEF Host, valkey, rankea
  <2>2. CASE Empieza \/ Lee \/ Correla
    <3>1. fase # "rankea" /\ fase' # "rankea"
      BY <2>2 DEF Empieza, Abre, Lee, Avanza, Salta, Imprime, ReadSnapshot, Attach, Correla, Adjuntado
    <3> QED
      BY <2>2, <3>1, QuietoRank DEF Empieza, Lee, Correla, valkey, rankea
  <2>3. CASE Guarda
    BY <2>3, QuietoRank DEF Guarda, SaveRAMSnapshot, rankea
  <2>4. CASE ListManaged
    BY <2>4, ListRank
  <2>5. CASE ListFalla \/ Elimina
    <3>1. Fin /\ UNCHANGED <<rankRAM, rankCPU>>
      BY <2>5 DEF ListFalla, Elimina, RecordEliminaciones, valkey
    <3> QED
      BY <3>1, FinRank
  <2>6. CASE RankRAM
    BY <2>6, RAMRank
  <2>7. CASE RankCPU
    BY <2>7, CPURank
  <2>8. CASE RankFalla
    <3>1. /\ fase' = fase /\ fase = "rankea" /\ procs' = procs /\ managed' = managed
          /\ porRankear' = {} /\ medio' = SinContenedor
          /\ rankRAM' = rankRAM /\ rankCPU' = rankCPU /\ pico' = pico
      BY <2>8 DEF RankFalla, Abandona, foto, lector
    <3>2. RankingsOK' /\ pico' \in [Contenedores -> Nat] /\ PeakKept' /\ managed' \subseteq Contenedores
      BY <3>1 DEF RankOK, RankingsOK, PeakKept
    <3> QED
      BY <3>1, <3>2 DEF RankOK
  <2>9. CASE Rankeado
    <3>1. /\ fase' = "elimina" /\ porRankear = {} /\ UNCHANGED <<managed, porRankear, medio, pico>>
          /\ rankRAM' = rankRAM /\ rankCPU' = rankCPU
      BY <2>9 DEF Rankeado, valkey, rankea
    <3>2. porRankear' = {} /\ medio' = SinContenedor /\ managed' \subseteq Contenedores
      BY <3>1 DEF RankOK
    <3>3. RankingsOK' /\ pico' \in [Contenedores -> Nat] /\ PeakKept'
      BY <3>1 DEF RankOK, RankingsOK, PeakKept
    <3> QED
      BY <3>1, <3>2, <3>3 DEF RankOK
  <2>10. CASE UNCHANGED vars
    <3>1. /\ fase' = fase /\ procs' = procs /\ managed' = managed /\ porRankear' = porRankear
          /\ medio' = medio /\ rankRAM' = rankRAM /\ rankCPU' = rankCPU /\ pico' = pico
      BY <2>10 DEF vars, foto, lector, valkey
    <3>2. Metrics(managed)' = Metrics(managed)
      BY <3>1 DEF Metrics
    <3>3. RankingsOK' /\ pico' \in [Contenedores -> Nat] /\ PeakKept'
      BY <3>1 DEF RankOK, RankingsOK, PeakKept
    <3>4. medio' # SinContenedor => Puntuado(medio, Metrics(managed)[medio].rss)'
      BY <3>1, <3>2 DEF RankOK, Puntuado
    <3> QED
      BY <3>1, <3>2, <3>3, <3>4 DEF RankOK
  <2> QED
    BY <2>1, <2>2, <2>3, <2>4, <2>5, <2>6, <2>7, <2>8, <2>9, <2>10 DEF Next
<1> QED
  BY <1>1, <1>2, LecturaAlways, PTL DEF Spec

(* The RAM ranking keeps the historical peak of every container: whatever  *)
(* calls fail between its two ZADDs, however its processes and with them   *)
(* its member change, its best score is never below it (store.go:118).     *)
THEOREM PeakKeptAlways == Spec => []PeakKept
<1>1. RankOK => PeakKept
  BY DEF RankOK
<1> QED
  BY <1>1, RankAlways, PTL
----------------------------------------------------------------------------
(* Outside Attach the cursor is a task, or the head of the list.           *)
CursorTipo == fase # "adjunta" => cursor \in 0..N

(* CursorTipo holds in every state.                                        *)
LEMMA CursorAlways == Spec => []CursorTipo
<1>1. Init => CursorTipo
  BY SnapshotAssumption DEF Init, InitFoto, CursorTipo, Raiz
<1>2. HostOK /\ WalkOK /\ CursorTipo /\ [Next]_vars => CursorTipo'
  <2> SUFFICES ASSUME HostOK, WalkOK, CursorTipo, [Next]_vars, fase' # "adjunta"
               PROVE  cursor' \in 0..N
    BY DEF CursorTipo
  <2>0. Raiz \in 0..N
    BY SnapshotAssumption DEF Raiz
  <2>1. ASSUME cursor' = cursor, fase # "adjunta" PROVE cursor' \in 0..N
    BY <2>1 DEF CursorTipo
  <2>2. ASSUME cursor' = Raiz PROVE cursor' \in 0..N
    BY <2>0, <2>2
  <2>3. CASE Avanza
    <3>1. sig[cursor] \in 0..N
      <4>1. PICK X \in SUBSET (0..nacidas) : Alcance(X)
        BY <2>3 DEF WalkOK, CursorOK, Avanza
      <4>2. sig[cursor] \in 0..nacidas
        BY <4>1 DEF Alcance
      <4>3. nacidas \in 0..N /\ N \in Nat
        BY SnapshotAssumption DEF HostOK, HostType
      <4> QED
        BY <4>2, <4>3
    <3>2. cursor' \in {Raiz, sig[cursor], cursor}
      BY <2>3 DEF Avanza, Salta
    <3>3. fase = "avanza"
      BY <2>3 DEF Avanza
    <3> QED
      BY <2>1, <2>2, <3>1, <3>2, <3>3
  <2>4. CASE ReadSnapshot \/ Attach
    BY <2>4 DEF ReadSnapshot, Attach
  <2>5. CASE Correla \/ ListFalla \/ Elimina
    BY <2>2, <2>5 DEF Correla, Adjuntado, ListFalla, Elimina, Fin
  <2>6. CASE Empieza \/ Imprime \/ Guarda \/ ListManaged \/ Rankeado
    BY <2>1, <2>6 DEF Empieza, Abre, Imprime, Guarda, ListManaged, Rankeado
  <2>7. CASE RankRAM \/ RankCPU \/ RankFalla
    BY <2>1, <2>7 DEF RankRAM, RankCPU, RankFalla, foto, lector
  <2>8. CASE Host \/ UNCHANGED vars
    <3>1. cursor' = cursor /\ fase' = fase
      BY <2>8 DEF Host, Kernel, Nace, Muere, Libera, vars, foto, lector
    <3> QED
      BY <2>1, <3>1
  <2> QED
    BY <2>3, <2>4, <2>5, <2>6, <2>7, <2>8 DEF Next, Lee
<1> QED
  BY <1>1, <1>2, HostAlways, WalkAlways, PTL DEF Spec

(* The observing half never leaves its types, for any number of processes, *)
(* of lines they print and of cycles; the index of Attach stays within the *)
(* processes read, however many the texts invent.                          *)
THEOREM TypeCorrect == Spec => []TypeOK
<1>1. HostOK /\ WalkOK /\ LecturaOK /\ StoreOK /\ RankOK /\ CursorTipo => TypeOK
  <2> SUFFICES ASSUME HostOK, WalkOK, LecturaOK, StoreOK, RankOK, CursorTipo PROVE TypeOK
    OBVIOUS
  <2>1. /\ nacidas \in 0..N /\ vivas \subseteq 1..nacidas /\ libres \subseteq 1..nacidas \ vivas
        /\ sig \in [0..N -> 0..N] /\ testigos \subseteq vivas
    BY DEF HostOK, HostType
  <2>2. fase \in Fases /\ salida \in Seq([tarea : Tarea, rss : Nat])
    BY DEF WalkOK, LineasOK, Linea
  <2>3. procs \in Seq([pid : Int, cid : Contenedores \cup {SinContenedor}, rss : Nat, vsz : Nat,
                       cpu : Int])
    BY DEF LecturaOK, ProcsOK, Figuras
  <2>4. cursor \in IF fase = "adjunta" THEN 1..Len(procs) + 1 ELSE 0..N
    <3>1. CASE fase = "adjunta"
      BY <3>1 DEF LecturaOK, AdjuntoOK, Parseado
    <3>2. CASE fase # "adjunta"
      BY <3>2 DEF CursorTipo
    <3> QED
      BY <3>1, <3>2
  <2>5. managed \subseteq Contenedores /\ porRankear \subseteq managed
          /\ medio \in porRankear \cup {SinContenedor}
    BY MetricsFacts DEF RankOK
  <2>6. usada \in Nat /\ total \in Nat
    BY DEF StoreOK
  <2>7. \A m \in DOMAIN rankRAM \cup DOMAIN rankCPU :
          m[1] \in Contenedores /\ m[2] \subseteq {t \in Tarea : duenno[t] = m[1]} /\ m[2] # {}
    BY DEF RankOK, RankingsOK, MemberOK, De
  <2> QED
    BY <2>1, <2>2, <2>3, <2>4, <2>5, <2>6, <2>7 DEF TypeOK
<1> QED
  BY <1>1, HostAlways, WalkAlways, LecturaAlways, StoreAlways, RankAlways, CursorAlways, PTL
=============================================================================
