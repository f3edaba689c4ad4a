--------------------------- MODULE MCSondaProofs ----------------------------
(***************************************************************************)
(* Proofs about the probe under every kill() of the host and every call of *)
(* WaitConfirmations, for any set of PIDs, any capacity of the ring and of *)
(* the channel and any number of kill() calls.                             *)
(***************************************************************************)
EXTENDS MCSonda, SequenceTheorems, TLAPS

ProbeTypeOK == /\ SondaTypeOK /\ historia \in Seq(Pid) /\ leidos \in Seq(Pid)
               /\ recientes \in Seq(Pid) /\ recibidos \in Seq(Pid) /\ posibles \in SUBSET Pid

(* What a call may still receive is possible in the sense of posibles.     *)
EnBuffers == /\ \A k \in 1..Len(chan) : chan[k] \in posibles
             /\ \A k \in 1..Len(ring) : ring[k] \in posibles

(* What is promised of the events in transit, and the inductive invariant. *)
ProbeInv == /\ ProbeTypeOK
            /\ EnBuffers
            /\ EventsAreKills
            /\ NoLossBelowCapacity
            /\ ConfirmedWereTargets

----------------------------------------------------------------------------
(* What each operation does to the events in transit, behind any sequence  *)
(* q of events received.                                                   *)
Transito(q) == q \o chan \o ring

(* A kill() adds its event at the end or leaves the transit as it was, and *)
(* it is only dropped by a full ring.                                      *)
LEMMA KillTransit ==
  ASSUME ProbeTypeOK, NEW pid \in Pid, NEW q \in Seq(Pid), EnterKill(pid)
  PROVE  \/ q \o chan' \o ring' = Append(Transito(q), pid)
         \/ Len(ring) >= RingCap /\ q \o chan' \o ring' = Transito(q)
<1>1. CASE Len(ring) < RingCap
  <2>1. ring' = Append(ring, pid) /\ chan' = chan
    BY <1>1 DEF EnterKill, Reserva
  <2>2. q \o chan \o Append(ring, pid) = Append(q \o chan \o ring, pid)
    BY DEF ProbeTypeOK, SondaTypeOK
  <2> QED
    BY <2>1, <2>2 DEF Transito
<1>2. CASE ~(Len(ring) < RingCap)
  BY <1>2, CapAssumption DEF EnterKill, Reserva, Transito, ProbeTypeOK, SondaTypeOK
<1> QED
  BY <1>1, <1>2

(* Receiving an event moves it from the channel to what has been received. *)
LEMMA ReceiveTransit ==
  ASSUME ProbeTypeOK, NEW q \in Seq(Pid), Recibe
  PROVE  Append(q, Head(chan)) \o chan' \o ring' = Transito(q)
<1>1. chan # <<>> /\ chan' = Tail(chan) /\ ring' = ring
  BY DEF Recibe
<1>2. Append(q, Head(chan)) \o Tail(chan) = q \o chan
  <2>1. chan \in Seq(Pid) /\ Head(chan) \in Pid /\ Tail(chan) \in Seq(Pid)
        /\ Append(q, Head(chan)) \in Seq(Pid)
    BY <1>1 DEF ProbeTypeOK, SondaTypeOK
  <2>2. Append(q, Head(chan)) \o Tail(chan) \in Seq(Pid) /\ q \o chan \in Seq(Pid)
    BY <2>1
  <2>3. /\ Len(Append(q, Head(chan)) \o Tail(chan)) = Len(q \o chan)
        /\ \A k \in 1..Len(q \o chan) : (Append(q, Head(chan)) \o Tail(chan))[k] = (q \o chan)[k]
    BY <1>1, <2>1
  <2> QED
    BY <2>2, <2>3, SeqEqual
<1> QED
  BY <1>1, <1>2 DEF Transito

(* A sequence without its element n.                                       *)
SinElemento(s, n) == [k \in 1..Len(s) - 1 |-> IF k < n THEN s[k] ELSE s[k + 1]]

(* A turn of readLoop leaves the transit as it was, or the channel is full *)
(* and the event at the head of the ring is gone.                          *)
LEMMA ReadTransit ==
  ASSUME ProbeTypeOK, NEW q \in Seq(Pid), ReadLoop
  PROVE  \/ q \o chan' \o ring' = Transito(q)
         \/ \E n \in DOMAIN Transito(q) :
              /\ Len(chan) >= ChanCap /\ ring # <<>>
              /\ q \o chan' \o ring' = SinElemento(Transito(q), n)
<1> USE DEF ProbeTypeOK, SondaTypeOK
<1>1. ring # <<>> /\ ring' = Tail(ring)
  BY DEF ReadLoop
<1>2. CASE Len(chan) < ChanCap
  <2>1. chan' = Append(chan, Head(ring))
    BY <1>2 DEF ReadLoop
  <2>2. q \o Append(chan, Head(ring)) \o Tail(ring) = q \o chan \o ring
    <3>1. \A v, u \in Seq(Pid), x \in Pid : v \o Append(u, x) = Append(v \o u, x)
      OBVIOUS
    <3>2. ASSUME NEW v \in Seq(Pid), NEW u \in Seq(Pid), u # <<>>
          PROVE  Append(v, Head(u)) \o Tail(u) = v \o u
      <4>1. Head(u) \in Pid /\ Tail(u) \in Seq(Pid) /\ Append(v, Head(u)) \in Seq(Pid)
        BY <3>2
      <4>2. Append(v, Head(u)) \o Tail(u) \in Seq(Pid) /\ v \o u \in Seq(Pid)
        BY <4>1
      <4>3. /\ Len(Append(v, Head(u)) \o Tail(u)) = Len(v \o u)
            /\ \A k \in 1..Len(v \o u) : (Append(v, Head(u)) \o Tail(u))[k] = (v \o u)[k]
        BY <3>2, <4>1
      <4> QED
        BY <4>2, <4>3, SeqEqual
    <3>3. q \o chan \in Seq(Pid) /\ Head(ring) \in Pid
      BY <1>1
    <3> HIDE DEF ProbeTypeOK, SondaTypeOK
    <3>4. q \in Seq(Pid) /\ chan \in Seq(Pid) /\ ring \in Seq(Pid)
      BY DEF ProbeTypeOK, SondaTypeOK
    <3> DEFINE base == q \o chan
    <3>5. q \o Append(chan, Head(ring)) = Append(base, Head(ring))
      BY <3>1, <3>3, <3>4
    <3> HIDE DEF base
    <3>6. Append(base, Head(ring)) \o Tail(ring) = base \o ring
      BY <1>1, <3>2, <3>3, <3>4 DEF base
    <3> QED
      BY <3>5, <3>6 DEF base
  <2> QED
    BY <1>1, <2>1, <2>2 DEF Transito
<1>3. CASE ~(Len(chan) < ChanCap)
  <2> DEFINE base == q \o chan
             n == Len(base) + 1
  <2>1. chan' = chan
    BY <1>3 DEF ReadLoop
  <2>2. base \in Seq(Pid)
    OBVIOUS
  <2> HIDE DEF base
  <2>3. base \o Tail(ring) = SinElemento(base \o ring, n)
    <3>1. /\ Len(base \o Tail(ring)) = Len(base) + Len(ring) - 1
          /\ Len(base \o ring) = Len(base) + Len(ring)
      BY <1>1, <2>2
    <3>2. \A k \in 1..Len(base) + Len(ring) - 1 :
            (base \o Tail(ring))[k] = IF k < n THEN (base \o ring)[k] ELSE (base \o ring)[k + 1]
      BY <1>1, <2>2
    <3>3. base \o Tail(ring) \in Seq(Pid)
      BY <1>1, <2>2
    <3>4. base \o Tail(ring) = [k \in 1..Len(base \o Tail(ring)) |-> (base \o Tail(ring))[k]]
      <4>1. \A v \in Seq(Pid) : v = [k \in 1..Len(v) |-> v[k]]
        OBVIOUS
      <4> QED
        BY <3>3, <4>1
    <3> QED
      BY <3>1, <3>2, <3>4 DEF SinElemento
  <2>4. n \in DOMAIN (base \o ring)
    BY <1>1, <2>2
  <2>5. Len(chan) >= ChanCap
    BY <1>3, CapAssumption
  <2>6. Transito(q) = base \o ring /\ q \o chan' \o ring' = base \o Tail(ring)
    BY <1>1, <2>1 DEF Transito, base
  <2> QED
    BY <1>1, <2>3, <2>4, <2>5, <2>6
<1> QED
  BY <1>2, <1>3

(* Subsequences: growing the whole, and dropping an element of the part.   *)
EsSubsecuencia(s, t) ==
  \E f \in [DOMAIN s -> DOMAIN t] :
    /\ \A i, j \in DOMAIN s : i < j => f[i] < f[j]
    /\ \A k \in DOMAIN s : s[k] = t[f[k]]

(* A kill more, and its event more, keep the events a subsequence.         *)
LEMMA SubsecuenciaGrows ==
  ASSUME NEW s \in Seq(Pid), NEW t \in Seq(Pid), NEW x \in Pid, EsSubsecuencia(s, t)
  PROVE  EsSubsecuencia(s, Append(t, x)) /\ EsSubsecuencia(Append(s, x), Append(t, x))
<1>1. PICK f \in [DOMAIN s -> DOMAIN t] :
        /\ \A i, j \in DOMAIN s : i < j => f[i] < f[j]
        /\ \A k \in DOMAIN s : s[k] = t[f[k]]
  BY DEF EsSubsecuencia
<1>0. DOMAIN s = 1..Len(s) /\ DOMAIN t = 1..Len(t)
  OBVIOUS
<1>2. /\ DOMAIN Append(t, x) = 1..Len(t) + 1 /\ DOMAIN Append(s, x) = 1..Len(s) + 1
      /\ \A k \in 1..Len(t) : Append(t, x)[k] = t[k]
      /\ Append(t, x)[Len(t) + 1] = x
      /\ \A k \in 1..Len(s) : Append(s, x)[k] = s[k]
      /\ Append(s, x)[Len(s) + 1] = x
      /\ Len(s) \in Nat /\ Len(t) \in Nat
  OBVIOUS
<1>3. EsSubsecuencia(s, Append(t, x))
  <2>1. f \in [DOMAIN s -> DOMAIN Append(t, x)]
    BY <1>0, <1>1, <1>2
  <2>2. \A k \in DOMAIN s : s[k] = Append(t, x)[f[k]]
    BY <1>0, <1>1, <1>2
  <2> QED
    BY <1>1, <2>1, <2>2 DEF EsSubsecuencia
<1>4. EsSubsecuencia(Append(s, x), Append(t, x))
  <2> DEFINE g == [k \in 1..Len(s) + 1 |-> IF k = Len(s) + 1 THEN Len(t) + 1 ELSE f[k]]
  <2>1. \A k \in 1..Len(s) : g[k] = f[k] /\ f[k] \in 1..Len(t)
    BY <1>0, <1>1, <1>2
  <2>2. g[Len(s) + 1] = Len(t) + 1
    BY <1>2
  <2>3. g \in [1..Len(s) + 1 -> 1..Len(t) + 1]
    BY <1>0, <1>1, <1>2
  <2> HIDE DEF g
  <2>4. \A i, j \in 1..Len(s) + 1 : i < j => g[i] < g[j]
    <3> SUFFICES ASSUME NEW i \in 1..Len(s) + 1, NEW j \in 1..Len(s) + 1, i < j
                 PROVE  g[i] < g[j]
      OBVIOUS
    <3>1. i \in 1..Len(s)
      BY <1>2
    <3>2. CASE j \in 1..Len(s)
      BY <1>0, <1>1, <2>1, <3>1, <3>2
    <3>3. CASE j = Len(s) + 1
      <4>1. g[i] \in 1..Len(t) /\ g[j] = Len(t) + 1
        BY <2>1, <2>2, <3>1, <3>3
      <4> QED
        BY <1>2, <4>1
    <3>4. Len(s) \in Nat
      OBVIOUS
    <3>5. j \in 1..Len(s) \/ j = Len(s) + 1
      BY <3>4
    <3> QED
      BY <3>2, <3>3, <3>5
  <2>5. \A k \in 1..Len(s) + 1 : Append(s, x)[k] = Append(t, x)[g[k]]
    <3>1. ASSUME NEW k \in 1..Len(s) PROVE Append(s, x)[k] = Append(t, x)[g[k]]
      <4>1. Append(s, x)[k] = s[k] /\ s[k] = t[f[k]]
        BY <1>0, <1>1, <1>2
      <4>2. g[k] = f[k] /\ f[k] \in 1..Len(t)
        BY <2>1
      <4> QED
        BY <1>2, <4>1, <4>2
    <3>2. Append(s, x)[Len(s) + 1] = Append(t, x)[g[Len(s) + 1]]
      BY <1>2, <2>2
    <3>3. \A k \in 1..Len(s) + 1 : k \in 1..Len(s) \/ k = Len(s) + 1
      BY <1>2
    <3> QED
      BY <3>1, <3>2, <3>3
  <2> QED
    BY <1>2, <2>3, <2>4, <2>5 DEF EsSubsecuencia
<1> QED
  BY <1>3, <1>4

(* A kill more without an event keeps them one.                            *)
LEMMA SubsecuenciaDrops ==
  ASSUME NEW s \in Seq(Pid), NEW t \in Seq(Pid), NEW n \in DOMAIN s, EsSubsecuencia(s, t)
  PROVE  EsSubsecuencia(SinElemento(s, n), t)
<1>1. PICK f \in [DOMAIN s -> DOMAIN t] :
        /\ \A i, j \in DOMAIN s : i < j => f[i] < f[j]
        /\ \A k \in DOMAIN s : s[k] = t[f[k]]
  BY DEF EsSubsecuencia
<1> DEFINE g == [k \in 1..Len(s) - 1 |-> IF k < n THEN f[k] ELSE f[k + 1]]
           r == SinElemento(s, n)
<1>2. DOMAIN s = 1..Len(s) /\ Len(s) \in Nat /\ n \in 1..Len(s)
  OBVIOUS
<1>3. /\ DOMAIN r = 1..Len(s) - 1
      /\ \A k \in 1..Len(s) - 1 : r[k] = IF k < n THEN s[k] ELSE s[k + 1]
  BY DEF SinElemento
<1>4. /\ \A k \in 1..Len(s) - 1 : g[k] = IF k < n THEN f[k] ELSE f[k + 1]
      /\ g \in [1..Len(s) - 1 -> DOMAIN t]
  BY <1>1, <1>2
<1> HIDE DEF g, r
<1>5. \A i, j \in 1..Len(s) - 1 : i < j => g[i] < g[j]
  <2> SUFFICES ASSUME NEW i \in 1..Len(s) - 1, NEW j \in 1..Len(s) - 1, i < j
               PROVE  g[i] < g[j]
    OBVIOUS
  <2>1. PICK a \in 1..Len(s) : a = IF i < n THEN i ELSE i + 1
    BY <1>2
  <2>2. PICK b \in 1..Len(s) : b = IF j < n THEN j ELSE j + 1
    BY <1>2
  <2>3. a < b
    BY <1>2, <2>1, <2>2
  <2>4. g[i] = f[a] /\ g[j] = f[b]
    BY <1>4, <2>1, <2>2
  <2> QED
    BY <1>1, <1>2, <2>3, <2>4
<1>6. \A k \in 1..Len(s) - 1 : r[k] = t[g[k]]
  <2> SUFFICES ASSUME NEW k \in 1..Len(s) - 1 PROVE r[k] = t[g[k]]
    OBVIOUS
  <2>1. PICK a \in 1..Len(s) : a = IF k < n THEN k ELSE k + 1
    BY <1>2
  <2>2. g[k] = f[a] /\ r[k] = s[a]
    BY <1>3, <1>4, <2>1
  <2> QED
    BY <1>1, <1>2, <2>2
<1>7. EsSubsecuencia(r, t)
  BY <1>3, <1>4, <1>5, <1>6 DEF EsSubsecuencia
<1> QED
  BY <1>7 DEF r

----------------------------------------------------------------------------
(* Every step keeps the types.                                             *)
LEMMA ProbeTypeStep == ProbeTypeOK /\ [Next]_vars => ProbeTypeOK'
<1> SUFFICES ASSUME ProbeTypeOK, [Next]_vars PROVE ProbeTypeOK'
  OBVIOUS
<1> USE CapAssumption DEF ProbeTypeOK, SondaTypeOK
<1>0. ASSUME NEW k \in Seq(Pid), NEW e \in Seq(Pid), Desde(k, e)
      PROVE  recientes' \in Seq(Pid) /\ recibidos' \in Seq(Pid)
  <2>1. <<>> \in Seq(Pid)
    OBVIOUS
  <2> QED
    BY <1>0, <2>1 DEF Desde
<1>1. CASE Kill
  <2>1. PICK pid \in Pid : /\ EnterKill(pid) /\ historia' = Append(historia, pid)
                           /\ Desde(Append(recientes, pid), recibidos)
                           /\ posibles' = posibles \cup {pid} /\ leidos' = leidos
    BY <1>1 DEF Kill
  <2>2. Append(recientes, pid) \in Seq(Pid)
    OBVIOUS
  <2>3. recientes' \in Seq(Pid) /\ recibidos' \in Seq(Pid)
    BY <1>0, <2>1, <2>2
  <2> QED
    BY <2>1, <2>3 DEF EnterKill, Reserva
<1>2. CASE Recibir
  <2>1. chan # <<>> /\ Head(chan) \in Pid /\ Tail(chan) \in Seq(Pid)
        /\ Len(Tail(chan)) = Len(chan) - 1 /\ Len(chan) \in Nat
    BY <1>2 DEF Recibir, Recibe
  <2>3. espera' \in BOOLEAN
    BY <1>2, Zenon DEF Recibir, Recibe
  <2>4. Append(recibidos, Head(chan)) \in Seq(Pid)
    BY <2>1
  <2>5. recientes' \in Seq(Pid) /\ recibidos' \in Seq(Pid)
    BY <1>0, <1>2, <2>4 DEF Recibir
  <2> QED
    BY <1>2, <2>1, <2>3, <2>5 DEF Recibir, Recibe
<1>3. CASE Lector
  <2>1. ring # <<>> /\ Head(ring) \in Pid /\ Tail(ring) \in Seq(Pid)
        /\ Len(Tail(ring)) = Len(ring) - 1 /\ Len(ring) \in Nat
    BY <1>3 DEF Lector, ReadLoop
  <2>2. recientes' \in Seq(Pid) /\ recibidos' \in Seq(Pid)
    BY <1>0, <1>3 DEF Lector
  <2> QED
    BY <1>3, <2>1, <2>2 DEF Lector, ReadLoop
<1>4. CASE Fin
  BY <1>4 DEF Fin, ReadFails, Deadline, CanalCerrado, Retorna, cuenta
<1>5. CASE Espera
  <2>1. PICK e \in SUBSET Pid : WaitConfirmations(e)
    BY <1>5 DEF Espera
  <2>2. espera' \in BOOLEAN
    BY <2>1, Zenon DEF WaitConfirmations
  <2>3. ToSet(ring \o chan) \in SUBSET Pid
    BY DEF ToSet
  <2> QED
    BY <1>5, <2>1, <2>2, <2>3 DEF Espera, WaitConfirmations
<1>6. CASE UNCHANGED vars
  BY <1>6 DEF vars, sondaVars, cuenta
<1> QED
  BY <1>1, <1>2, <1>3, <1>4, <1>5, <1>6 DEF Next

(* Every step keeps what is in the buffers possible for the call.          *)
LEMMA EnBuffersStep == ProbeTypeOK /\ EnBuffers /\ [Next]_vars => EnBuffers'
<1> SUFFICES ASSUME ProbeTypeOK, EnBuffers, [Next]_vars PROVE EnBuffers'
  OBVIOUS
<1>0. ring \in Seq(Pid) /\ chan \in Seq(Pid)
  BY DEF ProbeTypeOK, SondaTypeOK
<1> USE DEF EnBuffers
<1>1. CASE Kill
  <2>1. PICK pid \in Pid : EnterKill(pid) /\ posibles' = posibles \cup {pid}
    BY <1>1 DEF Kill
  <2>2. chan' = chan /\ (ring' = ring \/ ring' = Append(ring, pid))
    BY <2>1 DEF EnterKill, Reserva
  <2>3. \A k \in 1..Len(Append(ring, pid)) : Append(ring, pid)[k] \in posibles'
    BY <1>0, <2>1
  <2> QED
    BY <2>1, <2>2, <2>3
<1>2. CASE Recibir
  <2>1. chan # <<>> /\ chan' = Tail(chan) /\ ring' = ring /\ posibles' = posibles
    BY <1>2 DEF Recibir, Recibe
  <2> QED
    BY <1>0, <2>1
<1>3. CASE Lector
  <2>1. /\ ring # <<>> /\ ring' = Tail(ring) /\ posibles' = posibles
        /\ chan' = chan \/ chan' = Append(chan, Head(ring))
    BY <1>3 DEF Lector, ReadLoop
  <2>2. Head(ring) \in posibles /\ \A k \in 1..Len(Tail(ring)) : Tail(ring)[k] \in posibles
    BY <1>0, <2>1
  <2>3. \A k \in 1..Len(Append(chan, Head(ring))) : Append(chan, Head(ring))[k] \in posibles
    BY <1>0, <2>2
  <2> QED
    BY <2>1, <2>2, <2>3
<1>4. CASE Fin \/ UNCHANGED vars
  <2>1. UNCHANGED <<ring, chan, posibles>>
    BY <1>4 DEF Fin, ReadFails, Deadline, CanalCerrado, Retorna, cuenta, vars, sondaVars
  <2> QED
    BY <2>1
<1>5. CASE Espera
  <2>1. chan' = chan /\ ring' = ring /\ posibles' = ToSet(ring \o chan)
    BY <1>5 DEF Espera, WaitConfirmations
  <2>2. ASSUME NEW k \in 1..Len(ring) PROVE ring[k] \in ToSet(ring \o chan)
    <3>1. k \in DOMAIN (ring \o chan) /\ (ring \o chan)[k] = ring[k]
      BY <1>0
    <3> QED
      BY <3>1 DEF ToSet
  <2>3. ASSUME NEW k \in 1..Len(chan) PROVE chan[k] \in ToSet(ring \o chan)
    <3>1. /\ Len(ring) + k \in DOMAIN (ring \o chan)
          /\ (ring \o chan)[Len(ring) + k] = chan[k]
      BY <1>0
    <3> QED
      BY <3>1 DEF ToSet
  <2> QED
    BY <2>1, <2>2, <2>3
<1> QED
  BY <1>1, <1>2, <1>3, <1>4, <1>5 DEF Next

(* Every step keeps the confirmed among the targets this call received.    *)
LEMMA ConfirmedStep ==
  ProbeTypeOK /\ EnBuffers /\ ConfirmedWereTargets /\ [Next]_vars => ConfirmedWereTargets'
<1> SUFFICES ASSUME ProbeTypeOK, EnBuffers, ConfirmedWereTargets, [Next]_vars
             PROVE  ConfirmedWereTargets'
  OBVIOUS
<1> USE DEF ConfirmedWereTargets
<1>1. CASE Recibir
  <2>1. /\ leidos \in Seq(Pid) /\ chan # <<>> /\ Head(chan) \in Pid
        /\ leidos' = Append(leidos, Head(chan)) /\ posibles' = posibles
    BY <1>1 DEF Recibir, Recibe, ProbeTypeOK, SondaTypeOK
  <2>2. ToSet(leidos)' = ToSet(leidos) \cup {Head(chan)}
    BY <2>1 DEF ToSet
  <2>3. /\ esperados' = esperados
        /\ confirmados' = confirmados \cup ({Head(chan)} \cap esperados)
        /\ espera' => confirmados' # esperados
    BY <1>1, Zenon DEF Recibir, Recibe
  <2>4. Head(chan) \in posibles
    <3>1. chan \in Seq(Pid)
      BY DEF ProbeTypeOK, SondaTypeOK
    <3>2. 1 \in 1..Len(chan) /\ Head(chan) = chan[1]
      BY <2>1, <3>1
    <3> QED
      BY <3>2 DEF EnBuffers
  <2>5. confirmados' \subseteq esperados' /\ confirmados' \subseteq ToSet(leidos)'
        /\ confirmados' \subseteq posibles'
    BY <2>1, <2>2, <2>3, <2>4
  <2> QED
    BY <2>3, <2>5
<1>2. CASE Kill
  <2>1. UNCHANGED <<espera, esperados, confirmados, leidos>> /\ posibles \subseteq posibles'
    BY <1>2 DEF Kill, EnterKill
  <2> QED
    BY <2>1 DEF ToSet
<1>3. CASE Lector \/ UNCHANGED vars
  <2>1. UNCHANGED <<espera, esperados, confirmados, leidos, posibles>>
    BY <1>3 DEF Lector, ReadLoop, vars, sondaVars, cuenta
  <2> QED
    BY <2>1 DEF ToSet
<1>4. CASE Fin
  <2>1. /\ UNCHANGED <<esperados, confirmados, leidos, posibles>>
        /\ espera' = espera \/ espera' = FALSE
    BY <1>4 DEF Fin, ReadFails, Deadline, CanalCerrado, Retorna, cuenta
  <2> QED
    BY <2>1 DEF ToSet
<1>5. CASE Espera
  <2>1. PICK e \in SUBSET Pid : WaitConfirmations(e)
    BY <1>5 DEF Espera
  <2>2. esperados' = e /\ confirmados' = {} /\ (espera' => e # {})
    BY <2>1, Zenon DEF WaitConfirmations
  <2> QED
    BY <2>2
<1> QED
  BY <1>1, <1>2, <1>3, <1>4, <1>5 DEF Next

(* Every step appends one kill() and perhaps its event, drops an event of  *)
(* the transit on a full channel, or leaves both as they were.             *)
LEMMA TransitStep ==
  ASSUME ProbeTypeOK, [Next]_vars
  PROVE  \/ \E pid \in Pid :
              /\ historia' = Append(historia, pid)
              /\ EnCamino' = Append(EnCamino, pid) \/ EnCamino' = EnCamino
         \/ historia' = historia /\ EnCamino' = EnCamino
         \/ /\ historia' = historia
            /\ \E n \in DOMAIN EnCamino : EnCamino' = SinElemento(EnCamino, n)
<1>0. EnCamino = Transito(leidos) /\ leidos \in Seq(Pid)
  BY DEF EnCamino, Transito, ProbeTypeOK
<1>1. CASE Kill
  <2>1. PICK pid \in Pid : /\ EnterKill(pid) /\ historia' = Append(historia, pid)
                           /\ leidos' = leidos
    BY <1>1 DEF Kill
  <2>2. EnCamino' = leidos \o chan' \o ring'
    BY <2>1 DEF EnCamino
  <2> QED
    BY <1>0, <2>1, <2>2, KillTransit
<1>2. CASE Recibir
  <2>1. /\ Recibe /\ historia' = historia
        /\ EnCamino' = Append(leidos, Head(chan)) \o chan' \o ring'
    BY <1>2 DEF Recibir, EnCamino
  <2> QED
    BY <1>0, <2>1, ReceiveTransit
<1>3. CASE Lector
  <2>1. ReadLoop /\ historia' = historia /\ EnCamino' = leidos \o chan' \o ring'
    BY <1>3 DEF Lector, EnCamino
  <2> QED
    BY <1>0, <2>1, ReadTransit
<1>4. CASE Fin \/ Espera \/ UNCHANGED vars
  <2>1. UNCHANGED <<historia, leidos, chan, ring>>
    BY <1>4 DEF Fin, ReadFails, Deadline, CanalCerrado, Retorna, Espera, WaitConfirmations,
                cuenta, vars, sondaVars
  <2> QED
    BY <2>1 DEF EnCamino
<1> QED
  BY <1>1, <1>2, <1>3, <1>4 DEF Next

(* Every step keeps the events a subsequence of the kills.                 *)
LEMMA EventsStep == ProbeTypeOK /\ EventsAreKills /\ [Next]_vars => EventsAreKills'
<1> SUFFICES ASSUME ProbeTypeOK, EventsAreKills, [Next]_vars PROVE EventsAreKills'
  OBVIOUS
<1>1. EnCamino \in Seq(Pid) /\ historia \in Seq(Pid)
  BY DEF EnCamino, ProbeTypeOK, SondaTypeOK
<1>2. EsSubsecuencia(EnCamino, historia)
  BY DEF EventsAreKills, EsSubsecuencia
<1>3. EsSubsecuencia(EnCamino', historia')
  BY <1>1, <1>2, TransitStep, SubsecuenciaGrows, SubsecuenciaDrops
<1> QED
  BY <1>3 DEF EventsAreKills, EsSubsecuencia

(* Every step keeps it that nothing is lost below capacity.                *)
LEMMA NoLossStep == ProbeTypeOK /\ NoLossBelowCapacity /\ [Next]_vars => NoLossBelowCapacity'
<1> SUFFICES ASSUME ProbeTypeOK, NoLossBelowCapacity, [Next]_vars,
                    (Len(recientes) <= ChanCap /\ Len(recientes) <= RingCap)'
             PROVE  (recibidos \o chan \o ring)' = recientes'
  BY DEF NoLossBelowCapacity
<1>1. /\ ring \in Seq(Pid) /\ chan \in Seq(Pid) /\ recibidos \in Seq(Pid)
      /\ recientes \in Seq(Pid)
      /\ Len(Transito(recibidos)) = Len(recibidos) + Len(chan) + Len(ring)
      /\ Len(recibidos) \in Nat /\ Len(chan) \in Nat /\ Len(ring) \in Nat
      /\ Len(recientes) \in Nat
      /\ RingCap \in Nat /\ ChanCap \in Nat
  BY CapAssumption DEF Transito, ProbeTypeOK, SondaTypeOK
<1>2. Len(recientes) <= ChanCap /\ Len(recientes) <= RingCap => Transito(recibidos) = recientes
  BY DEF NoLossBelowCapacity, Transito
<1>3. ASSUME NEW k, NEW e, Desde(k, e),
             Len(k) <= ChanCap /\ Len(k) <= RingCap => e \o chan' \o ring' = k
      PROVE  (recibidos \o chan \o ring)' = recientes'
  <2>1. CASE ring' = <<>> /\ chan' = <<>>
    <3>1. recientes' = <<>> /\ recibidos' = <<>>
      BY <1>3, <2>1 DEF Desde
    <3>2. <<>> \o <<>> \o <<>> = <<>>
      OBVIOUS
    <3> QED
      BY <2>1, <3>1, <3>2
  <2>2. CASE ~(ring' = <<>> /\ chan' = <<>>)
    <3>1. recientes' = k /\ recibidos' = e
      BY <1>3, <2>2 DEF Desde
    <3> QED
      BY <1>3, <3>1
  <2> QED
    BY <2>1, <2>2
<1>4. CASE Kill
  <2>1. PICK pid \in Pid : EnterKill(pid) /\ Desde(Append(recientes, pid), recibidos)
    BY <1>4 DEF Kill
  <2>2. ASSUME Len(Append(recientes, pid)) <= ChanCap, Len(Append(recientes, pid)) <= RingCap
        PROVE  recibidos \o chan' \o ring' = Append(recientes, pid)
    <3>1. Len(Append(recientes, pid)) = Len(recientes) + 1
      BY <1>1
    <3>2. Transito(recibidos) = recientes /\ Len(recientes) < RingCap
      BY <1>1, <1>2, <2>2, <3>1
    <3>3. ~(Len(ring) >= RingCap)
      BY <1>1, <3>2
    <3> QED
      BY <1>1, <2>1, <3>2, <3>3, KillTransit
  <2> QED
    BY <1>3, <2>1, <2>2
<1>5. CASE Recibir
  <2>1. Recibe /\ Desde(recientes, Append(recibidos, Head(chan)))
    BY <1>5 DEF Recibir
  <2>2. Append(recibidos, Head(chan)) \o chan' \o ring' = Transito(recibidos)
    BY <1>1, <2>1, ReceiveTransit
  <2> QED
    BY <1>2, <1>3, <2>1, <2>2
<1>6. CASE Lector
  <2>1. ReadLoop /\ Desde(recientes, recibidos)
    BY <1>6 DEF Lector
  <2>2. ASSUME Len(recientes) <= ChanCap, Len(recientes) <= RingCap
        PROVE  recibidos \o chan' \o ring' = recientes
    <3>1. Transito(recibidos) = recientes
      BY <1>2, <2>2
    <3>2. ~(Len(chan) >= ChanCap /\ ring # <<>>)
      BY <1>1, <2>2, <3>1
    <3> QED
      BY <1>1, <2>1, <3>1, <3>2, ReadTransit
  <2> QED
    BY <1>3, <2>1, <2>2
<1>7. CASE Fin \/ Espera \/ UNCHANGED vars
  <2>1. UNCHANGED <<recientes, recibidos, chan, ring>>
    BY <1>7 DEF Fin, ReadFails, Deadline, CanalCerrado, Retorna, Espera, WaitConfirmations,
                cuenta, vars, sondaVars
  <2> QED
    BY <1>2, <2>1 DEF Transito
<1> QED
  BY <1>4, <1>5, <1>6, <1>7 DEF Next

(* ProbeInv holds in every state.                                          *)
LEMMA ProbeInvHolds == Spec => []ProbeInv
<1>1. Init => ProbeInv
  <2> SUFFICES ASSUME Init PROVE ProbeInv
    OBVIOUS
  <2>0. /\ ring = <<>> /\ chan = <<>> /\ leidos = <<>> /\ historia = <<>>
        /\ esperados = {} /\ confirmados = {} /\ posibles = {}
        /\ recientes = <<>> /\ recibidos = <<>>
        /\ cerrado \in BOOLEAN /\ espera \in BOOLEAN
    BY Zenon DEF Init, SondaInit
  <2>4. EnCamino = <<>>
    BY <2>0 DEF EnCamino
  <2>1. ProbeTypeOK /\ NoLossBelowCapacity /\ EnBuffers
    BY <2>0, CapAssumption DEF ProbeTypeOK, SondaTypeOK, NoLossBelowCapacity, EnBuffers
  <2>2. ConfirmedWereTargets
    BY DEF Init, SondaInit, ConfirmedWereTargets
  <2>3. EventsAreKills
    <3>1. DOMAIN EnCamino = {} /\ DOMAIN historia = {}
      BY <2>0, <2>4
    <3>2. [x \in {} |-> x] \in [{} -> {}]
      OBVIOUS
    <3> QED
      BY <3>1, <3>2 DEF EventsAreKills
  <2> QED
    BY <2>1, <2>2, <2>3 DEF ProbeInv
<1>2. ProbeInv /\ [Next]_vars => ProbeInv'
  BY ProbeTypeStep, EnBuffersStep, EventsStep, NoLossStep, ConfirmedStep DEF ProbeInv
<1> QED
  BY <1>1, <1>2, PTL DEF Spec

----------------------------------------------------------------------------
(* The ring, the channel and the reader lose events but never invent,      *)
(* repeat or reorder one, for any capacities and any number of kill()      *)
(* calls (kill_monitor.c handle_sys_enter_kill, probe.go readLoop).        *)
THEOREM EventsAreKillsAlways == Spec => []EventsAreKills
<1>1. ProbeInv => EventsAreKills
  BY DEF ProbeInv
<1> QED
  BY <1>1, ProbeInvHolds, PTL

(* As long as the host has not called kill() more often, since ring and    *)
(* channel were last both empty, than either of them has room for, every   *)
(* one of those calls is received or in transit, in order: however many    *)
(* calls came before, and whatever the reader and the callers do.          *)
THEOREM NoLossBelowCapacityAlways == Spec => []NoLossBelowCapacity
<1>1. ProbeInv => NoLossBelowCapacity
  BY DEF ProbeInv
<1> QED
  BY <1>1, ProbeInvHolds, PTL

(* WaitConfirmations confirms, at any moment and for any argument, only    *)
(* expected PIDs whose event it received, an event of a kill() made after  *)
(* the call began or still in the ring or the channel then; it runs only   *)
(* while a confirmation is missing (probe.go 108-128).                     *)
THEOREM ConfirmedWereTargetsAlways == Spec => []ConfirmedWereTargets
<1>1. ProbeInv => ConfirmedWereTargets
  BY DEF ProbeInv
<1> QED
  BY <1>1, ProbeInvHolds, PTL
=============================================================================
