---------------------------- MODULE DaemonProofs ---------------------------
(***************************************************************************)
(* Proofs about the daemon's cycle, for any number of containers, PIDs and *)
(* processes and any capacity of the probe.                                *)
(*                                                                         *)
(* Types first; then the safety of the cycle as long as no PID of the      *)
(* daemon's snapshot is given out again: IInv is inductive, and the safety *)
(* invariants of Daemon follow from it.  That argument is split in two:    *)
(* FotoOK is what the snapshot still says of the host, whose processes may *)
(* end (Mengua) or start on PIDs outside the snapshot (Crece); CicloOK is  *)
(* what the loops have achieved so far.                                    *)
(***************************************************************************)
EXTENDS Daemon, ManagerProofs

----------------------------------------------------------------------------
(* The metrics of a cycle are those of listed containers.                  *)
LEMMA MetricsFacts ==
  ASSUME NEW listados \in SUBSET Container, DOMAIN snap \subseteq Pid
  PROVE  /\ DOMAIN MetricsDe(listados) = {c \in listados : c # SinContenedor /\ PIDs(c) # {}}
         /\ \A c \in DOMAIN MetricsDe(listados) : MetricsDe(listados)[c].perfil = Perfil[c]
         /\ IsFiniteSet(DOMAIN MetricsDe(listados))
<1> DEFINE linea(p) == [pid |-> p, cid |-> snap[p], rss |-> 1, vsz |-> 0, cpu |-> 0]
           P == {linea(p) : p \in DOMAIN snap}
           L == [c \in listados |-> Perfil[c]]
           I == {x.cid : x \in P}
<1>1. \A c : c \in I <=> PIDs(c) # {}
  <2>1. \A p : linea(p).cid = snap[p]
    OBVIOUS
  <2>2. \A c : c \in I <=> \E p \in DOMAIN snap : linea(p).cid = c
    <3> HIDE DEF linea
    <3> QED
      OBVIOUS
  <2> QED
    BY <2>1, <2>2 DEF PIDs
<1>2. DOMAIN L = listados /\ \A c \in listados : L[c] = Perfil[c]
  OBVIOUS
<1>4. MetricsDe(listados) = aggregate(P, L)
  BY DEF MetricsDe
<1> HIDE DEF P, L, I
<1>5. DOMAIN aggregate(P, L) = (I \ {SinContenedor}) \cap DOMAIN L
  BY AggregateFacts DEF I
<1>6. \A c \in DOMAIN aggregate(P, L) : aggregate(P, L)[c].perfil = L[c]
  BY AggregateFacts
<1>7. DOMAIN MetricsDe(listados) = {c \in listados : c # SinContenedor /\ PIDs(c) # {}}
  BY <1>1, <1>2, <1>4, <1>5
<1>8. \A c \in DOMAIN MetricsDe(listados) : MetricsDe(listados)[c].perfil = Perfil[c]
  BY <1>2, <1>4, <1>5, <1>6
<1>3. IsFiniteSet(DOMAIN MetricsDe(listados))
  BY <1>7, FS_Subset, DaemonAssumption
<1> QED
  BY <1>3, <1>7, <1>8

(* What Decide and DecideLaunches return has the types of the plan.        *)
LEMMA DecideType ==
  ASSUME NEW listados \in SUBSET Container, DOMAIN snap \subseteq Pid,
         NEW d \in Decide(MetricsDe(listados))
  PROVE  d \in Seq(Container) /\ ToSet(d) \subseteq listados
<1>1. d \in Seq(DOMAIN MetricsDe(listados))
  BY MetricsFacts, DecideSparesMinimum
<1>2. DOMAIN MetricsDe(listados) \subseteq listados
  BY MetricsFacts
<1>3. d \in Seq(listados)
  BY <1>1, <1>2, SeqMonotonic
<1>4. ToSet(d) \subseteq listados
  BY <1>3 DEF ToSet
<1> QED
  BY <1>3, <1>4, SeqMonotonic

(* DecideLaunches asks for profiles and natural quantities.                *)
LEMMA LaunchesType ==
  ASSUME NEW metrics, IsFiniteSet(DOMAIN metrics)
  PROVE  DecideLaunches(metrics) \in Seq([perfil : Perfiles, cantidad : Nat \ {0}])
<1> DEFINE T == [perfil : Perfiles, cantidad : Nat \ {0}]
           na == Cardinality(Grupo(metrics, Alto))
           nb == Cardinality(Grupo(metrics, {"bajo"}))
           la == [perfil |-> "alto-cpu", cantidad |-> MinAlto - na]
           lb == [perfil |-> "bajo", cantidad |-> MinBajo - nb]
           sa == IF na < MinAlto THEN <<la>> ELSE <<>>
           sb == IF nb < MinBajo THEN <<lb>> ELSE <<>>
<1>1. DecideLaunches(metrics) = sa \o sb
  BY DEF DecideLaunches
<1>2. na \in Nat /\ nb \in Nat
  <2>1. Grupo(metrics, Alto) \subseteq DOMAIN metrics /\ Grupo(metrics, {"bajo"}) \subseteq DOMAIN metrics
    BY DEF Grupo
  <2> QED
    BY <2>1, FS_Subset, FS_CardinalityType
<1>3. (na < MinAlto => la \in T) /\ (nb < MinBajo => lb \in T)
  BY <1>2, MinimosAssumption DEF Perfiles, Alto
<1> HIDE DEF la, lb, T, na, nb
<1>4. sa \in Seq(T) /\ sb \in Seq(T)
  BY <1>3
<1> HIDE DEF sa, sb
<1>5. sa \o sb \in Seq(T)
  BY <1>4, ConcatProperties
<1> QED
  BY <1>1, <1>5 DEF T

----------------------------------------------------------------------------
(* Type correctness of the pieces the actions are made of.                 *)
LEMMA EnterKillType ==
  ASSUME SondaTypeOK, NEW p \in Pid, EnterKill(p)
  PROVE  SondaTypeOK'
<1>1. Reserva(ring, p) \in Seq(Pid) /\ Len(Reserva(ring, p)) <= RingCap
  BY CapAssumption DEF SondaTypeOK, Reserva
<1> QED
  BY <1>1 DEF SondaTypeOK, EnterKill

(* Ending containers keeps the types of the host.                          *)
LEMMA TerminaType ==
  ASSUME TypeOK, NEW p, Termina(p)
  PROVE  /\ duenno' \in [Pid -> Container \cup {Ajeno, Nadie}]
         /\ principal' \in [Container -> Pid \cup {Nadie}]
BY DEF TypeOK, Termina

(* Starting one keeps them.                                                *)
LEMMA ArrancaType ==
  ASSUME TypeOK, NEW c \in Container, NEW p \in Pid, Arranca(c, p)
  PROVE  /\ duenno' \in [Pid -> Container \cup {Ajeno, Nadie}]
         /\ principal' \in [Container -> Pid \cup {Nadie}]
BY DEF TypeOK, Arranca

(* A signal keeps them.                                                    *)
LEMMA SenalType ==
  ASSUME TypeOK, NEW p \in Pid, NEW mortal, Senal(p, mortal)
  PROVE  /\ SondaTypeOK'
         /\ duenno' \in [Pid -> Container \cup {Ajeno, Nadie}]
         /\ principal' \in [Container -> Pid \cup {Nadie}]
         /\ avisados' \subseteq Container \cup {Ajeno} /\ caidos' \subseteq Container
<1>1. SondaTypeOK'
  BY EnterKillType DEF TypeOK, Senal
<1>2. /\ duenno' \in [Pid -> Container \cup {Ajeno, Nadie}]
      /\ principal' \in [Container -> Pid \cup {Nadie}]
  BY TerminaType DEF TypeOK, Senal, host
<1>3. avisados' \subseteq Container \cup {Ajeno} /\ caidos' \subseteq Container
  BY DEF TypeOK, Senal
<1> QED
  BY <1>1, <1>2, <1>3

(* So does taking one from what is left to launch.                         *)
LEMMA RestaType ==
  ASSUME TypeOK, launches # <<>>
  PROVE  Resta \in Seq([perfil : Perfiles, cantidad : Nat \ {0}]) /\ PerfilActual \in Perfiles
<1> DEFINE T == [perfil : Perfiles, cantidad : Nat \ {0}]
<1>1. launches \in Seq(T) /\ Len(launches) \in Nat /\ Len(launches) # 0
  BY EmptySeq DEF TypeOK
<1>2. launches[1] \in T /\ Head(launches) = launches[1]
  <2>1. 1 \in 1..Len(launches)
    BY <1>1
  <2> HIDE DEF T
  <2> QED
    BY <1>1, <2>1, ElementOfSeq
<1>3. CASE Head(launches).cantidad = 1
  <2>1. Tail(launches) \in Seq(T)
    BY <1>1, HeadTailProperties
  <2> QED
    BY <1>2, <1>3, <2>1 DEF Resta, PerfilActual
<1>4. CASE Head(launches).cantidad # 1
  <2> DEFINE e == [launches[1] EXCEPT !.cantidad = @ - 1]
  <2>1. e \in T
    BY <1>2, <1>4
  <2>2. [launches EXCEPT ![1] = e] \in Seq(T)
    BY <1>1, <2>1, ExceptSeq
  <2>3. Resta = [launches EXCEPT ![1] = e]
    BY <1>4 DEF Resta
  <2> QED
    BY <1>2, <2>2, <2>3 DEF PerfilActual
<1> QED
  BY <1>3, <1>4

(* So does going on to the next step of the cycle,                         *)
LEMMA AvanzaType ==
  ASSUME TypeOK, pc \in {"comprueba", "remata"}, NEW resto \in SUBSET Pid, Avanza(resto),
         decisions' = decisions
  PROVE  pc' \in Fases /\ pend' \subseteq Pid /\ idx' \in 0..Len(decisions')
<1>1. Len(decisions) \in Nat /\ idx \in 0..Len(decisions) /\ DOMAIN snap \subseteq Pid
  BY LenProperties DEF TypeOK
<1>2. \A c : PIDs(c) \subseteq Pid
  BY <1>1 DEF PIDs
<1> QED
  BY <1>1, <1>2 DEF Avanza, Fases

(* and ending it.                                                          *)
LEMMA FinType ==
  ASSUME TypeOK, Fin
  PROVE  /\ pc' \in Fases /\ pc' # "remata" /\ DOMAIN snap' \subseteq Pid
         /\ \A p \in DOMAIN snap' : snap'[p] \in Container \cup {SinContenedor}
         /\ managed' \subseteq Container
         /\ decisions' \in Seq(Container) /\ idx' \in 0..Len(decisions')
         /\ pend' \subseteq Pid /\ blanco' \in Pid \cup {Nadie}
         /\ launches' \in Seq([perfil : Perfiles, cantidad : Nat \ {0}])
         /\ eliminados' \subseteq Container
         /\ caidos' \subseteq Container /\ avisados' \subseteq Container \cup {Ajeno}
<1>1. \A S : <<>> \in Seq(S) /\ Len(<<>>) = 0 /\ DOMAIN <<>> = {}
  BY EmptySeq
<1>2. pc' \in Fases /\ pc' # "remata"
  BY DEF Fin, Fases
<1> QED
  BY <1>1, <1>2 DEF Fin

(* The types at the start.                                                 *)
LEMMA TypeInit == Init => TypeOK
<1> SUFFICES ASSUME Init PROVE TypeOK
  OBVIOUS
<1>1. SondaTypeOK
  <2>1. <<>> \in Seq(Pid) /\ Len(<<>>) = 0
    BY EmptySeq
  <2>2. 0 <= RingCap /\ 0 <= ChanCap
    BY CapAssumption
  <2>3. SondaInit
    BY DEF Init
  <2> QED
    BY <2>1, <2>2, <2>3 DEF SondaInit, SondaTypeOK
<1>2. DOMAIN <<>> = {} /\ Len(<<>>) = 0
  OBVIOUS
<1> QED
  BY <1>1, <1>2, DaemonAssumption DEF Init, TypeOK, Fases

(* Every step keeps the types.                                             *)
LEMMA TypeStep == TypeOK /\ [Next]_vars => TypeOK'
<1> SUFFICES ASSUME TypeOK, [Next]_vars PROVE TypeOK'
  OBVIOUS
<1>1. CASE CronDespliega
  BY <1>1, ArrancaType DEF CronDespliega, TypeOK, SondaTypeOK, sondaVars, ciclo, historia,
        Nuevos, Usables, Libres
<1>2. CASE Hijo
  BY <1>2 DEF Hijo, TypeOK, SondaTypeOK, sondaVars, ciclo, historia
<1>3. CASE HijoSale
  BY <1>3, TerminaType DEF HijoSale, TypeOK, SondaTypeOK, sondaVars, ciclo, historia
<1>4. CASE Cae
  BY <1>4, TerminaType, DaemonAssumption DEF Cae, Adverso, TypeOK, SondaTypeOK, sondaVars, ciclo
<1>5. CASE AjenoNace
  BY <1>5 DEF AjenoNace, TypeOK, SondaTypeOK, sondaVars, ciclo, historia
<1>6. CASE AjenoSale
  BY <1>6, TerminaType DEF AjenoSale, TypeOK, SondaTypeOK, sondaVars, ciclo, historia
<1>7. CASE Segundo
  BY <1>7 DEF Segundo, TypeOK, SondaTypeOK, sondaVars, host, ciclo, historia
<1>8. CASE ReadSnapshot
  BY <1>8 DEF ReadSnapshot, Procesos, Fases, TypeOK, SondaTypeOK, sondaVars, host, historia
<1>9. CASE CicloFallido
  <2>1. Fin /\ adversidad' \in 0..MaxAdversidad
    BY <1>9, DaemonAssumption DEF CicloFallido, Adverso, TypeOK
  <2>2. SondaTypeOK' /\ duenno' = duenno /\ principal' = principal /\ nombres' = nombres
    BY <1>9 DEF CicloFallido, TypeOK, SondaTypeOK, sondaVars, host
  <2> QED
    BY <2>1, <2>2, FinType DEF TypeOK
<1>10. CASE Attach
  BY <1>10 DEF Attach, Fases, TypeOK, SondaTypeOK, sondaVars, host, historia
<1>11. CASE ListaYDecide
  <2>1. managed' \subseteq Container /\ decisions' \in Decide(MetricsDe(managed'))
    BY <1>11 DEF ListaYDecide, ListManaged
  <2>2. decisions' \in Seq(Container) /\ Len(decisions') \in Nat
    BY <2>1, DecideType, LenProperties DEF TypeOK
  <2>3. pc' \in Fases /\ pend' \subseteq Pid /\ idx' \in 0..Len(decisions')
    <3>1. CASE decisions' = <<>>
      BY <1>11, <2>2, <3>1 DEF ListaYDecide, ListManaged, Fases
    <3>2. CASE decisions' # <<>>
      <4>1. Len(decisions') # 0 /\ \A c : PIDs(c) \subseteq Pid
        BY <2>2, <3>2, EmptySeq DEF TypeOK, PIDs
      <4> QED
        BY <1>11, <2>2, <3>2, <4>1 DEF ListaYDecide, ListManaged, Fases
    <3> QED
      BY <3>1, <3>2
  <2> QED
    BY <1>11, <2>1, <2>2, <2>3 DEF ListaYDecide, ListManaged, TypeOK, SondaTypeOK, sondaVars, host, historia
<1>12. CASE SigTerm
  <2>1. PICK p \in pend, mortal \in BOOLEAN :
          /\ Senal(p, mortal)
          /\ IF pend = {p} THEN pc' = "comprueba" /\ pend' = PIDs(decisions[idx])
                           ELSE pc' = pc /\ pend' = pend \ {p}
    BY <1>12 DEF SigTerm
  <2>2. p \in Pid /\ pend' \subseteq Pid /\ pc' \in Fases
    BY <2>1 DEF TypeOK, PIDs, Fases
  <2>3. /\ SondaTypeOK'
        /\ duenno' \in [Pid -> Container \cup {Ajeno, Nadie}]
        /\ principal' \in [Container -> Pid \cup {Nadie}]
        /\ avisados' \subseteq Container \cup {Ajeno} /\ caidos' \subseteq Container
    BY <2>1, <2>2, SenalType
  <2> QED
    BY <1>12, <2>2, <2>3 DEF SigTerm, TypeOK
<1>13. CASE Comprueba
  <2>1. PICK p \in pend :
          /\ EnterKill(p)
          /\ IF duenno[p] = Nadie THEN Avanza(pend \ {p}) /\ UNCHANGED blanco
             ELSE pc' = "remata" /\ blanco' = p /\ pend' = pend \ {p} /\ UNCHANGED idx
    BY <1>13 DEF Comprueba
  <2>2. SondaTypeOK'
    BY <2>1, EnterKillType DEF TypeOK
  <2>3. pend \ {p} \in SUBSET Pid /\ pc = "comprueba" /\ decisions' = decisions
    BY <1>13 DEF TypeOK, Comprueba
  <2>4. pc' \in Fases /\ pend' \subseteq Pid /\ idx' \in 0..Len(decisions')
        /\ blanco' \in Pid \cup {Nadie} /\ (pc' = "remata" => blanco' \in Pid)
    <3>1. CASE duenno[p] = Nadie
      <4>1. Avanza(pend \ {p}) /\ blanco' = blanco /\ pc' # "remata"
        BY <2>1, <3>1 DEF Avanza
      <4> QED
        BY <2>3, <4>1, AvanzaType DEF TypeOK
    <3>2. CASE duenno[p] # Nadie
      BY <2>1, <2>3, <3>2 DEF TypeOK, Fases
    <3> QED
      BY <3>1, <3>2
  <2> QED
    BY <1>13, <2>2, <2>4 DEF Comprueba, TypeOK, host, historia
<1>14. CASE SigKill
  <2>1. blanco \in Pid /\ pc' # "remata"
    BY <1>14 DEF SigKill, TypeOK, Avanza
  <2>2. /\ SondaTypeOK'
        /\ duenno' \in [Pid -> Container \cup {Ajeno, Nadie}]
        /\ principal' \in [Container -> Pid \cup {Nadie}]
        /\ avisados' \subseteq Container \cup {Ajeno} /\ caidos' \subseteq Container
    BY <1>14, <2>1, SenalType DEF SigKill
  <2>3. pc' \in Fases /\ pend' \subseteq Pid /\ idx' \in 0..Len(decisions')
    BY <1>14, AvanzaType DEF SigKill, TypeOK
  <2> QED
    BY <1>14, <2>1, <2>2, <2>3 DEF SigKill, TypeOK
<1>15. CASE PideConfirmacion
  <2>1. UNION {PIDs(c) : c \in ToSet(decisions)} \subseteq Pid
    BY DEF TypeOK, PIDs
  <2> QED
    BY <1>15, <2>1 DEF PideConfirmacion, WaitConfirmations, Fases, TypeOK, SondaTypeOK,
          host, ciclo, historia
<1>16. CASE Confirma
  <2>1. SondaTypeOK'
    <3>1. CASE Recibe
      <4>1. chan \in Seq(Pid) /\ chan # <<>>
        BY <3>1 DEF TypeOK, SondaTypeOK, Recibe
      <4>2. Head(chan) \in Pid /\ Tail(chan) \in Seq(Pid) /\ Len(Tail(chan)) = Len(chan) - 1
        BY <4>1, HeadTailProperties
      <4>3. Len(chan) \in Nat
        BY <4>1, LenProperties
      <4> QED
        BY <3>1, <4>2, <4>3, CapAssumption DEF TypeOK, SondaTypeOK, Recibe
    <3>2. CASE Deadline \/ CanalCerrado
      BY <3>2 DEF Deadline, CanalCerrado, Retorna, TypeOK, SondaTypeOK
    <3> QED
      BY <1>16, <3>1, <3>2 DEF Confirma
  <2> QED
    BY <1>16, <2>1 DEF Confirma, TypeOK, host, ciclo, historia
<1>17. CASE Registra
  <2>1. launches' \in Seq([perfil : Perfiles, cantidad : Nat \ {0}])
    <3>1. IsFiniteSet(DOMAIN Metrics)
      BY MetricsFacts DEF Metrics, TypeOK
    <3> QED
      BY <1>17, <3>1, LaunchesType DEF Registra, RecordEliminaciones
  <2>2. Confirmadas \subseteq Container
    BY DEF Confirmadas, ToSet, TypeOK
  <2>3. eliminados' \subseteq Container /\ adversidad' \in 0..MaxAdversidad
    BY <1>17, <2>2, DaemonAssumption DEF Registra, RecordEliminaciones, Adverso, TypeOK
  <2> QED
    BY <1>17, <2>1, <2>3 DEF Registra, RecordEliminaciones, Toma, Fases, TypeOK, SondaTypeOK, host, historia
<1>18. CASE Lanza
  <2>1. /\ duenno' \in [Pid -> Container \cup {Ajeno, Nadie}]
        /\ principal' \in [Container -> Pid \cup {Nadie}]
    BY <1>18, ArrancaType DEF Lanza, Nuevos, Usables, Libres
  <2>2. launches' \in Seq([perfil : Perfiles, cantidad : Nat \ {0}]) /\ nombres' \subseteq Perfiles
    BY <1>18, RestaType DEF Lanza, TypeOK
  <2> QED
    BY <1>18, <2>1, <2>2 DEF Lanza, TypeOK, SondaTypeOK, sondaVars, historia
<1>19. CASE LanzaFalla
  <2>1. launches' \in Seq([perfil : Perfiles, cantidad : Nat \ {0}])
    BY <1>19, RestaType DEF LanzaFalla
  <2>2. adversidad' \in 0..MaxAdversidad
    BY <1>19, DaemonAssumption DEF LanzaFalla, Adverso, TypeOK
  <2> QED
    BY <1>19, <2>1, <2>2 DEF LanzaFalla, TypeOK, SondaTypeOK, sondaVars, host, historia
<1>20. CASE FinCiclo
  <2>1. Fin /\ adversidad' = adversidad
    BY <1>20 DEF FinCiclo
  <2>2. SondaTypeOK' /\ duenno' = duenno /\ principal' = principal /\ nombres' = nombres
    BY <1>20 DEF FinCiclo, TypeOK, SondaTypeOK, sondaVars, host
  <2> QED
    BY <2>1, <2>2, FinType DEF TypeOK
<1>21. CASE Probe
  <2>1. SondaTypeOK'
    <3>1. CASE ReadLoop
      <4>1. /\ ring \in Seq(Pid) /\ chan \in Seq(Pid) /\ ring # <<>>
            /\ Len(ring) \in Nat /\ Len(chan) \in Nat
        BY <3>1, LenProperties DEF TypeOK, SondaTypeOK, ReadLoop
      <4>2. Head(ring) \in Pid /\ Tail(ring) \in Seq(Pid) /\ Len(Tail(ring)) = Len(ring) - 1
        BY <4>1, HeadTailProperties
      <4>3. Append(chan, Head(ring)) \in Seq(Pid) /\ Len(Append(chan, Head(ring))) = Len(chan) + 1
        BY <4>1, <4>2, AppendProperties
      <4> QED
        BY <3>1, <4>1, <4>2, <4>3, CapAssumption DEF TypeOK, SondaTypeOK, ReadLoop
    <3>2. CASE ReadFails
      BY <3>2 DEF ReadFails, TypeOK, SondaTypeOK
    <3> QED
      BY <1>21, <3>1, <3>2 DEF Probe
  <2> QED
    BY <1>21, <2>1 DEF Probe, TypeOK, host, ciclo, historia
<1>22. CASE UNCHANGED vars
  BY <1>22 DEF vars, TypeOK, SondaTypeOK, sondaVars, host, ciclo, historia
<1> QED
  BY <1>1, <1>2, <1>3, <1>4, <1>5, <1>6, <1>7, <1>8, <1>9, <1>10, <1>11, <1>12, <1>13,
     <1>14, <1>15, <1>16, <1>17, <1>18, <1>19, <1>20, <1>21, <1>22 DEF Next, Entorno, runCycle

(* Every variable keeps its type whatever the host, the probe and the      *)
(* daemon do, with or without reuse of PIDs: in particular idx never       *)
(* leaves the list of decisions and no loop meets a PID that is not one.   *)
THEOREM TypeCorrect == Spec => []TypeOK
BY TypeInit, TypeStep, PTL DEF Spec

----------------------------------------------------------------------------
FotoOK == HostOK /\ SnapOK /\ MainSeen
CicloOK == LoopOK /\ SparedRun /\ OnlyDecidedSignalled /\ AttackedAreGone

(* The host lost some processes; it started some out of the snapshot.      *)
Mengua == /\ \A q \in Pid : duenno'[q] \in {duenno[q], Nadie}
          /\ \A c \in Container : principal'[c] \in {principal[c], Nadie}
Crece == /\ \A q \in DOMAIN snap : duenno'[q] = duenno[q]
         /\ \A c \in Container : Vivo(c) => principal'[c] = principal[c]
         /\ \A c \in Container : ~Vivo(c) =>
              principal'[c] = Nadie \/ (c \notin managed /\ PIDs(c) = {})
Anotado == <<snap, managed, decisions, idx, pend, blanco, avisados>>

----------------------------------------------------------------------------
(* The host.                                                               *)
LEMMA TerminaHost ==
  ASSUME TypeOK, HostOK, NEW p \in Pid, Termina(p)
  PROVE  /\ HostOK' /\ Mengua /\ duenno'[p] = Nadie
         /\ \A c \in Container : Vivo(c) /\ principal[c] # p => Vivo(c)'
<1>1. p # Nadie /\ Nadie \notin Container
  BY DaemonAssumption
<1>2. /\ \A q \in Pid : duenno'[q] = IF q \in Arrastra(p) THEN Nadie ELSE duenno[q]
      /\ \A c \in Container : principal'[c] = IF principal[c] = p THEN Nadie ELSE principal[c]
  BY DEF Termina
<1>3. p \in Arrastra(p)
       /\ \A q \in Pid : q \in Arrastra(p) <=>
            q = p \/ (duenno[q] \in Container /\ principal[duenno[q]] = p)
  BY DEF Arrastra
<1>4. Mengua /\ duenno'[p] = Nadie
  BY <1>2, <1>3 DEF Mengua
<1>5. \A c \in Container : Vivo(c) /\ principal[c] # p => Vivo(c)'
  BY <1>2 DEF Vivo
<1>6. ASSUME NEW c \in Container, Vivo(c)' PROVE duenno'[principal'[c]] = c
  <2>1. principal[c] # p /\ principal'[c] = principal[c] /\ principal[c] # Nadie
    BY <1>2, <1>6 DEF Vivo
  <2>2. principal[c] \in Pid /\ duenno[principal[c]] = c
    BY <2>1 DEF TypeOK, HostOK, Vivo
  <2> QED
    BY <1>2, <1>3, <2>1, <2>2
<1>7. ASSUME NEW q \in Pid, duenno'[q] \in Container PROVE Vivo(duenno[q])' /\ duenno'[q] = duenno[q]
  <2>1. duenno'[q] = duenno[q] /\ principal[duenno[q]] # p
    BY <1>1, <1>2, <1>3, <1>7
  <2> QED
    BY <1>2, <1>7, <2>1 DEF HostOK, Vivo
<1>8. HostOK'
  BY <1>6, <1>7 DEF HostOK, Vivo
<1> QED
  BY <1>4, <1>5, <1>8

(* A container that starts takes a name and PIDs that nobody has.          *)
LEMMA ArrancaHost ==
  ASSUME TypeOK, HostOK, NEW c \in Nuevos, NEW p \in Libres \ DOMAIN snap, Arranca(c, p)
  PROVE  HostOK' /\ Crece
<1>1. /\ c \in Container /\ ~Vivo(c) /\ c \notin managed /\ PIDs(c) = {}
      /\ p \in Pid /\ duenno[p] = Nadie /\ p # Nadie /\ p \notin DOMAIN snap /\ Nadie \notin Container
  BY DaemonAssumption DEF Nuevos, Libres
<1>2. /\ duenno'[p] = c /\ \A q \in Pid \ {p} : duenno'[q] = duenno[q]
      /\ principal'[c] = p /\ \A d \in Container \ {c} : principal'[d] = principal[d]
  BY <1>1 DEF Arranca, TypeOK
<1>3. HostOK'
  <2>1. ASSUME NEW d \in Container, principal'[d] # Nadie PROVE duenno'[principal'[d]] = d
    <3>1. CASE d = c
      BY <1>2, <3>1
    <3>2. CASE d # c
      <4>1. principal'[d] = principal[d] /\ principal[d] \in Pid /\ duenno[principal[d]] = d
        BY <1>2, <2>1, <3>2 DEF HostOK, Vivo, TypeOK
      <4> QED
        BY <1>1, <1>2, <4>1
    <3> QED
      BY <3>1, <3>2
  <2>2. ASSUME NEW q \in Pid, duenno'[q] \in Container PROVE principal'[duenno'[q]] # Nadie
    <3>1. CASE q = p
      BY <1>1, <1>2, <3>1
    <3>2. CASE q # p
      <4>1. duenno'[q] = duenno[q] /\ principal[duenno[q]] # Nadie
        BY <1>2, <2>2, <3>2 DEF HostOK, Vivo
      <4> QED
        BY <1>1, <1>2, <2>2, <4>1 DEF Vivo
    <3> QED
      BY <3>1, <3>2
  <2> QED
    BY <2>1, <2>2 DEF HostOK, Vivo
<1>4. Crece
  BY <1>1, <1>2 DEF Crece, Vivo, TypeOK
<1> QED
  BY <1>3, <1>4

(* A process starts that is not the main one of its container.             *)
LEMMA NaceHost ==
  ASSUME TypeOK, HostOK, NEW o \in Container \cup {Ajeno}, o \in Container => Vivo(o),
         NEW p \in Libres \ DOMAIN snap, duenno' = [duenno EXCEPT ![p] = o],
         principal' = principal
  PROVE  HostOK' /\ Crece
<1>1. p \in Pid /\ duenno[p] = Nadie /\ Nadie \notin Container /\ Ajeno \notin Container
  BY DaemonAssumption DEF Libres
<1>2. duenno'[p] = o /\ \A q \in Pid \ {p} : duenno'[q] = duenno[q]
  BY <1>1 DEF TypeOK
<1>3. \A c \in Container : Vivo(c) => principal[c] \in Pid \ {p}
  BY <1>1 DEF HostOK, Vivo, TypeOK
<1>4. HostOK'
  BY <1>1, <1>2, <1>3 DEF HostOK, Vivo
<1> QED
  BY <1>2, <1>4 DEF Crece, Vivo, TypeOK

----------------------------------------------------------------------------
(* The snapshot.                                                           *)
LEMMA FotoMengua ==
  ASSUME TypeOK, FotoOK, HostOK', Mengua, snap' = snap,
         pc' = pc \/ pc' \notin {"dormido", "correlaciona"}
  PROVE  FotoOK'
<1>1. Nadie \notin Container
  BY DaemonAssumption
<1>2. SnapOK'
  BY DEF FotoOK, SnapOK, Mengua, TypeOK
<1>3. ASSUME pc' = "correlaciona", NEW p \in DOMAIN snap', duenno'[p] \in Container
      PROVE  principal'[duenno'[p]] \in DOMAIN snap'
  <2>1. p \in DOMAIN snap /\ p \in Pid /\ duenno'[p] = duenno[p]
    BY <1>1, <1>3 DEF Mengua, TypeOK
  <2>2. principal'[duenno[p]] = principal[duenno[p]]
    BY <1>3, <2>1 DEF HostOK, Vivo, Mengua
  <2> QED
    BY <1>3, <2>1, <2>2 DEF FotoOK, MainSeen
<1>4. \A c \in Container : Vivo(c)' /\ PIDs(c)' # {} => principal'[c] \in PIDs(c)'
  BY DEF FotoOK, MainSeen, Mengua, Vivo, PIDs
<1> QED
  BY <1>2, <1>3, <1>4 DEF FotoOK, MainSeen

(* What the picture knows of a container stays true as others start.       *)
LEMMA FotoCrece ==
  ASSUME TypeOK, FotoOK, HostOK', Crece, snap' = snap, pc' = pc
  PROVE  FotoOK'
<1>1. SnapOK'
  BY DEF FotoOK, SnapOK, Crece
<1>2. ASSUME pc' = "correlaciona", NEW p \in DOMAIN snap', duenno'[p] \in Container
      PROVE  principal'[duenno'[p]] \in DOMAIN snap'
  BY <1>2 DEF FotoOK, HostOK, MainSeen, Crece, TypeOK
<1>3. ASSUME NEW c \in Container, Vivo(c)', PIDs(c)' # {} PROVE principal'[c] \in PIDs(c)'
  BY <1>3 DEF FotoOK, MainSeen, Crece, Vivo, PIDs
<1> QED
  BY <1>1, <1>2, <1>3 DEF FotoOK, MainSeen

----------------------------------------------------------------------------
(* The loops of the cycle, while the host moves and the daemon does not.   *)
LEMMA DecididosListados ==
  ASSUME TypeOK, LoopOK
  PROVE  /\ ToSet(decisions) \subseteq managed
         /\ \A k \in DOMAIN decisions : decisions[k] \in ToSet(decisions) /\ PIDs(decisions[k]) # {}
         /\ ToSet(decisions) \subseteq Container
         /\ DOMAIN decisions = 1..Len(decisions) /\ Len(decisions) \in Nat
<1>1. decisions \in Seq(Container) /\ managed \subseteq Container /\ DOMAIN snap \subseteq Pid
  BY DEF TypeOK
<1>2. /\ DOMAIN decisions = 1..Len(decisions) /\ Len(decisions) \in Nat
      /\ \A k \in DOMAIN decisions : decisions[k] \in ToSet(decisions) /\ decisions[k] \in Container
      /\ ToSet(decisions) \subseteq Container
  <2>1. DOMAIN decisions = 1..Len(decisions) /\ Len(decisions) \in Nat
    BY <1>1, LenProperties
  <2>2. \A k \in DOMAIN decisions : decisions[k] \in Container
    BY <1>1, <2>1, ElementOfSeq
  <2> QED
    BY <2>1, <2>2 DEF ToSet
<1>3. CASE decisions \in Decide(MetricsDe(managed))
  <2>1. decisions \in Seq(DOMAIN MetricsDe(managed))
    BY <1>1, <1>3, MetricsFacts, DecideSparesMinimum
  <2>2. \A k \in DOMAIN decisions : decisions[k] \in DOMAIN MetricsDe(managed)
    BY <1>2, <2>1, ElementOfSeq
  <2>3. \A k \in DOMAIN decisions : PIDs(decisions[k]) # {}
    <3>1. DOMAIN MetricsDe(managed) = {c \in managed : c # SinContenedor /\ PIDs(c) # {}}
      BY <1>1, MetricsFacts
    <3> QED
      BY <2>2, <3>1
  <2>4. ToSet(decisions) \subseteq managed
    BY <1>1, <1>3, DecideType
  <2> QED
    BY <1>2, <2>3, <2>4
<1>4. CASE decisions = <<>>
  <2>1. DOMAIN decisions = {}
    BY <1>4
  <2> QED
    BY <1>2, <2>1 DEF ToSet
<1> QED
  BY <1>3, <1>4 DEF LoopOK, Metrics

(* A container that ends keeps the invariant of the loop,                  *)
LEMMA LoopMengua ==
  ASSUME TypeOK, LoopOK, AttackedAreGone, Mengua, Anotado' = Anotado, pc' = pc
  PROVE  LoopOK' /\ AttackedAreGone'
<1>1. Nadie \notin Container /\ DOMAIN snap \subseteq Pid /\ \A c : PIDs(c) \subseteq Pid
  BY DaemonAssumption DEF TypeOK, PIDs
<1>2. /\ snap' = snap /\ managed' = managed /\ decisions' = decisions /\ idx' = idx
      /\ pend' = pend /\ blanco' = blanco /\ avisados' = avisados
  BY DEF Anotado
<1>3. Metrics' = Metrics /\ (\A c : PIDs(c)' = PIDs(c)) /\ (Decidido' <=> Decidido)
      /\ (Termino' <=> Termino)
  BY <1>2 DEF Metrics, MetricsDe, PIDs, Decidido, Termino
<1>4. \A q \in Pid : duenno[q] = Nadie => duenno'[q] = Nadie
  BY DEF Mengua
<1>5. LoopOK'
  BY <1>1, <1>2, <1>3, <1>4 DEF LoopOK
<1>6. AttackedAreGone'
  <2>1. \A k \in DOMAIN decisions : decisions[k] \in Container
    BY DecididosListados
  <2> QED
    BY <1>1, <1>2, <2>1 DEF AttackedAreGone, Mengua, Vivo
<1> QED
  BY <1>5, <1>6

(* and so does one that somebody starts meanwhile.                         *)
LEMMA LoopCrece ==
  ASSUME TypeOK, LoopOK, AttackedAreGone, HostOK', Crece, Anotado' = Anotado, pc' = pc,
         TypeOK'
  PROVE  LoopOK' /\ AttackedAreGone'
<1>1. DOMAIN snap \subseteq Pid /\ \A c : PIDs(c) \subseteq DOMAIN snap
  BY DEF TypeOK, PIDs
<1>2. /\ snap' = snap /\ managed' = managed /\ decisions' = decisions /\ idx' = idx
      /\ pend' = pend /\ blanco' = blanco /\ avisados' = avisados
  BY DEF Anotado
<1>3. Metrics' = Metrics /\ (\A c : PIDs(c)' = PIDs(c)) /\ (Decidido' <=> Decidido)
      /\ (Termino' <=> Termino)
  BY <1>2 DEF Metrics, MetricsDe, PIDs, Decidido, Termino
<1>4. \A c : \A q \in PIDs(c) : duenno'[q] = duenno[q]
  BY <1>1 DEF Crece
<1>5. LoopOK'
  BY <1>1, <1>2, <1>3, <1>4 DEF LoopOK
<1>6. AttackedAreGone'
  <2>1. \A k \in DOMAIN decisions : decisions[k] \in Container /\ decisions[k] \in managed
    BY DecididosListados
  <2>2. ASSUME NEW k \in DOMAIN decisions, ~Vivo(decisions[k])
        PROVE  ~Vivo(decisions[k])' /\ \A q \in Pid : duenno'[q] # decisions[k]
    <3>1. principal'[decisions[k]] = Nadie
      BY <2>1, <2>2 DEF Crece
    <3>2. \A q \in Pid : duenno'[q] \in Container => principal'[duenno'[q]] # Nadie
      BY DEF HostOK, Vivo
    <3> QED
      BY <1>2, <2>1, <3>1, <3>2 DEF Vivo
  <2> QED
    BY <1>2, <2>2 DEF AttackedAreGone
<1> QED
  BY <1>5, <1>6

----------------------------------------------------------------------------
(* The loops of the cycle, while the daemon moves.                         *)

(* Avanza keeps the loop invariant when the PIDs it leaves behind are free *)
(* in the next state.                                                      *)
LEMMA AvanzaLoop ==
  ASSUME TypeOK, TypeOK', FotoOK', LoopOK, AttackedAreGone, Mengua,
         pc \in {"comprueba", "remata"},
         snap' = snap, managed' = managed, decisions' = decisions,
         NEW resto \in SUBSET PIDs(decisions[idx]), Avanza(resto),
         \A q \in PIDs(decisions[idx]) \ resto : duenno'[q] = Nadie
  PROVE  LoopOK' /\ AttackedAreGone'
<1>1. /\ DOMAIN decisions = 1..Len(decisions) /\ Len(decisions) \in Nat
      /\ \A k \in DOMAIN decisions : decisions[k] \in Container /\ PIDs(decisions[k]) # {}
      /\ ToSet(decisions) \subseteq managed
  BY DecididosListados
<1>2. Decidido /\ ~Termino /\ idx \in 1..Len(decisions) /\ decisions \in Decide(Metrics)
  BY DEF LoopOK, Decidido, Termino
<1>3. Metrics' = Metrics /\ (\A c : PIDs(c)' = PIDs(c))
  BY DEF Metrics, MetricsDe, PIDs
<1>4. Nadie \notin Container
  BY DaemonAssumption
<1>5. \A k \in DOMAIN decisions : k < idx =>
        principal'[decisions[k]] = Nadie /\ \A p \in Pid : duenno'[p] # decisions[k]
  BY <1>1, <1>4 DEF AttackedAreGone, Mengua, Vivo
<1>6. CASE resto # {}
  <2>1. pc' = "comprueba" /\ pend' = resto /\ idx' = idx
    BY <1>6 DEF Avanza
  <2>2. Decidido' /\ ~Termino'
    BY <2>1 DEF Decidido, Termino
  <2>3. LoopOK'
    BY <1>2, <1>3, <2>1, <2>2 DEF LoopOK
  <2>4. AttackedAreGone'
    BY <1>5, <2>1, <2>2 DEF AttackedAreGone, Termino, Vivo
  <2> QED
    BY <2>3, <2>4
<1>7. CASE resto = {}
  <2>1. principal'[decisions[idx]] = Nadie /\ \A p \in Pid : duenno'[p] # decisions[idx]
    <3>1. PICK d \in Container : d = decisions[idx] /\ PIDs(d) # {}
      BY <1>1, <1>2
    <3>2. PIDs(d)' # {} /\ \A q \in PIDs(d)' : duenno'[q] = Nadie
      BY <1>3, <1>7, <3>1
    <3>3. principal'[d] = Nadie
      BY <1>4, <3>2 DEF FotoOK, HostOK, MainSeen, Vivo
    <3>4. \A p \in Pid : duenno'[p] # d
      BY <3>3 DEF FotoOK, HostOK, Vivo
    <3> QED
      BY <3>1, <3>3, <3>4 DEF Vivo
  <2>2. \A k \in DOMAIN decisions : k <= idx =>
          principal'[decisions[k]] = Nadie /\ \A p \in Pid : duenno'[p] # decisions[k]
    BY <1>1, <1>2, <1>5, <2>1
  <2>3. CASE idx < Len(decisions)
    <3>1. pc' = "mata" /\ idx' = idx + 1 /\ pend' = PIDs(decisions[idx + 1])
      BY <1>7, <2>3 DEF Avanza
    <3>2. Decidido' /\ ~Termino'
      BY <3>1 DEF Decidido, Termino
    <3>3. LoopOK'
      BY <1>1, <1>2, <1>3, <2>3, <3>1, <3>2 DEF LoopOK
    <3>4. AttackedAreGone'
      BY <1>1, <1>2, <2>2, <3>1 DEF AttackedAreGone, Vivo
    <3> QED
      BY <3>3, <3>4
  <2>4. CASE ~(idx < Len(decisions))
    <3>1. pc' = "pide"
      BY <1>7, <2>4 DEF Avanza
    <3>2. Decidido' /\ Termino'
      BY <3>1 DEF Decidido, Termino
    <3>3. LoopOK'
      BY <1>2, <1>3, <3>1, <3>2 DEF LoopOK
    <3>4. AttackedAreGone'
      BY <1>1, <1>2, <2>2, <2>4 DEF AttackedAreGone, Vivo
    <3> QED
      BY <3>3, <3>4
  <2> QED
    BY <2>3, <2>4
<1> QED
  BY <1>6, <1>7

(* A signal to a PID seen of c disturbs no other container.                *)
LEMMA SenalHost ==
  ASSUME TypeOK, FotoOK, NEW c \in Container, NEW p \in PIDs(c), NEW mortal, Senal(p, mortal)
  PROVE  /\ HostOK' /\ Mengua /\ caidos' = caidos /\ avisados' \subseteq avisados \cup {c}
         /\ \A d \in Container \ {c} : Vivo(d) => Vivo(d)'
         /\ mortal => duenno'[p] = Nadie
<1>1. /\ p \in Pid /\ p \in DOMAIN snap /\ snap[p] = c /\ duenno[p] \in {c, Nadie}
      /\ Nadie \notin Container
  BY DaemonAssumption DEF TypeOK, PIDs, FotoOK, SnapOK
<1>2. caidos' = caidos /\ avisados' \subseteq avisados \cup {c}
  BY <1>1 DEF Senal
<1>3. CASE mortal /\ duenno[p] # Nadie
  <2>1. Termina(p) /\ HostOK
    BY <1>3 DEF Senal, FotoOK
  <2>2. /\ HostOK' /\ Mengua /\ duenno'[p] = Nadie
        /\ \A d \in Container : Vivo(d) /\ principal[d] # p => Vivo(d)'
    BY <1>1, <2>1, TerminaHost
  <2>3. \A d \in Container \ {c} : Vivo(d) => principal[d] # p
    BY <1>1, <2>1 DEF HostOK
  <2> QED
    BY <1>2, <2>2, <2>3
<1>4. CASE ~(mortal /\ duenno[p] # Nadie)
  <2>1. duenno' = duenno /\ principal' = principal
    BY <1>4 DEF Senal, host
  <2> QED
    BY <1>2, <1>4, <2>1 DEF FotoOK, HostOK, Mengua, Vivo
<1> QED
  BY <1>3, <1>4

----------------------------------------------------------------------------
(* Steps that disturb neither the host nor the locals of the loops.        *)
LEMMA CicloQuieto ==
  ASSUME TypeOK, IInv, UNCHANGED <<host, snap, managed, decisions, idx, historia>>,
         \/ pc' = pc /\ pend' = pend /\ blanco' = blanco
         \/ Termino /\ Termino'
  PROVE  IInv'
<1>1. /\ duenno' = duenno /\ principal' = principal /\ snap' = snap /\ managed' = managed
      /\ decisions' = decisions /\ idx' = idx /\ caidos' = caidos /\ avisados' = avisados
  BY DEF host, historia
<1>2. Metrics' = Metrics /\ \A c : PIDs(c)' = PIDs(c)
  BY <1>1 DEF Metrics, MetricsDe, PIDs
<1>3. /\ Decidido' <=> Decidido
      /\ Termino' <=> Termino
      /\ pc' # pc => pc' \notin {"dormido", "correlaciona", "comprueba", "remata"}
                  /\ pc \notin {"dormido", "correlaciona"}
  BY DEF Decidido, Termino
<1>4. HostOK' /\ SnapOK' /\ MainSeen'
  BY <1>1, <1>2, <1>3 DEF IInv, HostOK, SnapOK, MainSeen, Vivo
<1>5. LoopOK'
  <2>1. CASE pc' = pc /\ pend' = pend /\ blanco' = blanco
    BY <1>1, <1>2, <1>3, <2>1 DEF IInv, LoopOK
  <2>2. CASE Termino /\ Termino'
    BY <1>1, <1>2, <1>3, <2>2 DEF IInv, LoopOK, Termino, Decidido
  <2> QED
    BY <2>1, <2>2
<1>6. SparedRun' /\ OnlyDecidedSignalled' /\ AttackedAreGone'
  <2>1. SparedRun' /\ OnlyDecidedSignalled'
    BY <1>1, <1>3 DEF IInv, SparedRun, OnlyDecidedSignalled, Vivo
  <2>2. AttackedAreGone'
    <3>1. pc \in {"pide", "espera", "lanza"} <=> pc' \in {"pide", "espera", "lanza"}
      BY <1>3 DEF Termino
    <3> QED
      BY <1>1, <3>1 DEF IInv, AttackedAreGone, Vivo
  <2> QED
    BY <2>1, <2>2
<1> QED
  BY <1>4, <1>5, <1>6 DEF IInv

(* The host moves, the daemon does not.                                    *)
LEMMA CicloMengua ==
  ASSUME TypeOK, IInv, HostOK', Mengua, Anotado' = Anotado, pc' = pc,
         caidos \subseteq caidos',
         \A c \in managed \ ToSet(decisions) : Vivo(c) => Vivo(c)' \/ c \in caidos'
  PROVE  IInv'
<1>1. LoopOK' /\ AttackedAreGone'
  BY LoopMengua DEF IInv
<1>2. FotoOK'
  BY FotoMengua DEF IInv, FotoOK, Anotado
<1>3. OnlyDecidedSignalled' /\ SparedRun'
  BY DEF IInv, OnlyDecidedSignalled, SparedRun, Anotado, Decidido
<1> QED
  BY <1>1, <1>2, <1>3 DEF IInv, FotoOK

(* A container that starts keeps the invariant of the whole cycle.         *)
LEMMA CicloCrece ==
  ASSUME TypeOK, TypeOK', IInv, HostOK', Crece, Anotado' = Anotado, pc' = pc, caidos' = caidos
  PROVE  IInv'
<1>1. LoopOK' /\ AttackedAreGone'
  BY LoopCrece DEF IInv
<1>2. FotoOK'
  BY FotoCrece DEF IInv, FotoOK, Anotado
<1>3. managed \subseteq Container
  BY DEF TypeOK
<1>4. OnlyDecidedSignalled' /\ SparedRun'
  BY <1>3 DEF IInv, OnlyDecidedSignalled, SparedRun, Anotado, Decidido, Crece, Vivo
<1> QED
  BY <1>1, <1>2, <1>4 DEF IInv, FotoOK

(* The cycle is over: nothing is left of it.                               *)
LEMMA CicloFin ==
  ASSUME IInv, Fin, UNCHANGED host
  PROVE  IInv'
<1>1. /\ pc' = "dormido" /\ snap' = <<>> /\ managed' = {} /\ decisions' = <<>> /\ idx' = 0
      /\ avisados' = {} /\ DOMAIN <<>> = {} /\ duenno' = duenno /\ principal' = principal
  BY DEF Fin, host
<1>2. ~Decidido' /\ ~Termino' /\ \A c : PIDs(c)' = {}
  BY <1>1 DEF Decidido, Termino, PIDs
<1>3. HostOK' /\ SnapOK' /\ MainSeen'
  BY <1>1, <1>2 DEF IInv, HostOK, SnapOK, MainSeen, Vivo
<1>4. LoopOK' /\ SparedRun' /\ OnlyDecidedSignalled'
  BY <1>1, <1>2 DEF LoopOK, SparedRun, OnlyDecidedSignalled
<1>5. AttackedAreGone'
  BY <1>1 DEF AttackedAreGone
<1> QED
  BY <1>3, <1>4, <1>5 DEF IInv

----------------------------------------------------------------------------
(* IInv holds at the start,                                                *)
LEMMA IInvInit == Init => IInv
<1> SUFFICES ASSUME Init PROVE IInv
  OBVIOUS
<1>1. /\ pc = "dormido" /\ snap = <<>> /\ managed = {} /\ decisions = <<>> /\ idx = 0
      /\ avisados = {} /\ DOMAIN <<>> = {}
      /\ (\A p \in Pid : duenno[p] = Nadie) /\ (\A c \in Container : principal[c] = Nadie)
  BY DEF Init
<1>2. ~Decidido /\ ~Termino /\ (\A c : PIDs(c) = {}) /\ Nadie \notin Container
  BY <1>1, DaemonAssumption DEF Decidido, Termino, PIDs
<1>3. HostOK /\ SnapOK /\ MainSeen
  BY <1>1, <1>2 DEF HostOK, SnapOK, MainSeen, Vivo
<1>4. LoopOK /\ SparedRun /\ OnlyDecidedSignalled
  BY <1>1, <1>2 DEF LoopOK, SparedRun, OnlyDecidedSignalled
<1>5. AttackedAreGone
  BY <1>1 DEF AttackedAreGone
<1> QED
  BY <1>3, <1>4, <1>5 DEF IInv

(* What the host does by itself.                                           *)
LEMMA EntornoStep ==
  ASSUME PidReuse = FALSE, TypeOK, TypeOK', IInv, Entorno
  PROVE  IInv'
<1>1. Usables = Libres \ DOMAIN snap /\ HostOK
  BY DEF Usables, IInv
<1>2. CASE CronDespliega
  <2>1. PICK c \in Nuevos, p \in Usables : Arranca(c, p)
    BY <1>2 DEF CronDespliega
  <2>2. HostOK' /\ Crece
    BY <1>1, <2>1, ArrancaHost
  <2> QED
    BY <1>2, <2>2, CicloCrece DEF CronDespliega, ciclo, historia, Anotado
<1>3. CASE Hijo
  <2>1. PICK c \in Container, p \in Usables : Vivo(c) /\ duenno' = [duenno EXCEPT ![p] = c]
    BY <1>3 DEF Hijo
  <2>2. HostOK' /\ Crece
    BY <1>1, <1>3, <2>1, NaceHost DEF Hijo
  <2> QED
    BY <1>3, <2>2, CicloCrece DEF Hijo, ciclo, historia, Anotado
<1>4. CASE HijoSale
  <2>1. PICK p \in Pid : /\ duenno[p] \in Container /\ principal[duenno[p]] # p /\ Termina(p)
    BY <1>4 DEF HijoSale
  <2>2. /\ HostOK' /\ Mengua
        /\ \A c \in Container : Vivo(c) /\ principal[c] # p => Vivo(c)'
    BY <1>1, <2>1, TerminaHost
  <2>3. \A c \in Container : Vivo(c) => principal[c] # p
    BY <1>1, <2>1 DEF HostOK
  <2>4. managed \subseteq Container
    BY DEF TypeOK
  <2> QED
    BY <1>4, <2>2, <2>3, <2>4, CicloMengua DEF HijoSale, ciclo, historia, Anotado
<1>5. CASE Cae
  <2>1. PICK c \in Container : /\ Vivo(c) /\ Termina(principal[c])
                               /\ caidos' = caidos \cup ({c} \cap (managed \ avisados))
    BY <1>5 DEF Cae
  <2>2. principal[c] \in Pid /\ duenno[principal[c]] = c
    BY <1>1, <2>1 DEF TypeOK, HostOK, Vivo
  <2>3. /\ HostOK' /\ Mengua
        /\ \A d \in Container : Vivo(d) /\ principal[d] # principal[c] => Vivo(d)'
    BY <1>1, <2>1, <2>2, TerminaHost
  <2>4. \A d \in Container : Vivo(d) /\ d # c => principal[d] # principal[c]
    BY <1>1, <2>2 DEF HostOK
  <2>5. managed \subseteq Container /\ avisados \subseteq ToSet(decisions)
    BY DEF TypeOK, IInv, OnlyDecidedSignalled
  <2>6. \A d \in managed \ ToSet(decisions) : Vivo(d) => Vivo(d)' \/ d \in caidos'
    BY <2>1, <2>3, <2>4, <2>5
  <2> QED
    BY <1>5, <2>1, <2>3, <2>6, CicloMengua DEF Cae, ciclo, Anotado
<1>6. CASE AjenoNace
  <2>1. PICK p \in Usables : duenno' = [duenno EXCEPT ![p] = Ajeno]
    BY <1>6 DEF AjenoNace
  <2>2. Ajeno \notin Container
    BY DaemonAssumption
  <2>3. HostOK' /\ Crece
    BY <1>1, <1>6, <2>1, <2>2, NaceHost DEF AjenoNace
  <2> QED
    BY <1>6, <2>3, CicloCrece DEF AjenoNace, ciclo, historia, Anotado
<1>7. CASE AjenoSale
  <2>1. PICK p \in Pid : duenno[p] = Ajeno /\ Termina(p)
    BY <1>7 DEF AjenoSale
  <2>2. /\ HostOK' /\ Mengua
        /\ \A c \in Container : Vivo(c) /\ principal[c] # p => Vivo(c)'
    BY <1>1, <2>1, TerminaHost
  <2>3. \A c \in Container : Vivo(c) => principal[c] # p
    BY <1>1, <2>1, DaemonAssumption DEF HostOK
  <2>4. managed \subseteq Container
    BY DEF TypeOK
  <2> QED
    BY <1>7, <2>2, <2>3, <2>4, CicloMengua DEF AjenoSale, ciclo, historia, Anotado
<1>8. CASE Segundo
  BY <1>8, CicloQuieto DEF Segundo, ciclo
<1> QED
  BY <1>2, <1>3, <1>4, <1>5, <1>6, <1>7, <1>8 DEF Entorno

(* Reading, correlating and deciding: the host does not move.              *)
LEMMA FotoStep ==
  ASSUME TypeOK, IInv, ReadSnapshot \/ Attach \/ ListaYDecide
  PROVE  IInv'
<1>1. /\ duenno' = duenno /\ principal' = principal /\ avisados' = avisados /\ caidos' = caidos
      /\ HostOK' /\ Nadie \notin Container /\ SinContenedor \notin Container
  BY DaemonAssumption
     DEF ReadSnapshot, Procesos, Attach, ListaYDecide, ListManaged, host, historia, IInv, HostOK, Vivo
<1>2. /\ ~Decidido /\ managed = {} /\ decisions = <<>> /\ avisados = {} /\ idx = 0
      /\ DOMAIN <<>> = {} /\ ToSet(<<>>) = {}
  BY DEF ReadSnapshot, Procesos, Attach, ListaYDecide, ListManaged, Decidido, IInv, LoopOK, ToSet
<1>3. CASE ReadSnapshot
  <2>1. /\ snap' = [p \in Pid \ Libres |-> SinContenedor] /\ pc' = "correlaciona"
        /\ managed' = managed /\ decisions' = decisions /\ idx' = idx
    BY <1>3 DEF ReadSnapshot, Procesos
  <2>2. ~Decidido' /\ ~Termino'
    BY <2>1 DEF Decidido, Termino
  <2>3. DOMAIN snap' = {p \in Pid : duenno[p] # Nadie} /\ \A p \in DOMAIN snap' : snap'[p] = SinContenedor
    BY <2>1 DEF Libres
  <2>4. SnapOK'
    BY <1>1, <2>3 DEF SnapOK
  <2>5. MainSeen'
    <3>1. \A c \in Container : PIDs(c)' = {}
      BY <1>1, <2>3 DEF PIDs
    <3>2. ASSUME NEW p \in DOMAIN snap', duenno'[p] \in Container
          PROVE  principal'[duenno'[p]] \in DOMAIN snap'
      BY <1>1, <2>3, <3>2 DEF IInv, HostOK, Vivo, TypeOK
    <3> QED
      BY <3>1, <3>2 DEF MainSeen
  <2>6. LoopOK' /\ SparedRun' /\ OnlyDecidedSignalled'
    BY <1>1, <1>2, <2>1, <2>2 DEF LoopOK, SparedRun, OnlyDecidedSignalled
  <2>7. AttackedAreGone'
    BY <1>2, <2>1 DEF AttackedAreGone
  <2> QED
    BY <1>1, <2>4, <2>5, <2>6, <2>7 DEF IInv
<1>4. CASE Attach
  <2>1. /\ DOMAIN snap' = DOMAIN snap /\ pc = "correlaciona" /\ pc' = "lista"
        /\ \A p \in DOMAIN snap :
             snap'[p] = IF duenno[p] \in Container THEN duenno[p] ELSE SinContenedor
        /\ managed' = managed /\ decisions' = decisions /\ idx' = idx
    BY <1>4 DEF Attach
  <2>2. ~Decidido' /\ ~Termino'
    BY <2>1 DEF Decidido, Termino
  <2>3. SnapOK'
    BY <1>1, <2>1 DEF SnapOK
  <2>4. MainSeen'
    <3>1. ASSUME NEW c \in Container, Vivo(c)', PIDs(c)' # {} PROVE principal'[c] \in PIDs(c)'
      <4>1. PICK p \in DOMAIN snap : duenno[p] = c
        BY <1>1, <2>1, <3>1 DEF PIDs
      <4>2. principal[c] \in DOMAIN snap
        BY <2>1, <4>1 DEF IInv, MainSeen
      <4>3. duenno[principal[c]] = c
        BY <1>1, <3>1 DEF IInv, HostOK, Vivo
      <4> QED
        BY <1>1, <2>1, <4>2, <4>3 DEF PIDs
    <3> QED
      BY <2>1, <3>1 DEF MainSeen
  <2>5. LoopOK' /\ SparedRun' /\ OnlyDecidedSignalled'
    BY <1>1, <1>2, <2>1, <2>2 DEF LoopOK, SparedRun, OnlyDecidedSignalled
  <2>6. AttackedAreGone'
    BY <1>2, <2>1 DEF AttackedAreGone
  <2> QED
    BY <1>1, <2>3, <2>4, <2>5, <2>6 DEF IInv
<1>5. CASE ListaYDecide
  <2>1. /\ snap' = snap /\ pc = "lista" /\ managed' = {c \in Container : Vivo(c)}
        /\ decisions' \in Decide(MetricsDe(managed'))
        /\ \/ decisions' = <<>> /\ pc' = "pide" /\ idx' = 0 /\ pend' = {}
           \/ decisions' # <<>> /\ pc' = "mata" /\ idx' = 1 /\ pend' = PIDs(decisions'[1])
    BY <1>5 DEF ListaYDecide, ListManaged
  <2>2. /\ Decidido' /\ (Termino' <=> decisions' = <<>>)
        /\ \A c : PIDs(c)' = PIDs(c)
    BY <2>1 DEF Decidido, Termino, PIDs
  <2>3. decisions' \in Decide(Metrics')
    BY <2>1 DEF Metrics, MetricsDe
  <2>4. decisions' \in Seq(Container) /\ Len(decisions') \in Nat
    BY <2>1, DecideType, LenProperties DEF TypeOK
  <2>5. decisions' # <<>> => 1 \in 1..Len(decisions')
    BY <2>4, EmptySeq
  <2>6. SnapOK' /\ MainSeen'
    BY <1>1, <2>1, <2>2 DEF IInv, SnapOK, MainSeen, Vivo
  <2>7. LoopOK'
    BY <2>1, <2>2, <2>3, <2>5 DEF LoopOK
  <2>8. SparedRun' /\ OnlyDecidedSignalled'
    BY <1>1, <1>2, <2>1 DEF SparedRun, OnlyDecidedSignalled, Vivo
  <2>9. AttackedAreGone'
    <3>1. DOMAIN decisions' = 1..Len(decisions')
      BY <2>4, LenProperties
    <3>2. decisions' = <<>> => DOMAIN decisions' = {}
      BY <1>2
    <3> QED
      BY <2>1, <2>4, <3>1, <3>2 DEF AttackedAreGone
  <2> QED
    BY <1>1, <2>6, <2>7, <2>8, <2>9 DEF IInv
<1> QED
  BY <1>3, <1>4, <1>5

(* ExecuteKills.                                                           *)
LEMMA MataStep ==
  ASSUME TypeOK, TypeOK', IInv, SigTerm \/ Comprueba \/ SigKill
  PROVE  IInv'
<1>1. /\ snap' = snap /\ managed' = managed /\ decisions' = decisions
      /\ Decidido /\ ~Termino /\ Decidido'
  BY DEF SigTerm, Comprueba, SigKill, Decidido, Termino, Avanza
<1>2. PICK c \in Container : c = decisions[idx] /\ c \in ToSet(decisions)
  <2>1. idx \in 1..Len(decisions)
    BY <1>1 DEF IInv, LoopOK
  <2> QED
    BY <2>1, DecididosListados DEF IInv
<1>3. /\ Metrics' = Metrics /\ (\A d : PIDs(d)' = PIDs(d)) /\ managed \subseteq Container
      /\ decisions \in Decide(Metrics) /\ idx \in 1..Len(decisions) /\ pend \subseteq PIDs(c)
  BY <1>1, <1>2 DEF Metrics, MetricsDe, PIDs, IInv, LoopOK, TypeOK
<1>4. ASSUME HostOK', Mengua, caidos' = caidos, avisados' \subseteq avisados \cup {c},
             \A d \in Container \ {c} : Vivo(d) => Vivo(d)'
      PROVE  FotoOK' /\ SparedRun' /\ OnlyDecidedSignalled'
  <2>1. FotoOK'
    <3>1. pc' \notin {"dormido", "correlaciona"}
      BY <1>1 DEF Decidido
    <3> QED
      BY <1>1, <1>4, <3>1, FotoMengua DEF IInv, FotoOK
  <2>2. SparedRun'
    BY <1>1, <1>2, <1>3, <1>4 DEF IInv, SparedRun
  <2>3. OnlyDecidedSignalled'
    BY <1>1, <1>2, <1>4 DEF IInv, OnlyDecidedSignalled
  <2> QED
    BY <2>1, <2>2, <2>3
<1>5. CASE SigTerm
  <2>1. PICK p \in pend, mortal \in BOOLEAN :
          /\ Senal(p, mortal)
          /\ IF pend = {p} THEN pc' = "comprueba" /\ pend' = PIDs(decisions[idx])
                           ELSE pc' = pc /\ pend' = pend \ {p}
    BY <1>5 DEF SigTerm
  <2>2. /\ HostOK' /\ Mengua /\ caidos' = caidos /\ avisados' \subseteq avisados \cup {c}
        /\ \A d \in Container \ {c} : Vivo(d) => Vivo(d)'
    <3>1. FotoOK /\ p \in PIDs(c)
      BY <1>3 DEF IInv, FotoOK
    <3> QED
      BY <2>1, <3>1, SenalHost
  <2>3. idx' = idx /\ pc = "mata" /\ pc' \in {"mata", "comprueba"} /\ pend' \subseteq PIDs(c)
        /\ (pc' = "comprueba" => pend' = PIDs(c))
    BY <1>2, <1>3, <1>5, <2>1 DEF SigTerm
  <2>4. LoopOK'
    BY <1>1, <1>2, <1>3, <2>3 DEF LoopOK
  <2>5. AttackedAreGone'
    <3>1. \A k \in DOMAIN decisions : decisions[k] \in Container
      BY DecididosListados DEF IInv
    <3>2. Nadie \notin Container /\ ~(pc' \in {"pide", "espera", "lanza"})
      BY <2>3, DaemonAssumption
    <3> QED
      BY <1>1, <2>2, <2>3, <3>1, <3>2 DEF IInv, AttackedAreGone, Mengua, Vivo
  <2> QED
    BY <1>4, <2>2, <2>4, <2>5 DEF IInv, FotoOK
<1>6. CASE Comprueba
  <2>1. PICK p \in pend :
          IF duenno[p] = Nadie THEN Avanza(pend \ {p}) /\ UNCHANGED blanco
          ELSE pc' = "remata" /\ blanco' = p /\ pend' = pend \ {p} /\ UNCHANGED idx
    BY <1>6 DEF Comprueba
  <2>2. /\ duenno' = duenno /\ principal' = principal /\ caidos' = caidos /\ avisados' = avisados
        /\ pc = "comprueba"
    BY <1>6 DEF Comprueba, host, historia
  <2>3. HostOK' /\ Mengua /\ \A d \in Container : Vivo(d) => Vivo(d)'
    BY <2>2 DEF IInv, HostOK, Mengua, Vivo
  <2>4. FotoOK' /\ SparedRun' /\ OnlyDecidedSignalled'
    BY <1>4, <2>2, <2>3
  <2>5. \A q \in PIDs(c) \ pend : duenno[q] = Nadie
    BY <1>2, <2>2 DEF IInv, LoopOK
  <2>6. LoopOK' /\ AttackedAreGone'
    <3>1. CASE duenno[p] = Nadie
      <4>1. pend \ {p} \in SUBSET PIDs(decisions[idx]) /\ Avanza(pend \ {p})
            /\ \A q \in PIDs(decisions[idx]) \ (pend \ {p}) : duenno'[q] = Nadie
        BY <1>2, <1>3, <2>1, <2>2, <2>5, <3>1
      <4> QED
        BY <1>1, <2>2, <2>3, <2>4, <4>1, AvanzaLoop DEF IInv
    <3>2. CASE duenno[p] # Nadie
      <4>1. pc' = "remata" /\ blanco' = p /\ pend' = pend \ {p} /\ idx' = idx
        BY <2>1, <3>2
      <4>2. LoopOK'
        BY <1>1, <1>2, <1>3, <2>2, <2>5, <4>1 DEF LoopOK
      <4>3. AttackedAreGone'
        BY <1>1, <2>2, <4>1 DEF IInv, AttackedAreGone, Vivo
      <4> QED
        BY <4>2, <4>3
    <3> QED
      BY <3>1, <3>2
  <2> QED
    BY <2>4, <2>6 DEF IInv, FotoOK
<1>7. CASE SigKill
  <2>1. Senal(blanco, TRUE) /\ Avanza(pend) /\ pc = "remata"
    BY <1>7 DEF SigKill
  <2>2. blanco \in PIDs(c) /\ \A q \in PIDs(c) \ (pend \cup {blanco}) : duenno[q] = Nadie
    BY <1>2, <2>1 DEF IInv, LoopOK
  <2>3. /\ HostOK' /\ Mengua /\ caidos' = caidos /\ avisados' \subseteq avisados \cup {c}
        /\ \A d \in Container \ {c} : Vivo(d) => Vivo(d)'
        /\ duenno'[blanco] = Nadie
    <3>1. FotoOK
      BY DEF IInv, FotoOK
    <3> QED
      BY <2>1, <2>2, <3>1, SenalHost
  <2>4. FotoOK' /\ SparedRun' /\ OnlyDecidedSignalled'
    BY <1>4, <2>3
  <2>5. \A q \in PIDs(c) \ pend : duenno'[q] = Nadie
    <3>1. PIDs(c) \subseteq Pid
      BY DEF PIDs, TypeOK
    <3> QED
      BY <2>2, <2>3, <3>1 DEF Mengua
  <2>6. LoopOK' /\ AttackedAreGone'
    <3>1. pend \in SUBSET PIDs(decisions[idx]) /\ \A q \in PIDs(decisions[idx]) \ pend : duenno'[q] = Nadie
      BY <1>2, <1>3, <2>5
    <3> QED
      BY <1>1, <2>1, <2>3, <2>4, <3>1, AvanzaLoop DEF IInv
  <2> QED
    BY <2>4, <2>6 DEF IInv, FotoOK
<1> QED
  BY <1>5, <1>6, <1>7

(* Confirming, recording, launching and finishing, and the probe's reader. *)
LEMMA RestoStep ==
  ASSUME PidReuse = FALSE, TypeOK, TypeOK', IInv,
         \/ CicloFallido \/ PideConfirmacion \/ Confirma \/ Registra
         \/ Lanza \/ LanzaFalla \/ FinCiclo \/ Probe \/ UNCHANGED vars
  PROVE  IInv'
<1>1. CASE CicloFallido \/ FinCiclo
  <2>1. Fin /\ UNCHANGED host
    BY <1>1 DEF CicloFallido, FinCiclo
  <2> QED
    BY <2>1, CicloFin
<1>2. CASE PideConfirmacion
  <2>1. Termino /\ Termino'
    BY <1>2 DEF PideConfirmacion, Termino
  <2> QED
    BY <1>2, <2>1, CicloQuieto DEF PideConfirmacion, ciclo
<1>3. CASE Registra
  <2>1. Termino /\ Termino'
    BY <1>3 DEF Registra, RecordEliminaciones, Termino
  <2> QED
    BY <1>3, <2>1, CicloQuieto DEF Registra, RecordEliminaciones
<1>4. CASE Confirma \/ Probe \/ UNCHANGED vars
  BY <1>4, CicloQuieto DEF Confirma, Probe, vars, ciclo
<1>5. CASE LanzaFalla
  BY <1>5, CicloQuieto DEF LanzaFalla
<1>6. CASE Lanza
  <2>1. PICK c \in Nuevos, p \in Usables : Arranca(c, p)
    BY <1>6 DEF Lanza
  <2>2. Usables = Libres \ DOMAIN snap /\ HostOK
    BY DEF Usables, IInv
  <2>3. HostOK' /\ Crece
    BY <2>1, <2>2, ArrancaHost
  <2> QED
    BY <1>6, <2>3, CicloCrece DEF Lanza, historia, Anotado
<1> QED
  BY <1>1, <1>2, <1>3, <1>4, <1>5, <1>6

(* every step keeps it,                                                    *)
LEMMA IInvStep ==
  ASSUME PidReuse = FALSE, TypeOK, TypeOK', IInv, [Next]_vars
  PROVE  IInv'
BY EntornoStep, FotoStep, MataStep, RestoStep DEF Next, runCycle

(* When no PID seen by the daemon is given out again, the loops of         *)
(* ExecuteKills always do what they decided: IInv is an invariant, and so  *)
(* are its parts OnlyDecidedSignalled and AttackedAreGone (executor.go     *)
(* 40-73).                                                                 *)
THEOREM CycleSafe == ASSUME PidReuse = FALSE PROVE Spec => []IInv
<1>1. Init => TypeOK /\ IInv
  BY TypeInit, IInvInit
<1>2. TypeOK /\ IInv /\ [Next]_vars => (TypeOK /\ IInv)'
  BY TypeStep, IInvStep
<1> QED
  BY <1>1, <1>2, PTL DEF Spec

(* Whatever starts, forks or ends meanwhile, a signal of the daemon only   *)
(* reaches containers the cycle decided to eliminate (executor.go 31-34).  *)
THEOREM SignalsAreDecided == ASSUME PidReuse = FALSE PROVE Spec => []OnlyDecidedSignalled
<1>1. IInv => OnlyDecidedSignalled
  BY DEF IInv
<1> QED
  BY <1>1, CycleSafe, PTL

(* And an attacked container is gone, with every process it had or forked, *)
(* before the next one is attacked (executor.go 34-39).                    *)
THEOREM AttackedDie == ASSUME PidReuse = FALSE PROVE Spec => []AttackedAreGone
<1>1. IInv => AttackedAreGone
  BY DEF IInv
<1> QED
  BY <1>1, CycleSafe, PTL

(* and it says that the minimum is kept.                                   *)
LEMMA MinimumFromIInv == ASSUME TypeOK, IInv PROVE MinimumKept
<1> SUFFICES ASSUME NEW cubo \in {Alto, {"bajo"}} PROVE
      LET quedan == Cardinality({c \in Vistos(cubo) : Vivo(c) \/ c \in caidos})
      IN quedan >= Minimo(cubo) \/ quedan = Cardinality(Vistos(cubo))
  BY DEF MinimumKept
<1> DEFINE V == Vistos(cubo)
           Q == {c \in V : Vivo(c) \/ c \in caidos}
           S == V \ ToSet(decisions)
<1>1. managed \subseteq Container /\ DOMAIN snap \subseteq Pid
  BY DEF TypeOK
<1>2. DOMAIN Metrics \subseteq managed /\ IsFiniteSet(DOMAIN Metrics) /\ V \subseteq DOMAIN Metrics
  <2>1. DOMAIN MetricsDe(managed) = {c \in managed : c # SinContenedor /\ PIDs(c) # {}}
    BY <1>1, MetricsFacts
  <2>2. IsFiniteSet(DOMAIN MetricsDe(managed))
    BY <1>1, MetricsFacts
  <2> QED
    BY <2>1, <2>2 DEF Metrics, Vistos, Grupo
<1>3. CASE ~Decidido
  <2>1. V = {}
    BY <1>2, <1>3 DEF IInv, LoopOK
  <2>2. Q = V
    BY <2>1
  <2> QED
    BY <2>2
<1>4. CASE Decidido
  <2>1. decisions \in Decide(Metrics)
    BY <1>4 DEF IInv, LoopOK
  <2>2. Cardinality(S) = IF Cardinality(V) > Minimo(cubo) THEN Minimo(cubo) ELSE Cardinality(V)
    <3>1. CASE cubo = Alto
      BY <1>2, <2>1, <3>1, DecideSparesMinimum DEF Vistos, Minimo
    <3>2. CASE cubo = {"bajo"}
      <4>1. Alto # {"bajo"}
        BY DEF Alto
      <4> QED
        BY <1>2, <2>1, <3>2, <4>1, DecideSparesMinimum DEF Vistos, Minimo
    <3> QED
      BY <3>1, <3>2
  <2>3. S \subseteq Q /\ Q \subseteq V /\ IsFiniteSet(V) /\ IsFiniteSet(Q)
    <3>1. S \subseteq Q /\ Q \subseteq V
      BY <1>2, <1>4 DEF IInv, SparedRun
    <3> QED
      BY <1>2, <3>1, FS_Subset
  <2> HIDE DEF V, Q, S
  <2>4. Cardinality(S) <= Cardinality(Q) /\ Cardinality(Q) <= Cardinality(V)
    BY <2>3, FS_Subset
  <2>5. Cardinality(V) \in Nat /\ Cardinality(Q) \in Nat /\ Minimo(cubo) \in Nat
    BY <2>3, FS_CardinalityType, MinimosAssumption DEF Minimo
  <2>6. Cardinality(Q) >= Minimo(cubo) \/ Cardinality(Q) = Cardinality(V)
    BY <2>2, <2>4, <2>5
  <2> QED
    BY <2>6 DEF Q, V
<1> QED
  BY <1>3, <1>4

(* The daemon never takes a bucket below its minimum by its own hand, with *)
(* any number of containers and whatever happens to them while it kills    *)
(* (manager.go pruneExcess).                                               *)
THEOREM MinimumAlwaysKept == ASSUME PidReuse = FALSE PROVE Spec => []MinimumKept
<1>1. TypeOK /\ IInv => MinimumKept
  BY MinimumFromIInv
<1> QED
  BY <1>1, TypeCorrect, CycleSafe, PTL
=============================================================================
