------------------------------ MODULE Daemon -------------------------------
(***************************************************************************)
(* The cycle of the Proyecto 2 daemon (main.go runCycle, executor.go)      *)
(* interleaved, step by step, with the host it acts on: containers that    *)
(* cron starts, that fork, that end by themselves, and a PID space that    *)
(* may be reused.  The daemon decides on a snapshot that is already stale  *)
(* when it is correlated, and sends signals to PIDs, not to containers.    *)
(* It uses the decisions of Manager and the eBPF confirmations of Sonda.   *)
(*                                                                         *)
(* A container is its main process (PID 1 of its PID namespace) and the    *)
(* processes that share the namespace: the kernel kills them all when the  *)
(* main one ends.  Every process weighs 1 KB of RSS, so the ranking of     *)
(* pruneExcess is by number of processes, with ties in any order.          *)
(***************************************************************************)
EXTENDS Manager, Sonda

CONSTANTS Container,      \* container ids; one is reused only when no variable holds it
          Perfil,         \* [Container -> Perfiles], the label of each
          Ajeno,          \* owner of a process that is in no managed container
          Nadie,          \* no process
          PidReuse,       \* may a PID of the daemon's snapshot be given out again?
          MaxProcesos,    \* bound: processes of a container
          MaxAjenos,      \* bound: foreign processes
          ReservaPid,     \* bound: PIDs the environment leaves to docker run
          MaxAdversidad   \* bound: exits by themselves and failed calls, in all

ASSUME DaemonAssumption ==
  /\ Perfil \in [Container -> Perfiles]
  /\ Container \cap {Ajeno, Nadie, SinContenedor} = {}
  /\ Nadie \notin Pid /\ Nadie # Ajeno
  /\ IsFiniteSet(Container)
  /\ PidReuse \in BOOLEAN /\ MaxAdversidad \in Nat

VARIABLES duenno,       \* owner of each PID: a container, Ajeno or Nadie (free)
          principal,    \* main PID of each container, Nadie when it is not running
          pc,           \* where runCycle is
          snap,         \* PID -> ContainerID of the processes read this cycle
          managed,      \* ids listed by docker ps
          decisions,    \* containers to eliminate, in order
          idx,          \* the one ExecuteKills is at
          pend,         \* its PIDs the current loop has not reached
          blanco,       \* the PID found alive, about to get SIGKILL
          launches,     \* LaunchActions ExecuteLaunches has still to carry out
          nombres,      \* perfiles whose <perfil>-daemon-<second> name is taken
          eliminados,   \* containers counted by this cycle's RecordEliminaciones
          caidos,       \* history: listed this cycle, ended before any signal of the daemon
          avisados,     \* history: owners of the processes signalled in this cycle
          adversidad    \* adverse events so far

host == <<duenno, principal>>
ciclo == <<snap, managed, decisions, idx, pend, blanco, launches, eliminados>>
historia == <<caidos, avisados>>
vars == <<sondaVars, host, pc, ciclo, nombres, historia, adversidad>>

Fases == {"dormido", "correlaciona", "lista", "mata", "comprueba", "remata",
          "pide", "espera", "lanza"}

TypeOK ==
  /\ SondaTypeOK
  /\ duenno \in [Pid -> Container \cup {Ajeno, Nadie}]
  /\ principal \in [Container -> Pid \cup {Nadie}]
  /\ pc \in Fases
  /\ DOMAIN snap \subseteq Pid
  /\ \A p \in DOMAIN snap : snap[p] \in Container \cup {SinContenedor}
  /\ managed \subseteq Container
  /\ decisions \in Seq(Container) /\ idx \in 0..Len(decisions)
  /\ pend \subseteq Pid /\ blanco \in Pid \cup {Nadie} /\ (pc = "remata" => blanco \in Pid)
  /\ launches \in Seq([perfil : Perfiles, cantidad : Nat \ {0}]) /\ nombres \subseteq Perfiles
  /\ eliminados \subseteq Container
  /\ caidos \subseteq Container /\ avisados \subseteq Container \cup {Ajeno}
  /\ adversidad \in 0..MaxAdversidad

----------------------------------------------------------------------------
(* What the daemon derives from its snapshot.                              *)
MetricsDe(listados) ==
  aggregate({[pid |-> p, cid |-> snap[p], rss |-> 1, vsz |-> 0, cpu |-> 0] : p \in DOMAIN snap},
            [c \in listados |-> Perfil[c]])
Metrics == MetricsDe(managed)
PIDsSinFiltro(c) == {p \in DOMAIN snap : snap[p] \in {c, SinContenedor}}    \* mutant
PIDs(c) == {p \in DOMAIN snap : snap[p] = c}

----------------------------------------------------------------------------
(* The host.                                                               *)
Vivo(c) == principal[c] # Nadie
Libres == {p \in Pid : duenno[p] = Nadie}
Usables == IF PidReuse THEN Libres ELSE Libres \ DOMAIN snap
(* Ids are never reused, so one may stand for a new container only when    *)
(* the daemon holds no trace of the old one.                               *)
Nuevos == {c \in Container : ~Vivo(c) /\ c \notin managed /\ PIDs(c) = {}}
Holgura == Cardinality(Usables) > ReservaPid

(* The processes that end with p: all its container when p is the main one *)
Arrastra(p) == {p} \cup {q \in Pid : duenno[q] \in Container /\ principal[duenno[q]] = p}
Termina(p) ==
  /\ duenno' = [q \in Pid |-> IF q \in Arrastra(p) THEN Nadie ELSE duenno[q]]
  /\ principal' = [c \in Container |-> IF principal[c] = p THEN Nadie ELSE principal[c]]

Arranca(c, p) == /\ duenno' = [duenno EXCEPT ![p] = c]
                 /\ principal' = [principal EXCEPT ![c] = p]

Adverso == adversidad < MaxAdversidad /\ adversidad' = adversidad + 1

(* cron runs deploy_contenedores.sh: a random perfil, or the intruso.      *)
CronDespliega == /\ Holgura
                 /\ \E c \in Nuevos, p \in Usables : Arranca(c, p)
                 /\ UNCHANGED <<sondaVars, pc, ciclo, nombres, historia, adversidad>>

(* alto-cpu forks bc and sleep all the time; children end by themselves.   *)
Hijo == /\ Holgura
        /\ \E c \in Container, p \in Usables :
             /\ Vivo(c) /\ Cardinality({q \in Pid : duenno[q] = c}) < MaxProcesos
             /\ duenno' = [duenno EXCEPT ![p] = c]
        /\ UNCHANGED <<sondaVars, principal, pc, ciclo, nombres, historia, adversidad>>
HijoSale == /\ \E p \in Pid : /\ duenno[p] \in Container /\ principal[duenno[p]] # p
                              /\ Termina(p)
            /\ UNCHANGED <<sondaVars, pc, ciclo, nombres, historia, adversidad>>

(* A container ends by itself (bajo is `sleep 240`).                       *)
Cae == /\ Adverso
       /\ \E c \in Container : /\ Vivo(c) /\ Termina(principal[c])
                               /\ caidos' = caidos \cup ({c} \cap (managed \ avisados))
       /\ UNCHANGED <<sondaVars, pc, ciclo, nombres, avisados>>

AjenoNace == /\ Holgura /\ Cardinality({q \in Pid : duenno[q] = Ajeno}) < MaxAjenos
             /\ \E p \in Usables : duenno' = [duenno EXCEPT ![p] = Ajeno]
             /\ UNCHANGED <<sondaVars, principal, pc, ciclo, nombres, historia, adversidad>>
AjenoSale == /\ \E p \in Pid : duenno[p] = Ajeno /\ Termina(p)
             /\ UNCHANGED <<sondaVars, pc, ciclo, nombres, historia, adversidad>>

(* The next second: container names stamped with it are free.              *)
Segundo == /\ nombres # {} /\ nombres' = {}
           /\ UNCHANGED <<sondaVars, host, pc, ciclo, historia, adversidad>>

Entorno == \/ CronDespliega \/ Hijo \/ HijoSale \/ Cae \/ AjenoNace \/ AjenoSale \/ Segundo

----------------------------------------------------------------------------
(* The cycle.  Its locals are forgotten when runCycle returns.             *)
Fin == /\ pc' = "dormido" /\ snap' = <<>> /\ managed' = {} /\ decisions' = <<>>
       /\ idx' = 0 /\ pend' = {} /\ blanco' = Nadie /\ launches' = <<>>
       /\ eliminados' = {} /\ caidos' = {} /\ avisados' = {}

(* The processes continfo_show lists: every one there is.                  *)
Procesos == Pid \ Libres
(* parser.ReadSnapshot: one line per process, no ContainerID yet.  ASSUMED *)
(* of the texts: no command has a newline that makes parser.go miss a      *)
(* process or take a line of it for one (Snapshot shows what happens).     *)
ReadSnapshot ==
  /\ pc = "dormido" /\ pc' = "correlaciona"
  /\ snap' = [p \in Procesos |-> SinContenedor]
  /\ UNCHANGED <<sondaVars, host, managed, decisions, idx, pend, blanco, launches,
                 eliminados, nombres, historia, adversidad>>
(* ReadSnapshot or ListManaged returns an error and so does the cycle.     *)
CicloFallido == /\ pc \in {"dormido", "lista"} /\ Adverso /\ Fin
                /\ UNCHANGED <<sondaVars, host, nombres>>

(* correlator.Attach: /proc/<pid>/cgroup is read later than the snapshot.  *)
Attach ==
  /\ pc = "correlaciona" /\ pc' = "lista"
  /\ snap' = [p \in DOMAIN snap |->
                IF duenno[p] \in Container THEN duenno[p] ELSE SinContenedor]
  /\ UNCHANGED <<sondaVars, host, managed, decisions, idx, pend, blanco, launches,
                 eliminados, nombres, historia, adversidad>>

(* What `docker ps` answers, and manager.Decide on it.                     *)
ListManaged == {c \in Container : Vivo(c)}
ListaYDecide ==
  /\ pc = "lista"
  /\ managed' = ListManaged
  /\ decisions' \in Decide(MetricsDe(managed'))
  /\ IF decisions' = <<>> THEN pc' = "pide" /\ idx' = 0 /\ pend' = {}
                          ELSE pc' = "mata" /\ idx' = 1 /\ pend' = PIDs(decisions'[1])
  /\ UNCHANGED <<sondaVars, host, snap, blanco, launches, eliminados, nombres,
                 historia, adversidad>>

(* syscall.Kill by the daemon; a signal to a free PID only leaves its      *)
(* event.  SIGTERM may be ignored (by a namespace init without a handler,  *)
(* always); SIGKILL may not.                                               *)
Senal(p, mortal) ==
  /\ EnterKill(p)
  /\ avisados' = avisados \cup ({duenno[p]} \ {Nadie})
  /\ IF mortal /\ duenno[p] # Nadie THEN Termina(p) ELSE UNCHANGED host
  /\ UNCHANGED caidos

(* The SIGTERM loop of ExecuteKills; errors are ignored.  After the last   *)
(* PID comes the grace period, in which only the host moves.               *)
SigTerm ==
  /\ pc = "mata"
  /\ \E p \in pend, mortal \in BOOLEAN :
       /\ Senal(p, mortal)
       /\ IF pend = {p} THEN pc' = "comprueba" /\ pend' = PIDs(decisions[idx])
                        ELSE pc' = pc /\ pend' = pend \ {p}
  /\ UNCHANGED <<snap, managed, decisions, idx, blanco, launches, eliminados, nombres, adversidad>>

(* To the next PID, to the next decision, or out of ExecuteKills.          *)
Avanza(resto) ==
  IF resto # {} THEN pc' = "comprueba" /\ pend' = resto /\ idx' = idx
  ELSE IF idx < Len(decisions)
       THEN pc' = "mata" /\ idx' = idx + 1 /\ pend' = PIDs(decisions[idx + 1])
       ELSE pc' = "pide" /\ pend' = {} /\ idx' = idx

(* processAlive: kill(pid, 0), an event for the probe like any other.      *)
Comprueba ==
  /\ pc = "comprueba"
  /\ \E p \in pend :
       /\ EnterKill(p)
       /\ IF duenno[p] = Nadie THEN Avanza(pend \ {p}) /\ UNCHANGED blanco
          ELSE pc' = "remata" /\ blanco' = p /\ pend' = pend \ {p} /\ UNCHANGED idx
  /\ UNCHANGED <<host, snap, managed, decisions, launches, eliminados, nombres,
                 historia, adversidad>>
(* The mutant of SigKill signals with something a process may ignore.      *)
SigKillFalla ==
  /\ pc = "remata" /\ Senal(blanco, FALSE)
  /\ blanco' = Nadie /\ Avanza(pend)
  /\ UNCHANGED <<snap, managed, decisions, launches, eliminados, nombres, adversidad>>
SigKill ==
  /\ pc = "remata" /\ Senal(blanco, TRUE)
  /\ blanco' = Nadie /\ Avanza(pend)
  /\ UNCHANGED <<snap, managed, decisions, launches, eliminados, nombres, adversidad>>

(* WaitConfirmations of every attacked PID.                                *)
PideConfirmacion ==
  /\ pc = "pide" /\ pc' = "espera"
  /\ WaitConfirmations(UNION {PIDs(c) : c \in ToSet(decisions)})
  /\ UNCHANGED <<host, ciclo, nombres, historia, adversidad>>
Confirma == /\ pc = "espera" /\ (Recibe \/ Deadline \/ CanalCerrado)
            /\ UNCHANGED <<host, pc, ciclo, nombres, historia, adversidad>>

(* The counter and its stream are written together, or not at all; for     *)
(* zero there is nothing to write.                                         *)
RecordEliminaciones(cs) == \/ eliminados' = cs /\ UNCHANGED adversidad
                           \/ cs # {} /\ eliminados' = {} /\ Adverso
(* confirmedDecisions, and then DecideLaunches on the SAME snapshot, taken *)
(* before the kills.                                                       *)
Confirmadas == {c \in ToSet(decisions) : PIDs(c) \cap confirmados # {}}
Registra ==
  /\ pc = "espera" /\ pc' = "lanza" /\ Toma
  /\ RecordEliminaciones(Confirmadas)
  /\ launches' = DecideLaunches(Metrics)
  /\ UNCHANGED <<host, snap, managed, decisions, idx, pend, blanco, nombres, historia>>

(* ExecuteLaunches: docker run with a name made of the perfil and the      *)
(* second; a taken name, like any docker error, is only reported.          *)
PerfilActual == Head(launches).perfil
Resta == IF Head(launches).cantidad = 1 THEN Tail(launches)
         ELSE [launches EXCEPT ![1].cantidad = @ - 1]
Lanza ==
  /\ pc = "lanza" /\ launches # <<>>
  /\ PerfilActual \notin nombres
  /\ \E c \in Nuevos, p \in Usables : Perfil[c] = PerfilActual /\ Arranca(c, p)
  /\ nombres' = nombres \cup {PerfilActual} /\ launches' = Resta
  /\ UNCHANGED <<sondaVars, pc, snap, managed, decisions, idx, pend, blanco, eliminados,
                 historia, adversidad>>
(* The second and third disjuncts are docker run in a full finite model.   *)
LanzaFalla ==
  /\ pc = "lanza" /\ launches # <<>>
  /\ \/ PerfilActual \in nombres /\ UNCHANGED adversidad
     \/ Usables = {} /\ UNCHANGED adversidad
     \/ ~(\E c \in Nuevos : Perfil[c] = PerfilActual) /\ UNCHANGED adversidad
     \/ Adverso
  /\ launches' = Resta
  /\ UNCHANGED <<sondaVars, host, pc, snap, managed, decisions, idx, pend, blanco, eliminados,
                 nombres, historia>>
FinCiclo == /\ pc = "lanza" /\ launches = <<>> /\ Fin
            /\ UNCHANGED <<sondaVars, host, nombres, adversidad>>

runCycle == \/ ReadSnapshot \/ CicloFallido \/ Attach \/ ListaYDecide \/ SigTerm
            \/ Comprueba \/ SigKill \/ PideConfirmacion \/ Confirma \/ Registra
            \/ Lanza \/ LanzaFalla \/ FinCiclo
Probe == /\ ReadLoop \/ ReadFails
         /\ UNCHANGED <<host, pc, ciclo, nombres, historia, adversidad>>

Init == /\ SondaInit
        /\ duenno = [p \in Pid |-> Nadie] /\ principal = [c \in Container |-> Nadie]
        /\ pc = "dormido" /\ snap = <<>> /\ managed = {} /\ decisions = <<>>
        /\ idx = 0 /\ pend = {} /\ blanco = Nadie /\ launches = <<>>
        /\ nombres = {} /\ eliminados = {} /\ caidos = {} /\ avisados = {}
        /\ adversidad = 0
Next == Entorno \/ runCycle \/ Probe
Spec == Init /\ [][Next]_vars
(* The daemon is never stopped here and the clock does not stand still;    *)
(* nothing obliges cron, the containers or the probe to move.              *)
FairSpec == Spec /\ WF_vars(runCycle) /\ WF_vars(Segundo)

----------------------------------------------------------------------------
(* Properties.                                                             *)

Minimo(cubo) == IF cubo = Alto THEN MinAlto ELSE MinBajo
Vistos(cubo) == Grupo(Metrics, cubo)

(* The daemon never takes a bucket below its minimum by its own hand: of   *)
(* the containers it saw, those still running or fallen by themselves are  *)
(* never fewer than the minimum (or than all, if it saw fewer), whatever   *)
(* starts, forks or ends while it kills (manager.go pruneExcess).          *)
MinimumKept ==
  \A cubo \in {Alto, {"bajo"}} :
    LET quedan == Cardinality({c \in Vistos(cubo) : Vivo(c) \/ c \in caidos})
    IN quedan >= Minimo(cubo) \/ quedan = Cardinality(Vistos(cubo))

(* A signal of the daemon only reaches processes of the containers that    *)
(* this cycle decided to eliminate: not a spared one, not one started      *)
(* since, not a process of the host (executor.go 31-34).                   *)
OnlyDecidedSignalled == avisados \subseteq ToSet(decisions)

(* When ExecuteKills is done with a decision, nothing of that container    *)
(* runs any more, neither the main process that ignores SIGTERM nor a      *)
(* child forked after the snapshot (executor.go 34-39).                    *)
AttackedAreGone ==
  \A k \in DOMAIN decisions :
    k < idx \/ pc \in {"pide", "espera", "lanza"} =>
      ~Vivo(decisions[k]) /\ \A p \in Pid : duenno[p] # decisions[k]

(* "que a la sonda eBPF confirme cuales realmente murieron" (main.go 121): *)
(* a container is counted as eliminated only if the daemon signalled it    *)
(* while it ran.                                                           *)
CountedWereKilled == eliminados \subseteq avisados

(* ExecuteLaunches creates "los contenedores necesarios para cubrir los    *)
(* faltantes" (executor.go 82): a cycle with no adverse event ends with    *)
(* every bucket at its minimum or above.                                   *)
LaunchesCoverShortage ==
  pc = "lanza" /\ launches = <<>> /\ adversidad = 0 =>
    \A cubo \in {Alto, {"bajo"}} :
      Cardinality({c \in Container : Vivo(c) /\ Perfil[c] \in cubo}) >= Minimo(cubo)

(* An intruso is always eliminated, whatever cron, forks and failed cycles *)
(* do meanwhile (manager.go 119).                                          *)
IntrusoFalls == \A c \in Container : Perfil[c] = "intruso" /\ Vivo(c) ~> ~Vivo(c)

(* Once adverse events stop, both buckets reach their minimum and the      *)
(* daemon never takes them below it again (manager.go 13-14: "siempre      *)
(* deben existir"), in spite of stale snapshots and taken names.           *)
MinimumRestored ==
  \A cubo \in {Alto, {"bajo"}} :
    <>[](Cardinality({c \in Container : Vivo(c) /\ Perfil[c] \in cubo}) >= Minimo(cubo))

----------------------------------------------------------------------------
(* The inductive strengthening of the safety properties, when no PID of    *)
(* the snapshot is reused.                                                 *)
Decidido == pc \in {"mata", "comprueba", "remata", "pide", "espera", "lanza"}
Termino == pc \in {"pide", "espera", "lanza"}

(* A container runs exactly while it has a main process, which is its own. *)
HostOK == /\ \A c \in Container : Vivo(c) => duenno[principal[c]] = c
          /\ \A p \in Pid : duenno[p] \in Container => Vivo(duenno[p])
(* A correlated PID is still of that container, or free.                   *)
SnapOK == /\ \A p \in DOMAIN snap : snap[p] \in Container => duenno[p] \in {snap[p], Nadie}
          /\ pc \in {"dormido", "correlaciona"} => \A p \in DOMAIN snap : snap[p] = SinContenedor
(* The snapshot that has a process of a running container has its main one.*)
MainSeen == /\ pc = "correlaciona" => \A p \in DOMAIN snap :
                 duenno[p] \in Container => principal[duenno[p]] \in DOMAIN snap
            /\ \A c \in Container : Vivo(c) /\ PIDs(c) # {} => principal[c] \in PIDs(c)
(* Where the loops of ExecuteKills are.                                    *)
LoopOK ==
  /\ ~Decidido => managed = {} /\ decisions = <<>> /\ avisados = {} /\ idx = 0
  /\ Decidido => decisions \in Decide(Metrics)
  /\ Decidido /\ ~Termino => idx \in 1..Len(decisions) /\ pend \subseteq PIDs(decisions[idx])
  /\ pc = "comprueba" => \A p \in PIDs(decisions[idx]) \ pend : duenno[p] = Nadie
  /\ pc = "remata" => /\ blanco \in PIDs(decisions[idx])
                      /\ \A p \in PIDs(decisions[idx]) \ (pend \cup {blanco}) : duenno[p] = Nadie
(* A listed container that was spared runs, or fell by itself.             *)
SparedRun == Decidido => \A c \in managed \ ToSet(decisions) : Vivo(c) \/ c \in caidos

IInv == /\ HostOK /\ SnapOK /\ MainSeen /\ LoopOK /\ SparedRun
        /\ OnlyDecidedSignalled /\ AttackedAreGone
=============================================================================
