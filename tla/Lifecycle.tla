----------------------------- MODULE Lifecycle ------------------------------
(***************************************************************************)
(* The life of the daemon process of Proyecto 2 (main.go): its start, step *)
(* by step, the loop that alternates cycles and signals, and the orderly   *)
(* stop, over several executions that may be killed or fail anywhere.      *)
(*                                                                         *)
(* What outlives an execution is the crontab, the kernel module and the    *)
(* containers of docker compose (Valkey).  The crontab is edited by        *)
(* "crontab -l | grep -v | crontab -", which reads it and writes it back   *)
(* later; the user edits it too.  A cycle is opaque here (see Daemon).     *)
(***************************************************************************)
EXTENDS Naturals

CONSTANTS Linea,          \* the lines of other tasks in the crontab
          MaxArranques,   \* bound: executions of the daemon
          MaxFallos,      \* bound: failed calls and kills
          MaxEdiciones    \* bound: the user's edits and module loads and unloads

ASSUME LifecycleAssumption == MaxArranques \in Nat /\ MaxFallos \in Nat /\ MaxEdiciones \in Nat

VARIABLES fase,        \* where main is, "fuera" when there is no process
          crontab,     \* [propias: lines of the daemon, ajenas: the others]
          leido,       \* what crontab -l gave, already filtered
          modulo,      \* the kernel module is loaded
          valkey,      \* the Valkey container is running
          tick,        \* ticker.C holds a tick
          sigCh,       \* sigCh holds a signal
          arranques, fallos, ediciones,
          pedido,      \* history: somebody asked this execution to stop
          final,       \* history: how the last execution ended
          guardadas,   \* history: the other lines, as the user last left them
          pisada,      \* history: since that edit, a read of the crontab was stale
                       \*   (it was within the window) or failed
          descargado   \* history: the module was unloaded since it was checked

host == <<crontab, modulo, valkey>>
canales == <<tick, sigCh>>
cuentas == <<arranques, fallos, ediciones>>
historia == <<pedido, final, guardadas, pisada, descargado>>
vars == <<fase, leido, host, canales, cuentas, historia>>

Inicio == {"grafana", "mira", "make", "remira", "instala", "escribe", "ping", "sonda", "notify"}
EnMarcha == {"ciclo", "espera", "retira", "borra"}
Ventana == {"escribe", "borra"}
Vacio == [propias |-> 0, ajenas |-> {}]

Adverso == fallos < MaxFallos /\ fallos' = fallos + 1 /\ UNCHANGED <<arranques, ediciones>>
SinFallo == UNCHANGED cuentas
Ve(a, b) == fase = a /\ fase' = b
(* The process ends; what was in its channels and variables goes with it.  *)
Acaba(como) == /\ fase' = "fuera" /\ final' = como /\ pedido' = FALSE
               /\ leido' = Vacio /\ tick' = FALSE /\ sigCh' = FALSE
               /\ UNCHANGED <<guardadas, pisada, descargado>>

----------------------------------------------------------------------------
(* Start, main.go 28-63.                                                   *)
Arranca == /\ Ve("fuera", "grafana") /\ arranques < MaxArranques
           /\ arranques' = arranques + 1
           /\ UNCHANGED <<leido, host, canales, fallos, ediciones, historia>>
(* docker compose up also brings Valkey; a failure is only logged.         *)
startGrafana == /\ Ve("grafana", "mira")
                /\ \/ valkey' = TRUE /\ SinFallo
                   \/ Adverso /\ UNCHANGED valkey
                /\ UNCHANGED <<leido, crontab, modulo, canales, historia>>
(* loadKernelModule: moduleLoaded, make load, moduleLoaded again.          *)
moduleLoaded == /\ fase = "mira"
                /\ fase' = IF modulo THEN "instala" ELSE "make"
                /\ descargado' = FALSE
                /\ UNCHANGED <<leido, host, canales, cuentas, pedido, final, guardadas, pisada>>
(* insmod of a module that is already there fails.                         *)
makeLoad == /\ fase = "make"
            /\ \/ ~modulo /\ modulo' = TRUE /\ fase' = "instala" /\ SinFallo
               \/ modulo /\ fase' = "remira" /\ SinFallo /\ UNCHANGED modulo
               \/ Adverso /\ fase' = "remira" /\ UNCHANGED modulo
            /\ UNCHANGED <<leido, crontab, valkey, canales, historia>>
(* The mutant gives every error for a race.                                *)
RemiraTolera == /\ Ve("remira", "instala")
                /\ UNCHANGED <<leido, host, canales, cuentas, historia>>
Remira == /\ fase = "remira" /\ UNCHANGED <<host, cuentas>>
          /\ IF modulo THEN fase' = "instala" /\ UNCHANGED <<leido, canales, historia>>
                       ELSE Acaba("fatal")

(* installCronjob.  crontab -l and grep -vF run first, crontab - later; an *)
(* error is only logged.  A crontab -l that fails prints nothing, its      *)
(* 2>/dev/null hides it and the pipeline goes on, as with an empty         *)
(* crontab.  The mutants of Lee do not filter, and do not read.            *)
LeeSinFiltrar == leido' = crontab
LeeNada == leido' = Vacio
Lee == leido' = [crontab EXCEPT !.propias = 0]
Edita(a, b) == /\ Ve(a, b)
               /\ \/ Lee /\ SinFallo /\ UNCHANGED pisada
                  \/ leido' = Vacio /\ Adverso /\ pisada' = TRUE
               /\ UNCHANGED <<host, canales, pedido, final, guardadas, descargado>>
installCronjob == Edita("instala", "escribe")
Instala == /\ Ve("escribe", "ping")
           /\ \/ crontab' = [leido EXCEPT !.propias = @ + 1] /\ SinFallo
              \/ Adverso /\ UNCHANGED crontab
           /\ leido' = Vacio
           /\ UNCHANGED <<modulo, valkey, canales, historia>>
(* Ping and ebpfprobe.Start end the process with log.Fatalf; nothing       *)
(* undoes installCronjob.                                                  *)
Ping == /\ fase = "ping"
        /\ \/ /\ valkey /\ fase' = "sonda" /\ SinFallo
              /\ UNCHANGED <<leido, canales, historia>>
           \/ ~valkey /\ SinFallo /\ Acaba("fatal")
           \/ Adverso /\ Acaba("fatal")
        /\ UNCHANGED host
ProbeStart == /\ fase = "sonda"
              /\ \/ fase' = "notify" /\ SinFallo /\ UNCHANGED <<leido, canales, historia>>
                 \/ Adverso /\ Acaba("fatal")
              /\ UNCHANGED host
Notify == Ve("notify", "ciclo") /\ UNCHANGED <<leido, host, canales, cuentas, historia>>

(* The loop, 65-85.                                                        *)
runCycle == Ve("ciclo", "espera") /\ UNCHANGED <<leido, host, canales, cuentas, historia>>
EligeTick == /\ Ve("espera", "ciclo") /\ tick /\ tick' = FALSE
             /\ UNCHANGED <<leido, host, sigCh, cuentas, historia>>
EligeSenal == /\ Ve("espera", "retira") /\ sigCh /\ sigCh' = FALSE
              /\ UNCHANGED <<leido, host, tick, cuentas, historia>>
(* removeCronjob, whose "|| true" hides that nothing was written.  The     *)
(* mutant forgets it.                                                      *)
removeCronjob == Edita("retira", "borra")
RetiraOlvida == /\ fase = "borra" /\ SinFallo /\ UNCHANGED crontab /\ Acaba("ordenado")
                /\ UNCHANGED <<modulo, valkey>>
Retira == /\ fase = "borra"
          /\ \/ crontab' = leido /\ SinFallo /\ Acaba("ordenado")
             \/ Adverso /\ UNCHANGED crontab /\ Acaba("sinRetirar")
          /\ UNCHANGED <<modulo, valkey>>

daemon == \/ startGrafana \/ moduleLoaded \/ makeLoad \/ Remira \/ installCronjob \/ Instala
          \/ Ping \/ ProbeStart \/ Notify \/ runCycle \/ EligeTick \/ EligeSenal
          \/ removeCronjob \/ Retira

----------------------------------------------------------------------------
(* The outside.  The ticker drops a tick when one is waiting.              *)
Tick == /\ fase \in EnMarcha /\ tick' = TRUE
        /\ UNCHANGED <<fase, leido, host, sigCh, cuentas, historia>>
(* SIGINT or SIGTERM: sigCh keeps one, and before signal.Notify the signal *)
(* kills.  A shell that was editing the crontab goes on without it.  In    *)
(* the mutants sigCh has no buffer, so only the select receives, and       *)
(* Notify comes first.                                                     *)
SueltaShell == crontab' \in {crontab} \cup
                 (CASE fase = "escribe" -> {[leido EXCEPT !.propias = @ + 1]}
                    [] fase = "borra" -> {leido}
                    [] OTHER -> {})
Recibe == /\ pedido' = TRUE /\ UNCHANGED <<fase, leido, host, tick, cuentas,
                                           final, guardadas, pisada, descargado>>
MuerePorSenal == SueltaShell /\ SinFallo /\ Acaba("matado") /\ UNCHANGED <<modulo, valkey>>
SenalSinBuffer == \/ fase \in EnMarcha /\ sigCh' = (sigCh \/ fase = "espera") /\ Recibe
                  \/ fase \in Inicio /\ MuerePorSenal
SenalTemprana == fase # "fuera" /\ sigCh' = TRUE /\ Recibe
Senal == \/ fase \in EnMarcha /\ sigCh' = TRUE /\ Recibe
         \/ fase \in Inicio /\ MuerePorSenal
(* kill -9, a panic, the host goes down.                                   *)
Mata == fase # "fuera" /\ Adverso /\ SueltaShell /\ Acaba("matado") /\ UNCHANGED <<modulo, valkey>>

Edicion == /\ ediciones < MaxEdiciones /\ ediciones' = ediciones + 1
           /\ UNCHANGED <<fase, leido, valkey, canales, arranques, fallos, pedido, final>>
UsuarioEdita == /\ Edicion
                /\ \E S \in SUBSET Linea : crontab' = [crontab EXCEPT !.ajenas = S] /\ guardadas' = S
                /\ pisada' = (fase \in Ventana)
                /\ UNCHANGED <<modulo, descargado>>
UsuarioCarga == /\ Edicion /\ modulo' = ~modulo
                /\ descargado' = (descargado \/ modulo)
                /\ UNCHANGED <<crontab, guardadas, pisada>>
ValkeyCae == /\ valkey /\ Adverso /\ valkey' = FALSE
             /\ UNCHANGED <<fase, leido, crontab, modulo, canales, historia>>

Init == /\ fase = "fuera" /\ leido = Vacio /\ tick = FALSE /\ sigCh = FALSE
        /\ crontab = [propias |-> 0, ajenas |-> Linea] /\ guardadas = Linea
        /\ modulo = FALSE /\ valkey = FALSE
        /\ arranques = 0 /\ fallos = 0 /\ ediciones = 0
        /\ pedido = FALSE /\ final = "nunca" /\ pisada = FALSE /\ descargado = FALSE
Next == Arranca \/ daemon \/ Tick \/ Senal \/ Mata \/ UsuarioEdita \/ UsuarioCarga \/ ValkeyCae
Spec == Init /\ [][Next]_vars
(* main runs, cycles end (Daemon), and a select with two ready cases takes *)
(* each of them again and again, because Go draws one at random.           *)
FairSpec == Spec /\ WF_vars(daemon) /\ SF_vars(EligeSenal)

----------------------------------------------------------------------------
(* Properties.                                                             *)
TypeOK == /\ fase \in {"fuera"} \cup Inicio \cup EnMarcha
          /\ crontab \in [propias : Nat, ajenas : SUBSET Linea]
          /\ leido \in [propias : Nat, ajenas : SUBSET Linea]
          /\ modulo \in BOOLEAN /\ valkey \in BOOLEAN /\ tick \in BOOLEAN /\ sigCh \in BOOLEAN
          /\ pedido \in BOOLEAN /\ pisada \in BOOLEAN /\ descargado \in BOOLEAN
          /\ arranques \in 0..MaxArranques /\ fallos \in 0..MaxFallos
          /\ ediciones \in 0..MaxEdiciones /\ guardadas \subseteq Linea
          /\ final \in {"nunca", "ordenado", "sinRetirar", "fatal", "matado"}
          /\ tick \/ sigCh \/ pedido => fase \in EnMarcha
          /\ leido # Vacio => fase \in Ventana

(* However many executions were killed or failed halfway, the crontab has  *)
(* at most one line of the daemon: six containers a minute, not twelve     *)
(* (main.go installCronjob, 205-211).                                      *)
OneLine == crontab.propias <= 1

(* After an orderly stop nothing goes on deploying containers; a line      *)
(* without a daemon is left by a kill, a failed start or a removal that    *)
(* failed, and by nothing else (main.go 77-84, 213-217).                   *)
NoOrphanLine == fase = "fuera" /\ crontab.propias > 0 => final \in {"fatal", "matado", "sinRetirar"}

(* The tasks of other programs are those the user last left, after every   *)
(* edit of the daemon and every kill, unless that edit fell between a      *)
(* crontab -l of the daemon and its crontab -, or a crontab -l failed      *)
(* since then (main.go 207-209, 214-216).                                  *)
OthersKept == ~pisada => crontab.ajenas = guardadas

(* Past loadKernelModule the module is loaded, whoever loaded it and       *)
(* whenever, unless it was unloaded meanwhile (main.go 180-196).           *)
ModuleIsLoaded ==
  fase \in EnMarcha \cup {"instala", "escribe", "ping", "sonda", "notify"} => modulo \/ descargado

(* An execution that is asked to stop does, also when the signal comes in  *)
(* the middle of a cycle or together with a tick (main.go 61-85).          *)
StopsWhenAsked == pedido ~> fase = "fuera"
=============================================================================
