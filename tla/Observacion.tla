---------------------------- MODULE Observacion ----------------------------
(***************************************************************************)
(* The observing half of the daemon's cycle (runCycle, main.go:92-158):    *)
(* the snapshot of Snapshot is taken, the RAM is saved, docker lists the   *)
(* running containers, the rankings of Store are updated with AllMetrics   *)
(* of Manager and, at the end, the eliminations are recorded.  What is     *)
(* decided and killed in between is the subject of Daemon; here it is some *)
(* number of confirmed containers, and processes that end.                 *)
(***************************************************************************)
EXTENDS Snapshot, Store

CONSTANT MaxCiclos    \* bound: cycles

ASSUME ObservacionAssumption == MaxCiclos \in Nat

VARIABLES ciclos,       \* cycles begun
          managed,      \* the listing of docker ps
          porRankear,   \* containers UpdateRankings has not reached
          medio,        \* the one whose RAM score is written and whose CPU is not
          pico          \* history: highest RSS of each container an update has stored

vars == <<foto, valkey, ciclos, managed, porRankear, medio, pico>>
rankea == <<managed, porRankear, medio, pico>>

Fases == {"reposo", "avanza", "imprime", "indefinido", "parsea", "adjunta", "guarda", "lista",
          "rankea", "elimina"}

TypeOK ==
  /\ nacidas \in 0..N /\ vivas \subseteq 1..nacidas /\ libres \subseteq 1..nacidas \ vivas
  /\ sig \in [0..N -> 0..N] /\ fase \in Fases
  /\ cursor \in IF fase = "adjunta" THEN 1..Len(procs) + 1 ELSE 0..N
  /\ salida \in Seq([tarea : Tarea, rss : Nat])
  /\ procs \in Seq([pid : Int, cid : Contenedores \cup {SinContenedor}, rss : Nat, vsz : Nat,
                    cpu : Int])
  /\ testigos \subseteq vivas /\ managed \subseteq Contenedores
  /\ porRankear \subseteq managed /\ medio \in porRankear \cup {SinContenedor}
  /\ usada \in Nat /\ total \in Nat
  /\ \A m \in DOMAIN rankRAM \cup DOMAIN rankCPU :
       m[1] \in Contenedores /\ m[2] \subseteq {t \in Tarea : duenno[t] = m[1]} /\ m[2] # {}

Init == /\ InitFoto /\ InitStore
        /\ ciclos = 0 /\ managed = {} /\ porRankear = {} /\ medio = SinContenedor
        /\ pico = [c \in Contenedores |-> 0]

(* Processes come and go while somebody looks: what happens to them in the *)
(* other phases is first seen in the next of these.                        *)
Host == /\ fase \in {"reposo", "avanza", "imprime", "adjunta", "lista"} /\ Kernel
        /\ UNCHANGED <<valkey, ciclos, rankea>>

Empieza == Abre /\ ciclos < MaxCiclos /\ ciclos' = ciclos + 1 /\ UNCHANGED <<valkey, rankea>>
Lee == /\ Avanza \/ Imprime \/ ReadSnapshot \/ Attach
       /\ UNCHANGED <<valkey, ciclos, rankea>>
Correla == /\ cursor > Len(procs) /\ Adjuntado("guarda") /\ UNCHANGED <<valkey, ciclos, rankea>>

(* The RAM in use differs from cycle to cycle.  An error is only logged.   *)
Guarda == /\ fase = "guarda" /\ fase' = "lista" /\ SaveRAMSnapshot(UsedKB(ciclos))
          /\ UNCHANGED <<host, cursor, salida, procs, testigos, ciclos, rankea>>

(* runCycle returns: its locals are gone.                                  *)
Fin == /\ fase' = "reposo" /\ cursor' = Raiz /\ salida' = <<>> /\ procs' = <<>> /\ testigos' = {}
       /\ managed' = {} /\ porRankear' = {} /\ medio' = SinContenedor
       /\ UNCHANGED <<host, ciclos, pico>>

(* With the number of each, because two lines may give equal processes.    *)
Metrics(listados) ==
  aggregate({[k |-> k, pid |-> procs[k].pid, cid |-> procs[k].cid, rss |-> procs[k].rss,
              vsz |-> procs[k].vsz, cpu |-> procs[k].cpu] : k \in DOMAIN procs},
            [c \in listados |-> "bajo"])
ListManaged ==
  /\ fase = "lista" /\ fase' = "rankea"
  /\ managed' = {c \in Contenedores : principal(c) \in vivas}
  /\ porRankear' = DOMAIN Metrics(managed')
  /\ UNCHANGED <<host, cursor, salida, procs, testigos, valkey, ciclos, medio, pico>>
ListFalla == fase = "lista" /\ Fin /\ UNCHANGED valkey

(* UpdateRankings: for each container, in the order of a Go map, ZADD to   *)
(* the RAM ranking, then to the CPU one.  The first error ends it, with    *)
(* that ZADD carried out or not.                                           *)
Abandona == Falla /\ porRankear' = {} /\ medio' = SinContenedor
ZAdd(rank, c, score) == ZAddGT(rank, member(c, Metrics(managed)[c]), score)
RankRAM ==
  /\ fase = "rankea" /\ medio = SinContenedor
  /\ \E c \in porRankear :
       /\ rankRAM' = ZAdd(rankRAM, c, Metrics(managed)[c].rss)
       /\ \/ medio' = c /\ UNCHANGED <<porRankear, fallosValkey>>
          \/ Abandona
  /\ UNCHANGED <<foto, usada, streamRAM, total, streamElim, rankCPU, ciclos, managed, pico>>
RankCPU ==
  /\ fase = "rankea" /\ medio # SinContenedor
  /\ LET cm == Metrics(managed)[medio]
     IN /\ rankCPU' = ZAdd(rankCPU, medio, cm.cpu)
        /\ pico' = [pico EXCEPT ![medio] = IF cm.rss > @ THEN cm.rss ELSE @]
  /\ \/ porRankear' = porRankear \ {medio} /\ medio' = SinContenedor /\ UNCHANGED fallosValkey
     \/ Abandona
  /\ UNCHANGED <<foto, usada, streamRAM, total, streamElim, rankRAM, ciclos, managed>>
RankFalla ==
  /\ fase = "rankea" /\ porRankear # {} /\ Abandona
  /\ UNCHANGED <<foto, usada, streamRAM, total, streamElim, rankRAM, rankCPU, ciclos, managed, pico>>
Rankeado == /\ fase = "rankea" /\ porRankear = {} /\ fase' = "elimina"
            /\ UNCHANGED <<host, cursor, salida, procs, testigos, valkey, ciclos, rankea>>

(* numConfirmados is at most the number of containers decided about.       *)
Elimina == /\ fase = "elimina"
           /\ \E k \in 0..Cardinality(DOMAIN Metrics(managed)) : RecordEliminaciones(k)
           /\ Fin

Next == \/ Host \/ Empieza \/ Lee \/ Correla \/ Guarda \/ ListManaged \/ ListFalla
        \/ RankRAM \/ RankCPU \/ RankFalla \/ Rankeado \/ Elimina

Spec == Init /\ [][Next]_vars

----------------------------------------------------------------------------
Suma(s) == LET hasta[i \in 0..Len(s)] == IF i = 0 THEN 0 ELSE hasta[i - 1] + s[i]
           IN hasta[Len(s)]
Ultimo(s) == IF s = <<>> THEN 0 ELSE Last(s)

(* What the dashboard reads at any moment, through failed calls and calls  *)
(* that go-redis repeats: the cards of store.go:78-95 are the last point   *)
(* of the series drawn beside them, and the counter of 97-116 is the sum   *)
(* of its series until Valkey may have trimmed it, and no less afterwards. *)
TotalsAgree == /\ usada = Ultimo(streamRAM)
               /\ total >= Suma(streamElim)
               /\ Len(streamElim) < MaxLen => total = Suma(streamElim)

(* UpdateRankings keeps the historical peak of each container (comment at  *)
(* store.go:118): its processes change and with them its member, it ends,  *)
(* a later cycle sees it lighter, and its best member still scores it.     *)
PeakKept ==
  \A c \in Contenedores :
    pico[c] > 0 => \E m \in DOMAIN rankRAM : m[1] = c /\ rankRAM[m] >= pico[c]
=============================================================================
