----------------------------- MODULE Consumer ------------------------------
(***************************************************************************)
(* go-consumer of Proyecto 3: workers that share one AMQP delivery channel *)
(* and, for each report, run a non-transactional Valkey pipeline, now and  *)
(* then recompute the mode, and only then acknowledge the delivery.        *)
(*                                                                         *)
(* The broker and Valkey are external: a queue whose messages are ready or *)
(* unacknowledged, and a server that runs one command at a time.  Ready    *)
(* messages and buffered deliveries are sets: four workers and requeueing  *)
(* leave no order to rely on.  ToUpper, JSON and the 24 h expirations are  *)
(* abstracted; the behaviour lies within one minute of tsmin:*; db.ts is   *)
(* how many entries XADD has put in its stream, the trim left out.  The    *)
(* figures are integers of either sign: no hop looks at it.                *)
(*                                                                         *)
(* ASSUMED of Valkey, not modelled: it keeps its keys.  Its manifest lets  *)
(* it evict any of them (maxmemory 128mb, allkeys-lru) and lose its last   *)
(* second when its pod dies (appendonly, by default synced every second),  *)
(* and what is lost so is lost for reports already acknowledged.           *)
(***************************************************************************)
EXTENDS Integers, FiniteSets, SequencesExt

CONSTANTS Reporte,      \* the reports that go-server may publish
          Malformado,   \* those whose body does not decode as a report
          Pais, pais,   \* countries; [Reporte -> Pais], the upper-case country
          Asignado,     \* "ESP"
          valor,        \* [Reporte -> [Magnitud -> Int]], planes and ships
          Worker,       \* the 4 goroutines
          Prefetch,     \* 200, ch.Qos
          Nulo,         \* a missing key or report
          MaxFallos     \* bound: crashes, lost connections and Valkey errors

Magnitud == {"planes", "ships"}

ASSUME ConsumerAssumption ==
  /\ Malformado \subseteq Reporte /\ IsFiniteSet(Reporte) /\ Nulo \notin Reporte \cup Int
  /\ IsFiniteSet(Pais) /\ pais \in [Reporte -> Pais]
  /\ valor \in [Reporte -> [Magnitud -> Int]]
  /\ Prefetch \in Nat \ {0} /\ MaxFallos \in Nat

VARIABLES nuevos,       \* reports not published yet
          listos,       \* ready in the queue war_reports
          sinAck,       \* delivered on the current AMQP channel, unacknowledged
          asentados,    \* acknowledged
          descartados,  \* rejected without requeue
          perdidos,     \* transient messages gone with a broker restart
          conectado,    \* the AMQP connection of the process is open
          corre,        \* the process is running
          bandeja,      \* deliveries in msgs that no worker has taken
          hilo,         \* what each worker is doing
          db,           \* the Valkey keys
          hechas,       \* history: how many times process returned nil for each report
          fallos        \* adverse events so far

broker == <<nuevos, listos, sinAck, asentados, descartados, perdidos>>
vars == <<broker, conectado, corre, bandeja, hilo, db, hechas, fallos>>

----------------------------------------------------------------------------
(* The pipeline of process, in the order of the code.                      *)
Op(nombre, m) == [op |-> nombre, mag |-> m]
(* CadaCopia is the mutant: the second line pasted without its change.     *)
CadaCopia(nombre) == <<Op(nombre, "planes"), Op(nombre, "planes")>>
Cada(nombre) == <<Op(nombre, "planes"), Op(nombre, "ships")>>
Operaciones(r) ==
  <<Op("incr", Nulo)>> \o Cada("zincrby") \o Cada("hincrby") \o Cada("freq")
  \o <<Op("max", "planes"), Op("min", "planes"), Op("max", "ships"), Op("min", "ships")>>
  \o IF pais[r] = Asignado THEN <<Op("xadd", Nulo)>> \o Cada("hset") ELSE <<>>

Valores == {valor[r][m] : r \in Reporte, m \in Magnitud}
VacioDB == [count |-> [c \in Pais |-> 0],
            zset  |-> [m \in Magnitud |-> [c \in Pais |-> 0]],
            top   |-> [m \in Magnitud |-> [c \in Pais |-> 0]],
            freq  |-> [m \in Magnitud |-> [v \in Valores |-> 0]],
            max   |-> [m \in Magnitud |-> Nulo], min |-> [m \in Magnitud |-> Nulo],
            ts    |-> 0, tsmin |-> [m \in Magnitud |-> Nulo],
            mode  |-> [m \in Magnitud |-> Nulo]]

(* What Valkey does with one command; the Lua scripts are atomic.          *)
(* MaxSinGuarda is the mutant that drops the comparison of maxScript.      *)
MaxSinGuarda(cur, v) == v
maxScript(cur, v) == IF cur = Nulo \/ v > cur THEN v ELSE cur
minScript(cur, v) == IF cur = Nulo \/ v < cur THEN v ELSE cur
Aplica(d, o, r) ==
  LET c == pais[r] m == o.mag v == valor[r][m]
  IN CASE o.op = "incr"    -> [d EXCEPT !.count[c] = @ + 1]
       [] o.op = "zincrby" -> [d EXCEPT !.zset[m][c] = @ + v]
       [] o.op = "hincrby" -> [d EXCEPT !.top[m][c] = @ + v]
       [] o.op = "freq"    -> [d EXCEPT !.freq[m][v] = @ + 1]
       [] o.op = "max"     -> [d EXCEPT !.max[m] = maxScript(@, v)]
       [] o.op = "min"     -> [d EXCEPT !.min[m] = minScript(@, v)]
       [] o.op = "xadd"    -> [d EXCEPT !.ts = @ + 1]
       [] o.op = "hset"    -> [d EXCEPT !.tsmin[m] = v]

(* The values HGETALL may give as the most frequent: the map's order       *)
(* breaks the ties.                                                        *)
Modas(frec) == {v \in Valores : frec[v] > 0 /\ \A u \in Valores : frec[u] <= frec[v]}

----------------------------------------------------------------------------
(* A worker: its report, where it is in process, the commands or keys that *)
(* remain, whether a reply was an error, and the mode it has computed.     *)
Ocioso == [rep |-> Nulo, fase |-> "ocioso", resto |-> <<>>, malo |-> FALSE, mejor |-> Nulo]
Empieza(r) == [Ocioso EXCEPT !.rep = r, !.fase = "exec", !.resto = Operaciones(r)]
Pasa(w, h) == hilo' = [hilo EXCEPT ![w] = h]

(* What an answer does at the broker: nothing once the channel is gone.    *)
Responde(r, destino) == destino \cup ({r} \cap sinAck)
Devuelve(r) == /\ listos' = Responde(r, listos) /\ sinAck' = sinAck \ {r}
               /\ UNCHANGED <<nuevos, asentados, descartados, perdidos>>
Descarta(r) == /\ descartados' = Responde(r, descartados) /\ sinAck' = sinAck \ {r}
               /\ UNCHANGED <<nuevos, listos, asentados, perdidos>>
Asienta(r) == /\ asentados' = Responde(r, asentados) /\ sinAck' = sinAck \ {r}
              /\ UNCHANGED <<nuevos, listos, descartados, perdidos>>

Adverso == fallos < MaxFallos /\ fallos' = fallos + 1

(* for d := range msgs; a body that does not decode is rejected at once.   *)
(* The mutant leaves the delivery in the channel.                          *)
TomaSinQuitar(w) ==
  /\ corre /\ hilo[w].fase = "ocioso"
  /\ \E r \in bandeja :
       IF r \in Malformado THEN Descarta(r) /\ UNCHANGED hilo
                           ELSE Pasa(w, Empieza(r)) /\ UNCHANGED broker
  /\ UNCHANGED <<conectado, corre, bandeja, db, hechas, fallos>>
Toma(w) ==
  /\ corre /\ hilo[w].fase = "ocioso"
  /\ \E r \in bandeja :
       /\ bandeja' = bandeja \ {r}
       /\ IF r \in Malformado THEN Descarta(r) /\ UNCHANGED hilo
                              ELSE Pasa(w, Empieza(r)) /\ UNCHANGED broker
  /\ UNCHANGED <<conectado, corre, db, hechas, fallos>>

(* Valkey runs the next command of the worker's pipeline.                  *)
Comando(w) ==
  /\ hilo[w].fase = "exec" /\ hilo[w].resto # <<>>
  /\ db' = Aplica(db, Head(hilo[w].resto), hilo[w].rep)
  /\ Pasa(w, [hilo[w] EXCEPT !.resto = Tail(@)])
  /\ UNCHANGED <<broker, conectado, corre, bandeja, hechas, fallos>>
(* It answers that command with an error and goes on with the others.      *)
ComandoRechazado(w) ==
  /\ hilo[w].fase = "exec" /\ hilo[w].resto # <<>> /\ Adverso
  /\ Pasa(w, [hilo[w] EXCEPT !.resto = Tail(@), !.malo = TRUE])
  /\ UNCHANGED <<broker, conectado, corre, bandeja, db, hechas>>
(* The connection to Valkey breaks in the middle: go-redis sends the whole *)
(* pipeline again, or Exec fails and the delivery is requeued.             *)
ExecFalla(w) ==
  /\ hilo[w].fase = "exec" /\ Adverso
  /\ \/ Pasa(w, Empieza(hilo[w].rep)) /\ UNCHANGED broker
     \/ Pasa(w, Ocioso) /\ Devuelve(hilo[w].rep)
  /\ UNCHANGED <<conectado, corre, bandeja, db, hechas>>
(* Exec returns the first error among the replies.  In 1 of 200 successes  *)
(* the modes are recomputed.  The mutants take an error for a success, and *)
(* leave the failed delivery unanswered.                                   *)
Sigue(w) == \/ Pasa(w, [hilo[w] EXCEPT !.fase = "ack"])
            \/ Pasa(w, [hilo[w] EXCEPT !.fase = "moda", !.resto = <<"planes", "ships">>])
Exito(w) == /\ Sigue(w) /\ hechas' = [hechas EXCEPT ![hilo[w].rep] = @ + 1]
            /\ UNCHANGED broker
Fallo(w) == Pasa(w, Ocioso) /\ Devuelve(hilo[w].rep) /\ UNCHANGED hechas
ExecVuelveIgnora(w) ==
  /\ hilo[w].fase = "exec" /\ hilo[w].resto = <<>>
  /\ IF hilo[w].malo THEN Sigue(w) /\ UNCHANGED <<broker, hechas>> ELSE Exito(w)
  /\ UNCHANGED <<conectado, corre, bandeja, db, fallos>>
ExecVuelveCalla(w) ==
  /\ hilo[w].fase = "exec" /\ hilo[w].resto = <<>>
  /\ IF hilo[w].malo THEN Pasa(w, Ocioso) /\ UNCHANGED <<broker, hechas>> ELSE Exito(w)
  /\ UNCHANGED <<conectado, corre, bandeja, db, fallos>>
ExecVuelve(w) ==
  /\ hilo[w].fase = "exec" /\ hilo[w].resto = <<>>
  /\ IF hilo[w].malo THEN Fallo(w) ELSE Exito(w)
  /\ UNCHANGED <<conectado, corre, bandeja, db, fallos>>

(* The loop over the two magnitudes: HGETALL, then SET of what was read.   *)
Siguiente(h) == [h EXCEPT !.resto = Tail(@), !.mejor = Nulo,
                          !.fase = IF Len(h.resto) = 1 THEN "ack" ELSE "moda"]
LeeModa(w) ==
  /\ hilo[w].fase = "moda" /\ hilo[w].mejor = Nulo
  /\ \/ \E v \in Modas(db.freq[Head(hilo[w].resto)]) :
          Pasa(w, [hilo[w] EXCEPT !.mejor = v]) /\ UNCHANGED fallos
     \/ Adverso /\ Pasa(w, Siguiente(hilo[w]))
  /\ UNCHANGED <<broker, conectado, corre, bandeja, db, hechas>>
PoneModa(w) ==
  /\ hilo[w].fase = "moda" /\ hilo[w].mejor # Nulo
  /\ \/ db' = [db EXCEPT !.mode[Head(hilo[w].resto)] = hilo[w].mejor] /\ UNCHANGED fallos
     \/ Adverso /\ UNCHANGED db
  /\ Pasa(w, Siguiente(hilo[w]))
  /\ UNCHANGED <<broker, conectado, corre, bandeja, hechas>>

Ack(w) == /\ hilo[w].fase = "ack" /\ Asienta(hilo[w].rep) /\ Pasa(w, Ocioso)
          /\ UNCHANGED <<conectado, corre, bandeja, db, hechas, fallos>>

(* The closed channel is drained: one worker ends, main returns and the    *)
(* process dies with whatever the other workers were doing.                *)
Apaga == corre' = FALSE /\ conectado' = FALSE /\ bandeja' = {} /\ hilo' = [w \in Worker |-> Ocioso]
Termina(w) == /\ corre /\ ~conectado /\ bandeja = {} /\ hilo[w].fase = "ocioso" /\ Apaga
              /\ UNCHANGED <<broker, db, hechas, fallos>>

worker(w) == \/ Toma(w) \/ Comando(w) \/ ExecVuelve(w) \/ LeeModa(w) \/ PoneModa(w)
             \/ Ack(w) \/ Termina(w)

----------------------------------------------------------------------------
(* The rest of the world.                                                  *)
Publica == /\ \E r \in nuevos : nuevos' = nuevos \ {r} /\ listos' = listos \cup {r}
           /\ UNCHANGED <<sinAck, asentados, descartados, perdidos, conectado, corre,
                          bandeja, hilo, db, hechas, fallos>>
(* The mutant of Entrega forgets the Qos.                                  *)
EntregaSinQos == /\ conectado
                 /\ \E r \in listos : /\ listos' = listos \ {r} /\ sinAck' = sinAck \cup {r}
                                      /\ bandeja' = bandeja \cup {r}
                 /\ UNCHANGED <<nuevos, asentados, descartados, perdidos, conectado, corre,
                                hilo, db, hechas, fallos>>
Entrega == /\ conectado /\ Cardinality(sinAck) < Prefetch
           /\ \E r \in listos : /\ listos' = listos \ {r} /\ sinAck' = sinAck \cup {r}
                                /\ bandeja' = bandeja \cup {r}
           /\ UNCHANGED <<nuevos, asentados, descartados, perdidos, conectado, corre,
                          hilo, db, hechas, fallos>>
(* The channel is gone: the broker requeues what was not acknowledged.     *)
Reencola == /\ listos' = listos \cup sinAck /\ sinAck' = {}
            /\ UNCHANGED <<nuevos, asentados, descartados, perdidos>>
CaeConexion == /\ conectado /\ Adverso /\ conectado' = FALSE /\ Reencola
               /\ UNCHANGED <<corre, bandeja, hilo, db, hechas>>
(* The library closes msgs and drops what is still buffered in it.         *)
CierraCanal == /\ corre /\ ~conectado /\ bandeja # {} /\ bandeja' = {}
               /\ UNCHANGED <<broker, conectado, corre, hilo, db, hechas, fallos>>
(* The process is killed; Kubernetes starts it again.                      *)
Muere == /\ corre /\ Adverso /\ Apaga /\ Reencola /\ UNCHANGED <<db, hechas>>
Arranca == /\ ~corre /\ corre' = TRUE /\ conectado' = TRUE
           /\ UNCHANGED <<broker, bandeja, hilo, db, hechas, fallos>>
(* The broker pod has no volume and go-server publishes transient          *)
(* messages: nothing in the queue survives it.                             *)
ReiniciaBroker == /\ Adverso /\ perdidos' = perdidos \cup listos \cup sinAck
                  /\ listos' = {} /\ sinAck' = {} /\ conectado' = FALSE
                  /\ UNCHANGED <<nuevos, asentados, descartados, corre, bandeja, hilo, db, hechas>>

Init == /\ nuevos = Reporte /\ listos = {} /\ sinAck = {}
        /\ asentados = {} /\ descartados = {} /\ perdidos = {}
        /\ conectado = FALSE /\ corre = FALSE /\ bandeja = {}
        /\ hilo = [w \in Worker |-> Ocioso] /\ db = VacioDB
        /\ hechas = [r \in Reporte |-> 0] /\ fallos = 0
Next == \/ Publica \/ Entrega \/ CaeConexion \/ CierraCanal \/ Muere \/ Arranca \/ ReiniciaBroker
        \/ \E w \in Worker : worker(w) \/ ComandoRechazado(w) \/ ExecFalla(w)
Spec == Init /\ [][Next]_vars
(* Goroutines run, the broker delivers, the library closes the channel and *)
(* Kubernetes restarts the pod; nothing has to fail or be published.       *)
FairSpec == /\ Spec /\ WF_vars(Entrega) /\ WF_vars(CierraCanal) /\ WF_vars(Arranca)
            /\ \A w \in Worker : WF_vars(worker(w))

----------------------------------------------------------------------------
(* Properties.                                                             *)
TypeOK ==
  /\ \A S \in {nuevos, listos, sinAck, asentados, descartados, perdidos, bandeja} : S \subseteq Reporte
  /\ conectado \in BOOLEAN /\ corre \in BOOLEAN /\ fallos \in 0..MaxFallos
  /\ hechas \in [Reporte -> Nat] /\ DOMAIN hilo = Worker
  /\ \A w \in Worker : /\ hilo[w].fase \in {"ocioso", "exec", "moda", "ack"}
                       /\ hilo[w].rep \in IF hilo[w].fase = "ocioso" THEN {Nulo} ELSE Reporte
                       /\ hilo[w].malo => hilo[w].fase = "exec"
                       /\ hilo[w].fase = "moda" => hilo[w].resto # <<>>

Quietos == \A w \in Worker : hilo[w].fase = "ocioso"
De(S, c) == {r \in S : pais[r] = c}
Total(S, m) == MapThenSumSet(LAMBDA r : valor[r][m], S)
Veces(S, m, v) == Cardinality({r \in S : valor[r][m] = v})

(* Every report is in one place, and the broker keeps it until somebody    *)
(* has answered for it: while the channel is open, an unacknowledged       *)
(* report is either waiting in the process or in the hands of exactly one  *)
(* worker, only undecodable ones are dropped, and the prefetch limits how  *)
(* many there are (main.go 138, 150-162).                                  *)
EnMano == {hilo[w].rep : w \in Worker} \ {Nulo}
Custody ==
  /\ Cardinality(nuevos) + Cardinality(listos) + Cardinality(sinAck) + Cardinality(asentados)
     + Cardinality(descartados) + Cardinality(perdidos) = Cardinality(Reporte)
  /\ UNION {nuevos, listos, sinAck, asentados, descartados, perdidos} = Reporte
  /\ conectado => sinAck = bandeja \cup EnMano /\ bandeja \cap EnMano = {}
  /\ \A w, x \in Worker : hilo[w].rep = hilo[x].rep => w = x \/ hilo[w].rep = Nulo
  /\ Cardinality(sinAck) <= Prefetch
  /\ descartados \subseteq Malformado

(* Nothing is acknowledged before it is counted: the counters and the      *)
(* frequencies include every acknowledged report, after any crash of the   *)
(* consumer, lost connection, partial pipeline or rejected command, and so *)
(* do the two sums of a country if none of its figures is negative: one    *)
(* that is, counted again, takes them below (main.go 19-20, 156-162).      *)
SinNegativos(c, m) == \A r \in De(Reporte, c) : valor[r][m] >= 0
AckedAreCounted ==
  \A c \in Pais :
    /\ db.count[c] >= Cardinality(De(asentados, c))
    /\ \A m \in Magnitud :
         /\ SinNegativos(c, m) => /\ db.zset[m][c] >= Total(De(asentados, c), m)
                                  /\ db.top[m][c] >= Total(De(asentados, c), m)
         /\ \A v \in Valores : db.freq[m][v] >= Veces(asentados, m, v)

(* Repetition is bounded: one adverse event makes the consumer count again *)
(* at most the deliveries that were unacknowledged when it happened, over  *)
(* all the countries together (main.go 138, 150-162).                      *)
Sobra(c) == LET n == Cardinality(De(Reporte \ (nuevos \cup Malformado), c))
            IN IF db.count[c] > n THEN db.count[c] - n ELSE 0
OvercountBounded == MapThenSumSet(Sobra, Pais) <= Prefetch * fallos

(* Without adverse events the aggregates built by concurrent, interleaved  *)
(* pipelines are, whenever no worker is busy, exactly those of the         *)
(* acknowledged reports (main.go process, lines 49-71).                    *)
ExactWithoutFailures ==
  Quietos /\ fallos = 0 =>
    /\ \A c \in Pais :
         /\ db.count[c] = Cardinality(De(asentados, c))
         /\ \A m \in Magnitud : /\ db.zset[m][c] = Total(De(asentados, c), m)
                                /\ db.top[m][c] = Total(De(asentados, c), m)
    /\ \A m \in Magnitud, v \in Valores : db.freq[m][v] = Veces(asentados, m, v)
    /\ db.ts = Cardinality(De(asentados, Asignado))

(* The global extremes are exact once everything is settled, whatever was  *)
(* repeated, reordered or left half done: the two scripts are idempotent   *)
(* and commute (main.go 27-35).                                            *)
Extremo(x, S, Mejor(_, _)) == IF S = {} THEN x = Nulo ELSE x \in S /\ \A v \in S : ~Mejor(v, x)
ExtremesExact ==
  Quietos /\ listos \cup sinAck \cup perdidos = {} =>
    \A m \in Magnitud : LET S == {valor[r][m] : r \in asentados}
                        IN Extremo(db.max[m], S, >) /\ Extremo(db.min[m], S, <)

(* Every published report is eventually answered for, or lost by the       *)
(* broker: failed pipelines are retried, a lost connection ends the        *)
(* process and another one takes over.                                     *)
Drains == \A r \in Reporte : r \in listos ~> r \in asentados \cup descartados \cup perdidos

(* Consumer implements the ledger of Entrega: no interleaving, crash, lost *)
(* connection or rejected command settles a report that was not completely *)
(* counted, counts one again after it was settled, or drops a good one     *)
(* (main.go 145-168).                                                      *)
EstadoDe(r) == CASE r \in nuevos -> "fuera"
                 [] r \in listos \cup sinAck -> "cola"
                 [] r \in asentados -> "asentado"
                 [] r \in descartados -> "descartado"
                 [] OTHER -> "perdido"
Libro == INSTANCE Entrega WITH estado <- [r \in Reporte |-> EstadoDe(r)], veces <- hechas
ImplementaEntrega == Libro!Spec
=============================================================================
